----------------------------- MODULE PdmDmaProofs -----------------------------
(***************************************************************************)
(* The invariants of PdmDma, and the proof that it implements Capture.     *)
(*                                                                         *)
(* What a reset and a time-out do is independent of the stream, so most of *)
(* what is needed holds with and without trouble: where the callback is    *)
(* under way the stream is as it was, in sleep it does not run, and buffer *)
(* and registers follow the stream.  Only EngineAt, which relates the      *)
(* engine to the stream, needs a device without trouble.                   *)
(***************************************************************************)
EXTENDS PdmDma, TLAPS

Halted == {"setup", "paused", "suspended"}

\* TypeOK in two parts: truth values and the rest.
Flags ==
  /\ buffer \in BOOLEAN /\ pdm_enable \in BOOLEAN /\ ring \in BOOLEAN
  /\ mask \in BOOLEAN /\ enb \in BOOLEAN

Values ==
  /\ stream \in {"closed", "open", "setup", "running", "paused", "suspended"}
  /\ resumeTo \in {"setup", "running", "paused"}
  /\ goal \in {"closed", "open", "setup", "running", "paused", "suspended"}
  /\ wait \in {"none", "start", "undo", "stop"}
  /\ dma \in {"off", "starting", "on", "stopping"}
  /\ sys \in {"awake", "card", "pdm", "asleep", "up_pci", "up_pdm"}
  /\ rpm \in {"active", "pdm", "pci", "error"}
  /\ trouble \subseteq {"start", "stop", "deinit", "init"}

\* The stream, and the state it goes to, while the trigger callback polls.
TriggerAt ==
  /\ wait = "start" => stream \in Halted /\ goal = "running"
  /\ wait = "undo"  => stream \in Halted /\ goal = stream /\ trouble # {}
  /\ wait = "stop"  => stream \in Halted \cup {"running"} /\ goal \in Halted

\* Once the sound card is suspended no stream runs, nor is one being started.
SleepAt ==
  /\ sys = "card" => \/ wait = "none" /\ stream # "running"
                     \/ wait = "stop" /\ goal = "suspended"
  /\ sys \notin {"awake", "card"} => wait = "none" /\ stream # "running"

\* hw_params allocates, hw_free frees, and an open stream keeps the device active.
StreamAt ==
  /\ buffer <=> stream \notin {"closed", "open"}
  /\ rpm # "active" => stream = "closed"

\* The registers that a reset clears and that nobody but the driver sets: those of
\* the stream, and the interrupt enable, which belongs to the coprocessor.
StreamRegistersAt ==
  /\ buffer /\ sys \notin {"asleep", "up_pci"} => ring
  /\ stream # "closed" /\ sys \in {"awake", "card", "up_pdm"} => mask

EnableAt == trouble = {} /\ ~enb => rpm = "pci" \/ sys = "asleep"

\* The engine, where no start, stop or reset has timed out.
EngineAt ==
  trouble = {} =>
    /\ wait = "none" => /\ dma = IF stream = "running" THEN "on" ELSE "off"
                        /\ pdm_enable <=> stream = "running"
    /\ wait = "start" => dma \in {"starting", "on"} /\ pdm_enable
    /\ wait = "stop"  => dma \in {"stopping", "off"} /\ pdm_enable /\ stream = "running"

\* Core does without the registers, and is inductive by itself; Device does
\* without the one that is not the capture device's own.
Core   == TypeOK /\ TriggerAt /\ SleepAt /\ StreamAt /\ EngineAt
Device == Core /\ StreamRegistersAt
IInv   == Device /\ EnableAt

------------------------------------------------------------------------------
(* A closed stream on an active device satisfies the invariant.              *)
LEMMA InitIInv == Init => IInv
  BY DEF Init, IInv, Device, Core, TypeOK, TriggerAt, SleepAt, StreamAt, StreamRegistersAt,
         EnableAt, EngineAt,
         Halted

(* Every step of the engine, the process, the trigger callback and power     *)
(* management preserves all but the registers: what this part says of stream *)
(* and engine holds in the composition with the PCI driver as well.          *)
LEMMA NextCore == Core /\ [Next]_vars => Core'
<1> SUFFICES ASSUME TypeOK, TriggerAt, SleepAt, StreamAt, EngineAt, [Next]_vars
             PROVE  Core'
  BY DEF Core
<1>1. CASE HwStarts
  <2>1. TypeOK'
    BY <1>1 DEF HwStarts, trigger, pm, TypeOK
  <2>2. TriggerAt' /\ SleepAt' /\ StreamAt'
    BY <1>1 DEF HwStarts, trigger, pm, TriggerAt, SleepAt, StreamAt, Halted
  <2>3. EngineAt'
    BY <1>1 DEF HwStarts, trigger, pm, EngineAt
  <2> QED
    BY <2>1, <2>2, <2>3 DEF Core
<1>2. CASE HwStops
  <2>1. TypeOK'
    BY <1>2 DEF HwStops, trigger, pm, TypeOK
  <2>2. TriggerAt' /\ SleepAt' /\ StreamAt'
    BY <1>2 DEF HwStops, trigger, pm, TriggerAt, SleepAt, StreamAt, Halted
  <2>3. EngineAt'
    BY <1>2 DEF HwStops, trigger, pm, EngineAt
  <2> QED
    BY <2>1, <2>2, <2>3 DEF Core
<1>3. CASE Open
  <2>1. TypeOK'
    BY <1>3 DEF Open, Awake, acp6x_enable_pdm_interrupts, trigger, pm, TypeOK
  <2>2. TriggerAt' /\ SleepAt' /\ StreamAt'
    BY <1>3 DEF Open, Awake, acp6x_enable_pdm_interrupts, trigger, pm,
            TriggerAt, SleepAt, StreamAt, Halted
  <2>3. EngineAt'
    BY <1>3 DEF Open, Awake, acp6x_enable_pdm_interrupts, trigger, pm,
            EngineAt
  <2> QED
    BY <2>1, <2>2, <2>3 DEF Core
<1>4. CASE HwParams
  <2>1. TypeOK'
    BY <1>4 DEF HwParams, Awake, acp6x_config_dma, trigger, pm, TypeOK
  <2>2. TriggerAt' /\ SleepAt' /\ StreamAt'
    BY <1>4 DEF HwParams, Awake, acp6x_config_dma, trigger, pm, TriggerAt,
            SleepAt, StreamAt, Halted
  <2>3. EngineAt'
    BY <1>4 DEF HwParams, Awake, acp6x_config_dma, trigger, pm, EngineAt
  <2> QED
    BY <2>1, <2>2, <2>3 DEF Core
<1>5. CASE Start
  <2>1. TriggerAt' /\ SleepAt' /\ StreamAt'
    BY <1>5 DEF Start, Awake, TriggerOn, pm, acp6x_check_pdm_dma_status,
            Return, acp6x_start_pdm_dma, TriggerAt, SleepAt, StreamAt, Halted
  <2>2. EngineAt'
    BY <1>5 DEF Start, Awake, TriggerOn, pm, acp6x_check_pdm_dma_status,
            Return, acp6x_start_pdm_dma, EngineAt
  <2>3. TypeOK'
    <3>1. Flags'
      BY <1>5, Zenon DEF Start, Awake, TriggerOn, pm,
              acp6x_check_pdm_dma_status, Return, acp6x_start_pdm_dma, TypeOK,
              Flags
    <3>2. Values'
      BY <1>5 DEF Start, Awake, TriggerOn, pm, acp6x_check_pdm_dma_status,
              Return, acp6x_start_pdm_dma, TypeOK, Values
    <3> QED
      BY <3>1, <3>2 DEF TypeOK, Flags, Values
  <2> QED
    BY <2>1, <2>2, <2>3 DEF Core
<1>6. CASE Stop
  <2>1. TriggerAt' /\ SleepAt' /\ StreamAt'
    BY <1>6 DEF Stop, Awake, TriggerOff, pm, acp6x_check_pdm_dma_status,
            acp6x_stop_pdm_dma, Return, TriggerAt, SleepAt, StreamAt, Halted
  <2>2. EngineAt'
    BY <1>6 DEF Stop, Awake, TriggerOff, pm, acp6x_check_pdm_dma_status,
            acp6x_stop_pdm_dma, Return, EngineAt
  <2>3. TypeOK'
    <3>1. Flags'
      BY <1>6, Zenon DEF Stop, Awake, TriggerOff, pm,
              acp6x_check_pdm_dma_status, acp6x_stop_pdm_dma, Return, TypeOK,
              Flags
    <3>2. Values'
      BY <1>6 DEF Stop, Awake, TriggerOff, pm, acp6x_check_pdm_dma_status,
              acp6x_stop_pdm_dma, Return, TypeOK, Values
    <3> QED
      BY <3>1, <3>2 DEF TypeOK, Flags, Values
  <2> QED
    BY <2>1, <2>2, <2>3 DEF Core
<1>7. CASE Drop
  <2>1. TypeOK'
    BY <1>7 DEF Drop, Awake, trigger, regs, pm, TypeOK
  <2>2. TriggerAt' /\ SleepAt' /\ StreamAt'
    BY <1>7 DEF Drop, Awake, trigger, regs, pm, TriggerAt, SleepAt, StreamAt,
            Halted
  <2>3. EngineAt'
    BY <1>7 DEF Drop, Awake, trigger, regs, pm, EngineAt
  <2> QED
    BY <2>1, <2>2, <2>3 DEF Core
<1>8. CASE ResumeStream
  <2>1. TriggerAt' /\ SleepAt'
    BY <1>8 DEF ResumeStream, Awake, TriggerOn, trigger, pm,
            acp6x_check_pdm_dma_status, Return, acp6x_start_pdm_dma,
            TriggerAt, SleepAt, Halted
  <2>2. EngineAt'
    BY <1>8 DEF ResumeStream, Awake, TriggerOn, trigger, pm,
            acp6x_check_pdm_dma_status, Return, acp6x_start_pdm_dma, EngineAt
  <2>3. TypeOK'
    <3>1. Flags'
      BY <1>8, Zenon DEF ResumeStream, Awake, TriggerOn, trigger, pm,
              acp6x_check_pdm_dma_status, Return, acp6x_start_pdm_dma, TypeOK,
              Flags
    <3>2. Values'
      BY <1>8 DEF ResumeStream, Awake, TriggerOn, trigger, pm,
              acp6x_check_pdm_dma_status, Return, acp6x_start_pdm_dma, TypeOK,
              Values
    <3> QED
      BY <3>1, <3>2 DEF TypeOK, Flags, Values
  <2>4. StreamAt'
    BY <1>8 DEF ResumeStream, Awake, TriggerOn, trigger, pm,
            acp6x_check_pdm_dma_status, Return, acp6x_start_pdm_dma, StreamAt,
            TypeOK
  <2> QED
    BY <2>1, <2>2, <2>3, <2>4 DEF Core
<1>9. CASE HwFree
  <2>1. TriggerAt' /\ SleepAt' /\ StreamAt'
    BY <1>9 DEF HwFree, Awake, trigger, regs, pm, TriggerAt, SleepAt,
            StreamAt, Halted
  <2>2. EngineAt'
    BY <1>9 DEF HwFree, Awake, trigger, regs, pm, EngineAt
  <2>3. TypeOK'
    <3>1. Flags'
      BY <1>9, Zenon DEF HwFree, Awake, trigger, regs, pm, TypeOK, Flags
    <3>2. Values'
      BY <1>9 DEF HwFree, Awake, trigger, regs, pm, TypeOK, Values
    <3> QED
      BY <3>1, <3>2 DEF TypeOK, Flags, Values
  <2> QED
    BY <2>1, <2>2, <2>3 DEF Core
<1>10. CASE Close
  <2>1. TriggerAt' /\ SleepAt' /\ StreamAt'
    BY <1>10 DEF Close, Awake, acp6x_disable_pdm_interrupts, trigger, pm,
            TriggerAt, SleepAt, StreamAt, Halted
  <2>2. EngineAt'
    BY <1>10 DEF Close, Awake, acp6x_disable_pdm_interrupts, trigger, pm,
            EngineAt
  <2>3. TypeOK'
    <3>1. Flags'
      BY <1>10, Zenon DEF Close, Awake, acp6x_disable_pdm_interrupts, trigger,
              pm, TypeOK, Flags
    <3>2. Values'
      BY <1>10 DEF Close, Awake, acp6x_disable_pdm_interrupts, trigger, pm,
              TypeOK, Values
    <3> QED
      BY <3>1, <3>2 DEF TypeOK, Flags, Values
  <2> QED
    BY <2>1, <2>2, <2>3 DEF Core
<1>11. CASE StartReturns
  <2>1. TypeOK'
    BY <1>11 DEF StartReturns, Return, regs, pm, TypeOK
  <2>2. TriggerAt' /\ SleepAt'
    BY <1>11 DEF StartReturns, Return, regs, pm, TriggerAt, SleepAt, Halted
  <2>3. StreamAt'
    BY <1>11 DEF StartReturns, Return, regs, pm, StreamAt, TypeOK, TriggerAt,
            Halted
  <2>4. EngineAt'
    BY <1>11 DEF StartReturns, Return, regs, pm, EngineAt, TypeOK, TriggerAt,
            Halted
  <2> QED
    BY <2>1, <2>2, <2>3, <2>4 DEF Core
<1>12. CASE StartTimesOut
  <2>1. TypeOK'
    BY <1>12 DEF StartTimesOut, regs, pm, TypeOK
  <2>2. TriggerAt' /\ SleepAt' /\ StreamAt'
    BY <1>12 DEF StartTimesOut, regs, pm, TriggerAt, SleepAt, StreamAt, Halted
  <2>3. EngineAt'
    BY <1>12 DEF StartTimesOut, regs, pm, EngineAt
  <2> QED
    BY <2>1, <2>2, <2>3 DEF Core
<1>13. CASE UndoStart
  <2>1. TriggerAt' /\ SleepAt'
    BY <1>13 DEF UndoStart, TriggerOff, pm, acp6x_check_pdm_dma_status,
            acp6x_stop_pdm_dma, Return, TriggerAt, SleepAt, Halted
  <2>2. TypeOK'
    <3>1. Flags'
      BY <1>13, Zenon DEF UndoStart, TriggerOff, pm, acp6x_check_pdm_dma_status,
              acp6x_stop_pdm_dma, Return, TypeOK, Flags
    <3>2. Values'
      BY <1>13 DEF UndoStart, TriggerOff, pm, acp6x_check_pdm_dma_status,
              acp6x_stop_pdm_dma, Return, TypeOK, Values
    <3> QED
      BY <3>1, <3>2 DEF TypeOK, Flags, Values
  <2>3. StreamAt'
    BY <1>13 DEF UndoStart, TriggerOff, pm, acp6x_check_pdm_dma_status,
            acp6x_stop_pdm_dma, Return, StreamAt, TypeOK, TriggerAt, Halted
  <2>4. EngineAt'
    BY <1>13 DEF UndoStart, TriggerOff, pm, acp6x_check_pdm_dma_status,
            acp6x_stop_pdm_dma, Return, EngineAt, TypeOK, TriggerAt, Halted
  <2> QED
    BY <2>1, <2>2, <2>3, <2>4 DEF Core
<1>14. CASE StopReturns
  <2>1. TriggerAt' /\ SleepAt'
    BY <1>14 DEF StopReturns, Return, pm, TriggerAt, SleepAt, Halted
  <2>2. TypeOK'
    <3>1. Flags'
      BY <1>14, Zenon DEF StopReturns, Return, pm, TypeOK, Flags
    <3>2. Values'
      BY <1>14 DEF StopReturns, Return, pm, TypeOK, Values
    <3> QED
      BY <3>1, <3>2 DEF TypeOK, Flags, Values
  <2>3. StreamAt'
    BY <1>14 DEF StopReturns, Return, pm, StreamAt, TypeOK, TriggerAt, Halted
  <2>4. EngineAt'
    BY <1>14 DEF StopReturns, Return, pm, EngineAt, TypeOK, TriggerAt, Halted
  <2> QED
    BY <2>1, <2>2, <2>3, <2>4 DEF Core
<1>15. CASE StopTimesOut
  <2>1. TypeOK'
    BY <1>15 DEF StopTimesOut, Return, regs, pm, TypeOK
  <2>2. TriggerAt' /\ SleepAt' /\ EngineAt'
    BY <1>15 DEF StopTimesOut, Return, regs, pm, TriggerAt, SleepAt, EngineAt,
            Halted
  <2>3. StreamAt'
    BY <1>15 DEF StopTimesOut, Return, regs, pm, StreamAt, TypeOK, TriggerAt,
            Halted
  <2> QED
    BY <2>1, <2>2, <2>3 DEF Core
<1>16. CASE RuntimeSuspendPdm
  <2>1. TypeOK'
    BY <1>16 DEF RuntimeSuspendPdm, Awake, acp6x_disable_pdm_interrupts,
            trigger, TypeOK
  <2>2. TriggerAt' /\ SleepAt' /\ StreamAt'
    BY <1>16 DEF RuntimeSuspendPdm, Awake, acp6x_disable_pdm_interrupts,
            trigger, TriggerAt, SleepAt, StreamAt, Halted
  <2>3. EngineAt'
    BY <1>16 DEF RuntimeSuspendPdm, Awake, acp6x_disable_pdm_interrupts,
            trigger, EngineAt
  <2> QED
    BY <2>1, <2>2, <2>3 DEF Core
<1>17. CASE RuntimeResumePdm
  <2>1. TypeOK'
    BY <1>17 DEF RuntimeResumePdm, Awake, acp6x_enable_pdm_interrupts,
            trigger, TypeOK
  <2>2. TriggerAt' /\ SleepAt' /\ StreamAt'
    BY <1>17 DEF RuntimeResumePdm, Awake, acp6x_enable_pdm_interrupts,
            trigger, TriggerAt, SleepAt, StreamAt, Halted
  <2>3. EngineAt'
    BY <1>17 DEF RuntimeResumePdm, Awake, acp6x_enable_pdm_interrupts,
            trigger, EngineAt
  <2> QED
    BY <2>1, <2>2, <2>3 DEF Core
<1>18. CASE RuntimeSuspendPci
  <2>1. TriggerAt' /\ SleepAt' /\ StreamAt'
    BY <1>18 DEF RuntimeSuspendPci, Awake, acp6x_deinit, trigger, Reset, NoReset,
            TriggerAt, SleepAt, StreamAt, Halted
  <2>2. TypeOK'
    <3>1. Flags'
      BY <1>18, Zenon DEF RuntimeSuspendPci, Awake, acp6x_deinit, trigger, Reset, NoReset,
              TypeOK, Flags
    <3>2. Values'
      BY <1>18 DEF RuntimeSuspendPci, Awake, acp6x_deinit, trigger, Reset, NoReset,
              TypeOK, Values
    <3> QED
      BY <3>1, <3>2 DEF TypeOK, Flags, Values
  <2>3. EngineAt'
    BY <1>18 DEF RuntimeSuspendPci, Awake, acp6x_deinit, trigger, Reset, NoReset,
            EngineAt, TypeOK, StreamAt
  <2> QED
    BY <2>1, <2>2, <2>3 DEF Core
<1>19. CASE RuntimeResumePci
  <2>1. TriggerAt' /\ SleepAt' /\ StreamAt'
    BY <1>19 DEF RuntimeResumePci, Awake, acp6x_init, trigger, Reset, NoReset, regs,
            TriggerAt, SleepAt, StreamAt, Halted
  <2>2. TypeOK'
    <3>1. Flags'
      BY <1>19, Zenon DEF RuntimeResumePci, Awake, acp6x_init, trigger, Reset, NoReset,
              regs, TypeOK, Flags
    <3>2. Values'
      BY <1>19 DEF RuntimeResumePci, Awake, acp6x_init, trigger, Reset, NoReset, regs,
              TypeOK, Values
    <3> QED
      BY <3>1, <3>2 DEF TypeOK, Flags, Values
  <2>3. EngineAt'
    BY <1>19 DEF RuntimeResumePci, Awake, acp6x_init, trigger, Reset, NoReset, regs,
            EngineAt, TypeOK, StreamAt
  <2> QED
    BY <2>1, <2>2, <2>3 DEF Core
<1>20. CASE SleepCard
  <2>1. TriggerAt' /\ SleepAt' /\ StreamAt'
    BY <1>20 DEF SleepCard, Awake, TriggerOff, Return, trigger,
            acp6x_check_pdm_dma_status, acp6x_stop_pdm_dma, TriggerAt,
            SleepAt, StreamAt, Halted
  <2>2. EngineAt'
    BY <1>20 DEF SleepCard, Awake, TriggerOff, Return, trigger,
            acp6x_check_pdm_dma_status, acp6x_stop_pdm_dma, EngineAt
  <2>3. TypeOK'
    <3>1. Flags'
      BY <1>20, Zenon DEF SleepCard, Awake, TriggerOff, Return, trigger,
              acp6x_check_pdm_dma_status, acp6x_stop_pdm_dma, TypeOK, Flags
    <3>2. Values'
      BY <1>20 DEF SleepCard, Awake, TriggerOff, Return, trigger,
              acp6x_check_pdm_dma_status, acp6x_stop_pdm_dma, TypeOK, Values
    <3> QED
      BY <3>1, <3>2 DEF TypeOK, Flags, Values
  <2> QED
    BY <2>1, <2>2, <2>3 DEF Core
<1>21. CASE SleepPdm
  <2>1. TriggerAt' /\ SleepAt' /\ StreamAt'
    BY <1>21 DEF SleepPdm, acp6x_disable_pdm_interrupts, trigger, TriggerAt,
            SleepAt, StreamAt, Halted
  <2>2. EngineAt'
    BY <1>21 DEF SleepPdm, acp6x_disable_pdm_interrupts, trigger, EngineAt
  <2>3. TypeOK'
    <3>1. Flags'
      BY <1>21, Zenon DEF SleepPdm, acp6x_disable_pdm_interrupts, trigger,
              TypeOK, Flags
    <3>2. Values'
      BY <1>21 DEF SleepPdm, acp6x_disable_pdm_interrupts, trigger, TypeOK,
              Values
    <3> QED
      BY <3>1, <3>2 DEF TypeOK, Flags, Values
  <2> QED
    BY <2>1, <2>2, <2>3 DEF Core
<1>22. CASE SleepPci
  <2>1. SleepAt' /\ StreamAt'
    BY <1>22 DEF SleepPci, acp6x_deinit, trigger, Reset, NoReset, SleepAt, StreamAt
  <2>2. TypeOK'
    <3>1. Flags'
      BY <1>22, Zenon DEF SleepPci, acp6x_deinit, trigger, Reset, NoReset, TypeOK, Flags
    <3>2. Values'
      <4>1. PICK ok \in BOOLEAN :
              acp6x_deinit(ok) /\ sys' = IF ok THEN "asleep" ELSE "up_pci"
        BY <1>22 DEF SleepPci
      <4>2. trouble' \subseteq {"start", "stop", "deinit", "init"}
        BY <4>1 DEF acp6x_deinit, TypeOK
      <4>3. dma' \in {"off", dma} /\ sys' \in {"asleep", "up_pci"}
        BY <4>1 DEF acp6x_deinit, Reset, NoReset
      <4> QED
        BY <1>22, <4>2, <4>3 DEF SleepPci, trigger, TypeOK, Values
    <3> QED
      BY <3>1, <3>2 DEF TypeOK, Flags, Values
  <2>3. TriggerAt'
    BY <1>22 DEF SleepPci, acp6x_deinit, trigger, Reset, NoReset, TriggerAt, TypeOK,
            SleepAt, Halted
  <2>4. EngineAt'
    BY <1>22 DEF SleepPci, acp6x_deinit, trigger, Reset, NoReset, EngineAt, TypeOK,
            SleepAt
  <2> QED
    BY <2>1, <2>2, <2>3, <2>4 DEF Core
<1>23. CASE WakePci
  <2>1. SleepAt' /\ StreamAt'
    BY <1>23 DEF WakePci, acp6x_init, trigger, Reset, NoReset, regs, SleepAt, StreamAt
  <2>2. TypeOK'
    <3>1. Flags'
      BY <1>23, Zenon DEF WakePci, acp6x_init, trigger, Reset, NoReset, regs, TypeOK,
              Flags
    <3>2. Values'
      <4>1. PICK ok \in BOOLEAN : acp6x_init(ok)
        BY <1>23 DEF WakePci
      <4>2. trouble' \subseteq {"start", "stop", "deinit", "init"}
        BY <4>1 DEF acp6x_init, TypeOK
      <4>3. dma' \in {"off", dma}
        BY <4>1 DEF acp6x_init, Reset, NoReset, regs
      <4> QED
        BY <1>23, <4>2, <4>3 DEF WakePci, trigger, TypeOK, Values
    <3> QED
      BY <3>1, <3>2 DEF TypeOK, Flags, Values
  <2>3. TriggerAt'
    BY <1>23 DEF WakePci, acp6x_init, trigger, Reset, NoReset, regs, TriggerAt, TypeOK,
            SleepAt, Halted
  <2>4. EngineAt'
    BY <1>23 DEF WakePci, acp6x_init, trigger, Reset, NoReset, regs, EngineAt, TypeOK,
            SleepAt
  <2> QED
    BY <2>1, <2>2, <2>3, <2>4 DEF Core
<1>24. CASE WakePdm
  <2>1. TriggerAt' /\ SleepAt' /\ StreamAt'
    BY <1>24 DEF WakePdm, acp6x_config_dma, acp6x_enable_pdm_interrupts,
            trigger, TriggerAt, SleepAt, StreamAt, Halted
  <2>2. EngineAt'
    BY <1>24 DEF WakePdm, acp6x_config_dma, acp6x_enable_pdm_interrupts,
            trigger, EngineAt
  <2>3. TypeOK'
    <3>1. Flags'
      BY <1>24, Zenon DEF WakePdm, acp6x_config_dma, acp6x_enable_pdm_interrupts,
              trigger, TypeOK, Flags
    <3>2. Values'
      BY <1>24 DEF WakePdm, acp6x_config_dma, acp6x_enable_pdm_interrupts,
              trigger, TypeOK, Values
    <3> QED
      BY <3>1, <3>2 DEF TypeOK, Flags, Values
  <2> QED
    BY <2>1, <2>2, <2>3 DEF Core
<1>25. CASE WakeCard
  <2>1. TypeOK'
    BY <1>25 DEF WakeCard, trigger, regs, TypeOK
  <2>2. TriggerAt' /\ SleepAt' /\ StreamAt'
    BY <1>25 DEF WakeCard, trigger, regs, TriggerAt, SleepAt, StreamAt, Halted
  <2>3. EngineAt'
    BY <1>25 DEF WakeCard, trigger, regs, EngineAt
  <2> QED
    BY <2>1, <2>2, <2>3 DEF Core
<1>26. CASE UNCHANGED vars
  BY <1>26 DEF Core, vars, trigger, regs, pm, TypeOK, TriggerAt, SleepAt,
          StreamAt, EngineAt, Halted
<1> QED
  BY <1>1, <1>2, <1>3, <1>4, <1>5, <1>6, <1>7, <1>8, <1>9, <1>10, <1>11,
     <1>12, <1>13, <1>14, <1>15, <1>16, <1>17, <1>18, <1>19, <1>20, <1>21,
     <1>22, <1>23, <1>24, <1>25, <1>26 DEF Next, Process, Poll, Power

(* The registers of a stream are set again before they are needed.           *)
LEMMA NextDevice == Device /\ [Next]_vars => Device'
<1> SUFFICES ASSUME TypeOK, TriggerAt, StreamAt, StreamRegistersAt, [Next]_vars
             PROVE  StreamRegistersAt'
  BY NextCore DEF Device, Core
<1>1. CASE HwStarts
  BY <1>1 DEF HwStarts, trigger, pm, StreamRegistersAt
<1>2. CASE HwStops
  BY <1>2 DEF HwStops, trigger, pm, StreamRegistersAt
<1>3. CASE Open
  BY <1>3 DEF Open, Awake, acp6x_enable_pdm_interrupts, trigger, pm,
         StreamRegistersAt
<1>4. CASE HwParams
  BY <1>4 DEF HwParams, Awake, acp6x_config_dma, trigger, pm, StreamRegistersAt
<1>5. CASE Start
  BY <1>5 DEF Start, Awake, TriggerOn, pm, acp6x_check_pdm_dma_status, Return,
         acp6x_start_pdm_dma, StreamRegistersAt
<1>6. CASE Stop
  BY <1>6 DEF Stop, Awake, TriggerOff, pm, acp6x_check_pdm_dma_status,
         acp6x_stop_pdm_dma, Return, StreamRegistersAt
<1>7. CASE Drop
  BY <1>7 DEF Drop, Awake, trigger, regs, pm, StreamRegistersAt
<1>8. CASE ResumeStream
  BY <1>8 DEF ResumeStream, Awake, TriggerOn, trigger, pm,
         acp6x_check_pdm_dma_status, Return, acp6x_start_pdm_dma, StreamRegistersAt
<1>9. CASE HwFree
  BY <1>9 DEF HwFree, Awake, trigger, regs, pm, StreamRegistersAt
<1>10. CASE Close
  BY <1>10 DEF Close, Awake, acp6x_disable_pdm_interrupts, trigger, pm,
         StreamRegistersAt
<1>11. CASE StartReturns
  BY <1>11 DEF StartReturns, Return, regs, pm, StreamRegistersAt, TriggerAt, Halted
<1>12. CASE StartTimesOut
  BY <1>12 DEF StartTimesOut, regs, pm, StreamRegistersAt
<1>13. CASE UndoStart
  BY <1>13 DEF UndoStart, TriggerOff, pm, acp6x_check_pdm_dma_status,
         acp6x_stop_pdm_dma, Return, StreamRegistersAt, TriggerAt, Halted
<1>14. CASE StopReturns
  BY <1>14 DEF StopReturns, Return, pm, StreamRegistersAt, TriggerAt, Halted
<1>15. CASE StopTimesOut
  BY <1>15 DEF StopTimesOut, Return, regs, pm, StreamRegistersAt, TriggerAt, Halted
<1>16. CASE RuntimeSuspendPdm
  BY <1>16 DEF RuntimeSuspendPdm, Awake, acp6x_disable_pdm_interrupts,
         trigger, StreamRegistersAt
<1>17. CASE RuntimeResumePdm
  BY <1>17 DEF RuntimeResumePdm, Awake, acp6x_enable_pdm_interrupts, trigger,
         StreamRegistersAt
<1>18. CASE RuntimeSuspendPci
  BY <1>18 DEF RuntimeSuspendPci, Awake, acp6x_deinit, trigger, Reset, NoReset,
         StreamRegistersAt, StreamAt
<1>19. CASE RuntimeResumePci
  BY <1>19 DEF RuntimeResumePci, Awake, acp6x_init, trigger, Reset, NoReset, regs,
         StreamRegistersAt, StreamAt
<1>20. CASE SleepCard
  BY <1>20 DEF SleepCard, Awake, TriggerOff, Return, trigger,
         acp6x_check_pdm_dma_status, acp6x_stop_pdm_dma, StreamRegistersAt
<1>21. CASE SleepPdm
  BY <1>21 DEF SleepPdm, acp6x_disable_pdm_interrupts, trigger, StreamRegistersAt
<1>22. CASE SleepPci
  BY <1>22 DEF SleepPci, acp6x_deinit, trigger, Reset, NoReset, StreamRegistersAt
<1>23. CASE WakePci
  BY <1>23 DEF WakePci, acp6x_init, trigger, Reset, NoReset, regs, StreamRegistersAt
<1>24. CASE WakePdm
  BY <1>24 DEF WakePdm, acp6x_config_dma, acp6x_enable_pdm_interrupts,
         trigger, StreamRegistersAt, StreamAt
<1>25. CASE WakeCard
  BY <1>25 DEF WakeCard, trigger, regs, StreamRegistersAt
<1>26. CASE UNCHANGED vars
  BY <1>26 DEF vars, trigger, regs, pm, StreamRegistersAt
<1> QED
  BY <1>1, <1>2, <1>3, <1>4, <1>5, <1>6, <1>7, <1>8, <1>9, <1>10, <1>11,
     <1>12, <1>13, <1>14, <1>15, <1>16, <1>17, <1>18, <1>19, <1>20, <1>21,
     <1>22, <1>23, <1>24, <1>25, <1>26 DEF Next, Process, Poll, Power

(* The interrupt of the coprocessor is off only where it has been suspended. *)
LEMMA NextEnable == Core /\ EnableAt /\ [Next]_vars => EnableAt'
<1> SUFFICES ASSUME TypeOK, EnableAt, [Next]_vars
             PROVE  EnableAt'
  BY DEF Core
<1>1. CASE RuntimeSuspendPci \/ RuntimeResumePci \/ SleepPci \/ WakePci
  BY <1>1 DEF RuntimeSuspendPci, RuntimeResumePci, SleepPci, WakePci, acp6x_init,
              acp6x_deinit, trigger, regs, EnableAt
<1>2. CASE RuntimeSuspendPdm \/ RuntimeResumePdm \/ SleepCard \/ SleepPdm \/ WakePdm \/ WakeCard
  BY <1>2 DEF RuntimeSuspendPdm, RuntimeResumePdm, SleepCard, SleepPdm, WakePdm, WakeCard,
              Awake, regs, EnableAt
<1>3. CASE HwStarts \/ HwStops \/ Process \/ Poll \/ UNCHANGED vars
  <2>1. UNCHANGED <<enb, rpm, sys>> /\ (trouble' = {} => trouble = {})
    BY <1>3 DEF HwStarts, HwStops, Process, Poll, vars, Open, HwParams, Start, Stop, Drop,
       ResumeStream, HwFree, Close, StartReturns, StartTimesOut, UndoStart, StopReturns,
       StopTimesOut, regs, pm
  <2> QED
    BY <2>1 DEF EnableAt
<1> QED
  BY <1>1, <1>2, <1>3 DEF Next, Power

(* Every step preserves the whole invariant.                                 *)
LEMMA NextIInv == IInv /\ [Next]_vars => IInv'
  BY NextDevice, NextEnable DEF IInv, Device

(* The inductive invariant holds in every reachable state.                   *)
LEMMA Invariance == Spec => []IInv
  BY InitIInv, NextIInv, PTL DEF Spec

------------------------------------------------------------------------------
(* Type correctness of the capture device.                                   *)
THEOREM TypeCorrect == Spec => []TypeOK
<1>1. IInv => TypeOK
  BY DEF IInv, Device, Core
<1> QED
  BY <1>1, Invariance, PTL

(* acp6x_pdm_dai_trigger, the resume callbacks and the interrupt enables     *)
(* leave nothing out: a running stream has its engine, ring buffer and both  *)
(* interrupt enables, unless something timed out.                            *)
THEOREM RunningServed == Spec => []RunningIsServed
<1>1. IInv => RunningIsServed
  BY DEF IInv, Device, Core, TypeOK, StreamAt, StreamRegistersAt, EnableAt, EngineAt,
         RunningIsServed, Awake
<1> QED
  BY <1>1, Invariance, PTL

(* hw_free and close never leave the engine writing to freed memory, unless  *)
(* something timed out.                                                      *)
THEOREM NoDmaAfterFree == Spec => []NoDmaIntoFreedBuffer
<1>1. IInv => NoDmaIntoFreedBuffer
  BY DEF IInv, Device, Core, TypeOK, TriggerAt, StreamAt, EngineAt, NoDmaIntoFreedBuffer, Halted
<1> QED
  BY <1>1, Invariance, PTL

(* From acp6x_pdm_suspend until the sound card has resumed nothing is        *)
(* captured, unless something timed out.                                     *)
THEOREM SleepIsQuiet == Spec => []QuietInSleep
<1>1. IInv => QuietInSleep
  BY DEF IInv, Device, Core, TypeOK, SleepAt, EngineAt, QuietInSleep
<1> QED
  BY <1>1, Invariance, PTL

------------------------------------------------------------------------------
(* The step of Capture that each step of the device is.                      *)
LEMMA StepImplements == Core /\ [Next]_vars => [Contract!Next]_(Contract!vars)
<1> SUFFICES ASSUME TypeOK, TriggerAt, SleepAt, StreamAt, EngineAt, [Next]_vars
             PROVE  Contract!Next \/ UNCHANGED Contract!vars
  BY DEF Core
<1>1. CASE HwStarts
  <2>1. Contract!Switch
    BY <1>1 DEF HwStarts, trigger, pm, TypeOK, TriggerAt, StreamAt, EngineAt,
            Halted, Contract!Switch
  <2> QED
    BY <2>1 DEF Contract!Next
<1>2. CASE HwStops
  <2>1. Contract!Switch
    BY <1>2 DEF HwStops, trigger, pm, TypeOK, TriggerAt, StreamAt, EngineAt,
            Halted, Contract!Switch
  <2> QED
    BY <2>1 DEF Contract!Next
<1>3. CASE Open
  <2>1. Contract!Open
    BY <1>3 DEF Open, Awake, acp6x_enable_pdm_interrupts, trigger, pm, TypeOK,
            Contract!Open
  <2> QED
    BY <2>1 DEF Contract!Next
<1>4. CASE HwParams
  <2>1. Contract!HwParams
    BY <1>4 DEF HwParams, Awake, acp6x_config_dma, trigger, pm, TypeOK,
            Contract!HwParams
  <2> QED
    BY <2>1 DEF Contract!Next
<1>5. CASE Start
  <2>1. Contract!Run \/ Contract!Request
    BY <1>5 DEF Start, Awake, TriggerOn, pm, acp6x_check_pdm_dma_status,
            Return, acp6x_start_pdm_dma, TypeOK, EngineAt, Contract!Run,
            Contract!Request, Contract!Halted
  <2> QED
    BY <2>1 DEF Contract!Next
<1>6. CASE Stop
  <2>1. Contract!Request \/ Contract!Halt
    BY <1>6 DEF Stop, Awake, TriggerOff, pm, acp6x_check_pdm_dma_status,
            acp6x_stop_pdm_dma, Return, TypeOK, EngineAt, Contract!Request,
            Contract!Halt, Contract!Halted
  <2> QED
    BY <2>1 DEF Contract!Next
<1>7. CASE Drop
  <2>1. Contract!Halt
    BY <1>7 DEF Drop, Awake, trigger, regs, pm, TypeOK, EngineAt,
            Contract!Halt, Contract!Halted
  <2> QED
    BY <2>1 DEF Contract!Next
<1>8. CASE ResumeStream
  <2>1. Contract!Run \/ Contract!Request \/ Contract!Halt
    BY <1>8 DEF ResumeStream, Awake, TriggerOn, trigger, pm,
            acp6x_check_pdm_dma_status, Return, acp6x_start_pdm_dma, TypeOK,
            EngineAt, Contract!Run, Contract!Request, Contract!Halt,
            Contract!Halted
  <2> QED
    BY <2>1 DEF Contract!Next
<1>9. CASE HwFree
  <2>1. Contract!HwFree
    BY <1>9 DEF HwFree, Awake, trigger, regs, pm, TypeOK, Contract!HwFree
  <2> QED
    BY <2>1 DEF Contract!Next
<1>10. CASE Close
  <2>1. Contract!Close
    BY <1>10 DEF Close, Awake, acp6x_disable_pdm_interrupts, trigger, pm,
            TypeOK, Contract!Close
  <2> QED
    BY <2>1 DEF Contract!Next
<1>11. CASE StartReturns
  <2>1. Contract!Run
    BY <1>11 DEF StartReturns, Return, regs, pm, TypeOK, TriggerAt, Halted,
            Contract!Run, Contract!Halted
  <2> QED
    BY <2>1 DEF Contract!Next
<1>12. CASE StartTimesOut
  <2>1. Contract!Fail
    BY <1>12 DEF StartTimesOut, regs, pm, TypeOK, Contract!Fail,
            Contract!Halted
  <2> QED
    BY <2>1 DEF Contract!Next
<1>13. CASE UndoStart
  <2>1. Contract!Halt \/ UNCHANGED Contract!vars
    BY <1>13 DEF UndoStart, TriggerOff, pm, acp6x_check_pdm_dma_status,
            acp6x_stop_pdm_dma, Return, TypeOK, TriggerAt, Halted,
            Contract!Halt, Contract!Halted, Contract!vars
  <2> QED
    BY <2>1 DEF Contract!Next
<1>14. CASE StopReturns
  <2>1. Contract!Halt
    BY <1>14 DEF StopReturns, Return, pm, TypeOK, TriggerAt, Halted,
            Contract!Halt, Contract!Halted
  <2> QED
    BY <2>1 DEF Contract!Next
<1>15. CASE StopTimesOut
  <2>1. Contract!Fail
    BY <1>15 DEF StopTimesOut, Return, regs, pm, TypeOK, TriggerAt, Halted,
            Contract!Fail, Contract!Halted
  <2> QED
    BY <2>1 DEF Contract!Next
<1>16. CASE RuntimeSuspendPdm
  <2>1. UNCHANGED Contract!vars
    BY <1>16 DEF RuntimeSuspendPdm, Awake, acp6x_disable_pdm_interrupts,
            trigger, TypeOK, Contract!vars
  <2> QED
    BY <2>1
<1>17. CASE RuntimeResumePdm
  <2>1. UNCHANGED Contract!vars
    BY <1>17 DEF RuntimeResumePdm, Awake, acp6x_enable_pdm_interrupts,
            trigger, TypeOK, Contract!vars
  <2> QED
    BY <2>1
<1>18. CASE RuntimeSuspendPci
  <2>1. Contract!Recover \/ Contract!Fail \/ UNCHANGED Contract!vars
    BY <1>18 DEF RuntimeSuspendPci, Awake, acp6x_deinit, trigger, Reset, NoReset,
            TypeOK, StreamAt, Contract!Recover, Contract!Fail, Contract!Halted, Contract!vars
  <2> QED
    BY <2>1 DEF Contract!Next
<1>19. CASE RuntimeResumePci
  <2>1. Contract!Recover \/ Contract!Fail \/ UNCHANGED Contract!vars
    BY <1>19 DEF RuntimeResumePci, Awake, acp6x_init, trigger, Reset, NoReset, regs,
            TypeOK, StreamAt, Contract!Recover, Contract!Fail, Contract!Halted, Contract!vars
  <2> QED
    BY <2>1 DEF Contract!Next
<1>20. CASE SleepCard
  <2>1. Contract!Request \/ Contract!Halt \/ UNCHANGED Contract!vars
    BY <1>20 DEF SleepCard, Awake, TriggerOff, Return, trigger,
            acp6x_check_pdm_dma_status, acp6x_stop_pdm_dma, TypeOK, StreamAt,
            EngineAt, Contract!Request, Contract!Halt, Contract!Halted,
            Contract!vars
  <2> QED
    BY <2>1 DEF Contract!Next
<1>21. CASE SleepPdm
  <2>1. UNCHANGED Contract!vars
    BY <1>21 DEF SleepPdm, acp6x_disable_pdm_interrupts, trigger, TypeOK,
            Contract!vars
  <2> QED
    BY <2>1
<1>22. CASE SleepPci
  <2>1. Contract!Recover \/ Contract!Fail \/ UNCHANGED Contract!vars
    BY <1>22 DEF SleepPci, acp6x_deinit, trigger, Reset, NoReset, TypeOK, SleepAt,
            Contract!Recover, Contract!Fail, Contract!Halted, Contract!vars
  <2> QED
    BY <2>1 DEF Contract!Next
<1>23. CASE WakePci
  <2>1. Contract!Recover \/ Contract!Fail \/ UNCHANGED Contract!vars
    BY <1>23 DEF WakePci, acp6x_init, trigger, Reset, NoReset, regs, TypeOK, SleepAt,
            Contract!Recover, Contract!Fail, Contract!Halted, Contract!vars
  <2> QED
    BY <2>1 DEF Contract!Next
<1>24. CASE WakePdm
  <2>1. UNCHANGED Contract!vars
    BY <1>24 DEF WakePdm, acp6x_config_dma, acp6x_enable_pdm_interrupts,
            trigger, TypeOK, Contract!vars
  <2> QED
    BY <2>1
<1>25. CASE WakeCard
  <2>1. UNCHANGED Contract!vars
    BY <1>25 DEF WakeCard, trigger, regs, TypeOK, Contract!vars
  <2> QED
    BY <2>1
<1>26. CASE UNCHANGED vars
  BY <1>26 DEF vars, trigger, regs, Contract!vars
<1> QED
  BY <1>1, <1>2, <1>3, <1>4, <1>5, <1>6, <1>7, <1>8, <1>9, <1>10, <1>11,
     <1>12, <1>13, <1>14, <1>15, <1>16, <1>17, <1>18, <1>19, <1>20, <1>21,
     <1>22, <1>23, <1>24, <1>25, <1>26 DEF Next, Process, Poll, Power

(* acp6x-pdm-dma.c under runtime and system power management implements the  *)
(* contract of a capture device: initial states and steps map to those of    *)
(* Capture.                                                                  *)
THEOREM Refinement == Spec => ImplementsCapture
<1>1. Init => Contract!Init
  BY DEF Init, Contract!Init
<1>2. IInv => Core
  BY DEF IInv, Device
<1> QED
  BY <1>1, <1>2, StepImplements, Invariance, PTL DEF Spec, ImplementsCapture, Contract!Spec

------------------------------------------------------------------------------
\* What Capture keeps true by its own steps, in the terms of this device.
ContractInv ==
  /\ stream \in {"closed", "open", "running"} \cup Halted
  /\ wait # "none" => stream \in Halted \cup {"running"}
  /\ buffer <=> stream \notin {"closed", "open"}
  /\ dma \in {"on", "stopping"} /\ trouble = {} => buffer
  /\ Contract!EngineFollows

(* Each step that Capture allows preserves it.                               *)
LEMMA ContractStep ==
  ContractInv /\ [Contract!Next]_(Contract!vars) => ContractInv'
<1> SUFFICES ASSUME ContractInv, [Contract!Next]_(Contract!vars)
             PROVE  ContractInv'
  OBVIOUS
<1> USE DEF ContractInv, Halted, Contract!EngineFollows, Contract!Halted
<1>1. CASE Contract!Open
  BY <1>1 DEF Contract!Open
<1>2. CASE Contract!HwParams
  BY <1>2 DEF Contract!HwParams
<1>3. CASE Contract!HwFree
  BY <1>3 DEF Contract!HwFree
<1>4. CASE Contract!Close
  BY <1>4 DEF Contract!Close
<1>5. CASE Contract!Request
  BY <1>5 DEF Contract!Request
<1>6. CASE Contract!Switch
  BY <1>6 DEF Contract!Switch
<1>7. CASE Contract!Run
  BY <1>7 DEF Contract!Run
<1>8. CASE Contract!Halt
  BY <1>8 DEF Contract!Halt
<1>9. CASE Contract!Fail
  BY <1>9 DEF Contract!Fail
<1>10. CASE Contract!Recover
  BY <1>10 DEF Contract!Recover
<1>11. CASE UNCHANGED Contract!vars
  BY <1>11 DEF Contract!vars
<1> QED
  BY <1>1, <1>2, <1>3, <1>4, <1>5, <1>6, <1>7, <1>8, <1>9, <1>10, <1>11
     DEF Contract!Next

(* What the contract amounts to, and so what acp6x-pdm-dma.c gives the ALSA  *)
(* core: between callbacks of a device that has not timed out, the engine is *)
(* on exactly while the stream runs.  It follows from the contract alone.    *)
THEOREM EngineFollowsStream == Spec => []Contract!EngineFollows
<1>1. Contract!Init => ContractInv
  BY DEF Contract!Init, ContractInv, Contract!EngineFollows
<1>2. Contract!Spec => []ContractInv
  BY <1>1, ContractStep, PTL DEF Contract!Spec
<1>3. ContractInv => Contract!EngineFollows
  BY DEF ContractInv
<1> QED
  BY <1>2, <1>3, Refinement, PTL DEF ImplementsCapture

==============================================================================
