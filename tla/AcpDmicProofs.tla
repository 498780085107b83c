----------------------------- MODULE AcpDmicProofs -----------------------------
(***************************************************************************)
(* The microphone as a whole, proved from its parts.  The proofs about the *)
(* two drivers are instantiated on the composed state: what the PCI driver *)
(* has registered follows its position (Ctl!Places), and the engine of the *)
(* capture device follows its stream (Dma!Device).  A step of the whole    *)
(* that is a step of a part preserves that part's invariant by the part's  *)
(* own lemma; what remains are the resets by probe and remove, the binding *)
(* of the platform driver, and the interrupt enable that both write.  The  *)
(* contract Capture follows for the card in the same way.  The position of *)
(* the stream, which shares no state with either, comes at the end.        *)
(***************************************************************************)
EXTENDS AcpDmic, PdmPointer, TLAPS

Ctl == INSTANCE AcpPciProofs WITH
  capture <- stream # "closed",
  pm <- IF rpm = "pci" THEN "suspended" ELSE IF rpm = "error" THEN "error" ELSE "active"

Dma == INSTANCE PdmDmaProofs

\* An open stream is one of a complete card: it was opened on one, and every way
\* to take it down waits for the stream.
CardAt == stream # "closed" => driver /\ kids = 0 .. ACP6x_DEVS - 1

\* Where probe has not come to acp6x_init, or remove is past acp6x_deinit.
Down == {"unbound", "regions", "alloc", "init", "release_regions", "disable_pci",
         "rm_release", "rm_irq", "rm_sync"}

\* The interrupt of the coprocessor is off only while it sleeps or is not in use.
EnableAt == trouble = {} /\ ~enb => rpm = "pci" \/ sys = "asleep" \/ pc \in Down

IInv == Ctl!Places /\ Dma!Device /\ CardAt /\ EnableAt

------------------------------------------------------------------------------
(* The composition takes the steps of the capture device from PdmDma, and    *)
(* its invariant from the proofs about PdmDma: the steps are the same.       *)
LEMMA SamePdm == Pdm!Next => Dma!Next
  BY DEF Pdm!Next, Dma!Next, Pdm!HwStarts, Dma!HwStarts, Pdm!HwStops,
         Dma!HwStops, Pdm!Process, Dma!Process, Pdm!Poll, Dma!Poll, Pdm!Power,
         Dma!Power, Pdm!trigger, Dma!trigger, Pdm!pm, Dma!pm, Pdm!Open,
         Dma!Open, Pdm!HwParams, Dma!HwParams, Pdm!Start, Dma!Start, Pdm!Stop,
         Dma!Stop, Pdm!Drop, Dma!Drop, Pdm!ResumeStream, Dma!ResumeStream,
         Pdm!HwFree, Dma!HwFree, Pdm!Close, Dma!Close, Pdm!StartReturns,
         Dma!StartReturns, Pdm!StartTimesOut, Dma!StartTimesOut,
         Pdm!UndoStart, Dma!UndoStart, Pdm!StopReturns, Dma!StopReturns,
         Pdm!StopTimesOut, Dma!StopTimesOut, Pdm!RuntimeSuspendPdm,
         Dma!RuntimeSuspendPdm, Pdm!RuntimeResumePdm, Dma!RuntimeResumePdm,
         Pdm!RuntimeSuspendPci, Dma!RuntimeSuspendPci, Pdm!RuntimeResumePci,
         Dma!RuntimeResumePci, Pdm!SleepCard, Dma!SleepCard, Pdm!SleepPdm,
         Dma!SleepPdm, Pdm!SleepPci, Dma!SleepPci, Pdm!WakePci, Dma!WakePci,
         Pdm!WakePdm, Dma!WakePdm, Pdm!WakeCard, Dma!WakeCard, Pdm!Awake,
         Dma!Awake, Pdm!acp6x_enable_pdm_interrupts,
         Dma!acp6x_enable_pdm_interrupts, Pdm!acp6x_config_dma,
         Dma!acp6x_config_dma, Pdm!TriggerOn, Dma!TriggerOn, Pdm!TriggerOff,
         Dma!TriggerOff, Pdm!regs, Dma!regs, Pdm!acp6x_disable_pdm_interrupts,
         Dma!acp6x_disable_pdm_interrupts, Pdm!Return, Dma!Return,
         Pdm!acp6x_deinit, Dma!acp6x_deinit, Pdm!acp6x_init, Dma!acp6x_init,
         Pdm!acp6x_check_pdm_dma_status, Dma!acp6x_check_pdm_dma_status,
         Pdm!acp6x_start_pdm_dma, Dma!acp6x_start_pdm_dma,
         Pdm!acp6x_stop_pdm_dma, Dma!acp6x_stop_pdm_dma, Pdm!Reset, Dma!Reset,
         Pdm!NoReset, Dma!NoReset

(* So are those of the PCI driver.                                           *)
LEMMA SamePci == Pci!Next => Ctl!Next
  BY DEF Pci!Next, Ctl!Next, Pci!ProbeEnable, Ctl!ProbeEnable, Pci!Probe,
         Ctl!Probe, Pci!RemoveStart, Ctl!RemoveStart, Pci!Remove, Ctl!Remove,
         Pci!RuntimeSuspend, Ctl!RuntimeSuspend, Pci!RuntimeResume,
         Ctl!RuntimeResume, Pci!OpenStream, Ctl!OpenStream, Pci!CloseStream,
         Ctl!CloseStream, Pci!PeriodDone, Ctl!PeriodDone, Pci!IrqReadStat,
         Ctl!IrqReadStat, Pci!Handler, Ctl!Handler, Pci!Goto, Ctl!Goto,
         Pci!hw, Ctl!hw, Pci!isr, Ctl!isr, Pci!ProbeRegions, Ctl!ProbeRegions,
         Pci!ProbeAlloc, Ctl!ProbeAlloc, Pci!ProbeInit, Ctl!ProbeInit,
         Pci!ProbeConfig, Ctl!ProbeConfig, Pci!ProbeRegister,
         Ctl!ProbeRegister, Pci!ProbeIrq, Ctl!ProbeIrq, Pci!UnregisterDevs,
         Ctl!UnregisterDevs, Pci!DeInit, Ctl!DeInit, Pci!ReleaseRegions,
         Ctl!ReleaseRegions, Pci!DisablePci, Ctl!DisablePci, Pci!resource,
         Ctl!resource, Pci!RemoveDevs, Ctl!RemoveDevs, Pci!RemoveDeinit,
         Ctl!RemoveDeinit, Pci!RemoveRelease, Ctl!RemoveRelease,
         Pci!RemoveFreeIrq, Ctl!RemoveFreeIrq, Pci!RemoveSyncIrq,
         Ctl!RemoveSyncIrq, Pci!acp6x_deinit, Ctl!acp6x_deinit,
         Pci!acp6x_init, Ctl!acp6x_init, Pci!CardUp, Ctl!CardUp, Pci!IrqAck,
         Ctl!IrqAck, Pci!IrqTestStream, Ctl!IrqTestStream,
         Pci!IrqPeriodElapsed, Ctl!IrqPeriodElapsed, Pci!Devs, Ctl!Devs

(* A step of the capture device keeps its invariant ...                      *)
LEMMA PdmStep ==
  ASSUME Dma!Device, Pdm!Next
  PROVE  Dma!Device'
  BY SamePdm, Dma!NextDevice

(* ... as does one that leaves its variables alone ...                       *)
LEMMA PdmRest ==
  ASSUME Dma!Device, UNCHANGED <<pdm, enb>>
  PROVE  Dma!Device'
<1>1. UNCHANGED Dma!vars
  BY DEF pdm, Dma!vars, Dma!trigger, Dma!regs, Dma!pm
<1> QED
  BY <1>1, Dma!NextDevice

(* ... and a reset without an open stream, whether it times out or not.      *)
LEMMA PdmReset ==
  ASSUME Dma!Device, stream = "closed", sys = "awake", Undisturbed, NEW ok \in BOOLEAN,
         Pdm!acp6x_init(ok) \/ Pdm!acp6x_deinit(ok)
  PROVE  Dma!Device'
<1>1. wait = "none"
  BY DEF Dma!Device, Dma!Core, Dma!TypeOK, Dma!TriggerAt, Dma!Halted
<1>2. /\ dma' \in {dma, "off"}
      /\ trouble' \in {{}, trouble, trouble \cup {"init"}, trouble \cup {"deinit"}}
  BY DEF Pdm!acp6x_init, Pdm!acp6x_deinit, Pdm!Reset, Pdm!NoReset, Pdm!regs
<1>3. Dma!Flags'
  BY Zenon DEF Dma!Device, Dma!Core, Dma!TypeOK, Dma!Flags, Undisturbed, Pdm!acp6x_init,
               Pdm!acp6x_deinit, Pdm!Reset, Pdm!NoReset, Pdm!regs
<1>4. trouble' \subseteq {"start", "stop", "deinit", "init"}
  BY <1>2 DEF Dma!Device, Dma!Core, Dma!TypeOK
<1>5. Dma!Values'
  BY <1>2, <1>4 DEF Dma!Device, Dma!Core, Dma!TypeOK, Dma!Values, Undisturbed
<1>6. Dma!TypeOK'
  BY <1>3, <1>5 DEF Dma!TypeOK, Dma!Flags, Dma!Values
<1>7. Dma!TriggerAt' /\ Dma!SleepAt' /\ Dma!StreamAt'
  BY <1>1 DEF Dma!Device, Dma!Core, Dma!TriggerAt, Dma!SleepAt, Dma!StreamAt, Undisturbed
<1>8. Dma!EngineAt'
  BY <1>1 DEF Dma!Device, Dma!Core, Dma!EngineAt, Undisturbed, Pdm!acp6x_init, Pdm!acp6x_deinit,
              Pdm!Reset, Pdm!NoReset, Pdm!regs
<1>9. Dma!StreamRegistersAt'
  BY DEF Dma!Device, Dma!Core, Dma!StreamAt, Dma!StreamRegistersAt, Undisturbed
<1> QED
  BY <1>6, <1>7, <1>8, <1>9 DEF Dma!Device, Dma!Core

(* A closed device may be runtime suspended, or forget that it is active.    *)
LEMMA PdmIdle ==
  ASSUME Dma!Device, stream = "closed", rpm' \in {rpm, "pdm"},
         UNCHANGED <<stream, resumeTo, buffer, wait, goal, dma, pdm_enable, ring,
                     mask, sys, trouble, enb>>
  PROVE  Dma!Device'
<1>1. Dma!Flags'
  BY Zenon DEF Dma!Device, Dma!Core, Dma!TypeOK, Dma!Flags
<1>2. Dma!Values'
  BY DEF Dma!Device, Dma!Core, Dma!TypeOK, Dma!Values
<1>3. Dma!TypeOK'
  BY <1>1, <1>2 DEF Dma!TypeOK, Dma!Flags, Dma!Values
<1>4. Dma!TriggerAt' /\ Dma!SleepAt' /\ Dma!StreamAt' /\ Dma!EngineAt'
  BY DEF Dma!Device, Dma!Core, Dma!TriggerAt, Dma!SleepAt, Dma!StreamAt, Dma!EngineAt
<1>5. Dma!StreamRegistersAt'
  BY DEF Dma!Device, Dma!StreamRegistersAt
<1> QED
  BY <1>3, <1>4, <1>5 DEF Dma!Device, Dma!Core

(* A step of the PCI driver keeps what is registered in line with its        *)
(* position ...                                                              *)
LEMMA PciStep ==
  ASSUME Ctl!Places, Pci!Next
  PROVE  Ctl!Places'
  BY SamePci, Ctl!NextPlaces, DevsAssumption

(* ... as does one that neither moves the driver nor registers anything.     *)
LEMMA PciRest ==
  ASSUME Ctl!Places, UNCHANGED <<pc, index, mode, kids>>
  PROVE  Ctl!Places'
  BY DEF Ctl!Places, Ctl!Positions, Ctl!KidsAt, Ctl!Devs

(* Without a complete card there is no open stream.                          *)
LEMMA NoCardNoStream ==
  ASSUME CardAt, kids = {}
  PROVE  stream = "closed"
<1>1. 0 \in 0 .. ACP6x_DEVS - 1
  BY DevsAssumption
<1> QED
  BY <1>1 DEF CardAt

(* No trigger, pause, suspend or late answer opens a stream.                 *)
LEMMA StaysClosed ==
  ASSUME Dma!Device, stream = "closed",
         \/ Pdm!HwStarts \/ Pdm!HwStops \/ Pdm!Poll
         \/ Pdm!HwParams \/ Pdm!Start \/ Pdm!Stop \/ Pdm!Drop \/ Pdm!ResumeStream
         \/ Pdm!HwFree \/ Pdm!SleepCard
  PROVE  stream' = "closed"
<1>1. wait = "none"
  BY DEF Dma!Device, Dma!Core, Dma!TypeOK, Dma!TriggerAt, Dma!Halted
<1> QED
  BY <1>1 DEF Pdm!HwStarts, Pdm!HwStops, Pdm!Poll, Pdm!StartReturns, Pdm!StartTimesOut,
              Pdm!UndoStart, Pdm!StopReturns, Pdm!StopTimesOut, Pdm!HwParams, Pdm!Start,
              Pdm!Stop, Pdm!Drop, Pdm!ResumeStream, Pdm!HwFree, Pdm!SleepCard

------------------------------------------------------------------------------
(* The unbound device satisfies the invariant.                               *)
LEMMA InitIInv == Init => IInv
<1> SUFFICES ASSUME Init PROVE IInv
  OBVIOUS
<1>1. Ctl!Places
  BY DevsAssumption DEF Init, Pci!Init, Ctl!Places, Ctl!Positions, Ctl!KidsAt, Ctl!Devs,
     Ctl!ProbeSteps, Ctl!RemoveSteps
<1>2. Dma!Device
  BY DEF Init, Pci!Init, Dma!Device, Dma!Core, Dma!TypeOK, Dma!TriggerAt, Dma!SleepAt,
         Dma!StreamAt, Dma!EngineAt, Dma!StreamRegistersAt
<1>3. CardAt /\ EnableAt
  BY DEF Init, Pci!Init, CardAt, EnableAt, Down
<1> QED
  BY <1>1, <1>2, <1>3 DEF IInv

(* Every step of the two drivers and of power management that clears the     *)
(* enable leaves it to the one that sets it again.                           *)
LEMMA NextEnable == EnableAt /\ [Next]_vars => EnableAt'
<1> SUFFICES ASSUME EnableAt, [Next]_vars
             PROVE  EnableAt'
  OBVIOUS
<1> USE DEF EnableAt
<1>1. CASE ProbeEnable
  BY <1>1 DEF ProbeEnable, Pci!ProbeEnable, Pci!Goto, Down
<1>2. CASE ProbeInit
  <2>1. PICK ok \in BOOLEAN : Pdm!acp6x_init(ok) /\ Pci!ProbeInit /\ (pc' = "config") = ok
    BY <1>2 DEF ProbeInit
  <2>2. pc' \in {"config", "release_regions"}
    BY <2>1 DEF Pci!ProbeInit, Pci!Goto
  <2>3. pc' = "config" => enb'
    BY <2>1 DEF Pdm!acp6x_init
  <2> QED
    BY <2>2, <2>3 DEF Down
<1>3. CASE ProbeRest
  <2>1. UNCHANGED <<enb, rpm, sys, trouble>> /\ (pc \in Down => pc' \in Down)
    BY <1>3 DEF ProbeRest, pdm, Down, Pci!Goto, Pci!hw, Pci!ProbeRegions, Pci!ProbeAlloc,
       Pci!ProbeConfig, Pci!ProbeRegister, Pci!ProbeIrq, Pci!ReleaseRegions,
       Pci!DisablePci, Pci!RemoveStart, Pci!RemoveRelease, Pci!RemoveFreeIrq,
       Pci!RemoveSyncIrq
  <2> QED
    BY <2>1
<1>4. CASE Unregister
  BY <1>4 DEF Unregister, Pci!UnregisterDevs, Pci!RemoveDevs, Down
<1>5. CASE Deinit
  BY <1>5 DEF Deinit, Pci!DeInit, Pci!RemoveDeinit, Pci!Goto, Down
<1>6. CASE BindPdm \/ UnbindPdm
  BY <1>6 DEF BindPdm, UnbindPdm, pci, pdm
<1>7. CASE Open \/ Close
  BY <1>7 DEF Open, Close, Pdm!Open, Pdm!Close, Pdm!pm, Pci!OpenStream, Pci!CloseStream
<1>8. CASE StreamSteps
  <2>1. UNCHANGED <<enb, rpm, sys, pc>> /\ (trouble' = {} => trouble = {})
    BY <1>8 DEF StreamSteps, Engine, pci, Pdm!HwStarts, Pdm!HwStops, Pdm!Poll,
       Pdm!StartReturns, Pdm!StartTimesOut, Pdm!UndoStart, Pdm!StopReturns,
       Pdm!StopTimesOut, Pdm!HwParams, Pdm!Start, Pdm!Stop, Pdm!Drop,
       Pdm!ResumeStream, Pdm!HwFree, Pdm!regs, Pdm!pm
  <2> QED
    BY <2>1
<1>9. CASE Period \/ IrqReadStat \/ Handler \/ UNCHANGED vars
  <2>1. UNCHANGED <<enb, rpm, sys, pc, trouble>>
    BY <1>9 DEF Period, IrqReadStat, Handler, IrqAck, IrqTestStream, IrqPeriodElapsed,
       vars, pci, pdm, Pci!PeriodDone, Pci!IrqReadStat, Pci!IrqAck, Pci!IrqTestStream,
       Pci!IrqPeriodElapsed, Pci!hw
  <2> QED
    BY <2>1
<1>10. CASE RuntimePdm \/ SleepCard \/ SleepRest
  BY <1>10 DEF RuntimePdm, SleepCard, SleepRest, pci, Pdm!RuntimeSuspendPdm,
     Pdm!RuntimeResumePdm, Pdm!SleepCard, Pdm!SleepPdm, Pdm!WakePdm, Pdm!WakeCard,
     Pdm!Awake, Pdm!regs
<1>11. CASE RuntimePci \/ SleepPci
  BY <1>11 DEF RuntimePci, SleepPci, Pdm!RuntimeSuspendPci, Pdm!RuntimeResumePci,
     Pdm!SleepPci, Pdm!WakePci, Pdm!acp6x_init, Pdm!acp6x_deinit
<1> QED
  BY <1>1, <1>2, <1>3, <1>4, <1>5, <1>6, <1>7, <1>8, <1>9, <1>10, <1>11
     DEF Next, PciSteps, Power

(* Every step of the two drivers, the stream, the interrupt and power        *)
(* management preserves it.                                                  *)
LEMMA NextIInv == IInv /\ [Next]_vars => IInv'
<1> SUFFICES ASSUME Ctl!Places, Dma!Device, CardAt, [Next]_vars
             PROVE  Ctl!Places' /\ Dma!Device' /\ CardAt'
  BY NextEnable DEF IInv
<1>1. CASE sys = "awake" /\ ProbeEnable
  <2>1. kids = {} /\ UNCHANGED kids
    BY <1>1 DEF ProbeEnable, Pci!ProbeEnable, Ctl!Places, Ctl!KidsAt
  <2>2. Ctl!Places'
    BY <1>1, PciStep DEF ProbeEnable, Pci!Next
  <2>3. Dma!Device'
    BY <1>1, <2>1, NoCardNoStream, PdmIdle DEF ProbeEnable
  <2>4. CardAt'
    BY <1>1, <2>1, NoCardNoStream DEF ProbeEnable, CardAt
  <2> QED
    BY <2>2, <2>3, <2>4
<1>2. CASE sys = "awake" /\ ProbeInit
  <2>1. PICK ok \in BOOLEAN : Pdm!acp6x_init(ok) /\ Pci!ProbeInit
    BY <1>2 DEF ProbeInit
  <2>2. kids = {}
    BY <2>1 DEF Pci!ProbeInit, Ctl!Places, Ctl!KidsAt
  <2>3. Ctl!Places'
    BY <2>1, PciStep DEF Pci!Next, Pci!Probe
  <2>4. Dma!Device'
    BY <1>2, <2>1, <2>2, NoCardNoStream, PdmReset DEF ProbeInit
  <2>5. CardAt'
    BY <1>2, <2>2, NoCardNoStream DEF ProbeInit, Undisturbed, CardAt
  <2> QED
    BY <2>3, <2>4, <2>5
<1>3. CASE sys = "awake" /\ ProbeRest
  <2>1. Ctl!Places'
    BY <1>3, PciStep DEF ProbeRest, Pci!Next, Pci!Probe, Pci!Remove
  <2>2. UNCHANGED <<enb>> /\ (kids' = kids \/ pc = "register")
    BY <1>3 DEF ProbeRest, Pci!ProbeRegions, Pci!ProbeAlloc, Pci!ProbeConfig,
       Pci!ProbeRegister, Pci!ProbeIrq, Pci!ReleaseRegions, Pci!DisablePci,
       Pci!RemoveStart, Pci!RemoveRelease, Pci!RemoveFreeIrq, Pci!RemoveSyncIrq,
       Pci!hw, Pci!resource
  <2>3. Dma!Device'
    BY <1>3, <2>2, PdmRest DEF ProbeRest
  <2>4. pc = "register" => stream = "closed"
    BY DevsAssumption DEF Ctl!Places, Ctl!Positions, Ctl!KidsAt, CardAt
  <2>5. CardAt'
    BY <1>3, <2>2, <2>4 DEF ProbeRest, pdm, CardAt
  <2> QED
    BY <2>1, <2>3, <2>5
<1>4. CASE sys = "awake" /\ Unregister
  <2>1. Ctl!Places'
    BY <1>4, PciStep DEF Unregister, Pci!Next, Pci!Probe, Pci!Remove
  <2>2. stream = "closed"
    <3>1. CASE Pci!UnregisterDevs /\ index = 0
      BY <3>1, NoCardNoStream DEF Pci!UnregisterDevs, Ctl!Places, Ctl!KidsAt
    <3> QED
      BY <1>4, <3>1 DEF Unregister, Pci!UnregisterDevs, Pci!RemoveDevs
  <2>3. Dma!Device'
    BY <1>4, <2>2, PdmIdle DEF Unregister
  <2>4. CardAt'
    BY <1>4, <2>2 DEF Unregister, CardAt
  <2> QED
    BY <2>1, <2>3, <2>4
<1>5. CASE sys = "awake" /\ Deinit
  <2>1. Ctl!Places'
    BY <1>5, PciStep DEF Deinit, Pci!Next, Pci!Probe, Pci!Remove
  <2>2. kids = {}
    BY <1>5 DEF Deinit, Pci!DeInit, Pci!RemoveDeinit, Ctl!Places, Ctl!KidsAt
  <2>3. Dma!Device'
    BY <1>5, <2>2, NoCardNoStream, PdmReset DEF Deinit
  <2>4. CardAt'
    BY <1>5, <2>2, NoCardNoStream DEF Deinit, Undisturbed, CardAt
  <2> QED
    BY <2>1, <2>3, <2>4
<1>6. CASE BindPdm
  <2>1. Ctl!Places' /\ Dma!Device'
    BY <1>6, PciRest, PdmRest DEF BindPdm, pci
  <2>2. CardAt'
    BY <1>6 DEF BindPdm, pci, pdm, CardAt
  <2> QED
    BY <2>1, <2>2
<1>7. CASE UnbindPdm
  <2>1. Ctl!Places' /\ Dma!Device'
    BY <1>7, PciRest, PdmIdle DEF UnbindPdm, pci
  <2>2. CardAt'
    BY <1>7 DEF UnbindPdm, CardAt
  <2> QED
    BY <2>1, <2>2
<1>8. CASE Open
  <2>1. Ctl!Places' /\ Dma!Device'
    BY <1>8, PciStep, PdmStep DEF Open, Pci!Next, Pdm!Next, Pdm!Process
  <2>2. CardAt'
    BY <1>8 DEF Open, Pci!OpenStream, Pci!CardUp, Pci!Devs, Pci!resource, CardAt
  <2> QED
    BY <2>1, <2>2
<1>9. CASE Close
  <2>1. Ctl!Places' /\ Dma!Device'
    BY <1>9, PciStep, PdmStep DEF Close, Pci!Next, Pdm!Next, Pdm!Process
  <2>2. CardAt'
    BY <1>9 DEF Close, Pdm!Close, CardAt
  <2> QED
    BY <2>1, <2>2
<1>10. CASE StreamSteps
  <2>1. Ctl!Places' /\ Dma!Device'
    BY <1>10, PciRest, PdmStep DEF StreamSteps, Engine, pci, Pdm!Next, Pdm!Process
  <2>2. CardAt'
    BY <1>10, StaysClosed DEF StreamSteps, Engine, pci, CardAt
  <2> QED
    BY <2>1, <2>2
<1>11. CASE Period
  <2>1. UNCHANGED <<pc, index, mode, kids, enb>>
    BY <1>11 DEF Period, Pci!PeriodDone, Pci!resource, pci
  <2>2. Ctl!Places' /\ Dma!Device'
    BY <1>11, <2>1, PciRest, PdmRest DEF Period
  <2>3. CardAt'
    BY <1>11, <2>1 DEF Period, pdm, CardAt
  <2> QED
    BY <2>2, <2>3
<1>12. CASE RuntimePdm
  <2>1. Ctl!Places' /\ Dma!Device'
    BY <1>12, PciRest, PdmStep DEF RuntimePdm, pci, Pdm!Next, Pdm!Power
  <2>2. CardAt'
    BY <1>12 DEF RuntimePdm, pci, Pdm!RuntimeSuspendPdm, Pdm!RuntimeResumePdm, CardAt
  <2> QED
    BY <2>1, <2>2
<1>13. CASE RuntimePci
  <2>1. Ctl!Places' /\ Dma!Device'
    BY <1>13, PciStep, PdmStep DEF RuntimePci, Pci!Next, Pdm!Next, Pdm!Power
  <2>2. CardAt'
    BY <1>13 DEF RuntimePci, Pdm!RuntimeSuspendPci, Pdm!RuntimeResumePci,
       Pci!RuntimeSuspend, Pci!RuntimeResume, Pci!resource, CardAt
  <2> QED
    BY <2>1, <2>2
<1>14. CASE SleepCard
  <2>1. Ctl!Places' /\ Dma!Device'
    BY <1>14, PciRest, PdmStep DEF SleepCard, pci, Pdm!Next, Pdm!Power
  <2>2. CardAt'
    BY <1>14, StaysClosed DEF SleepCard, pci, CardAt
  <2> QED
    BY <2>1, <2>2
<1>15. CASE SleepRest
  <2>1. Ctl!Places' /\ Dma!Device'
    BY <1>15, PciRest, PdmStep DEF SleepRest, pci, Pdm!Next, Pdm!Power
  <2>2. CardAt'
    BY <1>15 DEF SleepRest, pci, Pdm!SleepPdm, Pdm!WakePdm, Pdm!WakeCard, CardAt
  <2> QED
    BY <2>1, <2>2
<1>16. CASE SleepPci
  <2>1. Ctl!Places' /\ Dma!Device'
    BY <1>16, PciRest, PdmStep DEF SleepPci, Pdm!Next, Pdm!Power
  <2>2. CardAt'
    BY <1>16 DEF SleepPci, Pdm!SleepPci, Pdm!WakePci, CardAt
  <2> QED
    BY <2>1, <2>2
<1>17. CASE IrqReadStat \/ Handler
  <2>1. UNCHANGED <<pc, index, mode, kids, enb, pdm, driver>>
    BY <1>17 DEF IrqReadStat, Handler, IrqAck, IrqTestStream, IrqPeriodElapsed,
       Pci!IrqReadStat, Pci!IrqAck, Pci!IrqTestStream, Pci!IrqPeriodElapsed,
       Pci!resource, Pci!hw
  <2>2. Ctl!Places' /\ Dma!Device'
    BY <2>1, PciRest, PdmRest
  <2>3. CardAt'
    BY <2>1 DEF pdm, CardAt
  <2> QED
    BY <2>2, <2>3
<1>18. CASE UNCHANGED vars
  <2>1. Ctl!Places' /\ Dma!Device'
    BY <1>18, PciRest, PdmRest DEF vars, pci
  <2>2. CardAt'
    BY <1>18 DEF vars, pci, pdm, CardAt
  <2> QED
    BY <2>1, <2>2
<1> QED
  BY <1>1, <1>2, <1>3, <1>4, <1>5, <1>6, <1>7, <1>8, <1>9, <1>10, <1>11, <1>12,
     <1>13, <1>14, <1>15, <1>16, <1>17, <1>18 DEF Next, PciSteps, Power

(* The inductive invariant holds in every reachable state.                   *)
LEMMA Invariance == Spec => []IInv
  BY InitIInv, NextIInv, PTL DEF Spec

------------------------------------------------------------------------------
(* The engine writes only for an open stream on a complete card: no error    *)
(* exit of snd_acp6x_probe, no removal and no unbind leaves it running, for  *)
(* any number of platform devices, unless something timed out.               *)
THEOREM EngineHasOwner == Spec => []EngineOwned
<1>1. IInv => EngineOwned
  BY DEF IInv, Dma!Device, Dma!Core, Dma!TypeOK, Dma!TriggerAt, Dma!EngineAt, Dma!Halted,
         CardAt, EngineOwned
<1> QED
  BY <1>1, Invariance, PTL

(* A running stream has its engine, its ring buffer and both interrupt       *)
(* enables: no probe, removal, unbind or sleep of the two drivers resets the *)
(* coprocessor under it, for any number of platform devices, unless          *)
(* something timed out.                                                      *)
THEOREM StreamIsServed == Spec => []StreamServed
<1>1. ASSUME IInv, stream = "running", Pdm!Awake, trouble = {}
      PROVE  dma = "on" /\ pdm_enable /\ ring /\ mask /\ enb
  <2>1. dma = "on" /\ pdm_enable /\ ring /\ mask
    BY <1>1 DEF IInv, Dma!Device, Dma!Core, Dma!StreamAt, Dma!EngineAt,
                Dma!StreamRegistersAt, Pdm!Awake
  <2>2. kids # {}
    BY <1>1, NoCardNoStream DEF IInv
  <2>3. pc \notin Down
    BY <1>1, <2>2 DEF IInv, Ctl!Places, Ctl!KidsAt, Down
  <2>4. rpm = "active" /\ sys = "awake"
    BY <1>1 DEF IInv, Dma!Device, Dma!Core, Dma!StreamAt, Pdm!Awake
  <2> QED
    BY <1>1, <2>1, <2>3, <2>4 DEF IInv, EnableAt
<1>2. IInv => StreamServed
  BY <1>1 DEF StreamServed, Pdm!RunningIsServed
<1> QED
  BY <1>2, Invariance, PTL

------------------------------------------------------------------------------
(* The steps that Capture allows are the same, seen from the capture device  *)
(* or from the whole.                                                        *)
LEMMA SameContract ==
  [Dma!Contract!Next]_(Dma!Contract!vars) => [Contract!Next]_(Contract!vars)
  BY DEF Dma!Contract!Next, Contract!Next, Dma!Contract!vars, Contract!vars,
     Dma!Contract!Open, Contract!Open, Dma!Contract!Close, Contract!Close,
     Dma!Contract!HwParams, Contract!HwParams, Dma!Contract!HwFree, Contract!HwFree,
     Dma!Contract!Request, Contract!Request, Dma!Contract!Switch, Contract!Switch,
     Dma!Contract!Run, Contract!Run, Dma!Contract!Halt, Contract!Halt,
     Dma!Contract!Fail, Contract!Fail, Dma!Contract!Recover, Contract!Recover,
     Dma!Contract!Halted, Contract!Halted

(* A step of the capture device is one that the contract allows ...          *)
LEMMA PdmKeeps ==
  ASSUME Dma!Device, Pdm!Next
  PROVE  Contract!Next \/ UNCHANGED Contract!vars
<1>1. [Dma!Contract!Next]_(Dma!Contract!vars)
  BY SamePdm, Dma!StepImplements DEF Dma!Device
<1> QED
  BY <1>1, SameContract

(* ... and a reset by the PCI driver appears as one that recovers or fails,  *)
(* because no stream is open, or, if it was not carried out, as nothing.     *)
LEMMA ResetKeeps ==
  ASSUME Dma!Device, stream = "closed", Undisturbed, NEW ok \in BOOLEAN,
         Pdm!acp6x_init(ok) \/ Pdm!acp6x_deinit(ok)
  PROVE  Contract!Recover \/ Contract!Fail \/ UNCHANGED Contract!vars
<1>1. wait = "none"
  BY DEF Dma!Device, Dma!Core, Dma!TypeOK, Dma!TriggerAt, Dma!Halted
<1>2. \/ dma' = "off" /\ trouble' = {}
      \/ dma' = dma /\ (trouble' = trouble \/ trouble' # {})
  BY DEF Pdm!acp6x_init, Pdm!acp6x_deinit, Pdm!Reset, Pdm!NoReset, Pdm!regs
<1>3. CASE dma' = "off" /\ trouble' = {}
  BY <1>1, <1>3 DEF Undisturbed, Contract!Recover
<1>4. CASE dma' = dma /\ trouble' # {}
  BY <1>1, <1>4 DEF Undisturbed, Contract!Fail
<1>5. CASE dma' = dma /\ trouble' = trouble
  BY <1>5 DEF Undisturbed, Contract!vars
<1> QED
  BY <1>2, <1>3, <1>4, <1>5

(* The step of Capture that each step of the two drivers is.                 *)
LEMMA StepImplements == IInv /\ [Next]_vars => [Contract!Next]_(Contract!vars)
<1> SUFFICES ASSUME Ctl!Places, Dma!Device, CardAt, [Next]_vars
             PROVE  Contract!Next \/ UNCHANGED Contract!vars
  BY DEF IInv
<1>1. CASE Open \/ Close \/ StreamSteps \/ Power
  <2>1. Pdm!Next
    BY <1>1 DEF Open, Close, StreamSteps, Engine, Power, RuntimePdm, RuntimePci, SleepCard,
       SleepRest, SleepPci, Pdm!Next, Pdm!Process, Pdm!Power
  <2> QED
    BY <2>1, PdmKeeps
<1>2. CASE ProbeInit
  <2>1. PICK ok \in BOOLEAN : Pdm!acp6x_init(ok) /\ Pci!ProbeInit
    BY <1>2 DEF ProbeInit
  <2>2. stream = "closed"
    BY <2>1, NoCardNoStream DEF Pci!ProbeInit, Ctl!Places, Ctl!KidsAt
  <2> QED
    BY <1>2, <2>1, <2>2, ResetKeeps DEF ProbeInit, Contract!Next
<1>3. CASE Deinit
  <2>1. PICK ok \in BOOLEAN : Pdm!acp6x_deinit(ok)
    BY <1>3 DEF Deinit
  <2>2. stream = "closed"
    BY <1>3, NoCardNoStream DEF Deinit, Pci!DeInit, Pci!RemoveDeinit, Ctl!Places, Ctl!KidsAt
  <2> QED
    BY <1>3, <2>1, <2>2, ResetKeeps DEF Deinit, Contract!Next
<1>4. CASE \/ ProbeEnable \/ ProbeRest \/ Unregister \/ BindPdm \/ UnbindPdm
           \/ Period \/ IrqReadStat \/ Handler \/ UNCHANGED vars
  <2>1. UNCHANGED <<stream, wait, buffer, dma, trouble>>
    BY <1>4 DEF ProbeEnable, ProbeRest, Unregister, BindPdm, UnbindPdm, Period,
       IrqReadStat, Handler, IrqAck, IrqTestStream, IrqPeriodElapsed, vars, pdm
  <2> QED
    BY <2>1 DEF Contract!vars
<1> QED
  BY <1>1, <1>2, <1>3, <1>4 DEF Next, PciSteps

(* pci-acp6x.c and acp6x-pdm-dma.c together implement the contract of a      *)
(* capture device: initial states and steps map to those of Capture.         *)
THEOREM CardRefinement == Spec => CardImplementsCapture
<1>1. Init => Contract!Init
  BY DEF Init, Contract!Init
<1> QED
  BY <1>1, StepImplements, Invariance, PTL DEF Spec, CardImplementsCapture, Contract!Spec

------------------------------------------------------------------------------
(***************************************************************************)
(* The position of the stream, acp6x_pdm_dma_pointer.  Two facts carry it: *)
(* the two reads are at most one carry apart (Reading), and a stream whose *)
(* start was not disturbed has noted the count at which its engine began   *)
(* (Origin).                                                               *)
(***************************************************************************)
Counters ==
  /\ count \in Nat /\ bytescount \in Nat /\ high \in Nat /\ began \in Nat
  /\ began <= count

Reading ==
  /\ op \in {"none", "trigger", "pointer"}
  /\ op = "pointer" => running
  /\ op = "trigger" => ~running
  /\ op # "none" => HighWord(count) \in {high, high + 1}

Origin == running => engine /\ (~late => bytescount = began)

PtrInv == Counters /\ Reading /\ Origin

(* A number is put together again from its two words.                        *)
LEMMA DivMod ==
  ASSUME NEW w \in Nat \ {0}, NEW c \in Nat
  PROVE  /\ c \div w \in Nat /\ c % w \in 0 .. w - 1
         /\ c = (c \div w) * w + (c % w)
  OBVIOUS

(* Counting on by one carries at most once.                                  *)
LEMMA DivStep ==
  ASSUME NEW w \in Nat \ {0}, NEW c \in Nat
  PROVE  (c + 1) \div w \in {c \div w, (c \div w) + 1}
  BY DivMod

(* The remainder is unique.                                                  *)
LEMMA ModIs ==
  ASSUME NEW b \in Nat \ {0}, NEW q \in Nat, NEW r \in 0 .. b - 1
  PROVE  (q * b + r) % b = r
<1> DEFINE c == q * b + r
<1>1. c \in Nat
  OBVIOUS
<1>2. PICK p \in Nat : p = c \div b
  BY <1>1, DivMod
<1>3. PICK s \in 0 .. b - 1 : s = c % b /\ c = p * b + s
  BY <1>1, <1>2, DivMod
<1>4. p * b + s = q * b + r
  BY <1>3
<1>5. ~ (p - q >= 1)
  <2> SUFFICES ASSUME p - q >= 1 PROVE FALSE
    OBVIOUS
  <2>1. (p - q) * b >= b
    OBVIOUS
  <2>2. (p - q) * b = r - s
    BY <1>4
  <2> QED
    BY <2>1, <2>2
<1>6. ~ (q - p >= 1)
  <2> SUFFICES ASSUME q - p >= 1 PROVE FALSE
    OBVIOUS
  <2>1. (q - p) * b >= b
    OBVIOUS
  <2>2. (q - p) * b = s - r
    BY <1>4
  <2> QED
    BY <2>1, <2>2
<1>7. p = q
  BY <1>5, <1>6
<1> QED
  BY <1>7, <1>4, <1>3

(* A multiple of the buffer size does not move the position.                 *)
LEMMA ModShift ==
  ASSUME NEW b \in Nat \ {0}, NEW a \in Nat, NEW w \in Nat, w % b = 0
  PROVE  (a + w) % b = a % b
<1> DEFINE k == w \div b
           q == a \div b
           r == a % b
<1>1. k \in Nat /\ w = k * b
  BY DivMod
<1>2. q \in Nat /\ r \in 0 .. b - 1 /\ a = q * b + r
  BY DivMod
<1> HIDE DEF k, q
<1>3. a + w = (q + k) * b + r
  BY <1>1, <1>2
<1>4. q + k \in Nat
  BY <1>1, <1>2
<1> HIDE DEF r
<1>5. ((q + k) * b + r) % b = r
  BY <1>2, <1>4, ModIs
<1> QED
  BY <1>3, <1>5 DEF r

(* What acp6x_pdm_get_byte_count returns: the counter, or one word less if a *)
(* carry came between the two reads.                                         *)
LEMMA TwoReads ==
  ASSUME PtrInv, op # "none"
  PROVE  /\ ByteCount \in Nat
         /\ ~Torn => ByteCount = count
         /\ Torn  => ByteCount + Word = count
<1> DEFINE h == count \div Word
           l == count % Word
<1>1. h \in Nat /\ l \in Nat /\ count = h * Word + l
  BY DivMod, SizesAssumption DEF PtrInv, Counters
<1>2. h \in {high, high + 1}
  BY DEF PtrInv, Reading, HighWord
<1>3. ByteCount = high * Word + l
  BY DEF ByteCount, Join, LowWord
<1>4. Torn <=> h # high
  BY DEF Torn, HighWord
<1> HIDE DEF h, l
<1>5. CASE h = high
  BY <1>1, <1>3, <1>4, <1>5, SizesAssumption DEF PtrInv, Counters
<1>6. CASE h = high + 1
  <2>1. (high + 1) * Word = high * Word + Word /\ high * Word \in Nat
    BY SizesAssumption DEF PtrInv, Counters
  <2> QED
    BY <1>1, <1>3, <1>4, <1>6, <2>1, SizesAssumption DEF PtrInv, Counters
<1> QED
  BY <1>2, <1>5, <1>6

(* Every step of the engine and of the callbacks preserves the two facts.    *)
LEMMA NextPtr == PtrInv /\ [PointerNext]_pointerVars => PtrInv'
<1> SUFFICES ASSUME PtrInv, [PointerNext]_pointerVars
             PROVE  PtrInv'
  OBVIOUS
<1> USE DEF PtrInv, Counters, Reading, Origin
<1>1. CASE Count
  <2>1. HighWord(count + 1) \in {HighWord(count), HighWord(count) + 1}
    BY DivStep, SizesAssumption DEF HighWord
  <2>2. op # "none" => HighWord(count + 1) \in {high, high + 1}
    BY <1>1, <2>1 DEF Count
  <2>3. op # "none" => HighWord(count)' \in {high', high' + 1}
    BY <1>1, <2>2 DEF Count, HighWord
  <2> QED
    BY <1>1, <2>3 DEF Count
<1>2. CASE LateAnswer
  BY <1>2 DEF LateAnswer, HighWord
<1>3. CASE Reset
  BY <1>3 DEF Reset
<1>4. ASSUME NEW who \in {"trigger", "pointer"}, ReadHigh(who)
      PROVE  PtrInv'
  <2>1. HighWord(count) \in Nat
    BY DivMod, SizesAssumption DEF HighWord
  <2> QED
    BY <1>4, <2>1 DEF ReadHigh, HighWord
<1>5. CASE TriggerStart
  <2>1. ByteCount \in Nat /\ (~Torn => ByteCount = count)
    BY <1>5, TwoReads DEF TriggerStart
  <2>2. Counters' /\ Reading'
    BY <1>5, <2>1 DEF TriggerStart
  <2>3. ~late' => ~engine /\ ~Torn
    BY <1>5, Zenon DEF TriggerStart
  <2>4. Origin'
    BY <1>5, <2>1, <2>3 DEF TriggerStart
  <2> QED
    BY <2>2, <2>4
<1>6. CASE TriggerStartFails
  <2>1. ByteCount \in Nat
    BY <1>6, TwoReads DEF TriggerStartFails
  <2> QED
    BY <1>6, <2>1 DEF TriggerStartFails
<1>7. CASE Pointer
  BY <1>7 DEF Pointer
<1>8. CASE TriggerStop
  BY <1>8 DEF TriggerStop
<1>9. CASE UNCHANGED pointerVars
  BY <1>9 DEF pointerVars, HighWord
<1> QED
  BY <1>1, <1>2, <1>3, <1>4, <1>5, <1>6, <1>7, <1>8, <1>9 DEF PointerNext

(* They hold in every reachable state.                                       *)
LEMMA PtrInvariance == PointerSpec => []PtrInv
<1>1. PointerInit => PtrInv
  BY DEF PointerInit, PtrInv, Counters, Reading, Origin
<1>2. PtrInv /\ [PointerNext]_pointerVars => PtrInv'
  BY NextPtr
<1> QED
  BY <1>1, <1>2, PTL DEF PointerSpec

(* acp6x_pdm_dma_pointer returns where the engine writes, for every word,    *)
(* every buffer size and any number of restarts, as PositionExact says.      *)
THEOREM PositionIsExact == PointerSpec => PositionExact
<1>1. PtrInv /\ Pointer /\ ~Torn /\ ~late /\ ByteCount # bytescount
        => pos' = RingPosition
  <2> SUFFICES ASSUME PtrInv, Pointer, ~Torn, ~late, ByteCount # bytescount
               PROVE  pos' = RingPosition
    OBVIOUS
  <2>1. ByteCount = count
    BY TwoReads DEF Pointer
  <2>2. bytescount = began /\ count > bytescount
    BY <2>1 DEF PtrInv, Counters, Reading, Origin, Pointer
  <2>3. pos' = (count - bytescount) % BufferSize
    BY <2>1, <2>2 DEF Pointer, Position, Elapsed
  <2> QED
    BY <2>2, <2>3 DEF RingPosition
<1> QED
  BY <1>1, PtrInvariance, PTL DEF PositionExact, PointerSpec

(* A read torn by a carry is exactly one word short, and that does not move  *)
(* the position where the buffer size divides the word and the count does    *)
(* not fall back behind the beginning of the stream.                         *)
THEOREM TornReadIsHarmless == PointerSpec => TornReadHarmless
<1>1. ASSUME PtrInv, Pointer, Torn
      PROVE  /\ ByteCount <= count /\ count - ByteCount = Word
             /\ Word % BufferSize = 0 /\ ~late /\ ByteCount > bytescount =>
                  pos' = RingPosition
  <2>1. ByteCount \in Nat /\ ByteCount + Word = count
    BY <1>1, TwoReads DEF Pointer
  <2>2. ByteCount <= count /\ count - ByteCount = Word
    BY <1>1, <2>1, SizesAssumption DEF PtrInv, Counters
  <2>3. ASSUME Word % BufferSize = 0, ~late, ByteCount > bytescount
        PROVE  pos' = RingPosition
    <3> DEFINE a == ByteCount - bytescount
    <3>1. bytescount = began /\ bytescount \in Nat
      BY <1>1, <2>3 DEF PtrInv, Counters, Reading, Origin, Pointer
    <3>2. a \in Nat /\ count - began = a + Word
      BY <2>1, <2>3, <3>1, SizesAssumption
    <3>3. pos' = a % BufferSize
      BY <1>1, <2>3 DEF Pointer, Position, Elapsed
    <3> HIDE DEF a
    <3>4. (a + Word) % BufferSize = a % BufferSize
      BY <2>3, <3>2, ModShift, SizesAssumption
    <3> QED
      BY <3>2, <3>3, <3>4 DEF RingPosition
  <2> QED
    BY <2>2, <2>3
<1> QED
  BY <1>1, PtrInvariance, PTL DEF TornReadHarmless, PointerSpec

==============================================================================
