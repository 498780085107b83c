---------------------------- MODULE Rtw89SerProofs ----------------------------
(***************************************************************************)
(* The safety invariants of Rtw89Ser, for any number of errors and however *)
(* long the message queue grows.                                           *)
(*                                                                         *)
(* Neither is inductive: what is stopped depends on how far the work queue *)
(* is inside ser_state_goto, and whether a device that does not run is off *)
(* on which of two stops, that of mac80211 or that of L2_RESET, is still   *)
(* under way.  The parts of the invariant say both for every position.     *)
(* The time-outs and the reports of errors follow in a section of their    *)
(* own, with what they need to know of the message queue.                  *)
(***************************************************************************)
EXTENDS Rtw89Ser, TLAPS

States   == {"IDLE", "RESET_TRX", "DO_HCI", "L2_RESET"}
Alarms   == {"M3_TIMEOUT", "FW_M5_TIMEOUT", "L2_RECFG_TIMEOUT"}
Reports  == {"L0_RESET", "L1_RESET", "L2_RESET", "DO_RECOVERY", "MAC_RESET_DONE"}
Messages == Reports \cup Alarms \cup {"L2_RECFG_DONE"}
L2Stop   == {"l2stop", "l2sync", "l2restart"}
Stopped  == {"STOP_TX", "STOP_DMA", "STOP_RX"}

\* Type correctness in three parts: values, sets, truth values.
Values ==
  /\ state \in States /\ goal \in States
  /\ work \in {"idle", "loop", "msg", "out", "resume", "lps", "in", "stoprx"} \cup L2Stop
  /\ queue \in Seq(Messages) /\ alarm \in Alarms \cup {"NONE"}
  /\ irq \in {"idle", "thread", "branch", "enable"}
  /\ c2h \in Reports \cup {"NONE"}
  /\ fw \in {"ok", "m2", "m3", "m4", "m5", "dead", "off"}
  /\ mac \in {"idle", "stopping", "stopped", "sync", "reconfig", "complete"}
  /\ errors \in 0 .. MaxErrors
Sets ==
  /\ flags \subseteq Stopped
  /\ excuses \subseteq {"overtaken", "lost", "deaf", "nodma", "stale", "halfway"}
Flags ==
  /\ running \in BOOLEAN /\ pci_running \in BOOLEAN /\ under_recovery \in BOOLEAN
  /\ imr \in BOOLEAN /\ dma \in BOOLEAN /\ up \in BOOLEAN /\ restart \in BOOLEAN

\* A transition has been decided on, and the old state not yet left.
Going == work \in {"msg", "out", "resume"} /\ goal # state

\* Where ser_state_goto can go, and from where L2_RESET stops the device.
GotoAt ==
  /\ Going => \/ state = "IDLE" /\ goal \in {"RESET_TRX", "L2_RESET"}
              \/ state = "RESET_TRX" /\ goal \in {"DO_HCI", "L2_RESET"}
              \/ state = "DO_HCI" /\ goal \in {"IDLE", "L2_RESET"}
              \/ state = "L2_RESET" /\ goal = "IDLE"
  /\ work \in {"out", "resume"} => goal # state
  /\ work \in {"resume", "stoprx"} => state = "RESET_TRX"
  /\ work \in L2Stop => state = "L2_RESET"

\* What the recovery has stopped, at each state and position.
StoppedAt ==
  /\ state # "RESET_TRX" => flags \subseteq {"STOP_DMA"}
  /\ state = "RESET_TRX" =>
       \/ work \in {"lps", "in"} /\ flags \subseteq {"STOP_DMA"}
       \/ work = "stoprx" /\ {"STOP_TX", "STOP_DMA"} \subseteq flags
       \/ Going /\ goal = "L2_RESET"
       \/ work \in {"loop", "idle", "msg", "out"} /\ flags = Stopped
       \/ work = "resume"
  /\ state = "IDLE" /\ work \notin {"lps", "in"} => ~under_recovery

\* A stop that waits for the interrupt thread holds the mutex, so that nobody
\* starts the device again before the power is off.
SyncAt == work = "l2sync" \/ mac = "sync" => ~pci_running

\* A running device, or one that is about to be set running again, has its DMA
\* on, unless RESET_TRX has stopped it or L2_RESET is about to stop the device.
DmaAt ==
  up /\ pci_running /\ (running \/ work = "resume") /\ "nodma" \notin excuses =>
    \/ dma
    \/ state = "RESET_TRX" /\ ~(work = "resume" /\ goal = "DO_HCI")
    \/ state = "L2_RESET" /\ work \in {"lps", "in"}

\* A device that is closed, or that somebody other than drv_stop_rx stopped, is
\* off as far as the stops under way have got.
OffAt ==
  /\ excuses \cap {"stale", "halfway"} = {}
  /\ ~up \/ (~running /\ "STOP_RX" \notin flags)
  => /\ ~running
     /\ pci_running => mac = "stopped" \/ work = "l2stop"
     /\ fw # "off" => mac \in {"stopped", "sync"} \/ work \in {"l2stop", "l2sync"}

IInv == Values /\ Sets /\ Flags /\ GotoAt /\ StoppedAt /\ SyncAt /\ DmaAt /\ OffAt

------------------------------------------------------------------------------
(* The table of transitions: every state leads somewhere else.               *)
LEMMA TargetsOf ==
  ASSUME NEW s, NEW event, NEW t \in Targets(s, event)
  PROVE  \/ s = "IDLE" /\ t \in {"RESET_TRX", "L2_RESET"}
         \/ s = "RESET_TRX" /\ t \in {"DO_HCI", "L2_RESET"}
         \/ s = "DO_HCI" /\ t \in {"IDLE", "L2_RESET"}
         \/ s = "L2_RESET" /\ t = "IDLE"
<1>1. PICK r \in Transitions : r[1] = s /\ r[2] = event /\ r[3] = t
  BY DEF Targets
<1> QED
  BY <1>1 DEF Transitions

(* ser_send_msg: the queue holds messages only, whatever its length.         *)
LEMMA SendMsg ==
  ASSUME queue \in Seq(Messages), NEW m \in Messages, ser_send_msg(m)
  PROVE  queue' \in Seq(Messages)
<1>1. <<m>> \o queue \in Seq(Messages)
  OBVIOUS
<1> QED
  BY <1>1 DEF ser_send_msg

------------------------------------------------------------------------------
(* The open and idle device satisfies the invariant.                         *)
LEMMA InitIInv == Init => IInv
<1> SUFFICES ASSUME Init PROVE IInv
  OBVIOUS
<1>1. Values
  BY MaxErrorsAssumption DEF Init, Values, States, L2Stop, Alarms, Reports
<1>2. Sets /\ Flags
  BY DEF Init, Sets, Flags
<1>3. GotoAt /\ StoppedAt /\ SyncAt /\ DmaAt /\ OffAt
  BY DEF Init, GotoAt, Going, StoppedAt, SyncAt, DmaAt, OffAt, L2Stop
<1> QED
  BY <1>1, <1>2, <1>3 DEF IInv

(* Every step of the work queue, the interrupt, mac80211 and the firmware    *)
(* preserves it.                                                             *)
LEMMA NextIInv == IInv /\ [Next]_vars => IInv'
<1> SUFFICES ASSUME Values, Sets, Flags, GotoAt, StoppedAt, SyncAt, DmaAt, OffAt,
                    [Next]_vars
             PROVE  IInv'
  BY DEF IInv
<1>1. CASE Dequeue
  <2>1. Sets' /\ StoppedAt' /\ SyncAt'
    BY <1>1 DEF Dequeue, chip, host, Sets, StoppedAt, Going, SyncAt, Stopped
  <2>2. Flags'
    BY <1>1 DEF Dequeue, chip, host, Flags
  <2>3. DmaAt' /\ OffAt'
    BY <1>1 DEF Dequeue, chip, host, DmaAt, OffAt
  <2>4. Values'
    BY <1>1, TargetsOf DEF Dequeue, chip, host, Values, States,
            L2Stop, Alarms, Reports
  <2>5. GotoAt'
    BY <1>1, TargetsOf DEF Dequeue, chip, host, GotoAt, Going, L2Stop
  <2> QED
    BY <2>1, <2>2, <2>3, <2>4, <2>5 DEF IInv
<1>2. CASE LeaveLps
  <2>1. Values'
    BY <1>2 DEF LeaveLps, MutexFree, chip, host, Values, States, L2Stop, Alarms, Reports
  <2>2. Sets' /\ GotoAt' /\ StoppedAt' /\ SyncAt'
    BY <1>2 DEF LeaveLps, MutexFree, chip, host, Sets, GotoAt, Going, StoppedAt, SyncAt, Stopped, L2Stop
  <2>3. Flags'
    BY <1>2 DEF LeaveLps, MutexFree, chip, host, Flags
  <2>4. DmaAt' /\ OffAt'
    BY <1>2 DEF LeaveLps, MutexFree, chip, host, DmaAt, OffAt, GotoAt, Going, StoppedAt, L2Stop, Stopped
  <2> QED
    BY <2>1, <2>2, <2>3, <2>4 DEF IInv
<1>3. CASE LoopEnds
  <2>1. Values'
    BY <1>3 DEF LoopEnds, chip, host, Values, States, L2Stop, Alarms, Reports
  <2>2. Sets' /\ GotoAt' /\ StoppedAt' /\ SyncAt'
    BY <1>3 DEF LoopEnds, chip, host, Sets, GotoAt, Going, StoppedAt, SyncAt,
            Stopped, L2Stop
  <2>3. Flags'
    BY <1>3 DEF LoopEnds, chip, host, Flags
  <2>4. DmaAt' /\ OffAt'
    BY <1>3 DEF LoopEnds, chip, host, DmaAt, OffAt
  <2> QED
    BY <2>1, <2>2, <2>3, <2>4 DEF IInv
<1>4. CASE StateOut
  <2>1. Values'
    BY <1>4 DEF StateOut, recovery_mask, ser_del_alarm,
            hal_enable_dma, host, Values, States, L2Stop,
            Alarms, Reports
  <2>2. Sets' /\ GotoAt' /\ StoppedAt' /\ SyncAt'
    BY <1>4 DEF StateOut, recovery_mask, ser_del_alarm,
            hal_enable_dma, host, Sets, GotoAt, Going, StoppedAt,
            SyncAt, Stopped, L2Stop
  <2>3. Flags'
    BY <1>4 DEF StateOut, recovery_mask, ser_del_alarm,
            hal_enable_dma, host, Flags
  <2>4. OffAt'
    BY <1>4 DEF StateOut, recovery_mask, ser_del_alarm,
            hal_enable_dma, host, OffAt
  <2>5. DmaAt'
    BY <1>4 DEF StateOut, recovery_mask, ser_del_alarm,
            hal_enable_dma, host, DmaAt, GotoAt, Going, StoppedAt,
            L2Stop, Stopped
  <2> QED
    BY <2>1, <2>2, <2>3, <2>4, <2>5 DEF IInv
<1>5. CASE ResumeTraffic
  <2>1. Values'
    BY <1>5 DEF ResumeTraffic, chip, host, Values, States, L2Stop, Alarms, Reports
  <2>2. Sets' /\ GotoAt' /\ StoppedAt' /\ SyncAt'
    BY <1>5 DEF ResumeTraffic, chip, host, Sets, GotoAt, Going, StoppedAt, SyncAt, Stopped, L2Stop
  <2>3. Flags'
    BY <1>5 DEF ResumeTraffic, chip, host, Flags
  <2>4. DmaAt' /\ OffAt'
    BY <1>5 DEF ResumeTraffic, chip, host, DmaAt, OffAt, GotoAt, Going, StoppedAt, L2Stop, Stopped
  <2> QED
    BY <2>1, <2>2, <2>3, <2>4 DEF IInv
<1>6. CASE EnterIdle
  <2>1. Values'
    BY <1>6 DEF EnterIdle, recovery_mask, host, Values, States,
            L2Stop, Alarms, Reports
  <2>2. Sets' /\ GotoAt' /\ StoppedAt' /\ SyncAt'
    BY <1>6 DEF EnterIdle, recovery_mask, host, Sets, GotoAt, Going,
            StoppedAt, SyncAt, Stopped, L2Stop
  <2>3. Flags'
    BY <1>6 DEF EnterIdle, recovery_mask, host, Flags
  <2>4. DmaAt' /\ OffAt'
    BY <1>6 DEF EnterIdle, recovery_mask, host, DmaAt, OffAt
  <2> QED
    BY <2>1, <2>2, <2>3, <2>4 DEF IInv
<1>7. CASE EnterResetTrx
  <2>1. Values'
    BY <1>7 DEF EnterResetTrx, host, Values, States, L2Stop,
            Alarms, Reports
  <2>2. Sets' /\ GotoAt' /\ StoppedAt' /\ SyncAt'
    BY <1>7 DEF EnterResetTrx, host, Sets, GotoAt, Going, StoppedAt,
            SyncAt, Stopped, L2Stop
  <2>3. Flags'
    BY <1>7 DEF EnterResetTrx, host, Flags
  <2>4. DmaAt' /\ OffAt'
    BY <1>7 DEF EnterResetTrx, host, DmaAt, OffAt
  <2> QED
    BY <2>1, <2>2, <2>3, <2>4 DEF IInv
<1>8. CASE StopRx
  <2>1. Values'
    BY <1>8 DEF StopRx, host, Values, States, L2Stop, Alarms, Reports
  <2>2. Sets' /\ GotoAt' /\ StoppedAt' /\ SyncAt'
    BY <1>8 DEF StopRx, host, Sets, GotoAt, Going, StoppedAt, SyncAt, Stopped, L2Stop
  <2>3. Flags'
    BY <1>8 DEF StopRx, host, Flags
  <2>4. DmaAt' /\ OffAt'
    BY <1>8 DEF StopRx, host, DmaAt, OffAt, GotoAt, Going, StoppedAt, L2Stop, Stopped
  <2> QED
    BY <2>1, <2>2, <2>3, <2>4 DEF IInv
<1>9. CASE EnterDoHci
  <2>1. Values'
    BY <1>9 DEF EnterDoHci, host, Values, States, L2Stop, Alarms,
            Reports
  <2>2. Sets' /\ GotoAt' /\ StoppedAt' /\ SyncAt'
    BY <1>9 DEF EnterDoHci, host, Sets, GotoAt, Going, StoppedAt, SyncAt,
            Stopped, L2Stop
  <2>3. Flags'
    BY <1>9 DEF EnterDoHci, host, Flags
  <2>4. DmaAt' /\ OffAt'
    BY <1>9 DEF EnterDoHci, host, DmaAt, OffAt
  <2> QED
    BY <2>1, <2>2, <2>3, <2>4 DEF IInv
<1>10. CASE EnterL2Reset
  <2>1. Values'
    BY <1>10 DEF EnterL2Reset, MutexFree, CoreStopBegin, chip, host, Values,
            States, L2Stop, Alarms, Reports
  <2>2. Sets' /\ GotoAt' /\ StoppedAt' /\ SyncAt'
    BY <1>10 DEF EnterL2Reset, MutexFree, CoreStopBegin, chip, host, Sets,
            GotoAt, Going, StoppedAt, SyncAt, Stopped, L2Stop
  <2>3. Flags'
    BY <1>10 DEF EnterL2Reset, MutexFree, CoreStopBegin, chip, host, Flags
  <2>4. DmaAt' /\ OffAt'
    BY <1>10 DEF EnterL2Reset, MutexFree, CoreStopBegin, chip, host, DmaAt,
            OffAt
  <2> QED
    BY <2>1, <2>2, <2>3, <2>4 DEF IInv
<1>11. CASE L2StopIntr
  <2>1. Values'
    BY <1>11 DEF L2StopIntr, MutexFree, CoreStopIntr, host, Values, States,
            L2Stop, Alarms, Reports
  <2>2. Sets' /\ GotoAt' /\ StoppedAt' /\ SyncAt'
    BY <1>11 DEF L2StopIntr, MutexFree, CoreStopIntr, host, Sets, GotoAt, Going,
            StoppedAt, SyncAt, Stopped, L2Stop
  <2>3. Flags'
    BY <1>11 DEF L2StopIntr, MutexFree, CoreStopIntr, host, Flags
  <2>4. DmaAt' /\ OffAt'
    BY <1>11 DEF L2StopIntr, MutexFree, CoreStopIntr, host, DmaAt, OffAt
  <2> QED
    BY <2>1, <2>2, <2>3, <2>4 DEF IInv
<1>12. CASE L2StopEnd
  <2>1. Values'
    BY <1>12 DEF L2StopEnd, CoreStopEnd, host, Values, States, L2Stop, Alarms,
            Reports
  <2>2. Sets' /\ GotoAt' /\ StoppedAt' /\ SyncAt'
    BY <1>12 DEF L2StopEnd, CoreStopEnd, host, Sets, GotoAt, Going, StoppedAt, SyncAt,
            Stopped, L2Stop
  <2>3. Flags'
    BY <1>12 DEF L2StopEnd, CoreStopEnd, host, Flags
  <2>4. OffAt'
    BY <1>12 DEF L2StopEnd, CoreStopEnd, host, OffAt
  <2>5. DmaAt'
    BY <1>12 DEF L2StopEnd, CoreStopEnd, host, DmaAt, SyncAt
  <2> QED
    BY <2>1, <2>2, <2>3, <2>4, <2>5 DEF IInv
<1>13. CASE L2Restart
  <2>1. Values'
    BY <1>13 DEF L2Restart, chip, Values, States, L2Stop, Alarms, Reports
  <2>2. Sets' /\ GotoAt' /\ StoppedAt' /\ SyncAt'
    BY <1>13 DEF L2Restart, chip, Sets, GotoAt, Going, StoppedAt, SyncAt, Stopped,
            L2Stop
  <2>3. Flags'
    BY <1>13 DEF L2Restart, chip, Flags
  <2>4. DmaAt' /\ OffAt'
    BY <1>13 DEF L2Restart, chip, DmaAt, OffAt
  <2> QED
    BY <2>1, <2>2, <2>3, <2>4 DEF IInv
<1>14. CASE rtw89_ser_alarm_work
  <2>1. Sets' /\ GotoAt' /\ StoppedAt' /\ SyncAt'
    BY <1>14 DEF rtw89_ser_alarm_work, ser_send_msg, chip, host, Sets, GotoAt, Going,
            StoppedAt, SyncAt, Stopped, L2Stop
  <2>2. Flags'
    BY <1>14 DEF rtw89_ser_alarm_work, ser_send_msg, chip, host, Flags
  <2>3. DmaAt' /\ OffAt'
    BY <1>14 DEF rtw89_ser_alarm_work, ser_send_msg, chip, host, DmaAt, OffAt
  <2>4. Values'
    <3>1. queue' \in Seq(Messages)
      BY <1>14, SendMsg DEF rtw89_ser_alarm_work, Values, Messages
    <3> QED
      BY <1>14, <3>1 DEF rtw89_ser_alarm_work, Values, chip, host
  <2> QED
    BY <2>1, <2>2, <2>3, <2>4 DEF IInv
<1>15. CASE HardIrq
  <2>1. Values'
    BY <1>15 DEF HardIrq, ser, host, Values, States, L2Stop, Alarms, Reports
  <2>2. Sets' /\ GotoAt' /\ StoppedAt' /\ SyncAt'
    BY <1>15 DEF HardIrq, ser, host, Sets, GotoAt, Going, StoppedAt, SyncAt, Stopped,
            L2Stop
  <2>3. Flags'
    BY <1>15 DEF HardIrq, ser, host, Flags
  <2>4. DmaAt' /\ OffAt'
    BY <1>15 DEF HardIrq, ser, host, DmaAt, OffAt
  <2> QED
    BY <2>1, <2>2, <2>3, <2>4 DEF IInv
<1>16. CASE IrqThread
  <2>1. Sets' /\ GotoAt' /\ StoppedAt' /\ SyncAt'
    BY <1>16 DEF IrqThread, ser_send_msg, host, Sets, GotoAt, Going, StoppedAt,
            SyncAt, Stopped, L2Stop
  <2>2. Flags'
    BY <1>16 DEF IrqThread, ser_send_msg, host, Flags
  <2>3. DmaAt' /\ OffAt'
    BY <1>16 DEF IrqThread, ser_send_msg, host, DmaAt, OffAt
  <2>4. Values'
    <3>1. queue' \in Seq(Messages)
      BY <1>16, SendMsg DEF IrqThread, Values, Messages, Reports
    <3> QED
      BY <1>16, <3>1 DEF IrqThread, Values, host
  <2> QED
    BY <2>1, <2>2, <2>3, <2>4 DEF IInv
<1>17. CASE IrqBranch
  <2>1. Values'
    BY <1>17 DEF IrqBranch, ser, chip, host, Values, States, L2Stop, Alarms,
            Reports
  <2>2. Sets' /\ GotoAt' /\ StoppedAt' /\ SyncAt'
    BY <1>17 DEF IrqBranch, ser, chip, host, Sets, GotoAt, Going, StoppedAt, SyncAt,
            Stopped, L2Stop
  <2>3. Flags'
    BY <1>17 DEF IrqBranch, ser, chip, host, Flags
  <2>4. DmaAt' /\ OffAt'
    BY <1>17 DEF IrqBranch, ser, chip, host, DmaAt, OffAt
  <2> QED
    BY <2>1, <2>2, <2>3, <2>4 DEF IInv
<1>18. CASE IrqEnable
  <2>1. Values'
    BY <1>18 DEF IrqEnable, ser, host, Values, States, L2Stop, Alarms, Reports
  <2>2. Sets' /\ GotoAt' /\ StoppedAt' /\ SyncAt'
    BY <1>18 DEF IrqEnable, ser, host, Sets, GotoAt, Going, StoppedAt, SyncAt,
            Stopped, L2Stop
  <2>3. Flags'
    BY <1>18 DEF IrqEnable, ser, host, Flags
  <2>4. DmaAt' /\ OffAt'
    BY <1>18 DEF IrqEnable, ser, host, DmaAt, OffAt
  <2> QED
    BY <2>1, <2>2, <2>3, <2>4 DEF IInv
<1>19. CASE OpsStart
  <2>1. Values'
    BY <1>19 DEF OpsStart, MutexFree, Outcomes, rtw89_core_start, ser, Values,
            States, L2Stop, Alarms, Reports
  <2>2. Sets' /\ GotoAt' /\ StoppedAt' /\ SyncAt'
    BY <1>19 DEF OpsStart, MutexFree, Outcomes, rtw89_core_start, ser, Sets,
            GotoAt, Going, StoppedAt, SyncAt, Stopped, L2Stop
  <2>3. Flags'
    BY <1>19 DEF OpsStart, MutexFree, Outcomes, rtw89_core_start, ser, Flags
  <2>4. DmaAt' /\ OffAt'
    BY <1>19 DEF OpsStart, MutexFree, Outcomes, rtw89_core_start, ser, DmaAt,
            OffAt
  <2> QED
    BY <2>1, <2>2, <2>3, <2>4 DEF IInv
<1>20. CASE StopFlush
  <2>1. Values'
    BY <1>20 DEF StopFlush, WorkFlushed, ser, chip, Values, States, L2Stop,
            Alarms, Reports
  <2>2. Sets' /\ GotoAt' /\ StoppedAt' /\ SyncAt'
    BY <1>20 DEF StopFlush, WorkFlushed, ser, chip, Sets, GotoAt, Going, StoppedAt,
            SyncAt, Stopped, L2Stop
  <2>3. Flags'
    BY <1>20 DEF StopFlush, WorkFlushed, ser, chip, Flags
  <2>4. DmaAt' /\ OffAt'
    BY <1>20 DEF StopFlush, WorkFlushed, ser, chip, DmaAt, OffAt
  <2> QED
    BY <2>1, <2>2, <2>3, <2>4 DEF IInv
<1>21. CASE OpsStop
  <2>1. Values'
    BY <1>21 DEF OpsStop, MutexFree, CoreStopBegin, ser, chip, Values, States,
            L2Stop, Alarms, Reports
  <2>2. Sets' /\ GotoAt' /\ StoppedAt' /\ SyncAt'
    BY <1>21 DEF OpsStop, MutexFree, CoreStopBegin, ser, chip, Sets, GotoAt, Going,
            StoppedAt, SyncAt, Stopped, L2Stop
  <2>3. Flags'
    BY <1>21 DEF OpsStop, MutexFree, CoreStopBegin, ser, chip, Flags
  <2>4. DmaAt' /\ OffAt'
    BY <1>21 DEF OpsStop, MutexFree, CoreStopBegin, ser, chip, DmaAt, OffAt
  <2> QED
    BY <2>1, <2>2, <2>3, <2>4 DEF IInv
<1>22. CASE OpsStopIntr
  <2>1. Values'
    BY <1>22 DEF OpsStopIntr, MutexFree, CoreStopIntr, ser, Values, States,
            L2Stop, Alarms, Reports
  <2>2. Sets' /\ GotoAt' /\ StoppedAt' /\ SyncAt'
    BY <1>22 DEF OpsStopIntr, MutexFree, CoreStopIntr, ser, Sets, GotoAt, Going,
            StoppedAt, SyncAt, Stopped, L2Stop
  <2>3. Flags'
    BY <1>22 DEF OpsStopIntr, MutexFree, CoreStopIntr, ser, Flags
  <2>4. DmaAt' /\ OffAt'
    BY <1>22 DEF OpsStopIntr, MutexFree, CoreStopIntr, ser, DmaAt, OffAt
  <2> QED
    BY <2>1, <2>2, <2>3, <2>4 DEF IInv
<1>23. CASE OpsStopEnd
  <2>1. Values'
    BY <1>23 DEF OpsStopEnd, CoreStopEnd, ser, Values, States, L2Stop, Alarms,
            Reports
  <2>2. Sets' /\ GotoAt' /\ StoppedAt' /\ SyncAt'
    BY <1>23 DEF OpsStopEnd, CoreStopEnd, ser, Sets, GotoAt, Going, StoppedAt,
            SyncAt, Stopped, L2Stop
  <2>3. Flags'
    BY <1>23 DEF OpsStopEnd, CoreStopEnd, ser, Flags
  <2>4. OffAt'
    BY <1>23 DEF OpsStopEnd, CoreStopEnd, ser, OffAt
  <2>5. DmaAt'
    BY <1>23 DEF OpsStopEnd, CoreStopEnd, ser, DmaAt, SyncAt
  <2> QED
    BY <2>1, <2>2, <2>3, <2>4, <2>5 DEF IInv
<1>24. CASE RestartFlush
  <2>1. Values'
    BY <1>24 DEF RestartFlush, WorkFlushed, ser, chip, Values, States, L2Stop,
            Alarms, Reports
  <2>2. Sets' /\ GotoAt' /\ StoppedAt' /\ SyncAt'
    BY <1>24 DEF RestartFlush, WorkFlushed, ser, chip, Sets, GotoAt, Going,
            StoppedAt, SyncAt, Stopped, L2Stop
  <2>3. Flags'
    BY <1>24 DEF RestartFlush, WorkFlushed, ser, chip, Flags
  <2>4. DmaAt' /\ OffAt'
    BY <1>24 DEF RestartFlush, WorkFlushed, ser, chip, DmaAt, OffAt
  <2> QED
    BY <2>1, <2>2, <2>3, <2>4 DEF IInv
<1>25. CASE Reconfig
  <2>1. Values'
    BY <1>25 DEF Reconfig, MutexFree, Outcomes, rtw89_core_start, ser, Values,
            States, L2Stop, Alarms, Reports
  <2>2. Sets' /\ GotoAt' /\ StoppedAt' /\ SyncAt'
    BY <1>25 DEF Reconfig, MutexFree, Outcomes, rtw89_core_start, ser, Sets,
            GotoAt, Going, StoppedAt, SyncAt, Stopped, L2Stop
  <2>3. Flags'
    BY <1>25 DEF Reconfig, MutexFree, Outcomes, rtw89_core_start, ser, Flags
  <2>4. DmaAt' /\ OffAt'
    BY <1>25 DEF Reconfig, MutexFree, Outcomes, rtw89_core_start, ser, DmaAt,
            OffAt
  <2> QED
    BY <2>1, <2>2, <2>3, <2>4 DEF IInv
<1>26. CASE ReconfigComplete
  <2>1. Sets' /\ GotoAt' /\ StoppedAt' /\ SyncAt'
    BY <1>26 DEF ReconfigComplete, ser_send_msg, chip, Sets, GotoAt, Going,
            StoppedAt, SyncAt, Stopped, L2Stop
  <2>2. Flags'
    BY <1>26 DEF ReconfigComplete, ser_send_msg, chip, Flags
  <2>3. DmaAt' /\ OffAt'
    BY <1>26 DEF ReconfigComplete, ser_send_msg, chip, DmaAt, OffAt
  <2>4. Values'
    <3>1. queue' \in Seq(Messages)
      BY <1>26, SendMsg DEF ReconfigComplete, Values, Messages
    <3> QED
      BY <1>26, <3>1 DEF ReconfigComplete, Values, chip
  <2> QED
    BY <2>1, <2>2, <2>3, <2>4 DEF IInv
<1>27. CASE FwError
  <2>1. Sets' /\ GotoAt' /\ StoppedAt' /\ SyncAt'
    BY <1>27 DEF FwError, Report, ser, host, Sets, GotoAt, Going, StoppedAt, SyncAt,
            Stopped, L2Stop
  <2>2. Flags'
    BY <1>27 DEF FwError, Report, ser, host, Flags
  <2>3. DmaAt' /\ OffAt'
    BY <1>27 DEF FwError, Report, ser, host, DmaAt, OffAt
  <2>4. Values'
    BY <1>27, MaxErrorsAssumption DEF FwError, Report, ser, host, Values,
            States, L2Stop, Alarms, Reports
  <2> QED
    BY <2>1, <2>2, <2>3, <2>4 DEF IInv
<1>28. CASE FwAnswers
  <2>1. Values'
    BY <1>28 DEF FwAnswers, Report, ser, host, Values, States, L2Stop, Alarms,
            Reports
  <2>2. Sets' /\ GotoAt' /\ StoppedAt' /\ SyncAt'
    BY <1>28 DEF FwAnswers, Report, ser, host, Sets, GotoAt, Going, StoppedAt,
            SyncAt, Stopped, L2Stop
  <2>3. Flags'
    BY <1>28 DEF FwAnswers, Report, ser, host, Flags
  <2>4. DmaAt' /\ OffAt'
    BY <1>28 DEF FwAnswers, Report, ser, host, DmaAt, OffAt
  <2> QED
    BY <2>1, <2>2, <2>3, <2>4 DEF IInv
<1>29. CASE UNCHANGED vars
  <2>1. Values'
    BY <1>29 DEF vars, ser, chip, host, Values, States, L2Stop, Alarms,
            Reports
  <2>2. Sets' /\ GotoAt' /\ StoppedAt' /\ SyncAt'
    BY <1>29 DEF vars, ser, chip, host, Sets, GotoAt, Going, StoppedAt, SyncAt,
            Stopped, L2Stop
  <2>3. Flags'
    BY <1>29 DEF vars, ser, chip, host, Flags
  <2>4. DmaAt' /\ OffAt'
    BY <1>29 DEF vars, ser, chip, host, DmaAt, OffAt
  <2> QED
    BY <2>1, <2>2, <2>3, <2>4 DEF IInv
<1> QED
  BY <1>1, <1>2, <1>3, <1>4, <1>5, <1>6, <1>7, <1>8, <1>9, <1>10, <1>11, <1>12,
     <1>13, <1>14, <1>15, <1>16, <1>17, <1>18, <1>19, <1>20, <1>21, <1>22, <1>23,
     <1>24, <1>25, <1>26, <1>27, <1>28, <1>29 DEF Next, Handler, Interrupt,
     Mac80211

(* The inductive invariant holds in every reachable state.                   *)
LEMMA Invariance == Spec => []IInv
  BY InitIInv, NextIInv, PTL DEF Spec

------------------------------------------------------------------------------
(* Type correctness of the recovery: ser.c only ever queues the messages     *)
(* that its states know, and goes to the states it has.                      *)
THEOREM TypeCorrect == Spec => [](Values /\ Sets /\ Flags)
<1>1. IInv => Values /\ Sets /\ Flags
  BY DEF IInv
<1> QED
  BY <1>1, Invariance, PTL

(* When ser_state_goto is back in IDLE nothing is left stopped, for any      *)
(* number of errors and any length of the message queue.                     *)
THEOREM NothingLeftStopped == Spec => []TrafficResumes
<1>1. IInv => TrafficResumes
  BY DEF IInv, StoppedAt, DmaAt, TrafficResumes
<1> QED
  BY <1>1, Invariance, PTL

(* A device that mac80211 has closed is off, whichever of rtw89_core_stop's  *)
(* two callers stopped it, unless RTW89_FLAG_RUNNING was wrong.              *)
THEOREM ClosedIsOff == Spec => []DownIsOff
<1>1. IInv => DownIsOff
  BY DEF IInv, OffAt, DownIsOff
<1> QED
  BY <1>1, Invariance, PTL

(* The fair specification, which the runs check, has them as well.           *)
COROLLARY FairSafety == FairSpec => []TrafficResumes /\ []DownIsOff
  BY NothingLeftStopped, ClosedIsOff, PTL DEF FairSpec

------------------------------------------------------------------------------
(***************************************************************************)
(* Messages and alarms.  WaitIsBounded has to be said of a state that      *)
(* drops a message too; ErrorPending needs to know where an unanswered     *)
(* error is while the work queue is not at rest.                           *)
(***************************************************************************)

\* A state that waits, or has taken a message that it will drop, has its time-out.
WaitAt ==
  /\ work \in {"idle", "loop"} \/ (work = "msg" /\ goal = state)
  /\ "lost" \notin excuses
  => /\ state = "RESET_TRX" => TimesOut("M3_TIMEOUT")
     /\ state = "DO_HCI"    => TimesOut("FW_M5_TIMEOUT")
     /\ state = "L2_RESET"  => TimesOut("L2_RECFG_TIMEOUT")

\* Nothing has kept the report of an error from being answered.
Heard == excuses \cap {"overtaken", "lost", "deaf"} = {}

\* Once the report of an unanswered error has left the mailbox, the queue holds
\* no answer of the firmware from before it.
MailboxAt ==
  fw = "m2" /\ Heard /\ c2h # "L1_RESET" =>
    c2h = "NONE" /\ ~Queued("DO_RECOVERY") /\ ~Queued("MAC_RESET_DONE")

\* An unanswered error of a running device is reported, or on a way that leads to
\* M2 or to a reset of the device.
ErrorAt ==
  fw = "m2" /\ Heard /\ up /\ running =>
    \/ c2h = "L1_RESET" \/ Queued("L1_RESET")
    \/ Going /\ goal # "IDLE"
    \/ ~Going /\ state \in {"RESET_TRX", "DO_HCI"}
    \/ state = "L2_RESET" /\ work \in {"lps", "in"}

ReportInv == MailboxAt /\ ErrorAt

(* A message that is sent goes before the others ...                         *)
LEMMA Sent ==
  ASSUME queue \in Seq(Messages), NEW m \in Messages, queue' = <<m>> \o queue
  PROVE  \A e : Queued(e)' <=> e = m \/ Queued(e)
<1>1. Len(queue') = Len(queue) + 1 /\ queue'[1] = m
  OBVIOUS
<1>2. \A i \in 1 .. Len(queue) : queue'[i + 1] = queue[i]
  OBVIOUS
<1>3. ASSUME NEW e, Queued(e) PROVE Queued(e)'
  <2>1. PICK i \in 1 .. Len(queue) : queue[i] = e
    BY <1>3 DEF Queued
  <2>2. i + 1 \in 1 .. Len(queue') /\ queue'[i + 1] = e
    BY <1>1, <1>2, <2>1
  <2> QED
    BY <2>2 DEF Queued
<1>4. Queued(m)'
  <2>1. 1 \in 1 .. Len(queue')
    BY <1>1
  <2> QED
    BY <1>1, <2>1 DEF Queued
<1>5. ASSUME NEW e, Queued(e)' PROVE e = m \/ Queued(e)
  <2>1. PICK i \in 1 .. Len(queue') : queue'[i] = e
    BY <1>5 DEF Queued
  <2>2. CASE i # 1
    <3>1. i - 1 \in 1 .. Len(queue) /\ queue[i - 1] = e
      BY <1>1, <1>2, <2>1, <2>2
    <3> QED
      BY <3>1 DEF Queued
  <2> QED
    BY <1>1, <2>1, <2>2
<1> QED
  BY <1>3, <1>4, <1>5

(* ... and the first is the one that the message loop takes.                 *)
LEMMA Taken ==
  ASSUME queue \in Seq(Messages), queue # << >>, queue' = Tail(queue)
  PROVE  \A e : (Queued(e)' => Queued(e)) /\ (Queued(e) => Queued(e)' \/ e = Head(queue))
<1>1. Len(queue') = Len(queue) - 1 /\ Len(queue) \in Nat \ {0}
  OBVIOUS
<1>2. \A i \in 1 .. Len(queue') : queue'[i] = queue[i + 1]
  OBVIOUS
<1>3. ASSUME NEW e, Queued(e)' PROVE Queued(e)
  <2>1. PICK i \in 1 .. Len(queue') : queue'[i] = e
    BY <1>3 DEF Queued
  <2>2. i + 1 \in 1 .. Len(queue) /\ queue[i + 1] = e
    BY <1>1, <1>2, <2>1
  <2> QED
    BY <2>2 DEF Queued
<1>4. ASSUME NEW e, Queued(e) PROVE Queued(e)' \/ e = Head(queue)
  <2>1. PICK i \in 1 .. Len(queue) : queue[i] = e
    BY <1>4 DEF Queued
  <2>2. CASE i # 1
    <3>1. i - 1 \in 1 .. Len(queue') /\ queue'[i - 1] = e
      BY <1>1, <1>2, <2>1, <2>2
    <3> QED
      BY <3>1 DEF Queued
  <2> QED
    BY <2>1, <2>2
<1> QED
  BY <1>3, <1>4

(* What ser_send_msg means for the messages and for the excuses.             *)
LEMMA Sends ==
  ASSUME queue \in Seq(Messages), NEW m \in Messages, ser_send_msg(m)
  PROVE  /\ \A e : Queued(e) => Queued(e)'
         /\ \A e : Queued(e)' => e = m \/ Queued(e)
         /\ Queued(m)' \/ "lost" \in excuses'
         /\ (\A e : ~Queued(e)) \/ "overtaken" \in excuses' \/ "lost" \in excuses'
         /\ excuses \subseteq excuses'
<1>1. CASE queue' = <<m>> \o queue
            /\ excuses' = excuses \cup (IF queue = << >> THEN {} ELSE {"overtaken"})
  <2>1. queue = << >> => \A e : ~Queued(e)
    BY DEF Queued
  <2> QED
    BY <1>1, <2>1, Sent
<1>2. CASE queue' = queue /\ excuses' = excuses \cup {"lost"}
  BY <1>2 DEF Queued
<1> QED
  BY <1>1, <1>2 DEF ser_send_msg

(* Each state of the recovery knows its time-out.                            *)
LEMMA Answers ==
  /\ "L2_RESET" \in Targets("RESET_TRX", "M3_TIMEOUT")
  /\ "L2_RESET" \in Targets("DO_HCI", "FW_M5_TIMEOUT")
  /\ "IDLE" \in Targets("L2_RESET", "L2_RECFG_TIMEOUT")
  /\ "RESET_TRX" \in Targets("IDLE", "L1_RESET")
  /\ \A t \in Targets("IDLE", "L1_RESET") : t = "RESET_TRX"
  /\ \A e : "IDLE" \in Targets("DO_HCI", e) => e = "MAC_RESET_DONE"
  /\ \A e : Targets("L2_RESET", e) # {} => e # "L1_RESET"
<1>1. \A s, e, t : <<s, e, t>> \in Transitions => t \in Targets(s, e)
  <2> TAKE s, e, t
  <2> DEFINE r == <<s, e, t>>
  <2>1. r[1] = s /\ r[2] = e /\ r[3] = t
    OBVIOUS
  <2> QED
    BY <2>1, Zenon DEF Targets
<1>2. \A s, e, t : t \in Targets(s, e) => <<s, e, t>> \in Transitions
  <2> TAKE s, e, t
  <2> HAVE t \in Targets(s, e)
  <2>1. PICK r \in Transitions : r[1] = s /\ r[2] = e /\ r[3] = t
    BY DEF Targets
  <2>2. r = <<r[1], r[2], r[3]>>
    BY DEF Transitions
  <2> QED
    BY <2>1, <2>2
<1> QED
  BY <1>1, <1>2 DEF Transitions

(* No step takes its time-out from a state that waits.                       *)
LEMMA NextWait == IInv /\ WaitAt /\ [Next]_vars => WaitAt'
<1> SUFFICES ASSUME Values, GotoAt, WaitAt, [Next]_vars
             PROVE  WaitAt'
  BY DEF IInv
<1> USE DEF WaitAt, TimesOut
<1>1. CASE rtw89_ser_alarm_work
  <2>1. PICK m : m = alarm
    OBVIOUS
  <2>2. m \in Messages /\ ser_send_msg(m) /\ UNCHANGED <<state, work, goal>>
    BY <1>1, <2>1 DEF rtw89_ser_alarm_work, Values, Messages
  <2>3. /\ \A e : Queued(e) => Queued(e)'
        /\ Queued(m)' \/ "lost" \in excuses'
        /\ excuses \subseteq excuses'
    BY <2>2, Sends DEF Values
  <2> QED
    BY <2>1, <2>2, <2>3
<1>2. CASE Dequeue
  <2>1. PICK event : event = Head(queue)
    OBVIOUS
  <2>2. /\ queue # << >> /\ queue' = Tail(queue) /\ UNCHANGED <<state, alarm>>
        /\ excuses \subseteq excuses' /\ work \in {"idle", "loop"}
        /\ work' = "msg"
    BY <1>2 DEF Dequeue
  <2>3. \A e : Queued(e) => Queued(e)' \/ e = event
    BY <2>1, <2>2, Taken DEF Values
  <2>4. goal' = state => Targets(state, event) = {}
    <3>1. goal' \in IF Targets(state, event) = {} THEN {state} ELSE Targets(state, event)
      BY <1>2, <2>1 DEF Dequeue
    <3> QED
      BY <3>1, TargetsOf
  <2> QED
    BY <2>2, <2>3, <2>4, Answers
<1>3. CASE \/ LeaveLps \/ LoopEnds \/ StateOut \/ ResumeTraffic \/ EnterIdle
           \/ EnterL2Reset \/ L2StopIntr \/ L2StopEnd
  BY <1>3 DEF LeaveLps, LoopEnds, StateOut, ResumeTraffic, EnterIdle, EnterL2Reset,
     L2StopIntr, L2StopEnd, Queued
<1>4. CASE EnterResetTrx \/ StopRx \/ EnterDoHci
  BY <1>4 DEF EnterResetTrx, StopRx, EnterDoHci, GotoAt
<1>5. CASE L2Restart
  BY <1>5 DEF L2Restart, GotoAt, L2Stop
<1>6. CASE IrqThread
  <2>1. CASE c2h = "NONE"
    BY <1>6, <2>1 DEF IrqThread, Queued
  <2>2. CASE c2h # "NONE"
    <3>1. c2h \in Messages /\ ser_send_msg(c2h) /\ UNCHANGED <<state, work, goal, alarm>>
      BY <1>6, <2>2 DEF IrqThread, Values, Messages
    <3>2. (\A e : Queued(e) => Queued(e)') /\ excuses \subseteq excuses'
      BY <3>1, Sends DEF Values
    <3> QED
      BY <3>1, <3>2
  <2> QED
    BY <2>1, <2>2
<1>7. CASE ReconfigComplete
  <2>1. /\ "L2_RECFG_DONE" \in Messages /\ ser_send_msg("L2_RECFG_DONE")
        /\ UNCHANGED <<state, work, goal, alarm>>
    BY <1>7 DEF ReconfigComplete, Messages
  <2>2. (\A e : Queued(e) => Queued(e)') /\ excuses \subseteq excuses'
    BY <2>1, Sends DEF Values
  <2> QED
    BY <2>1, <2>2
<1>8. CASE OpsStart \/ Reconfig
  <2>1. UNCHANGED ser
    BY <1>8 DEF OpsStart, Reconfig
  <2>2. "lost" \in excuses => "lost" \in excuses'
    BY <1>8 DEF OpsStart, Reconfig, rtw89_core_start
  <2> QED
    BY <2>1, <2>2 DEF ser, Queued
<1>9. CASE \/ HardIrq \/ IrqBranch \/ IrqEnable \/ StopFlush \/ OpsStop \/ OpsStopIntr
           \/ OpsStopEnd \/ RestartFlush \/ FwError \/ FwAnswers \/ UNCHANGED vars
  <2>1. UNCHANGED ser /\ excuses \subseteq excuses'
    BY <1>9 DEF HardIrq, IrqBranch, IrqEnable, StopFlush, OpsStop, OpsStopIntr,
       OpsStopEnd, RestartFlush, FwError, FwAnswers, vars
  <2> QED
    BY <2>1 DEF ser, Queued
<1> QED
  BY <1>1, <1>2, <1>3, <1>4, <1>5, <1>6, <1>7, <1>8, <1>9
     DEF Next, Handler, Interrupt, Mac80211

(* Every state of ser.c that waits has its own time-out armed or queued, for *)
(* any number of errors and a queue of any length, unless a message was      *)
(* lost.                                                                     *)
THEOREM WaitsAreBounded == Spec => []WaitIsBounded
<1>1. Init => WaitAt
  BY DEF Init, WaitAt
<1>2. WaitAt => WaitIsBounded
  BY DEF WaitAt, WaitIsBounded
<1> QED
  BY <1>1, <1>2, NextWait, Invariance, PTL DEF Spec

(* A message that does not go wrong meets an empty queue; the others on the  *)
(* way of an error stay where they are.                                      *)
LEMMA SendReport ==
  ASSUME queue \in Seq(Messages), NEW m \in Messages, ser_send_msg(m), ReportInv,
         m \notin Reports, UNCHANGED <<state, work, goal, c2h, fw, up, running>>
  PROVE  ReportInv'
<1>1. /\ \A e : Queued(e) => Queued(e)'
      /\ \A e : Queued(e)' => e = m \/ Queued(e)
      /\ excuses \subseteq excuses'
  BY Sends
<1>2. Heard' => Heard
  BY <1>1 DEF Heard
<1>3. m # "DO_RECOVERY" /\ m # "MAC_RESET_DONE"
  BY DEF Reports
<1>4. MailboxAt'
  BY <1>1, <1>2, <1>3 DEF ReportInv, MailboxAt
<1>5. ErrorAt'
  BY <1>1, <1>2 DEF ReportInv, ErrorAt, Going
<1> QED
  BY <1>4, <1>5 DEF ReportInv

(* No step forgets an unanswered error.                                      *)
LEMMA NextReport == IInv /\ ReportInv /\ [Next]_vars => ReportInv'
<1> SUFFICES ASSUME Values, GotoAt, ReportInv, [Next]_vars
             PROVE  ReportInv'
  BY DEF IInv
<1>1. CASE rtw89_ser_alarm_work
  <2>1. PICK m : m = alarm
    OBVIOUS
  <2>2. /\ m \in Messages /\ m \notin Reports /\ ser_send_msg(m)
        /\ UNCHANGED <<state, work, goal, c2h, fw, up, running>>
    BY <1>1, <2>1 DEF rtw89_ser_alarm_work, Values, Messages, Alarms, Reports, chip, host
  <2> QED
    BY <2>2, SendReport DEF Values
<1>2. CASE ReconfigComplete
  <2>1. PICK m : m = "L2_RECFG_DONE"
    OBVIOUS
  <2>2. /\ m \in Messages /\ m \notin Reports /\ ser_send_msg(m)
        /\ UNCHANGED <<state, work, goal, c2h, fw, up, running>>
    BY <1>2, <2>1 DEF ReconfigComplete, Messages, Reports, chip
  <2> QED
    BY <2>2, SendReport DEF Values
<1>3. CASE IrqThread
  <2>1. irq' = "branch" /\ c2h' = "NONE" /\ UNCHANGED <<state, work, goal, fw, up, running>>
    BY <1>3 DEF IrqThread, host
  <2>2. CASE c2h = "NONE"
    <3>1. UNCHANGED <<queue, excuses>>
      BY <1>3, <2>2 DEF IrqThread
    <3> QED
      BY <2>1, <2>2, <3>1 DEF ReportInv, MailboxAt, ErrorAt, Going, Heard, Queued
  <2>3. CASE c2h # "NONE"
    <3>1. PICK m : m = c2h
      OBVIOUS
    <3>2. m \in Messages /\ ser_send_msg(m)
      BY <1>3, <2>3, <3>1 DEF IrqThread, Values, Messages
    <3>3. /\ \A e : Queued(e)' => e = m \/ Queued(e)
          /\ Queued(m)' \/ "lost" \in excuses'
          /\ (\A e : ~Queued(e)) \/ "overtaken" \in excuses' \/ "lost" \in excuses'
          /\ excuses \subseteq excuses'
      BY <3>2, Sends DEF Values
    <3>4. Heard' => Heard /\ Queued(m)' /\ \A e : ~Queued(e)
      BY <3>3 DEF Heard
    <3>5. fw = "m2" /\ Heard => m = "L1_RESET"
      BY <2>3, <3>1 DEF ReportInv, MailboxAt
    <3>6. MailboxAt'
      BY <2>1, <3>3, <3>4, <3>5 DEF MailboxAt
    <3>7. ErrorAt'
      BY <2>1, <3>4, <3>5 DEF ErrorAt
    <3> QED
      BY <3>6, <3>7 DEF ReportInv
  <2> QED
    BY <2>2, <2>3
<1>4. CASE Dequeue
  <2>1. PICK event : event = Head(queue)
    OBVIOUS
  <2>2. /\ queue # << >> /\ queue' = Tail(queue) /\ work \in {"idle", "loop"}
        /\ UNCHANGED <<state, c2h, fw, up, running>> /\ excuses \subseteq excuses'
    BY <1>4 DEF Dequeue, chip, host
  <2>3. /\ work' = "msg"
        /\ goal' \in IF Targets(state, event) = {} THEN {state} ELSE Targets(state, event)
    BY <1>4, <2>1 DEF Dequeue
  <2>4. state = "L2_RESET" /\ event = "L1_RESET" => "deaf" \in excuses'
    BY <1>4, <2>1 DEF Dequeue
  <2>5. \A e : (Queued(e)' => Queued(e)) /\ (Queued(e) => Queued(e)' \/ e = event)
    BY <2>1, <2>2, Taken DEF Values
  <2>6. Queued(event)
    <3>1. 1 \in 1 .. Len(queue) /\ queue[1] = event
      BY <2>1, <2>2 DEF Values
    <3> QED
      BY <3>1 DEF Queued
  <2>7. Heard' => Heard /\ ~(state = "L2_RESET" /\ event = "L1_RESET")
    BY <2>2, <2>4 DEF Heard
  <2>8. MailboxAt'
    BY <2>2, <2>5, <2>7 DEF ReportInv, MailboxAt
  <2>9. ErrorAt'
    <3> SUFFICES ASSUME fw = "m2", Heard, up, running, c2h # "L1_RESET", ~Queued("L1_RESET")',
                        ~(state = "L2_RESET" /\ event = "L1_RESET")
                 PROVE  \/ goal' # state /\ goal' # "IDLE"
                        \/ goal' = state /\ state \in {"RESET_TRX", "DO_HCI"}
      BY <2>2, <2>3, <2>7 DEF ErrorAt, Going
    <3>1. event # "MAC_RESET_DONE"
      BY <2>6 DEF ReportInv, MailboxAt
    <3>2. CASE state \in {"RESET_TRX", "DO_HCI"}
      <4>1. goal' \in Targets(state, event) => goal' # "IDLE"
        BY <3>1, <3>2, TargetsOf, Answers
      <4> QED
        BY <2>3, <3>2, <4>1
    <3>3. CASE state \notin {"RESET_TRX", "DO_HCI"}
      <4>1. Queued("L1_RESET")
        BY <2>2, <3>3 DEF ReportInv, ErrorAt, Going
      <4>2. event = "L1_RESET" /\ state = "IDLE"
        BY <2>5, <3>3, <4>1 DEF Values, States
      <4> QED
        BY <2>3, <4>2, Answers
    <3> QED
      BY <3>2, <3>3
  <2> QED
    BY <2>8, <2>9 DEF ReportInv
<1>5. CASE \/ LeaveLps \/ LoopEnds \/ StateOut \/ ResumeTraffic \/ EnterIdle
           \/ EnterResetTrx \/ EnterDoHci \/ EnterL2Reset \/ L2StopIntr \/ L2Restart
  <2>1. UNCHANGED <<queue, c2h, up>> /\ excuses \subseteq excuses'
        /\ (fw' = "m2" => fw = "m2")
    BY <1>5 DEF LeaveLps, LoopEnds, StateOut, ResumeTraffic, EnterIdle, EnterResetTrx,
       EnterDoHci, EnterL2Reset, L2StopIntr, L2Restart, chip, host, hal_enable_dma
  <2>2. (\A e : Queued(e)' <=> Queued(e)) /\ (Heard' => Heard)
    BY <2>1 DEF Queued, Heard
  <2>3. MailboxAt'
    BY <2>1, <2>2 DEF ReportInv, MailboxAt
  <2>4. ErrorAt'
    <3> SUFFICES ASSUME fw = "m2", Heard, up, running', c2h # "L1_RESET", ~Queued("L1_RESET")
                 PROVE  \/ Going' /\ goal' # "IDLE"
                        \/ ~Going' /\ state' \in {"RESET_TRX", "DO_HCI"}
                        \/ state' = "L2_RESET" /\ work' \in {"lps", "in"}
      BY <2>1, <2>2 DEF ErrorAt
    <3>1. running => \/ Going /\ goal # "IDLE"
                     \/ ~Going /\ state \in {"RESET_TRX", "DO_HCI"}
                     \/ state = "L2_RESET" /\ work \in {"lps", "in"}
      BY DEF ReportInv, ErrorAt
    <3>2. CASE StateOut
      <4>1. /\ work = "out" /\ goal' = goal /\ running' = running /\ goal # state
            /\ \/ state = "RESET_TRX" /\ work' = "resume" /\ state' = state
               \/ work' = "lps" /\ state' = goal
        BY <3>2 DEF StateOut, GotoAt
      <4> QED
        BY <3>1, <4>1 DEF GotoAt, Going, Values, States
    <3>3. CASE ResumeTraffic
      BY <3>3 DEF ResumeTraffic, GotoAt, Going
    <3>4. CASE LeaveLps \/ LoopEnds \/ EnterIdle \/ L2StopIntr \/ L2Restart
      BY <3>1, <3>4 DEF LeaveLps, LoopEnds, EnterIdle, L2StopIntr, L2Restart, GotoAt,
         Going, L2Stop
    <3>5. CASE EnterResetTrx \/ EnterDoHci \/ EnterL2Reset
      BY <3>5 DEF EnterResetTrx, EnterDoHci, EnterL2Reset, CoreStopBegin, Going
    <3> QED
      BY <1>5, <3>2, <3>3, <3>4, <3>5
  <2> QED
    BY <2>3, <2>4 DEF ReportInv
<1>6. CASE StopRx \/ L2StopEnd \/ OpsStart \/ OpsStopEnd \/ Reconfig \/ FwAnswers
  <2>1. fw' # "m2"
    BY <1>6 DEF StopRx, L2StopEnd, OpsStart, OpsStopEnd, Reconfig, FwAnswers, CoreStopEnd,
       rtw89_core_start
  <2> QED
    BY <2>1 DEF ReportInv, MailboxAt, ErrorAt
<1>7. CASE FwError
  <2>1. fw' = "m2" => c2h' = "L1_RESET"
    BY <1>7 DEF FwError, Report
  <2> QED
    BY <2>1 DEF ReportInv, MailboxAt, ErrorAt
<1>8. CASE OpsStop
  <2>1. up' = FALSE /\ UNCHANGED <<queue, fw, c2h>> /\ excuses \subseteq excuses'
    BY <1>8 DEF OpsStop, ser, chip
  <2> QED
    BY <2>1 DEF ReportInv, MailboxAt, ErrorAt, Going, Heard, Queued
<1>9. CASE \/ HardIrq \/ IrqBranch \/ IrqEnable \/ StopFlush \/ OpsStopIntr
           \/ RestartFlush \/ UNCHANGED vars
  <2>1. UNCHANGED <<state, work, goal, queue, fw, c2h, up, running, excuses>>
    BY <1>9 DEF HardIrq, IrqBranch, IrqEnable, StopFlush, OpsStopIntr, RestartFlush,
       CoreStopIntr, vars, ser, chip, host
  <2> QED
    BY <2>1 DEF ReportInv, MailboxAt, ErrorAt, Going, Heard, Queued
<1> QED
  BY <1>1, <1>2, <1>3, <1>4, <1>5, <1>6, <1>7, <1>8, <1>9
     DEF Next, Handler, Interrupt, Mac80211

(* A device that runs and is at rest has the report of an unanswered error   *)
(* in the mailbox or in the queue, for any number of errors and a queue of   *)
(* any length.                                                               *)
THEOREM ErrorsStayPending == Spec => []ErrorPending
<1>1. Init => ReportInv
  BY DEF Init, ReportInv, MailboxAt, ErrorAt
<1>2. ReportInv => ErrorPending
  BY DEF ReportInv, ErrorAt, Going, ErrorPending, Heard
<1> QED
  BY <1>1, <1>2, NextReport, Invariance, PTL DEF Spec

==============================================================================
