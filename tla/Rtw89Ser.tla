------------------------------- MODULE Rtw89Ser -------------------------------
(***************************************************************************)
(* System error recovery (SER) of the Wi-Fi driver rtw89: ser.c with the   *)
(* interrupt path of pci.c and the start and stop of core.c it relies on.  *)
(*                                                                         *)
(* A level-1 error is a handshake with the firmware: M1 (error), M2 (DMA   *)
(* stopped), M3 (do recovery), M4 (go on), M5 (done).  A step that is not  *)
(* answered within a second, and a level-2 error, lead to a full restart   *)
(* through mac80211.  Four actors meet: the interrupt with its thread, the *)
(* ordered work queue (message handler and alarm), mac80211 under its      *)
(* lock, and the firmware.  The message queue is last-in first-out.        *)
(***************************************************************************)
EXTENDS Naturals, Sequences

CONSTANT MaxErrors        \* bound: the errors the firmware reports

ASSUME MaxErrorsAssumption == MaxErrors \in Nat

VARIABLES
  state,          \* ser->state
  work,           \* where the work queue is: "idle", or inside ser_hdl_work
  goal,           \* new_state of the ser_state_goto under way
  queue,          \* ser->msg_q, first entry first
  alarm,          \* ser->alarm_event, armed, or "NONE"
  flags,          \* ser->flags: what the recovery has stopped
  running,        \* RTW89_FLAG_RUNNING of the device
  pci_running,    \* rtwpci->running
  under_recovery, \* rtwpci->under_recovery
  imr,            \* the chip's interrupts are enabled
  dma,            \* the DMA channels are on
  irq,            \* the interrupt thread
  c2h,            \* the error mailbox of the firmware, or "NONE"
  fw,             \* the firmware: "ok", or the message it waits for
  up,             \* mac80211 has the device open
  mac,            \* where mac80211 is, under the RTNL lock
  restart,        \* restart_work of mac80211 is pending
  errors,         \* number of errors so far
  excuses         \* history: what went wrong outside the handshake

ser   == <<state, work, goal, queue, alarm, flags>>
chip  == <<imr, dma, fw, c2h>>
host  == <<up, mac, restart>>
vars  == <<ser, running, pci_running, under_recovery, chip, irq, host, errors, excuses>>

\* rtwdev->mutex: ser_state_run takes it for a moment before each state function,
\* which then runs without it; core_start and the second half of core_stop hold it.
MutexFree == work # "l2sync" /\ mac # "sync"

------------------------------------------------------------------------------
(* Messages.                                                                 *)

\* ser_send_msg: list_add puts the message before the older ones; without
\* memory for it the message is lost.
ser_send_msg(event) ==
  \/ /\ queue' = <<event>> \o queue
     /\ excuses' = excuses \cup (IF queue = <<>> THEN {} ELSE {"overtaken"})
  \/ /\ queue' = queue
     /\ excuses' = excuses \cup {"lost"}

\* rtw89_ser_alarm_work, on the ordered work queue.
rtw89_ser_alarm_work ==
  /\ work = "idle" /\ alarm # "NONE"
  /\ ser_send_msg(alarm)
  /\ alarm' = "NONE"
  /\ UNCHANGED <<state, work, goal, flags, running, pci_running, under_recovery,
                 chip, irq, host, errors>>

------------------------------------------------------------------------------
(* Stop and start of the device (core.c).                                    *)

\* rtw89_core_start with the PCI start: a power cycle, a firmware download and
\* the interrupts.  A failure in mac_init leaves the power off, one of the radio
\* leaves it on.
rtw89_core_start(outcome) ==
  /\ c2h' = "NONE"
  /\ IF outcome = "ok"
       THEN /\ fw' = "ok" /\ dma' = TRUE /\ imr' = TRUE
            /\ pci_running' = TRUE /\ running' = TRUE
            /\ excuses' = excuses \cap {"lost"}
       ELSE /\ dma' = (outcome = "radio") /\ fw' = IF dma' THEN "ok" ELSE "off"
            /\ excuses' = excuses \cup (IF running \/ pci_running THEN {"stale"} ELSE {})
                                  \cup (IF dma' THEN {"halfway"} ELSE {})
            /\ UNCHANGED <<imr, pci_running, running>>

Outcomes == {"ok", "mac", "radio"}

\* The first half of rtw89_core_stop, up to the cancelling of work without the
\* mutex; nothing at all when the device is not running.
CoreStopBegin == running /\ running' = FALSE

\* A stop that the interrupt thread does not hear of.
BadCoreStopIntr == imr' = FALSE /\ UNCHANGED pci_running

\* rtw89_pci_ops_stop: no interrupt from here on ...
CoreStopIntr == pci_running' = FALSE /\ imr' = FALSE

\* ... and once the interrupt thread is done, the power goes off.
CoreStopEnd ==
  /\ irq = "idle"
  /\ fw' = "off" /\ c2h' = "NONE" /\ dma' = FALSE

------------------------------------------------------------------------------
(* rtw89_ser_hdl_work: the message loop, and ser_state_goto in two halves.   *)

\* The messages a state answers, and the state they lead to; any other message
\* is dropped.
Transitions == {
  <<"IDLE", "L1_RESET", "RESET_TRX">>,      <<"IDLE", "L2_RESET", "L2_RESET">>,
  <<"RESET_TRX", "DO_RECOVERY", "DO_HCI">>, <<"RESET_TRX", "M3_TIMEOUT", "L2_RESET">>,
  <<"DO_HCI", "MAC_RESET_DONE", "IDLE">>,   <<"DO_HCI", "FW_M5_TIMEOUT", "L2_RESET">>,
  <<"L2_RESET", "L2_RECFG_DONE", "IDLE">>,  <<"L2_RESET", "L2_RECFG_TIMEOUT", "IDLE">> }

Targets(s, event) == {t[3] : t \in {t \in Transitions : t[1] = s /\ t[2] = event}}

\* The first message of the queue.  One that the state does not answer is a
\* transition to where it is.
Dequeue ==
  /\ work \in {"idle", "loop"} /\ queue # <<>>
  /\ LET event == Head(queue) IN
       /\ queue' = Tail(queue)
       /\ goal' \in IF Targets(state, event) = {} THEN {state} ELSE Targets(state, event)
       /\ excuses' = excuses \cup
            (IF state = "L2_RESET" /\ event \in {"L1_RESET", "L2_RESET"} THEN {"deaf"} ELSE {})
  /\ work' = "msg"
  /\ UNCHANGED <<state, alarm, flags, running, pci_running, under_recovery, chip,
                 irq, host, errors>>

\* ser_state_run: rtw89_leave_lps under the mutex, and then the state function.
LeaveLps ==
  /\ MutexFree
  /\ \/ work = "msg" /\ work' = IF goal = state THEN "loop" ELSE "out"
     \/ work = "lps" /\ work' = "in"
  /\ UNCHANGED <<state, goal, queue, alarm, flags, running, pci_running,
                 under_recovery, chip, irq, host, errors, excuses>>

LoopEnds ==
  /\ work = "loop" /\ queue = <<>>
  /\ work' = "idle"
  /\ UNCHANGED <<state, goal, queue, alarm, flags, running, pci_running,
                 under_recovery, chip, irq, host, errors, excuses>>

\* ser_del_alarm
ser_del_alarm == alarm' = "NONE"

\* hal_enable_dma, whose result is not looked at.
hal_enable_dma ==
  IF "STOP_DMA" \in flags
    THEN /\ dma' \in BOOLEAN
         /\ flags' = IF dma' THEN flags \ {"STOP_DMA"} ELSE flags
         /\ excuses' = excuses \cup (IF dma' THEN {} ELSE {"nodma"})
    ELSE UNCHANGED <<dma, flags, excuses>>

\* The interrupt masks of rtw89_pci_ops_recovery_start and _complete.
recovery_mask(on) == under_recovery' = on /\ imr' = TRUE

\* SER_EV_STATE_OUT of the old state.
StateOut ==
  /\ work = "out"
  /\ CASE state = "IDLE" ->
            recovery_mask(TRUE) /\ UNCHANGED <<alarm, flags, dma, excuses>>
       [] state = "RESET_TRX" ->
            ser_del_alarm /\ hal_enable_dma /\ UNCHANGED <<under_recovery, imr>>
       [] OTHER ->
            ser_del_alarm /\ UNCHANGED <<flags, dma, excuses, under_recovery, imr>>
  /\ IF state = "RESET_TRX"
       THEN work' = "resume" /\ UNCHANGED state
       ELSE work' = "lps" /\ state' = goal
  /\ UNCHANGED <<goal, queue, running, pci_running, fw, c2h, irq, host, errors>>

\* A way out of RESET_TRX that forgets the traffic it stopped.
BadResumeTraffic ==
  /\ work = "resume"
  /\ work' = "lps" /\ state' = goal
  /\ UNCHANGED <<goal, queue, alarm, flags, running, pci_running, under_recovery, chip,
                 irq, host, errors, excuses>>

\* drv_resume_rx and drv_resume_tx: RTW89_FLAG_RUNNING may be set for a device
\* that was stopped meanwhile.
ResumeTraffic ==
  /\ work = "resume"
  /\ flags' = flags \ {"STOP_RX", "STOP_TX"}
  /\ running' = (running \/ "STOP_RX" \in flags)
  /\ excuses' = excuses \cup
       (IF running' # running /\ (~pci_running \/ mac \in {"stopped", "sync"})
          THEN {"stale"} ELSE {})
  /\ work' = "lps" /\ state' = goal
  /\ UNCHANGED <<goal, queue, alarm, pci_running, under_recovery, chip, irq, host, errors>>

\* SER_EV_STATE_IN of IDLE.
EnterIdle ==
  /\ work = "in" /\ state = "IDLE"
  /\ recovery_mask(FALSE)
  /\ work' = "loop"
  /\ UNCHANGED <<state, goal, queue, alarm, flags, running, pci_running, dma, fw,
                 c2h, irq, host, errors, excuses>>

\* drv_stop_tx and hal_stop_dma; if the DMA does not stop, on to L2_RESET.
EnterResetTrx ==
  /\ work = "in" /\ state = "RESET_TRX"
  /\ dma' = FALSE
  /\ \/ /\ flags' = flags \cup {"STOP_TX", "STOP_DMA"}
        /\ work' = "stoprx" /\ UNCHANGED goal
     \/ /\ flags' = flags \cup {"STOP_TX"}
        /\ work' = "msg" /\ goal' = "L2_RESET"
  /\ UNCHANGED <<state, queue, alarm, running, pci_running, under_recovery, imr, fw,
                 c2h, irq, host, errors, excuses>>

\* drv_stop_rx, drv_trx_reset, M2 and the alarm.
StopRx ==
  /\ work = "stoprx"
  /\ flags' = flags \cup {"STOP_RX"}
  /\ running' = FALSE
  /\ fw' = IF fw = "m2" THEN "m3" ELSE fw
  /\ alarm' = "M3_TIMEOUT"
  /\ work' = "loop"
  /\ UNCHANGED <<state, goal, queue, pci_running, under_recovery, imr, dma, c2h, irq,
                 host, errors, excuses>>

\* A DO_HCI without the alarm.
BadEnterDoHci ==
  /\ work = "in" /\ state = "DO_HCI"
  /\ fw' = IF fw = "m4" THEN "m5" ELSE fw
  /\ work' = "loop"
  /\ UNCHANGED <<state, goal, queue, alarm, flags, running, pci_running, under_recovery,
                 imr, dma, c2h, irq, host, errors, excuses>>

\* M4 and the alarm.
EnterDoHci ==
  /\ work = "in" /\ state = "DO_HCI"
  /\ fw' = IF fw = "m4" THEN "m5" ELSE fw
  /\ alarm' = "FW_M5_TIMEOUT"
  /\ work' = "loop"
  /\ UNCHANGED <<state, goal, queue, flags, running, pci_running, under_recovery,
                 imr, dma, c2h, irq, host, errors, excuses>>

\* ser_l2_reset_st_pre_hdl: the memory dump and the reset of the MAC bindings
\* are left out; then rtw89_core_stop.
EnterL2Reset ==
  /\ work = "in" /\ state = "L2_RESET" /\ MutexFree
  /\ \/ CoreStopBegin /\ work' = "l2stop"
     \/ ~running /\ UNCHANGED running /\ work' = "l2restart"
  /\ UNCHANGED <<state, goal, queue, alarm, flags, pci_running, under_recovery,
                 chip, irq, host, errors, excuses>>

L2StopIntr ==
  /\ work = "l2stop" /\ MutexFree
  /\ CoreStopIntr
  /\ work' = "l2sync"
  /\ UNCHANGED <<state, goal, queue, alarm, flags, running, under_recovery, dma,
                 fw, c2h, irq, host, errors, excuses>>

L2StopEnd ==
  /\ work = "l2sync"
  /\ CoreStopEnd
  /\ work' = "l2restart"
  /\ UNCHANGED <<state, goal, queue, alarm, flags, running, pci_running,
                 under_recovery, imr, irq, host, errors, excuses>>

\* ieee80211_restart_hw, and the alarm.
L2Restart ==
  /\ work = "l2restart"
  /\ restart' = TRUE
  /\ alarm' = "L2_RECFG_TIMEOUT"
  /\ work' = "loop"
  /\ UNCHANGED <<state, goal, queue, flags, running, pci_running, under_recovery,
                 chip, irq, up, mac, errors, excuses>>

------------------------------------------------------------------------------
(* The interrupt (pci.c).                                                    *)

\* rtw89_pci_interrupt_handler, for an error report or, outside a recovery, for
\* traffic.
HardIrq ==
  /\ imr /\ pci_running /\ irq = "idle"
  /\ c2h # "NONE" \/ (fw # "off" /\ ~under_recovery)
  /\ imr' = FALSE
  /\ irq' = "thread"
  /\ UNCHANGED <<ser, running, pci_running, under_recovery, dma, fw, c2h, host,
                 errors, excuses>>

\* A thread that reads the mailbox during a recovery and passes nothing on.
BadIrqThread ==
  /\ irq = "thread"
  /\ irq' = "branch"
  /\ c2h' = "NONE"
  /\ IF c2h = "NONE" \/ under_recovery THEN UNCHANGED <<queue, excuses>> ELSE ser_send_msg(c2h)
  /\ UNCHANGED <<state, work, goal, alarm, flags, running, pci_running,
                 under_recovery, imr, dma, fw, host, errors>>

\* rtw89_pci_interrupt_threadfn: rtw89_mac_get_err_status empties the mailbox,
\* and rtw89_ser_notify puts the report into the queue.
IrqThread ==
  /\ irq = "thread"
  /\ irq' = "branch"
  /\ c2h' = "NONE"
  /\ IF c2h = "NONE" THEN UNCHANGED <<queue, excuses>> ELSE ser_send_msg(c2h)
  /\ UNCHANGED <<state, work, goal, alarm, flags, running, pci_running,
                 under_recovery, imr, dma, fw, host, errors>>

\* During a recovery straight to the end; else NAPI, which gets there later.
IrqBranch ==
  /\ irq = "branch"
  /\ irq' = IF under_recovery \/ pci_running THEN "enable" ELSE "idle"
  /\ UNCHANGED <<ser, running, pci_running, under_recovery, chip, host, errors, excuses>>

\* A NAPI poll that leaves the interrupts off.
BadIrqEnable ==
  /\ irq = "enable"
  /\ irq' = "idle"
  /\ imr' = (imr \/ (pci_running /\ under_recovery))
  /\ UNCHANGED <<ser, running, pci_running, under_recovery, dma, fw, c2h, host,
                 errors, excuses>>

\* The end of the thread, or of rtw89_pci_napi_poll.
IrqEnable ==
  /\ irq = "enable"
  /\ irq' = "idle"
  /\ imr' = (imr \/ pci_running)
  /\ UNCHANGED <<ser, running, pci_running, under_recovery, dma, fw, c2h, host,
                 errors, excuses>>

------------------------------------------------------------------------------
(* mac80211 (external), which flushes the work queue before it stops or      *)
(* restarts the device, and the callbacks of mac80211.c.                     *)

WorkFlushed == work = "idle" /\ queue = <<>>

\* rtw89_ops_start
OpsStart ==
  /\ ~up /\ mac = "idle" /\ MutexFree
  /\ \E outcome \in Outcomes : rtw89_core_start(outcome) /\ up' = (outcome = "ok")
  /\ UNCHANGED <<ser, under_recovery, irq, mac, restart, errors>>

StopFlush ==
  /\ up /\ mac = "idle" /\ WorkFlushed
  /\ mac' = "stopping"
  /\ UNCHANGED <<ser, running, pci_running, under_recovery, chip, irq, up, restart,
                 errors, excuses>>

\* rtw89_ops_stop: rtw89_core_stop takes a device for stopped whose receive path
\* the recovery has stopped.
OpsStop ==
  /\ mac = "stopping" /\ MutexFree
  /\ up' = FALSE
  /\ \/ CoreStopBegin /\ mac' = "stopped" /\ UNCHANGED excuses
     \/ /\ ~running /\ UNCHANGED running /\ mac' = "idle"
        /\ excuses' = excuses \cup (IF "STOP_RX" \in flags THEN {"stale"} ELSE {})
  /\ UNCHANGED <<ser, pci_running, under_recovery, chip, irq, restart, errors>>

OpsStopIntr ==
  /\ mac = "stopped" /\ MutexFree
  /\ CoreStopIntr
  /\ mac' = "sync"
  /\ UNCHANGED <<ser, running, under_recovery, dma, fw, c2h, irq, up, restart,
                 errors, excuses>>

OpsStopEnd ==
  /\ mac = "sync"
  /\ CoreStopEnd
  /\ mac' = "idle"
  /\ UNCHANGED <<ser, running, pci_running, under_recovery, imr, irq, up, restart,
                 errors, excuses>>

\* restart_work: nothing to do when the device is closed by now.
RestartFlush ==
  /\ restart /\ mac = "idle" /\ WorkFlushed
  /\ restart' = FALSE
  /\ mac' = IF up THEN "reconfig" ELSE "idle"
  /\ UNCHANGED <<ser, running, pci_running, under_recovery, chip, irq, up, errors, excuses>>

\* A restart that cannot start the device closes it.
Reconfig ==
  /\ mac = "reconfig" /\ MutexFree
  /\ \E outcome \in Outcomes :
       /\ rtw89_core_start(outcome)
       /\ up' = (outcome = "ok")
       /\ mac' = IF up' THEN "complete" ELSE "idle"
  /\ UNCHANGED <<ser, under_recovery, irq, restart, errors>>

\* rtw89_ops_reconfig_complete
ReconfigComplete ==
  /\ mac = "complete"
  /\ mac' = "idle"
  /\ ser_send_msg("L2_RECFG_DONE")
  /\ UNCHANGED <<state, work, goal, alarm, flags, running, pci_running,
                 under_recovery, chip, irq, up, restart, errors>>

------------------------------------------------------------------------------
(* The firmware (external).  It writes to the mailbox when that is empty.    *)

Report(msg) == c2h = "NONE" /\ c2h' = msg

FwError ==
  /\ errors < MaxErrors
  /\ errors' = errors + 1
  /\ \/ fw = "ok" /\ fw' = "m2" /\ Report("L1_RESET")
     \/ fw = "ok" /\ fw' = "ok" /\ Report("L0_RESET")
     \/ fw \notin {"off", "dead"} /\ fw' = "dead" /\ Report("L2_RESET")
     \/ fw \notin {"off", "dead"} /\ fw' = "dead" /\ UNCHANGED c2h
  /\ UNCHANGED <<ser, running, pci_running, under_recovery, imr, dma, irq, host, excuses>>

FwAnswers ==
  /\ \/ fw = "m3" /\ fw' = "m4" /\ Report("DO_RECOVERY")
     \/ fw = "m5" /\ fw' = "ok" /\ Report("MAC_RESET_DONE")
  /\ UNCHANGED <<ser, running, pci_running, under_recovery, imr, dma, irq, host,
                 errors, excuses>>

------------------------------------------------------------------------------
\* The device is open and works.
Init ==
  /\ state = "IDLE" /\ work = "idle" /\ goal = "IDLE" /\ queue = <<>>
  /\ alarm = "NONE" /\ flags = {}
  /\ running = TRUE /\ pci_running = TRUE /\ under_recovery = FALSE
  /\ imr = TRUE /\ dma = TRUE /\ irq = "idle" /\ c2h = "NONE" /\ fw = "ok"
  /\ up = TRUE /\ mac = "idle" /\ restart = FALSE
  /\ errors = 0 /\ excuses = {}

Handler == \/ Dequeue \/ LeaveLps \/ LoopEnds \/ StateOut \/ ResumeTraffic
           \/ EnterIdle \/ EnterResetTrx \/ StopRx \/ EnterDoHci
           \/ EnterL2Reset \/ L2StopIntr \/ L2StopEnd \/ L2Restart

Interrupt == IrqThread \/ IrqBranch \/ IrqEnable

Mac80211 == \/ OpsStop \/ OpsStopIntr \/ OpsStopEnd
            \/ RestartFlush \/ Reconfig \/ ReconfigComplete

Next ==
  \/ Handler \/ rtw89_ser_alarm_work
  \/ HardIrq \/ Interrupt
  \/ OpsStart \/ StopFlush \/ Mac80211
  \/ FwError \/ FwAnswers

Spec == Init /\ [][Next]_vars

\* Work that is queued runs, an armed alarm goes off, an interrupt that is
\* pending and enabled is taken, and mac80211 finishes what it began.  A mutex
\* is handed on to a waiter.  Nothing is asked of the firmware or of the user.
FairSpec ==
  /\ Spec
  /\ SF_vars(Handler) /\ SF_vars(rtw89_ser_alarm_work)
  /\ WF_vars(Interrupt) /\ SF_vars(HardIrq /\ c2h # "NONE")
  /\ SF_vars(Mac80211)

------------------------------------------------------------------------------
(* When the recovery is over nothing is left stopped: the queues are open,   *)
(* the normal interrupts are back, and an open device has its DMA on, on     *)
(* every way through the states, unless the DMA failed to start again.       *)
TrafficResumes ==
  state = "IDLE" /\ work \in {"idle", "loop"} =>
    /\ flags \subseteq {"STOP_DMA"} /\ ~under_recovery
    /\ up /\ running /\ pci_running /\ "nodma" \notin excuses => dma

(* A closed device is off, also when it was closed during a recovery, unless *)
(* RTW89_FLAG_RUNNING was wrong: rtw89_core_stop does nothing once           *)
(* drv_stop_rx has cleared it, drv_resume_rx sets it on a device that        *)
(* rtw89_core_stop stopped, and a start that fails on a device that runs     *)
(* leaves it set; and unless a start failed halfway, with the power on.      *)
DownIsOff ==
  /\ ~up /\ mac = "idle" /\ work \notin {"l2stop", "l2sync"}
  /\ excuses \cap {"stale", "halfway"} = {}
  => ~running /\ ~pci_running /\ fw = "off"

\* A message is in the queue; a time-out, or the alarm for it is armed.
Queued(event)   == \E i \in 1 .. Len(queue) : queue[i] = event
TimesOut(event) == alarm = event \/ Queued(event)

(* No state waits without its own time-out: while the work queue rests in a  *)
(* state of the recovery, the alarm that the state set on its way in is      *)
(* armed or has put its message into the queue.  An alarm of an earlier      *)
(* state that goes off late, the one alarm work that all states share, the   *)
(* messages dropped in a state that does not know them and the last-in       *)
(* first-out order take it from nobody, unless a message was lost.           *)
WaitIsBounded ==
  work \in {"idle", "loop"} /\ "lost" \notin excuses =>
    /\ state = "RESET_TRX" => TimesOut("M3_TIMEOUT")
    /\ state = "DO_HCI"    => TimesOut("FW_M5_TIMEOUT")
    /\ state = "L2_RESET"  => TimesOut("L2_RECFG_TIMEOUT")

(* A device that runs and is at rest has forgotten no error: while the       *)
(* firmware waits for M2, its report is still in the mailbox or in the       *)
(* queue.  However a report meets the end of an earlier recovery, a stop or  *)
(* a start, IDLE is not reached without it, not even where RESET_TRX and     *)
(* DO_HCI have dropped it; unless a newer message overtook it, it was lost,  *)
(* or L2_RESET dropped it.                                                   *)
ErrorPending ==
  /\ fw = "m2" /\ up /\ running /\ state = "IDLE" /\ work \in {"idle", "loop"}
  /\ excuses \cap {"overtaken", "lost", "deaf"} = {}
  => c2h = "L1_RESET" \/ Queued("L1_RESET")

(* Every recovery ends, whatever the firmware does and whether or not        *)
(* mac80211 can restart the device, unless a message was lost for want of    *)
(* memory: each state that waits has an alarm.                               *)
RecoveryEnds == state # "IDLE" ~> state = "IDLE" \/ "lost" \in excuses

(* A level-1 error gets its M2, or the device is reset: no order of          *)
(* interrupts, alarms, stops and restarts makes the driver forget it, except *)
(* a newer message that overtakes it in the last-in first-out queue, a       *)
(* message that was lost, a device that fails again while it is being        *)
(* restarted (L2_RESET answers no report), and one whose start failed.       *)
ErrorAnswered ==
  fw = "m2" ~> fw # "m2" \/ excuses \cap {"overtaken", "lost", "deaf", "halfway"} # {}

==============================================================================
