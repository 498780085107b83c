-------------------------------- MODULE PdmDma --------------------------------
(***************************************************************************)
(* The capture device acp6x-pdm-dma.c on a coprocessor that goes through   *)
(* runtime and system power management (pci-acp6x.c): the life of one PCM  *)
(* stream, the DMA engine it starts and stops, and the registers a reset   *)
(* clears behind its back.                                                 *)
(*                                                                         *)
(* Starting and stopping the engine is a request and a poll that can time  *)
(* out; the engine may still answer later.  The ALSA core follows a start  *)
(* that failed with a stop, and ignores the result of a stop.              *)
(***************************************************************************)
EXTENDS Naturals

VARIABLES
  stream,      \* state of the PCM stream; capture_stream # NULL unless closed,
               \* "setup" is SETUP or PREPARED
  resumeTo,    \* the state a suspended stream was in
  buffer,      \* the DMA buffer is allocated
  wait,        \* the trigger callback polls, or its failure is being undone
  goal,        \* the state the stream enters when the callback returns
  dma,         \* ACP_WOV_PDM_DMA_ENABLE: request bit and status bit
  pdm_enable,  \* ACP_WOV_PDM_ENABLE
  ring,        \* ring buffer and page table hold this stream's buffer
  mask,        \* PDM_DMA_INTR_MASK of ACP_EXTERNAL_INTR_CNTL
  enb,         \* ACP_EXTERNAL_INTR_ENB
  sys,         \* system sleep: which devices have been suspended
  rpm,         \* runtime PM: which devices have been suspended
  trouble      \* history: time-outs since the last reset that was carried out

trigger == <<wait, goal>>
regs    == <<dma, pdm_enable, ring, mask, enb>>
pm      == <<sys, rpm>>
vars    == <<stream, resumeTo, buffer, trigger, regs, pm, trouble>>

Awake == sys = "awake" /\ wait = "none"

------------------------------------------------------------------------------
(* The DMA engine.  The four values of dma are those of the two bits.        *)

HwStarts == dma = "starting" /\ dma' = "on"
            /\ UNCHANGED <<stream, resumeTo, buffer, trigger, pdm_enable, ring, mask, enb, pm, trouble>>

HwStops == dma = "stopping" /\ dma' = "off"
           /\ UNCHANGED <<stream, resumeTo, buffer, trigger, pdm_enable, ring, mask, enb, pm, trouble>>

acp6x_enable_pdm_interrupts  == mask' = TRUE
acp6x_disable_pdm_interrupts == mask' = FALSE

\* The page table of the buffer, and with it the ring buffer registers.
acp6x_config_dma == ring' = TRUE

\* acp6x_check_pdm_dma_status: the status bit outlives the request bit.
acp6x_check_pdm_dma_status == pdm_enable /\ dma \in {"on", "stopping"}

\* Return from the trigger callback to a stream in the given state.
Return(state) == stream' = state /\ wait' = "none" /\ goal' = state

\* The two requests, and the polls that follow them.
acp6x_start_pdm_dma ==
  /\ dma' = "starting" /\ pdm_enable' = TRUE
  /\ wait' = "start" /\ goal' = "running"
  /\ UNCHANGED stream

\* An engine that is stopping already is not awaited.
acp6x_stop_pdm_dma(state) ==
  IF dma = "on"
    THEN /\ dma' = "stopping" /\ wait' = "stop" /\ goal' = state
         /\ UNCHANGED <<stream, pdm_enable>>
    ELSE Return(state) /\ pdm_enable' = FALSE /\ UNCHANGED dma

\* START, RESUME and PAUSE_RELEASE of acp6x_pdm_dai_trigger.  An engine whose
\* status bit is set is taken to be running.
TriggerOn ==
  IF acp6x_check_pdm_dma_status
    THEN Return("running") /\ UNCHANGED <<dma, pdm_enable>>
    ELSE acp6x_start_pdm_dma

\* A STOP that disables PDM and leaves the request of the DMA engine set.
BadTriggerOff(state) == Return(state) /\ pdm_enable' = FALSE /\ UNCHANGED dma

\* STOP, SUSPEND and PAUSE_PUSH.
TriggerOff(state) ==
  IF acp6x_check_pdm_dma_status
    THEN acp6x_stop_pdm_dma(state)
    ELSE Return(state) /\ UNCHANGED <<dma, pdm_enable>>

StartReturns ==
  /\ wait = "start" /\ dma = "on"
  /\ Return(goal)
  /\ UNCHANGED <<resumeTo, buffer, regs, pm, trouble>>

StartTimesOut ==
  /\ wait = "start" /\ dma = "starting"
  /\ wait' = "undo" /\ goal' = stream
  /\ trouble' = trouble \cup {"start"}
  /\ UNCHANGED <<stream, resumeTo, buffer, regs, pm>>

\* The ALSA core's undo of a failed start.
UndoStart ==
  /\ wait = "undo"
  /\ TriggerOff(goal)
  /\ UNCHANGED <<resumeTo, buffer, ring, mask, enb, pm, trouble>>

StopReturns ==
  /\ wait = "stop" /\ dma = "off"
  /\ Return(goal)
  /\ pdm_enable' = FALSE
  /\ UNCHANGED <<resumeTo, buffer, dma, ring, mask, enb, pm, trouble>>

\* -ETIMEDOUT, with PDM still enabled; the stream moves on all the same.
StopTimesOut ==
  /\ wait = "stop" /\ dma = "stopping"
  /\ Return(goal)
  /\ trouble' = trouble \cup {"stop"}
  /\ UNCHANGED <<resumeTo, buffer, regs, pm>>

------------------------------------------------------------------------------
(* The stream, on behalf of a process.                                       *)

\* acp6x_pdm_dma_open; the ALSA core holds the device active from here on.
Open ==
  /\ Awake /\ stream = "closed" /\ rpm = "active"
  /\ stream' = "open"
  /\ acp6x_enable_pdm_interrupts
  /\ UNCHANGED <<resumeTo, buffer, trigger, dma, pdm_enable, ring, enb, pm, trouble>>

\* acp6x_pdm_dma_hw_params: page table and ring buffer registers.
HwParams ==
  /\ Awake /\ stream \in {"open", "setup"}
  /\ stream' = "setup"
  /\ buffer' = TRUE /\ acp6x_config_dma
  /\ UNCHANGED <<resumeTo, trigger, dma, pdm_enable, mask, enb, pm, trouble>>

\* TRIGGER_START and TRIGGER_PAUSE_RELEASE.
Start ==
  /\ Awake /\ stream \in {"setup", "paused"}
  /\ TriggerOn
  /\ UNCHANGED <<resumeTo, buffer, ring, mask, enb, pm, trouble>>

\* TRIGGER_STOP (also after an overrun) and TRIGGER_PAUSE_PUSH.
Stop ==
  /\ Awake /\ stream = "running"
  /\ TriggerOff("setup") \/ TriggerOff("paused")
  /\ UNCHANGED <<resumeTo, buffer, ring, mask, enb, pm, trouble>>

\* Dropping a suspended stream calls no trigger; a paused one is released and
\* then stopped.
Drop ==
  /\ Awake /\ stream = "suspended"
  /\ stream' = "setup"
  /\ UNCHANGED <<resumeTo, buffer, trigger, regs, pm, trouble>>

\* TRIGGER_RESUME, for a stream that was running when it was suspended.
ResumeStream ==
  /\ Awake /\ stream = "suspended"
  /\ IF resumeTo = "running"
       THEN TriggerOn
       ELSE stream' = resumeTo /\ UNCHANGED <<trigger, dma, pdm_enable>>
  /\ UNCHANGED <<resumeTo, buffer, ring, mask, enb, pm, trouble>>

HwFree ==
  /\ Awake /\ stream = "setup"
  /\ stream' = "open"
  /\ buffer' = FALSE
  /\ UNCHANGED <<resumeTo, trigger, regs, pm, trouble>>

\* acp6x_pdm_dma_close
Close ==
  /\ Awake /\ stream = "open"
  /\ stream' = "closed"
  /\ acp6x_disable_pdm_interrupts
  /\ UNCHANGED <<resumeTo, buffer, trigger, dma, pdm_enable, ring, enb, pm, trouble>>

------------------------------------------------------------------------------
(* Power management.  The soft reset of acp6x_init and acp6x_deinit clears   *)
(* every register of the device.                                             *)

Reset == dma' = "off" /\ pdm_enable' = FALSE /\ ring' = FALSE /\ mask' = FALSE

\* A time-out of the first poll of acp6x_reset is ignored: it may return 0 with
\* the engine as it was, and then makes good nothing that failed before.
NoReset == UNCHANGED <<dma, pdm_enable, ring>>

\* acp6x_deinit: CNTL and ENB are cleared before the reset.
acp6x_deinit(ok) ==
  /\ enb' = FALSE
  /\ \/ ok /\ Reset /\ trouble' = {}
     \/ ok /\ NoReset /\ mask' = FALSE /\ UNCHANGED trouble
     \/ ~ok /\ NoReset /\ mask' = FALSE /\ trouble' = trouble \cup {"deinit"}

acp6x_init(ok) ==
  \/ ok /\ Reset /\ enb' = TRUE /\ trouble' = {}
  \/ ok /\ NoReset /\ enb' = TRUE /\ UNCHANGED <<mask, trouble>>
  \/ ~ok /\ UNCHANGED regs /\ trouble' = trouble \cup {"init"}

\* Runtime PM of the capture device, idle while no stream is open:
\* acp6x_pdm_suspend and acp6x_pdm_runtime_resume.
RuntimeSuspendPdm ==
  /\ Awake /\ stream = "closed" /\ rpm = "active"
  /\ rpm' = "pdm"
  /\ acp6x_disable_pdm_interrupts
  /\ UNCHANGED <<stream, resumeTo, buffer, trigger, dma, pdm_enable, ring, enb, sys, trouble>>

RuntimeResumePdm ==
  /\ Awake /\ rpm = "pdm"
  /\ rpm' = "active"
  /\ acp6x_enable_pdm_interrupts
  /\ UNCHANGED <<stream, resumeTo, buffer, trigger, dma, pdm_enable, ring, enb, sys, trouble>>

\* Runtime PM of the coprocessor, after its child: snd_acp6x_suspend and
\* snd_acp6x_resume.  The PM core takes a failure as final.
RuntimeSuspendPci ==
  /\ Awake /\ rpm = "pdm"
  /\ \E ok \in BOOLEAN :
       acp6x_deinit(ok) /\ rpm' = IF ok THEN "pci" ELSE "error"
  /\ UNCHANGED <<stream, resumeTo, buffer, trigger, sys>>

RuntimeResumePci ==
  /\ Awake /\ rpm = "pci"
  /\ \E ok \in BOOLEAN :
       acp6x_init(ok) /\ rpm' = IF ok THEN "pdm" ELSE "error"
  /\ UNCHANGED <<stream, resumeTo, buffer, trigger, sys>>

\* A sound card without .pm: nobody tells the stream.
BadSleepCard ==
  /\ Awake /\ rpm # "pci"
  /\ sys' = "card"
  /\ UNCHANGED <<stream, resumeTo, buffer, trigger, regs, rpm, trouble>>

\* System sleep, in the order of the device list backwards.  The sound card
\* (snd_soc_pm_ops of acp6x-mach.c): a running stream gets TRIGGER_SUSPEND, and
\* one that is set up is suspended too if it has been prepared.
\* The PCI core has resumed a runtime-suspended coprocessor before.
SleepCard ==
  /\ Awake /\ rpm # "pci"
  /\ sys' = "card"
  /\ resumeTo' = IF stream \in {"closed", "open", "suspended"} THEN resumeTo ELSE stream
  /\ CASE stream = "running" -> TriggerOff("suspended")
       [] stream = "paused" -> Return("suspended") /\ UNCHANGED <<dma, pdm_enable>>
       [] stream = "setup" -> (Return("suspended") \/ Return("setup")) /\ UNCHANGED <<dma, pdm_enable>>
       [] OTHER -> UNCHANGED <<stream, trigger, dma, pdm_enable>>
  /\ UNCHANGED <<buffer, ring, mask, enb, rpm, trouble>>

\* acp6x_pdm_suspend
SleepPdm ==
  /\ sys = "card" /\ wait = "none"
  /\ sys' = "pdm"
  /\ acp6x_disable_pdm_interrupts
  /\ UNCHANGED <<stream, resumeTo, buffer, trigger, dma, pdm_enable, ring, enb, rpm, trouble>>

\* snd_acp6x_suspend.  If it fails the sleep is called off, and the devices
\* suspended before it are resumed, not this one.
SleepPci ==
  /\ sys = "pdm"
  /\ \E ok \in BOOLEAN :
       acp6x_deinit(ok) /\ sys' = IF ok THEN "asleep" ELSE "up_pci"
  /\ UNCHANGED <<stream, resumeTo, buffer, trigger, rpm>>

\* snd_acp6x_resume.  The PM core goes on after an error.
WakePci ==
  /\ sys = "asleep"
  /\ sys' = "up_pci"
  /\ \E ok \in BOOLEAN : acp6x_init(ok)
  /\ UNCHANGED <<stream, resumeTo, buffer, trigger, rpm>>

\* A resume that only enables the interrupt, as the runtime one does.
BadWakePdm ==
  /\ sys = "up_pci"
  /\ sys' = "up_pdm"
  /\ mask' = TRUE
  /\ UNCHANGED <<stream, resumeTo, buffer, trigger, dma, pdm_enable, ring, enb, rpm, trouble>>

\* A resume that forgets the interrupt.
BadWakeMask ==
  /\ sys = "up_pci"
  /\ sys' = "up_pdm"
  /\ IF stream # "closed" /\ buffer THEN acp6x_config_dma ELSE UNCHANGED ring
  /\ UNCHANGED <<stream, resumeTo, buffer, trigger, dma, pdm_enable, mask, enb, rpm, trouble>>

\* acp6x_pdm_resume: the ring buffer of an open stream is set up again.  One
\* without hw_params yet has no buffer to point it at.
WakePdm ==
  /\ sys = "up_pci"
  /\ sys' = "up_pdm"
  /\ IF stream # "closed" /\ buffer THEN acp6x_config_dma ELSE UNCHANGED ring
  /\ acp6x_enable_pdm_interrupts
  /\ UNCHANGED <<stream, resumeTo, buffer, trigger, dma, pdm_enable, enb, rpm, trouble>>

WakeCard ==
  /\ sys = "up_pdm"
  /\ sys' = "awake"
  /\ UNCHANGED <<stream, resumeTo, buffer, trigger, regs, rpm, trouble>>

------------------------------------------------------------------------------
Init ==
  /\ stream = "closed" /\ resumeTo = "setup" /\ buffer = FALSE
  /\ wait = "none" /\ goal = "closed"
  /\ dma = "off" /\ pdm_enable = FALSE /\ ring = FALSE /\ mask = FALSE /\ enb = TRUE
  /\ sys = "awake" /\ rpm = "active"
  /\ trouble = {}

Process == Open \/ HwParams \/ Start \/ Stop \/ Drop \/ ResumeStream \/ HwFree \/ Close
Poll    == StartReturns \/ StartTimesOut \/ UndoStart \/ StopReturns \/ StopTimesOut
Power   == \/ RuntimeSuspendPdm \/ RuntimeResumePdm \/ RuntimeSuspendPci \/ RuntimeResumePci
           \/ SleepCard \/ SleepPdm \/ SleepPci \/ WakePci \/ WakePdm \/ WakeCard

Next == HwStarts \/ HwStops \/ Process \/ Poll \/ Power

Spec == Init /\ [][Next]_vars

------------------------------------------------------------------------------
(* Type correctness.                                                         *)
TypeOK ==
  /\ stream \in {"closed", "open", "setup", "running", "paused", "suspended"}
  /\ resumeTo \in {"setup", "running", "paused"}
  /\ goal \in {"closed", "open", "setup", "running", "paused", "suspended"}
  /\ wait \in {"none", "start", "undo", "stop"}
  /\ dma \in {"off", "starting", "on", "stopping"}
  /\ sys \in {"awake", "card", "pdm", "asleep", "up_pci", "up_pdm"}
  /\ rpm \in {"active", "pdm", "pci", "error"}
  /\ buffer \in BOOLEAN /\ pdm_enable \in BOOLEAN /\ ring \in BOOLEAN
  /\ mask \in BOOLEAN /\ enb \in BOOLEAN
  /\ trouble \subseteq {"start", "stop", "deinit", "init"}

(* A stream that runs is served: the engine is on, its ring buffer points at *)
(* the stream's buffer, and its interrupt is enabled at both levels, through *)
(* every order of opening, pausing, sleeping and resuming, unless a start, a *)
(* stop or a reset timed out.                                                *)
RunningIsServed ==
  stream = "running" /\ Awake /\ trouble = {} =>
    dma = "on" /\ pdm_enable /\ ring /\ mask /\ enb

(* The engine never writes to a buffer that was freed, unless a start or a   *)
(* stop timed out: then the late answer of the engine meets whoever owns the *)
(* memory by then.                                                           *)
NoDmaIntoFreedBuffer == ~buffer /\ trouble = {} => dma = "off"

\* The contract of Capture, for this device: the status bit says that the engine
\* is on, and a time-out that it has failed.
Contract == INSTANCE Capture WITH
  state <- stream, moving <- wait # "none",
  writing <- dma \in {"on", "stopping"}, faulty <- trouble # {}

(* The device implements the contract of a capture device: in every order of *)
(* process, power management and late answers the engine is switched on      *)
(* before the stream runs and off before it leaves that state, and is never  *)
(* on without a buffer; after a time-out only a reset makes good again.      *)
ImplementsCapture == Contract!Spec

(* The device does not write to memory while it is suspended, nor while the  *)
(* system wakes up, before a process asks for it again.                      *)
QuietInSleep ==
  sys \notin {"awake", "card"} /\ trouble = {} => dma = "off" /\ stream # "running"

==============================================================================
