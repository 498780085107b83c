-------------------------------- MODULE AcpDmic -------------------------------
(***************************************************************************)
(* The microphone as a whole: the PCI driver (AcpPci) and the capture      *)
(* device (PdmDma) on one coprocessor.  They share the interrupt enable    *)
(* register and the open stream; every reset by the PCI driver clears the  *)
(* registers of the capture device; the handler of the one reports the     *)
(* periods of the other.  This module adds the binding of the platform     *)
(* driver to pdev[0], which the PCI driver neither waits for nor checks.   *)
(***************************************************************************)
EXTENDS Integers

CONSTANT ACP6x_DEVS

ASSUME DevsAssumption == ACP6x_DEVS \in Nat \ {0}

VARIABLES
  pc, index, mode, enabled, regions, kids, irq, ctrl, stat, handler, timedout, allones,
  stream, resumeTo, buffer, wait, goal, dma, pdm_enable, ring, mask, sys, rpm, trouble,
  enb,
  driver,   \* acp6x_pdm_audio_probe has set the drvdata of pdev[0]
  owed      \* history: the running stream has a period ALSA has not been told of

pci  == <<pc, index, mode, enabled, regions, kids, irq, ctrl, stat, handler,
          timedout, allones>>
pdm  == <<stream, resumeTo, buffer, wait, goal, dma, pdm_enable, ring, mask, sys,
          rpm, trouble>>
vars == <<pci, pdm, enb, driver, owed>>

\* The PCI driver sees of the stream that it is open, and of the runtime status
\* of the two devices its own.
Pci == INSTANCE AcpPci WITH
  capture <- stream # "closed",
  pm <- IF rpm = "pci" THEN "suspended" ELSE IF rpm = "error" THEN "error" ELSE "active"

Pdm == INSTANCE PdmDma

------------------------------------------------------------------------------
(* Probe and remove of the PCI driver: with each reset goes what it does to  *)
(* the registers of the capture device.                                      *)

Undisturbed == UNCHANGED <<stream, resumeTo, buffer, wait, goal, sys, rpm, driver, owed>>

\* The new device is active, and its children are not yet.
ProbeEnable ==
  /\ rpm' = "pdm"
  /\ UNCHANGED <<stream, resumeTo, buffer, wait, goal, dma, pdm_enable, ring, mask,
                 sys, trouble, enb, driver, owed>>
  /\ Pci!ProbeEnable

ProbeInit ==
  /\ Undisturbed
  /\ \E ok \in BOOLEAN :
       Pdm!acp6x_init(ok) /\ Pci!ProbeInit /\ (pc' = "config") = ok

ProbeRest ==
  /\ UNCHANGED <<pdm, driver, owed>>
  /\ Pci!ProbeRegions \/ Pci!ProbeAlloc \/ Pci!ProbeConfig \/ Pci!ProbeRegister
     \/ Pci!ProbeIrq \/ Pci!ReleaseRegions \/ Pci!DisablePci
     \/ Pci!RemoveStart \/ Pci!RemoveRelease \/ Pci!RemoveFreeIrq \/ Pci!RemoveSyncIrq

\* Unregistering pdev[0] unbinds its driver, and the driver core clears drvdata.
Unregister ==
  /\ UNCHANGED <<stream, resumeTo, buffer, wait, goal, dma, pdm_enable, ring, mask,
                 sys, trouble, enb, owed>>
  /\ rpm' = IF rpm = "active" THEN "pdm" ELSE rpm
  /\ Pci!UnregisterDevs \/ Pci!RemoveDevs
  /\ driver' = (driver /\ 0 \in kids')

Deinit ==
  /\ Undisturbed
  /\ Pci!DeInit \/ Pci!RemoveDeinit
  /\ Pdm!acp6x_deinit(~timedout')

PciSteps == ProbeInit \/ ProbeRest \/ Unregister \/ Deinit

------------------------------------------------------------------------------
(* The platform driver of pdev[0].  Its module may be loaded late.           *)

\* acp6x_pdm_audio_probe
BindPdm ==
  /\ 0 \in kids /\ ~driver /\ rpm # "pci"
  /\ pc \notin Pci!RemoveSteps \cup {"unregister_devs"} /\ sys = "awake"
  /\ driver' = TRUE
  /\ UNCHANGED <<pci, pdm, enb, owed>>

\* An unbind that takes the stream away as it is.
BadUnbindPdm ==
  /\ driver /\ wait = "none" /\ sys = "awake"
  /\ driver' = FALSE /\ stream' = "closed"
  /\ rpm' = IF rpm = "active" THEN "pdm" ELSE rpm
  /\ UNCHANGED <<pci, resumeTo, buffer, wait, goal, dma, pdm_enable, ring, mask, sys,
                 trouble, enb, owed>>

\* acp6x_pdm_audio_remove, for an unbind from user space or a module unload:
\* the sound card goes with it, and waits for the stream.
UnbindPdm ==
  /\ driver /\ stream = "closed" /\ sys = "awake"
  /\ driver' = FALSE
  /\ rpm' = IF rpm = "active" THEN "pdm" ELSE rpm
  /\ UNCHANGED <<pci, stream, resumeTo, buffer, wait, goal, dma, pdm_enable, ring,
                 mask, sys, trouble, enb, owed>>

------------------------------------------------------------------------------
(* The stream and its engine.  A stream is opened on a complete sound card.  *)

\* What is owed is forgotten with the run of the stream.
Forget == owed' = (owed /\ stream' = "running")

Open ==
  /\ driver
  /\ Pdm!Open /\ Pci!OpenStream
  /\ UNCHANGED <<driver, owed>>

Close ==
  /\ Pdm!Close /\ Pci!CloseStream
  /\ UNCHANGED <<driver, owed>>

Engine == Pdm!HwStarts \/ Pdm!HwStops

StreamSteps ==
  /\ \/ Engine \/ Pdm!Poll
     \/ Pdm!HwParams \/ Pdm!Start \/ Pdm!Stop \/ Pdm!Drop \/ Pdm!ResumeStream \/ Pdm!HwFree
  /\ Forget
  /\ UNCHANGED <<pci, driver>>

\* A period is complete; the status bit of the one before may be set still.
Period ==
  /\ dma = "on" /\ owed' = (stream = "running")
  /\ UNCHANGED <<pdm, driver>>
  /\ Pci!PeriodDone \/ (stat /\ UNCHANGED <<pci, enb>>)

------------------------------------------------------------------------------
(* Power management of both devices.                                         *)

RuntimePdm ==
  /\ driver
  /\ Pdm!RuntimeSuspendPdm \/ Pdm!RuntimeResumePdm
  /\ UNCHANGED <<pci, driver, owed>>

RuntimePci ==
  /\ \/ Pdm!RuntimeSuspendPci /\ Pci!RuntimeSuspend
     \/ Pdm!RuntimeResumePci /\ Pci!RuntimeResume
  /\ UNCHANGED <<driver, owed>>

\* System sleep, for a complete device: probe and remove are kept away.
SleepCard ==
  /\ pc = "bound" /\ driver
  /\ Pdm!SleepCard
  /\ Forget
  /\ UNCHANGED <<pci, driver>>

SleepRest ==
  /\ Pdm!SleepPdm \/ Pdm!WakePdm \/ Pdm!WakeCard
  /\ UNCHANGED <<pci, driver, owed>>

SleepPci ==
  /\ \/ Pdm!SleepPci /\ \E outcome \in {"ok", "reset"} :
          Pci!acp6x_deinit(outcome) /\ (outcome = "ok") = (sys' = "asleep")
     \/ Pdm!WakePci /\ \E outcome \in {"ok", "power", "reset"} :
          Pci!acp6x_init(outcome) /\ (outcome = "ok") = enb'
  /\ UNCHANGED <<pc, index, mode, enabled, regions, kids, irq, handler, allones,
                 driver, owed>>

Power == RuntimePdm \/ RuntimePci \/ SleepCard \/ SleepRest \/ SleepPci

------------------------------------------------------------------------------
(* acp6x_irq_handler.  Without a driver on pdev[0] it would follow a null    *)
(* pointer, and the machine stops there.                                     *)

IrqReadStat == UNCHANGED <<pdm, driver, owed>> /\ Pci!IrqReadStat

IrqAck == driver /\ UNCHANGED <<pdm, driver, owed>> /\ Pci!IrqAck

IrqTestStream == UNCHANGED <<pdm, driver, owed>> /\ Pci!IrqTestStream

\* snd_pcm_period_elapsed reads the position of the engine.
IrqPeriodElapsed ==
  /\ UNCHANGED <<pdm, driver>>
  /\ owed' = FALSE
  /\ Pci!IrqPeriodElapsed

Handler == IrqAck \/ IrqTestStream \/ IrqPeriodElapsed

------------------------------------------------------------------------------
Init ==
  /\ stream = "closed" /\ resumeTo = "setup" /\ buffer = FALSE
  /\ wait = "none" /\ goal = "closed"
  /\ dma = "off" /\ pdm_enable = FALSE /\ ring = FALSE /\ mask = FALSE
  /\ sys = "awake" /\ rpm = "pdm" /\ trouble = {}
  /\ driver = FALSE /\ owed = FALSE
  /\ Pci!Init

Next ==
  \/ (sys = "awake" /\ (ProbeEnable \/ PciSteps))
  \/ BindPdm \/ UnbindPdm
  \/ Open \/ Close \/ StreamSteps \/ Period
  \/ Power
  \/ IrqReadStat \/ Handler

Spec == Init /\ [][Next]_vars

\* The line of the coprocessor is up.
Raised == irq /\ stat /\ mask /\ enb

\* An interrupt that is raised is taken, the handler comes to its end, and so
\* does a trigger callback.
FairSpec ==
  Spec /\ WF_vars(Raised /\ IrqReadStat) /\ WF_vars(Handler) /\ WF_vars(StreamSteps /\ wait # "none")

------------------------------------------------------------------------------
(* The engine writes to memory only for an open stream of a device whose      *)
(* platform driver is bound and whose children are all registered: neither   *)
(* an error exit of snd_acp6x_probe, nor a removal, nor an unbind from user   *)
(* space leaves it running, unless a start, a stop or a reset timed out.     *)
EngineOwned ==
  dma # "off" /\ trouble = {} => driver /\ kids = 0 .. ACP6x_DEVS - 1 /\ stream # "closed"

(* A running stream is served on the complete device too: its engine, ring   *)
(* buffer and both interrupt enables are set.  The resets by snd_acp6x_probe,*)
(* its error exits, snd_acp6x_remove and the power management of the PCI     *)
(* driver clear all of them, and none meets a running stream, whatever is    *)
(* bound, unbound or put to sleep meanwhile.                                 *)
StreamServed == Pdm!RunningIsServed

\* The contract of a capture device, for the two drivers together.
Contract == INSTANCE Capture WITH
  state <- stream, moving <- wait # "none",
  writing <- dma \in {"on", "stopping"}, faulty <- trouble # {}

(* The two drivers together implement the contract of a capture device: the  *)
(* PCI driver, which resets and clears the engine without asking the capture *)
(* device, appears to the ALSA core only as a device that recovers or fails  *)
(* while no stream runs.                                                     *)
CardImplementsCapture == Contract!Spec

(* A period of a running stream is reported: once the interrupt is requested *)
(* the status bit reaches acp6x_irq_handler through both masks, and the      *)
(* handler finds the stream, whatever sleep, resume and earlier interrupts   *)
(* do to the enables on the way, unless the stream stops or a reset fails.   *)
PeriodHeard ==
  irq /\ stream = "running" /\ owed ~> ~owed \/ stream # "running" \/ trouble # {}

==============================================================================
