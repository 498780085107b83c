-------------------------------- MODULE AcpPci --------------------------------
(***************************************************************************)
(* The PCI driver of the AMD audio coprocessor, pci-acp6x.c: the probe     *)
(* with its ladder of error exits, the removal, runtime power management   *)
(* and the interrupt handler.  The three platform devices it registers are *)
(* the PDM capture device (pdev[0]), the codec and the sound card; once    *)
(* all are there a process can open the capture stream.                    *)
(*                                                                         *)
(* The interrupt line is shared: the handler can be called at any time     *)
(* while it is requested, concurrently with probe, remove and the stream.  *)
(***************************************************************************)
EXTENDS Integers

CONSTANT ACP6x_DEVS       \* the number of platform devices, 3 in acp6x.h

ASSUME DevsAssumption == ACP6x_DEVS \in Nat \ {0}

VARIABLES
  pc,        \* where probe or remove is; "unbound" and "bound" between them
  index,     \* the loop variable of both
  mode,      \* acp6x_audio_mode: "pdm", or "other" pin configurations
  enabled,   \* pci_enable_device
  regions,   \* pci_request_regions
  kids,      \* indices of the platform devices that are registered
  irq,       \* acp6x_irq_handler is requested
  pm,        \* runtime PM status: "active", "suspended" or "error"
  ctrl,      \* ACP_CONTROL: the coprocessor is on
  enb,       \* ACP_EXTERNAL_INTR_ENB
  stat,      \* BIT(PDM_DMA_STAT) of ACP_EXTERNAL_INTR_STAT
  capture,   \* the capture stream is open, capture_stream # NULL
  handler,   \* progress of the interrupt handler
  \* History variables.
  timedout,  \* a soft reset timed out, and no acp6x_deinit has succeeded since
  allones    \* the handler at work read a suspended device: all ones

Devs     == 0 .. ACP6x_DEVS - 1
resource == <<enabled, regions, kids, irq>>
hw       == <<ctrl, enb, stat>>
isr      == <<handler, allones>>
vars     == <<pc, index, mode, resource, pm, hw, capture, isr, timedout>>

Goto(label) == pc' = label

------------------------------------------------------------------------------
(* The hardware sequences.  The result of each is an outcome that the caller *)
(* chooses: "ok", or the loop that timed out.                                *)

\* acp6x_init: power on, ACP_CONTROL, reset, and the interrupt enable.  The
\* reset clears the registers, but may return 0 without having done so: a
\* time-out of its first poll is ignored.
acp6x_init(outcome) ==
  CASE outcome = "ok" ->
         ctrl' = TRUE /\ enb' = TRUE /\ stat' \in {FALSE, stat} /\ UNCHANGED timedout
    [] outcome = "reset" ->
         ctrl' = TRUE /\ UNCHANGED <<enb, stat>> /\ timedout' = TRUE
    [] outcome = "power" ->
         UNCHANGED <<hw, timedout>>

\* An acp6x_deinit that leaves the coprocessor on.
BadDeinit(outcome) ==
  /\ enb' = FALSE /\ stat' = FALSE
  /\ ctrl' = ctrl
  /\ timedout' = (outcome # "ok")

\* acp6x_deinit: interrupts off, reset, and only then the coprocessor off.
acp6x_deinit(outcome) ==
  /\ enb' = FALSE /\ stat' = FALSE
  /\ ctrl' = IF outcome = "ok" THEN FALSE ELSE ctrl
  /\ timedout' = (outcome # "ok")

------------------------------------------------------------------------------
(* snd_acp6x_probe.  Each call can fail and leaves by its own label.         *)

ProbeEnable ==
  /\ pc = "unbound"
  /\ enabled' = TRUE
  /\ index' = 0 /\ pm' = "active" /\ mode' = "other"
  /\ Goto("regions")
  /\ UNCHANGED <<regions, kids, irq, hw, capture, isr, timedout>>

ProbeRegions ==
  /\ pc = "regions"
  /\ \/ regions' = TRUE /\ Goto("alloc")
     \/ UNCHANGED regions /\ Goto("disable_pci")
  /\ UNCHANGED <<index, mode, enabled, kids, irq, pm, hw, capture, isr, timedout>>

\* devm_kzalloc and devm_ioremap.
ProbeAlloc ==
  /\ pc = "alloc"
  /\ Goto("init") \/ Goto("release_regions")
  /\ UNCHANGED <<index, mode, resource, pm, hw, capture, isr, timedout>>

ProbeInit ==
  /\ pc = "init"
  /\ \E outcome \in {"ok", "power", "reset"} :
       /\ acp6x_init(outcome)
       /\ Goto(IF outcome = "ok" THEN "config" ELSE "release_regions")
  /\ UNCHANGED <<index, mode, resource, pm, capture, isr>>

\* A probe that requests the interrupt before it registers the devices.
BadProbeConfig ==
  /\ pc = "config"
  /\ irq' = TRUE
  /\ \/ UNCHANGED mode /\ Goto("irq")
     \/ mode' = "pdm" /\ Goto("register")
     \/ UNCHANGED mode /\ Goto("de_init")
  /\ UNCHANGED <<index, enabled, regions, kids, pm, hw, capture, isr, timedout>>

\* ACP_PIN_CONFIG: six values are not for this driver, which then registers
\* no platform device but requests the interrupt all the same.
ProbeConfig ==
  /\ pc = "config"
  /\ \/ UNCHANGED mode /\ Goto("irq")
     \/ mode' = "pdm" /\ Goto("register")
     \/ UNCHANGED mode /\ Goto("de_init")
  /\ UNCHANGED <<index, resource, pm, hw, capture, isr, timedout>>

ProbeRegister ==
  /\ pc = "register"
  /\ \/ /\ kids' = kids \cup {index}
        /\ index' = index + 1
        /\ Goto(IF index + 1 < ACP6x_DEVS THEN "register" ELSE "irq")
     \/ UNCHANGED <<kids, index>> /\ Goto("unregister_devs")
  /\ UNCHANGED <<mode, enabled, regions, irq, pm, hw, capture, isr, timedout>>

ProbeIrq ==
  /\ pc = "irq"
  /\ \/ irq' = TRUE /\ Goto("bound")
     \/ UNCHANGED irq /\ Goto("unregister_devs")
  /\ UNCHANGED <<index, mode, enabled, regions, kids, pm, hw, capture, isr, timedout>>

\* An unwinding loop whose bound is one off: pdev[0] stays registered.
BadUnregisterDevs ==
  /\ pc = "unregister_devs"
  /\ IF index <= 1
       THEN Goto("de_init") /\ UNCHANGED <<kids, index>>
       ELSE /\ ~capture
            /\ kids' = kids \ {index - 1}
            /\ index' = index - 1
            /\ UNCHANGED pc
  /\ UNCHANGED <<mode, enabled, regions, irq, pm, hw, capture, isr, timedout>>

\* An unwinding loop that forgets to count.
BadUnwind ==
  /\ pc = "unregister_devs"
  /\ IF index = 0
       THEN Goto("de_init") /\ UNCHANGED <<kids, index>>
       ELSE ~capture /\ kids' = kids \ {index - 1} /\ UNCHANGED <<pc, index>>
  /\ UNCHANGED <<mode, enabled, regions, irq, pm, hw, capture, isr, timedout>>

\* The label unregister_devs: from --index down to 0.  Unregistering the first
\* of them takes the sound card down, which waits for the stream to be closed.
UnregisterDevs ==
  /\ pc = "unregister_devs"
  /\ IF index = 0
       THEN Goto("de_init") /\ UNCHANGED <<kids, index>>
       ELSE /\ ~capture
            /\ kids' = kids \ {index - 1}
            /\ index' = index - 1
            /\ UNCHANGED pc
  /\ UNCHANGED <<mode, enabled, regions, irq, pm, hw, capture, isr, timedout>>

DeInit ==
  /\ pc = "de_init"
  /\ \E outcome \in {"ok", "reset"} : acp6x_deinit(outcome)
  /\ Goto("release_regions")
  /\ UNCHANGED <<index, mode, resource, pm, capture, isr>>

ReleaseRegions ==
  /\ pc = "release_regions"
  /\ regions' = FALSE
  /\ Goto("disable_pci")
  /\ UNCHANGED <<index, mode, enabled, kids, irq, pm, hw, capture, isr, timedout>>

DisablePci ==
  /\ pc = "disable_pci"
  /\ enabled' = FALSE
  /\ Goto("unbound")
  /\ UNCHANGED <<index, mode, regions, kids, irq, pm, hw, capture, isr, timedout>>

------------------------------------------------------------------------------
(* snd_acp6x_remove.  The PCI core resumes the device before it, and frees   *)
(* the managed interrupt only after it.                                      *)

\* A remove that shuts the coprocessor down before its children.
BadRemoveStart ==
  /\ pc = "bound" /\ pm # "suspended"
  /\ index' = 0
  /\ \E outcome \in {"ok", "reset"} : acp6x_deinit(outcome)
  /\ Goto(IF mode = "pdm" THEN "rm_devs" ELSE "rm_deinit")
  /\ UNCHANGED <<mode, resource, pm, capture, isr>>

RemoveStart ==
  /\ pc = "bound" /\ pm # "suspended"
  /\ index' = 0
  /\ Goto(IF mode = "pdm" THEN "rm_devs" ELSE "rm_deinit")
  /\ UNCHANGED <<mode, resource, pm, hw, capture, isr, timedout>>

\* A loop that runs up to and including ACP6x_DEVS.
BadRemoveDevs ==
  /\ pc = "rm_devs"
  /\ ~capture
  /\ kids' = kids \ {index}
  /\ index' = index + 1
  /\ Goto(IF index + 1 <= ACP6x_DEVS THEN "rm_devs" ELSE "rm_deinit")
  /\ UNCHANGED <<mode, enabled, regions, irq, pm, hw, capture, isr, timedout>>

RemoveDevs ==
  /\ pc = "rm_devs"
  /\ ~capture
  /\ kids' = kids \ {index}
  /\ index' = index + 1
  /\ Goto(IF index + 1 < ACP6x_DEVS THEN "rm_devs" ELSE "rm_deinit")
  /\ UNCHANGED <<mode, enabled, regions, irq, pm, hw, capture, isr, timedout>>

RemoveDeinit ==
  /\ pc = "rm_deinit"
  /\ \E outcome \in {"ok", "reset"} : acp6x_deinit(outcome)
  /\ Goto("rm_release")
  /\ UNCHANGED <<index, mode, resource, pm, capture, isr>>

\* pci_release_regions and pci_disable_device.
RemoveRelease ==
  /\ pc = "rm_release"
  /\ regions' = FALSE /\ enabled' = FALSE
  /\ Goto("rm_irq")
  /\ UNCHANGED <<index, mode, kids, irq, pm, hw, capture, isr, timedout>>

\* The driver core's release of managed resources: free_irq lets no new call
\* of the handler begin, and waits for one that is under way.
RemoveFreeIrq ==
  /\ pc = "rm_irq"
  /\ irq' = FALSE
  /\ Goto("rm_sync")
  /\ UNCHANGED <<index, mode, enabled, regions, kids, pm, hw, capture, isr, timedout>>

RemoveSyncIrq ==
  /\ pc = "rm_sync"
  /\ handler = "idle"
  /\ Goto("unbound")
  /\ UNCHANGED <<index, mode, resource, pm, hw, capture, isr, timedout>>

------------------------------------------------------------------------------
(* Runtime PM.  The stream holds the device active; an error other than      *)
(* -EAGAIN or -EBUSY is final for the PM core.                               *)

\* snd_acp6x_suspend
RuntimeSuspend ==
  /\ pc = "bound" /\ pm = "active" /\ ~capture
  /\ \E outcome \in {"ok", "reset"} :
       /\ acp6x_deinit(outcome)
       /\ pm' = IF outcome = "ok" THEN "suspended" ELSE "error"
  /\ UNCHANGED <<pc, index, mode, resource, capture, isr>>

\* snd_acp6x_resume
RuntimeResume ==
  /\ pc = "bound" /\ pm = "suspended"
  /\ \E outcome \in {"ok", "power", "reset"} :
       /\ acp6x_init(outcome)
       /\ pm' = IF outcome = "ok" THEN "active" ELSE "error"
  /\ UNCHANGED <<pc, index, mode, resource, capture, isr>>

------------------------------------------------------------------------------
(* The capture stream, on behalf of a process, and the hardware.             *)

\* The sound card is complete: every platform device is registered, and none
\* is on its way out.
CardUp == kids = Devs /\ pc \in {"irq", "bound"}

OpenStream ==
  /\ CardUp /\ ~capture
  /\ pm = "active"
  /\ capture' = TRUE
  /\ UNCHANGED <<pc, index, mode, resource, pm, hw, isr, timedout>>

CloseStream ==
  /\ capture
  /\ capture' = FALSE
  /\ UNCHANGED <<pc, index, mode, resource, pm, hw, isr, timedout>>

\* The DMA engine has filled a period.
PeriodDone ==
  /\ capture /\ ~stat
  /\ stat' = TRUE
  /\ UNCHANGED <<pc, index, mode, resource, pm, ctrl, enb, capture, isr, timedout>>

------------------------------------------------------------------------------
(* acp6x_irq_handler, step by step.  A call that finds the status bit clear  *)
(* returns IRQ_NONE and has done nothing.                                    *)

IrqReadStat ==
  /\ irq /\ handler = "idle"
  /\ stat \/ pm = "suspended"
  /\ handler' = "drvdata"
  /\ allones' = (pm = "suspended")
  /\ UNCHANGED <<pc, index, mode, resource, pm, hw, capture, timedout>>

\* dev_get_drvdata(&adata->pdev[0]->dev), and the acknowledgement.
IrqAck ==
  /\ handler = "drvdata"
  /\ stat' = FALSE
  /\ handler' = "test"
  /\ UNCHANGED <<pc, index, mode, resource, pm, ctrl, enb, capture, allones, timedout>>

IrqTestStream ==
  /\ handler = "test"
  /\ handler' = IF capture THEN "elapsed" ELSE "idle"
  /\ UNCHANGED <<pc, index, mode, resource, pm, hw, capture, allones, timedout>>

\* snd_pcm_period_elapsed, with capture_stream read a second time.
IrqPeriodElapsed ==
  /\ handler = "elapsed"
  /\ handler' = "idle"
  /\ UNCHANGED <<pc, index, mode, resource, pm, hw, capture, allones, timedout>>

------------------------------------------------------------------------------
Init ==
  /\ pc = "unbound" /\ index = 0 /\ mode = "other"
  /\ enabled = FALSE /\ regions = FALSE /\ kids = {} /\ irq = FALSE
  /\ pm = "active"
  /\ ctrl = FALSE /\ enb = FALSE /\ stat = FALSE
  /\ capture = FALSE /\ handler = "idle"
  /\ timedout = FALSE /\ allones = FALSE

Probe ==
  \/ ProbeRegions \/ ProbeAlloc \/ ProbeInit \/ ProbeConfig
  \/ ProbeRegister \/ ProbeIrq
  \/ UnregisterDevs \/ DeInit \/ ReleaseRegions \/ DisablePci

Remove ==
  RemoveDevs \/ RemoveDeinit \/ RemoveRelease \/ RemoveFreeIrq \/ RemoveSyncIrq

Handler == IrqAck \/ IrqTestStream \/ IrqPeriodElapsed

Next ==
  \/ ProbeEnable \/ Probe
  \/ RemoveStart \/ Remove
  \/ RuntimeSuspend \/ RuntimeResume
  \/ OpenStream \/ CloseStream \/ PeriodDone
  \/ IrqReadStat \/ Handler

Spec == Init /\ [][Next]_vars

\* Kernel code that has begun runs to its end.  A process that has the stream
\* open closes it: platform_device_unregister waits for that, and nothing else
\* makes it happen.
FairSpec ==
  Spec /\ WF_vars(Probe) /\ WF_vars(Remove) /\ WF_vars(Handler) /\ WF_vars(CloseStream)

------------------------------------------------------------------------------
ProbeSteps  == {"regions", "alloc", "init", "config", "register", "irq",
                "unregister_devs", "de_init", "release_regions", "disable_pci"}
RemoveSteps == {"rm_devs", "rm_deinit", "rm_release", "rm_irq", "rm_sync"}

\* The Boolean part of the state.
Flags ==
  /\ enabled \in BOOLEAN /\ regions \in BOOLEAN /\ irq \in BOOLEAN
  /\ ctrl \in BOOLEAN /\ enb \in BOOLEAN /\ stat \in BOOLEAN
  /\ capture \in BOOLEAN /\ timedout \in BOOLEAN /\ allones \in BOOLEAN

(* Type correctness; the loop variable never leaves the array pdev[].        *)
TypeOK ==
  /\ pc \in {"unbound", "bound"} \cup ProbeSteps \cup RemoveSteps
  /\ index \in 0 .. ACP6x_DEVS /\ kids \subseteq Devs
  /\ mode \in {"pdm", "other"} /\ pm \in {"active", "suspended", "error"}
  /\ handler \in {"idle", "drvdata", "test", "elapsed"}
  /\ Flags

(* Every exit of snd_acp6x_probe, and snd_acp6x_remove, gives back exactly   *)
(* what was taken: an unbound device has no platform device, region,         *)
(* interrupt, open stream or running handler left.                           *)
ReleasedWhenUnbound ==
  pc = "unbound" =>
    /\ ~enabled /\ ~regions /\ ~irq /\ kids = {}
    /\ ~capture /\ handler = "idle"

(* An unbound device is shut down, with its interrupts off, unless a soft    *)
(* reset timed out (acp6x_init then leaves ACP_CONTROL set, and probe skips  *)
(* acp6x_deinit).                                                            *)
PoweredOffWhenUnbound ==
  pc = "unbound" /\ ~timedout => ~ctrl /\ ~enb /\ ~stat

(* While a stream is open the coprocessor is on with interrupts enabled:     *)
(* neither runtime suspend nor remove, nor an error exit of probe that was   *)
(* raced by an open, shuts it down under the stream.                         *)
CaptureArmed == capture => pm = "active" /\ ctrl /\ enb

(* The handler reads pdev[0] only while that device is registered: probe     *)
(* requests the interrupt last.  Two cases remain, and no other: a shared    *)
(* interrupt during remove, which unregisters the devices before it quiets   *)
(* the hardware, and one that reads all ones from a suspended device in a    *)
(* pin configuration without platform devices.                               *)
HandlerChildLive ==
  handler # "idle" =>
    0 \in kids \/ pc \in RemoveSteps \/ (mode = "other" /\ allones)

(* Every probe and every remove comes to its end, if processes close the     *)
(* streams they hold open.                                                   *)
Settles == pc \notin {"bound", "unbound"} ~> pc \in {"bound", "unbound"}

==============================================================================
