# A verification of modern_laptop

modern_laptop makes Linux work on some Redmi and Xiaomi notebooks: small kernel
drivers, patches for the firmware's ACPI tables, and the scripts that install
both. This directory holds TLA+ models of its own code, the TLC runs that check
them on small instances, and proofs that TLAPS checks for every instance. All
paths below are relative to the repository.

## 1. The system

| part | source | state it keeps | operations |
|---|---|---|---|
| keyboard backlight | `drivers/redmibook_kbd_backlight/*.c` | EC register KBBL, `saved_KBBL`, LED class cache, what is registered | EC read and write, LED store and show, PM notifier, `ec_init`, `ec_exit` |
| ACPI fix | `fixes/acpi/*.sh`, `scripts/update-grub.sh` | ACPI backups, `/boot/acpi_override`, `/etc/default/grub`, `grub.cfg` | install, dump, patch, update-grub, uninstall |
| microphone, PCI driver | `drivers/redmibook_dmic/pci-acp6x.c` | PCI resources, platform devices, interrupt, power and runtime PM state | probe and its five error exits, remove, suspend, resume, interrupt handler |
| microphone, capture device | `drivers/redmibook_dmic/acp6x-pdm-dma.c` | stream, ring buffer, DMA engine, interrupt mask, `bytescount` | open, hw_params, trigger, pointer, close, suspend, resume |
| microphone, sound card | `drivers/redmibook_dmic/acp6x-mach.c` | none of its own | suspends and resumes streams through `snd_soc_pm_ops` |
| hotkeys | `drivers/redmibook_wmi/*.c` | driver data, input device, keys down | probe, notify, remove |
| DKMS installer | `install.sh`, `drivers/dkms.bash`, `scripts/update-initrd.sh` | `/usr/src`, DKMS tree, `/lib/modules`, initial RAM disks, loaded modules | install, uninstall |
| fingerprint prototype | `drivers/fingerprint/docs/fpc.c` | event loop, one buffer, TLS socket pair | reassembly of USB events, relay of a TLS handshake |
| Wi-Fi error recovery | `drivers/rtw89-lwfinger/ser.c`, parts of `pci.c`, `core.c`, `mac80211.c` | recovery state, message queue, alarm, what was stopped, interrupt masks | interrupt, message handler, alarm, start, stop, restart |
| EC RAM, GNVS | `drivers/redmibook_ec`, `drivers/redmibook_gnvs` | none that lives | the first never compiles (`#error`), the second prints one value |
| other Wi-Fi and Bluetooth code | `drivers/rtl8852be`, the rest of `rtw89-lwfinger`, `blue8852be` | - | third-party drivers, shipped for DKMS |

How they interact. The ACPI fix with its `acpi_osi` parameter makes the
keyboard light stay on in sleep (`fixes/acpi/README.md`), which is why the
backlight driver has a PM notifier. The hotkeys and the backlight meet in the
EC: the firmware answers Fn+F10 itself, and the hotkey driver only tells user
space. The three parts of the microphone driver share one set of registers: the
PCI driver's reset clears what the capture device wrote, and the interrupt of
the PCI driver calls into the stream that the capture device published. Of
these three `drivers/redmibook_dmic/Makefile` builds only the sound card
(`acp6x-mach.o`), with the DMI entries of these notebooks; `pci-acp6x.c` and
`acp6x-pdm-dma.c` are in the repository but not built by it. The kernel ships
the same driver, and it is the kernel's build of these two that the card runs
with. The DKMS wrapper is what puts every driver here on a machine.

What is hard in it. None of the project's own drivers takes a lock; they rely on
the order in which the kernel calls them, and the interesting questions are
where that order does not protect them: the PM notifier runs while processes
run; notifications run during probe and remove; a shared interrupt arrives
during remove; the hardware answers after the driver gave up waiting. The
scripts change four files that must agree, one command at a time, and can stop
after any of them. The error recovery of the Wi-Fi driver has locks, and four
actors that let go of them in the middle. `PROJECT.json` lists these places line
by line.

What makes each part correct.
  - Backlight: a sleep cycle gives the level back, and the machine sleeps dark.
  - ACPI fix: what install reports is what the next boot does; the vendor's table
    is never lost; uninstall undoes everything; grub never names a lost file.
  - PCI driver: every exit returns what was taken; the coprocessor is not shut down
    under a stream; the handler touches nothing that is gone.
  - Capture device: a running stream is served; nothing is written to memory that
    was freed or during sleep; the position is where the engine writes.
  - Hotkeys: no key stays down; reports go to a device that exists.
  - DKMS: an install can always be repeated, leaves one revision, and lasts.
  - Wi-Fi recovery: it ends, gives back what it stopped, forgets no error, and a
    closed device is off.
  - Fingerprint prototype: the TLS server gets exactly the data of the TLS events.

## 2. Modules

| module | models | extended by |
|---|---|---|
| `KbdBacklight` | the backlight driver with the PM core, sysfs, insmod/rmmod, the EC | `MCKbdBacklight`, `KbdBacklightProofs` |
| `AcpiInstall` | the three scripts of the ACPI fix, with reboot and BIOS update | `MCAcpiInstall`, `AcpiInstallProofs` |
| `AcpPci` | probe, remove, runtime PM and interrupt handler of the PCI driver | `MCAcpPci`, `AcpPciProofs` |
| `PdmDma` | a capture stream on a device that sleeps | `MCPdmDma`, `PdmDmaProofs` |
| `Capture` | the contract of a capture device | instantiated by `PdmDma` and by `AcpDmic`, which implement it |
| `AcpDmic` | `AcpPci` and `PdmDma` on one coprocessor, with the binding of the platform driver | `MCAcpDmic`, `AcpDmicProofs` |
| `PdmPointer` | the two-halves counter and the position | `MCPdmPointer`, `AcpDmicProofs` |
| `RedmiWmi` | probe, notify and remove of the hotkey driver | `MCRedmiWmi`, `EventProofs` |
| `DkmsInstall` | the DKMS wrapper, for one driver | `MCDkmsInstall`, `DkmsInstallProofs` |
| `Rtw89Ser` | the system error recovery of rtw89 | `MCRtw89Ser`, `Rtw89SerProofs` |
| `FpcProto` | the event loop of the fingerprint prototype | `MCFpcProto`, `EventProofs` |

Conventions. Variables and helpers keep the names of the source (`saved_KBBL`,
`acp6x_deinit`, `bytescount`). An action is a piece of code that no other actor
the model knows can cut in two: a call into the EC, a shell command, a register
access in the handler. Where a program counter is needed it is called `pc` and
its values are the labels of the source (`unregister_devs`, `de_init`, ...).
Below "History variables" stand the ones that only properties look at: they
record which disturbance came in between, so that a property can say *under
which interference exactly* a promise is lost. Operators named `Bad...` are
plausible mistakes, not used by the specifications: each property was seen to
fail when the definition after it is exchanged for one of them. `FpcProto` and
`PdmPointer` share a module of proofs with another component and therefore name their
specification after themselves (`FpcSpec`, `PointerSpec`).

### KbdBacklight
`phase` is the position of the PM core in a sleep cycle: `awake`, `saving`
(PREPARE has read KBBL and not yet written it), `prepared`, `asleep`, `thawed`.
Processes and module loading run in every phase but `asleep`. Every EC access
has an outcome; a failed write may or may not have reached the EC. `upset`
collects what happened to the register since the level was chosen: an EC error,
a write inside the window, a module that came or went, a hibernation.

### AcpiInstall
One action per command; a table is known by its BIOS version and by whether it
was patched. `MayInterrupt` lets any command fail or be the last one, `Careless` lets the user flash a
BIOS without uninstalling. `Stop` is `set -e`, a failing command or a power loss. On
the TM2019 `GrubMemSleep` has no branch for the `sed` of install.sh:27, since that
command cannot succeed (see Findings). `dump_table.sh` has no `set -e`: on its way
with an `original_dsdt.dat` it is one action per command (`mkdir`, `acpidump`, `rm -f`,
`cp`, `rm`), each of which may also do nothing, or half of its work, and be followed
by the next. The two `rm` have no such branch. One that failed in a directory that was
just written would be a file system that has turned read-only: then `cp` and the last
`rm` fail as well, and that is `Stop`. Nobody but `dump_table.sh` removes
`original_dsdt.dat`. `TEST_ACPI` runs install nothing and are
left out.

### AcpPci
`pc` walks the labels of `snd_acp6x_probe` and `snd_acp6x_remove`. A reset or power-on
that times out is an outcome of `acp6x_init` and `acp6x_deinit`. `acp6x_reset` reports only
the time-out of its second poll: it may return 0 without having reset anything, and a
status bit from before then outlives `acp6x_init`. The handler is
four steps, so that it can meet every point of remove. In a pin configuration
that is not for this driver no platform device exists, yet the interrupt is
requested: the model keeps both modes.

### PdmDma
`dma` has the four combinations of the request and status bits of the DMA engine.
The poll of a start or a stop ends when the hardware has answered, or times out; the
hardware may answer afterwards. ALSA's part (state of the stream, undo of a failed
start) is external and modelled from what the driver relies on. `trouble` records
time-outs since the last reset that was carried out. A reset that returns 0 because its
first poll's time-out is ignored (`NoReset`) clears neither the registers nor `trouble`;
what the drivers write themselves around it (masks, enable) happens all the same.

### Capture, and how PdmDma implements it
`Capture` knows a stream, a buffer and an engine that is on or off. The mapping is
`state <- stream`, `moving <- wait # "none"` (a trigger callback is polling),
`writing <- dma \in {"on", "stopping"}` (the status bit), `faulty <- trouble # {}`.
Registers, interrupt masks and power management are hidden: a sleep or a resume of
either device is a `Halt`, a `Recover` or a stutter. `ImplementsCapture` says that in
every order of process, power management and late answers the engine is switched
only for a request, on before the stream runs and off before it stops running.

### AcpDmic
The two components as they are, by INSTANCE: an action of this module is one of theirs,
or one of each where one call changes both (a reset in probe, remove, runtime or
system sleep clears the registers of the capture device; open and close change what
the handler sees). `StreamServed` and `CardImplementsCapture` ask of the whole what
`PdmDma` promises by itself, where nothing but sleep resets the coprocessor. Shared are `enb` and the stream; AcpPci's `capture` is "the stream
is not closed", its `pm` a function of the runtime status of both devices. New are
`driver` (the platform driver is bound to `pdev[0]`: its module may come late, and can
be unbound while no stream is open) and the history `owed`. A handler that finds no
driver would follow a null pointer; the model lets it stop there, which is why this run
does not check for deadlock.

### PdmPointer
`Word` stands for 2^32. The two reads of the counter are two steps with the
hardware counting between them. `late` records the one way in which the count noted at
the start can be wrong: the engine of an earlier run still counted when the start
read it.

### RedmiWmi
`handler[w]` is what a worker of the ACPI notify queue still has to report. The WMI
core of the kernels this repository supports (5.17 to 6.1) calls notify with no lock
against probe and remove. `overlap` records the notifications that met one.

### DkmsInstall
One action per command of `dkms.bash`. A driver is known by its revision; the version
number in `dkms.conf` does not change with it. `dkms remove` that fails leaves an
unknown part, and `|| true` goes on; an interrupted command leaves its target in part.
The kernel's package manager can run DKMS at any time, a reboot loads from the initial
RAM disk first. `claimed` and `home` note what the last complete install promised, and
for which kernel.

### Rtw89Ser
`state` and `queue` are those of `ser.c`; `work` is the position of the work queue,
`irq` that of the interrupt thread and the NAPI
poll, `mac` that of mac80211 under its own lock. The firmware (`fw`) is the other end of the
handshake M1 to M5; it may fail again at any time, answer late, or never. mac80211 flushes
the work queue before it stops or restarts a device.

`ser_state_run` takes `rtwdev->mutex` for a moment (`LeaveLps`) and calls the state function
without it. The functions are therefore cut where a start or a stop of the device, which
hold the mutex, can change what comes next: on the way out of RESET_TRX between the DMA
and the traffic (`StateOut`, `ResumeTraffic`), on the way in between the DMA and the receive
path (`EnterResetTrx`, `StopRx`), in L2_RESET around the stop and the restart. A start holds
the mutex to its end and is one step; a stop lets go of it in the middle (core.c:3161).
`excuses` records what the
properties except: a message `overtaken` in the last-in first-out queue or `lost`
without memory, a report during L2_RESET (`deaf`), DMA that does not start again
(`nodma`), RTW89_FLAG_RUNNING wrong (`stale`), a start that failed with the power on
(`halfway`).

### FpcProto
A unit stands for the bytes of a header or a piece of what follows; each has an identity, so
that lost and misplaced ones are seen. `WriteAndDrain` is what libevent does: the
write takes the bytes out of the buffer, the drain after it as many again. A
control transfer handles USB events while it waits, so a bulk transfer can
complete inside `fpc_get_tls_key`.

## 3. Runs

| run | instance | states | question |
|---|---|---|---|
| `kbd` | requests 0..4 | 125 277 | Which interference loses the level, the darkness, the cache? |
| `acpi_any` | 3 BIOS versions, TM2019, interruptions, careless user | 5.0 million | What holds whatever the user and the machine do? |
| `acpi_careful` | 3 BIOS versions, other boards, interruptions | 257 000 | What does "Successful!!!" mean for a careful user? |
| `acpi_claim` | TM2019, nothing interrupted | violation | Is "Successful!!!" true on a TM2019? |
| `acp_pci` | 3 platform devices | 631 | Do all exits clean up, and do probe and remove end? |
| `pdm_dma` | one stream | 21 767 | Is a running stream served through sleep and time-outs, as the contract asks? |
| `acp_dmic` | 3 platform devices, one stream | 892 950 | Do the two drivers keep out of each other's way, does the whole still keep the contract, and is every period heard? |
| `pdm_pointer` | words of 8, buffer of 4, count up to 26 | 762 627 | Is the position exact, and what does a torn read do? |
| `wmi` | 2 workers, 6 kinds of event data | 8 787 | Can a key stay down, or a report go to nothing? |
| `dkms` | 3 revisions, one does not build, 2 kernels | 68 464 | What does a finished install mean, and can every other one be repeated? |
| `ser` | 2 firmware errors | 399 869 | Does every recovery end, does every state that waits have its time-out, and what can be forgotten on the way? |
| `fpc` | 3 events of 0 or 3 units, packets of 2 | 682 357 | Is the relay faithful, and does a full socket stall it? |

Why the bounds are enough. `kbd`, `pdm_dma` and `acp_pci` have finite state by nature:
the runs cover all of it (requests beyond 3 are all alike to `Clamp`; 3 is the real
number of platform devices). Three BIOS versions give one with a patch, one with a
patch and an `acpi_osi` script, and one with neither, and allow flashing away and back.
`pdm_pointer` passes three carries with two buffers to a word, so that restarts fall
before, between and after carries. Two workers are what it takes for two
notifications of one key to overlap, and all pairs of them are reached. Two errors
let a recovery fail, or be overtaken, at each of its steps; opening, closing and
restarting are not bounded. Two kernels give one that runs and one that does not; two
revisions that build, an old and a new one. Three events, each split or not, let one
meet the remains of the one before and be met by the next.

What the runs show beyond "it holds" is in the exceptions that the properties name,
each of which was found necessary: the level is lost if anybody writes KBBL between
PREPARE and POST; a module whose PREPARE never succeeded writes 0 into KBBL;
hibernation is not handled; a coprocessor whose reset timed out during probe stays
on; the interrupt handler can use `pdev[0]` during remove after it was unregistered; a
position before the first byte of a run is the old count modulo the buffer; a
`<Xiao Ai>` release that overtakes its press leaves KEY_MEDIA down until the
next event; a stream opened before the interrupt is requested runs unheard if that
request fails, until it is closed; a period that completes as the stream closes can
leave the status bit set for a handler that finds no driver; an install that stops
between `acpidump` and `rm -f` (dump_table.sh:11) on a machine that runs with the override
leaves the patched table as the backup, until the next install restores it from
`original_dsdt.dat`.

A hazard of `PROJECT.json` that is one of these exceptions has a note saying so. The property
does not rule such a case out, since the code does not; it says that the promise is
lost in this case and in no other.

For the Wi-Fi recovery: a message queue that is a stack lets a timeout overtake the report
it was waiting for; a device that fails while it is being restarted is not heard (`L2_RESET`
answers no report); a device closed while its receive path is stopped is not stopped
(`rtw89_core_stop` returns early). For DKMS: if `dkms remove` fails, an entry
without sources can stay, and neither install nor uninstall gets past it; an install that
meets a module in use stops before the initial RAM disks are rebuilt. For
the prototype: a socket that takes part of a write loses as much again; an event that the switch
has no handler for is never taken out of the buffer, and nothing after it is recognised.

### Findings
`acpi_claim` refutes `SuccessIsHonest`. `sed -ire` in install.sh:27 is `-i` with the
suffix `re`, so the expression has no group and `\1` is an invalid reference: the
command fails. On a TM2019, `set -e` ends the first install after `/boot/acpi_override`
is in place and named in `/etc/default/grub`, before `grub.cfg` is regenerated. The
second run finds the name, skips the rest of `update_grub`, and prints
"Successful!!!" (install.sh:136). The patched table is not loaded until something else
regenerates `grub.cfg`.

### Fairness
Safety is checked without any. `Settles` (AcpPci) assumes weak fairness of the steps of
a probe, a remove and a handler under way: they are straight-line kernel code whose
loops are bounded. It also assumes that a process closes the stream it holds:
`platform_device_unregister` waits for that, and nothing in the driver forces it.

`PeriodHeard` (AcpDmic): an interrupt that is raised (status bit, both masks, requested) is
taken, the handler runs on, a trigger callback ends (its polls are bounded). Nothing is
assumed of probe, remove, power management or processes.

`RecoveryEnds` and `ErrorAnswered` (Rtw89Ser): queued work runs and an armed alarm goes off; a
pending report interrupts when the chip's interrupts are enabled; mac80211
finishes what it began. Strong fairness is needed where an actor waits for
`rtwdev->mutex`, which others take and release: a kernel mutex is handed to a waiter. The
firmware may stay silent for ever.

`LeftoverGoes` (FpcProto): `main` goes on and the TLS server reads its socket, so that the
event on it comes. A device that never completes `cmd_tls_init`, which is sent with no
time-out, is an end of its own (`hung`).

Nothing is assumed of users, of the hardware, or of the PM core.

## 4. Proofs

Checked by TLAPS for every value of the constants; no proof is omitted.

`KbdBacklightProofs` (assumption: requests are natural numbers): `TypeCorrect`,
`LevelIsKept`, `SuspendedIsDark`, `RegisterLegal`, `CacheIsCoherent`,
`NoCallbackDangles`. `LevelKept` speaks of the awake system only and is not
inductive. The strengthening says where the level is while the light is off:
`InFlight` (in `saved_KBBL` if the notifier will restore it, else still in the
register), `Dark` (off from the write of PREPARE to that of POST, not only asleep),
`CacheInFlight` (a clean cache holds the level to be restored) and `Registered`
(what each stage of `ec_init` and `ec_exit` has registered). The lemma `Codec` shows
that the two switch tables are inverse to each other.

`AcpPciProofs` (assumption: at least one platform device): `TypeCorrect`,
`NothingLeaks`, `UnboundIsOff`, `StreamsAreArmed`, `HandlerIsSafe`, for any number of
devices. What is held is a function of the label: `KidsAt` gives the platform
devices at each label as an interval of the loop variable, `Ladder` the PCI resources
and the interrupt, `StreamAt` where a stream can be open, `PowerAt` the state of
the coprocessor and `StatAt` who can have raised the interrupt and where a status bit
that no reset cleared can still stand. Both inductive
invariants have one proof step per action.

`PdmDmaProofs` (no constants): `TypeCorrect`, `RunningServed`, `NoDmaAfterFree`,
`SleepIsQuiet`, the refinement `Refinement` (`ImplementsCapture`) and the contract's own
safety, `EngineFollowsStream`. The properties speak of a stream at rest; the
strengthening says where it is while the trigger callback polls (`TriggerAt`), which
states it can have at each stage of system sleep (`SleepAt`), that buffer and runtime PM
follow the stream (`StreamAt`), and what the engine does in each of these cases where
nothing timed out (`EngineAt`). These form `Core`, which is inductive by itself.
What a reset clears is added on top in two parts, because the composition keeps one and
not the other: `StreamRegistersAt` (ring and mask, written by the capture device; with
`Core` it makes up `Device`) and `EnableAt` (the enable that the PCI driver writes). For the
refinement each action maps to one action of Capture or to a stutter, with `Core` before
and after; a reset that was not carried out is a stutter.

`AcpDmicProofs` (assumption: at least one platform device): `EngineHasOwner`,
`StreamIsServed` and the refinement `CardRefinement` (`CardImplementsCapture`). The proof is
compositional: it instantiates `AcpPciProofs` and `PdmDmaProofs` on the composed state and
cites their lemmas. A step of the composition that is a step of a part preserves that
part's invariant by the part's own lemma (`NextPlaces`, `NextDevice`), and maps to the contract
by `StepImplements` of PdmDmaProofs. What is new is `CardAt` (an open stream is one of a
complete card), `EnableAt` (the interrupt enable, which both drivers write, is off only in
sleep or where probe has not come to `acp6x_init` or remove is past `acp6x_deinit`), and the
actions that only the composition has: the resets by probe and remove, binding and
unbinding. Those clear the registers of the capture device without asking it; `CardAt`
and `Places` show that no stream is open then, so to the contract they are a `Fail`, a
`Recover` or a stutter.

The same module extends `PdmPointer`, the third part of the microphone, and has its
theorems `PositionIsExact` and `TornReadIsHarmless`, for every word and buffer size above 0.
They rest on `Reading` (the two reads are at most one carry apart), `Origin` (an undisturbed
start has noted the count at which the engine began), and on lemmas about `\div` and `%`.

`EventProofs`, first part (assumption: the firmware's event data have natural-number
fields): `TypeCorrect`, `DeviceThere`, `NoKeyStuck`, `MediaFollowsKey` of RedmiWmi, for any
set of workers. Each property speaks of a moment with no notification under way; the
invariant says who will bring it about: `PulseOwed` (a key that is down has a worker that
owes its release), `MediaAt` (every report about KEY_MEDIA still to come is right),
`OverlapAt`, `DeviceAt`.

`EventProofs`, second part (assumption: packets are not empty, sizes are natural numbers):
`RelayIsFaithful` of FpcProto, for any number of events of any length and any packet size. The
property compares what was delivered with a concatenation (`FlattenSeq`, a recursive
function of the library), so its proof needs induction. The library's induction theorems cannot be
instantiated by the provers; the induction is done instead with the least counterexample
(`Least`, from the well-foundedness of `<`): `FlatExists` and `FlatUnique` show that the
recursive function exists and is unique, `FlattenAppend` how it grows by one event. The
invariant `RelayInv` says that the buffer and what is still to come make up the event under
way (`BufferAt`), what was delivered before it (`DeliveredAt`), and that the callback on the
socket, which would write a half-assembled event, is armed only after the socket was full
(`ArmedAt`).

`DkmsInstallProofs` (assumption: some kernel exists, and revisions are told from "none"):
`TypeCorrect`, `AlwaysRepeatable`, `OnlyOneRevision`, `InstallLasts`, for any kernels and
revisions. `ScriptAt` says what each command finds of those before it, `OneSource` and
`EntryForModule` tie modules to sources and entries, `EntryHasSource` and `ClaimKept` carry
the promises across commands.

`AcpiInstallProofs` (assumption: patches and scripts are for BIOS versions):
`TypeCorrect`, `NoMissingArchive`, `UninstallIsComplete` for any BIOS versions, boards,
interruptions and users; `BackupStaysRecoverable` and `SuccessIsReal` for users who
uninstall before they flash a BIOS (`Careless = FALSE`, as in the run `acpi_careful`), the
hypothesis being part of the theorem. The first group rests on the order of the
commands (`UninstallAt`, `RemovedAt`, `InstallAt`). The second (`CarefulInv`) is about
agreement: of the tables on disk with the BIOS (`TablesAt`), of grub.cfg with
/etc/default/grub (`Synced`), and what a claim still implies (`ClaimAt`). For
`BackupRecoverable`, `DumpAt` says that a patched backup is gone before the copy, so that
`original_dsdt.dat` may go even if the copy fails; and the only original that can be there is
that of the present BIOS, so a patched backup of another version is impossible
(`OthersPristine`).

`Rtw89SerProofs` (assumption: the bound on errors is a number): `TypeCorrect`,
`NothingLeftStopped`, `ClosedIsOff`, the corollary `FairSafety`, `WaitsAreBounded` and
`ErrorsStayPending`, for any number of errors and however long the queue grows. `StoppedAt` says what the recovery has stopped at each
state and position of the work queue, `GotoAt` where it can go once it is `Going`, `SyncAt` and `OffAt`
how far the two competing stops (mac80211's and L2_RESET's) have got, `DmaAt` when the
DMA is on. The last two theorems are the safety halves of the two liveness properties. A
waiting state has its alarm or its message (`WaitAt`, which adds to `WaitIsBounded` the
moment when a message has been taken that the state will drop; inductive with the table of
transitions: no state drops its own time-out), so only lost memory can make it wait for
ever. For `ErrorPending`, `ErrorAt` says where an unanswered error is while the work queue is
inside `ser_state_goto`, and `MailboxAt` that once its report has left the mailbox the queue holds
no older answer of the firmware: this is why DO_HCI does not go back to IDLE on a stale
MAC_RESET_DONE while a new error waits. Both need lemmas about what sending and taking a
message does to a queue of any length (`Sent`, `Taken`, `Sends`).

The proofs found one thing that the run had missed: `PositionExact` used to hold only
because the instance's buffer size divides its word. A start whose two reads straddle a
carry of an engine that stops just then notes a count that is one word short;
`late` now records that case too, and the theorem is for every buffer size.

Only model-checked: liveness, which is out of the prover's reach (`Settles`, `PeriodHeard`,
`RecoveryEnds`, `ErrorAnswered`, `LeftoverGoes`). Every other property of a passing run is stated
by a theorem. Only proved: the type invariants of the modules whose runs do not name
`TypeOK`, whose theorem `TypeCorrect` says more than the run would.

## 5. Not modelled, and why

The EC RAM driver (does not compile), the GNVS reader and the one-line fixes (no
behaviour), the binaries of the fingerprint and brightness services (no source).

The vendored wireless drivers except the error recovery: `rtl8852be`, `blue8852be` and the
rest of `rtw89-lwfinger` are about 950 000 of the repository's lines. Most of them
are firmware images, calibration tables and register definitions, which have no behaviour
to model; the rest is other projects' code that this repository only carries.
The recovery is modelled because it is where that code is concurrent, has time-outs and
restarts, and where a user of these notebooks meets it. A map of the models can
therefore only ever cover a small share of all lines; it covers most of the
lines of the project's own drivers and scripts.

Inside the modelled parts: log messages, the `MSC_RAW` value, DMI tables and DAI links;
the leak of `pdm_stream_instance` in `acp6x_pdm_dma_close`, which no behaviour depends
on; `update-grub.sh` on a system with none of its tools; argument parsing and the
checks of `install.sh`; in rtw89 the removal of the driver (`rtw89_ser_deinit`), power save,
memory dumps and the DMA rings; in the fingerprint prototype cryptography, USB
descriptors and the list of libusb's file descriptors.

## 6. Plan

Done: all modules of section 2 with their runs; the proofs of section 4.

What could come next:
 1. AcpDmic: `CaptureArmed` and `HandlerChildLive` of AcpPci carried to the composition, where
    a second reason for a missing `drvdata` (no platform driver) has to be told apart.
 2. Rtw89Ser: the removal of the driver (`rtw89_ser_deinit` against a queued alarm), which needs
    the interrupt's release as one more actor.
 3. FpcProto: which bytes are lost after a full socket, as a bound instead of an exception.
