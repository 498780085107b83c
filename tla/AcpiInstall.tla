------------------------------ MODULE AcpiInstall ------------------------------
(***************************************************************************)
(* The ACPI fix: fixes/acpi/install.sh, dump_table.sh and uninstall.sh,    *)
(* with the machine they change.  install.sh disassembles a backup of the  *)
(* DSDT, patches it for the BIOS version at hand, puts the result in       *)
(* /boot/acpi_override, names that file in /etc/default/grub and lets the  *)
(* distribution regenerate grub.cfg; the kernel uses the new table from    *)
(* the next boot on.  Four pieces of state on disk have to agree, one      *)
(* command changes one of them, `set -e` stops at the first command that   *)
(* fails, and a run can be interrupted anywhere.  The user reboots,        *)
(* flashes another BIOS, installs again and uninstalls in any order.       *)
(***************************************************************************)
EXTENDS Naturals

CONSTANTS
  Bios,          \* BIOS versions with a directory under the product's
  Patches,       \* those with a patch for this distribution
  OsiScripts,    \* those with an override_acpi_osi.sh
  TM2019,        \* the board is the TM2019
  MayInterrupt,  \* a command can fail, or the run be killed, at any point
  Careless       \* the user flashes a BIOS without uninstalling first

ASSUME ParametersAssumption ==
  /\ Patches \subseteq Bios /\ OsiScripts \subseteq Bios
  /\ TM2019 \in BOOLEAN /\ MayInterrupt \in BOOLEAN /\ Careless \in BOOLEAN

VARIABLES
  bios,      \* the firmware version that dmidecode reports
  running,   \* the DSDT the running kernel uses
  backup,    \* dsdt.dat in ACPI_BACKUP_<version>, for each version
  original,  \* $TOP_DIR/original_dsdt.dat, which only the user puts there
  override,  \* /boot/acpi_override
  grub,      \* /etc/default/grub
  cfg,       \* grub.cfg, as last generated
  pc,        \* the next command of the script that is running
  nogrub,    \* NO_GRUB is set for this run
  work,      \* what this run has built in its directory
  \* History variables.
  claimed,   \* install.sh said "Successful!!!" for this BIOS, no uninstall since
  removed,   \* uninstall.sh came to its end, no install since
  broken     \* scripts that stopped half-way since grub.cfg was last generated

files  == <<backup, original, override>>
boot   == <<grub, cfg>>
script == <<pc, nogrub, work>>
ghosts == <<claimed, removed, broken>>
vars   == <<bios, running, files, boot, script, ghosts>>

------------------------------------------------------------------------------
(* A DSDT is known by the BIOS it comes from and by whether it was patched.  *)

Table(b, p) == [kind |-> "table", bios |-> b, patched |-> p]
Tables      == {Table(b, p) : b \in Bios, p \in BOOLEAN}
None        == [kind |-> "none"]      \* no such file
Partial     == [kind |-> "partial"]   \* a directory or a file left incomplete
NoTable     == [kind |-> "notable"]   \* a cpio archive without a table

IsTable(f) == f.kind = "table"

\* /etc/default/grub: `early` is the last GRUB_EARLY_INITRD_LINUX_CUSTOM line
\* of the script's making or left empty, `user` an earlier one naming an image
\* of the user's own, `cmdline` a GRUB_CMDLINE_LINUX_DEFAULT.
GrubFiles == [early : {"absent", "empty", "ours"}, user : BOOLEAN,
              osi : BOOLEAN, cmdline : BOOLEAN, deep : BOOLEAN]
Configs   == [early : {"none", "user", "ours"}, osi : BOOLEAN, deep : BOOLEAN]

\* grub-mkconfig: the last assignment wins, and an early initrd that does not
\* exist is left out.
Generate(g, file) ==
  [early |-> CASE g.early = "ours" -> IF file # None THEN "ours" ELSE "none"
               [] g.early = "empty" -> "none"
               [] g.early = "absent" -> IF g.user THEN "user" ELSE "none",
   osi |-> g.osi, deep |-> g.deep]

\* The DSDT that the kernel will use: the patches raise the OEM revision, so
\* a table in the early initrd replaces that of any BIOS of the board.
NextBoot(b) ==
  IF cfg.early = "ours" /\ IsTable(override) THEN override ELSE Table(b, FALSE)

------------------------------------------------------------------------------
(* The user, at the prompt.                                                  *)

Idle == pc = "idle"

Reboot ==
  /\ Idle
  /\ running' = NextBoot(bios)
  /\ UNCHANGED <<bios, files, boot, script, ghosts>>

\* A careful user uninstalls first and leaves no original_dsdt.dat behind.
FlashBios(b) ==
  /\ Idle
  /\ b # bios
  /\ Careless \/ (cfg.early # "ours" /\ override = None /\ original = None)
  /\ bios' = b
  /\ running' = NextBoot(b)
  /\ claimed' = FALSE
  /\ UNCHANGED <<files, boot, script, removed, broken>>

\* The original table of this BIOS, from a boot without the override.
ProvideOriginal ==
  /\ Idle
  /\ running = Table(bios, FALSE)
  /\ original' = running
  /\ UNCHANGED <<bios, running, backup, override, boot, script, ghosts>>

------------------------------------------------------------------------------
(* install.sh.  An unsupported BIOS version is refused before any change.    *)

Goto(label) == pc' = label /\ UNCHANGED nogrub
Exit        == pc' = "idle" /\ nogrub' = FALSE /\ work' = NoTable

\* An install.sh whose clean() removes the installed archive as well.
BadInstallClean ==
  /\ Idle
  /\ nogrub' \in BOOLEAN
  /\ work' = NoTable
  /\ override' = None
  /\ claimed' = FALSE /\ removed' = FALSE
  /\ pc' = IF bios \notin Patches THEN "copy"
           ELSE IF backup[bios] = None THEN "mkdir" ELSE "patch"
  /\ UNCHANGED <<bios, running, backup, original, boot, broken>>

InstallStart ==
  /\ Idle
  /\ nogrub' \in BOOLEAN
  /\ work' = NoTable
  /\ claimed' = FALSE /\ removed' = FALSE
  /\ pc' = IF bios \notin Patches THEN "copy"
           ELSE IF original # None THEN "redump"
           ELSE IF backup[bios] = None THEN "mkdir" ELSE "patch"
  /\ UNCHANGED <<bios, running, files, boot, broken>>

\* dump_table.sh with an original_dsdt.dat.  It has no `set -e`: a command
\* that fails is not noticed, and the next one runs.
MakeDumpDir ==
  /\ pc = "redump"
  /\ \/ backup' = [backup EXCEPT ![bios] = IF @ = None THEN Partial ELSE @]
     \/ MayInterrupt /\ UNCHANGED backup
  /\ Goto("dump")
  /\ UNCHANGED <<bios, running, original, override, boot, work, ghosts>>

\* acpidump writes the table of the running kernel over the one that is there,
\* an active override included.
Redump ==
  /\ pc = "dump"
  /\ \/ backup[bios] # None /\ backup' = [backup EXCEPT ![bios] = running]
     \/ /\ MayInterrupt /\ backup[bios] # None
        /\ backup' = [backup EXCEPT ![bios] = Partial]
     \/ MayInterrupt /\ UNCHANGED backup
  /\ Goto("rmdump")
  /\ UNCHANGED <<bios, running, original, override, boot, work, ghosts>>

\* A dump_table.sh that leaves it to the copy to replace dsdt.dat.
BadRmDump ==
  /\ pc = "rmdump"
  /\ Goto("restore")
  /\ UNCHANGED <<bios, running, files, boot, work, ghosts>>

\* `rm -f dsdt.dat` needs no space on the disk: where it fails, in a directory
\* just written, so do the copy and the last rm, and install.sh stops (Stop).
RmDump ==
  /\ pc = "rmdump"
  /\ backup' = [backup EXCEPT ![bios] = IF @ = None THEN None ELSE Partial]
  /\ Goto("restore")
  /\ UNCHANGED <<bios, running, original, override, boot, work, ghosts>>

RestoreOriginal ==
  /\ pc = "restore"
  /\ \/ backup[bios] # None /\ backup' = [backup EXCEPT ![bios] = original]
     \/ MayInterrupt /\ UNCHANGED backup
  /\ Goto("rmoriginal")
  /\ UNCHANGED <<bios, running, original, override, boot, work, ghosts>>

\* The user's file goes even if the copy failed.
RemoveOriginal ==
  /\ pc = "rmoriginal"
  /\ original' = None
  /\ Goto("patch")
  /\ UNCHANGED <<bios, running, backup, override, boot, work, ghosts>>

\* dump_table.sh without one.  A directory that exists is taken for a
\* complete backup.  A failed acpidump is the exit status of the script, and
\* stops install.sh.
MakeBackupDir ==
  /\ pc = "mkdir"
  /\ backup' = [backup EXCEPT ![bios] = Partial]
  /\ Goto("acpidump")
  /\ UNCHANGED <<bios, running, original, override, boot, work, ghosts>>

Acpidump ==
  /\ pc = "acpidump"
  /\ backup' = [backup EXCEPT ![bios] = running]
  /\ Goto("patch")
  /\ UNCHANGED <<bios, running, original, override, boot, work, ghosts>>

\* An install.sh that goes on when patch fails, with whatever there is.
BadPatch ==
  /\ pc = "patch"
  /\ work' = backup[bios]
  /\ Goto("copy")
  /\ UNCHANGED <<bios, running, files, boot, ghosts>>

\* iasl and patch.  A patched table is refused (its OEM revision is no longer
\* the one the diff expects); the original of another BIOS may or may not be.
PatchSucceeds ==
  /\ pc = "patch"
  /\ IsTable(backup[bios])
  /\ ~backup[bios].patched
  /\ work' = Table(backup[bios].bios, TRUE)
  /\ Goto("copy")
  /\ UNCHANGED <<bios, running, files, boot, ghosts>>

CopyOverride ==
  /\ pc = "copy"
  /\ override' = work
  /\ Goto(IF nogrub THEN "finish" ELSE "osi")
  /\ UNCHANGED <<bios, running, backup, original, boot, work, ghosts>>

\* override_acpi_osi.sh, and the early return of update_grub.
UpdateGrubOsi ==
  /\ pc = "osi"
  /\ grub' = [grub EXCEPT !.osi = @ \/ bios \in OsiScripts]
  /\ Goto(IF grub.early = "ours" THEN "finish" ELSE "early")
  /\ UNCHANGED <<bios, running, files, cfg, work, ghosts>>

UpdateGrubEarly ==
  /\ pc = "early"
  /\ grub' = [grub EXCEPT !.early = "ours"]
  /\ Goto("memsleep")
  /\ UNCHANGED <<bios, running, files, cfg, work, ghosts>>

\* grub_mem_sleep.  Its sed has no branch here: `-ire` is -i with a suffix,
\* not -r, so the reference \1 is invalid and the script stops (StopsAlways).
GrubMemSleep ==
  /\ pc = "memsleep"
  /\ ~TM2019 \/ grub.deep \/ ~grub.cmdline
  /\ grub' = IF TM2019 THEN [grub EXCEPT !.deep = TRUE, !.cmdline = TRUE] ELSE grub
  /\ Goto("mkconfig")
  /\ UNCHANGED <<bios, running, files, cfg, work, ghosts>>

\* An install that leaves grub.cfg to the next kernel update.
BadUpdateGrub ==
  /\ pc = "mkconfig"
  /\ Goto("finish")
  /\ UNCHANGED <<bios, running, files, boot, work, ghosts>>

UpdateGrub ==
  /\ pc = "mkconfig"
  /\ cfg' = Generate(grub, override)
  /\ broken' = {}
  /\ Goto("finish")
  /\ UNCHANGED <<bios, running, files, grub, work, claimed, removed>>

Finish ==
  /\ pc = "finish"
  /\ claimed' = ~nogrub
  /\ Exit
  /\ UNCHANGED <<bios, running, files, boot, removed, broken>>

------------------------------------------------------------------------------
(* uninstall.sh.                                                             *)

UninstallStart ==
  /\ Idle
  /\ claimed' = FALSE
  /\ Goto("u_rm")
  /\ UNCHANGED <<bios, running, files, boot, work, removed, broken>>

UninstallRm ==
  /\ pc = "u_rm"
  /\ override' = None
  /\ Goto("u_early")
  /\ UNCHANGED <<bios, running, backup, original, boot, work, ghosts>>

\* An uninstall.sh that leaves the name of the file in /etc/default/grub.
BadUninstallEarly ==
  /\ pc = "u_early"
  /\ Goto("u_mkconfig")
  /\ UNCHANGED <<bios, running, files, boot, work, ghosts>>

\* The two seds that undo the changes to /etc/default/grub; on the TM2019 the
\* parameter goes, whoever wrote it.  acpi_osi stays.
UninstallEarly ==
  /\ pc = "u_early"
  /\ grub' = [grub EXCEPT !.early = IF @ = "ours" THEN "empty" ELSE @]
  /\ Goto("u_deep")
  /\ UNCHANGED <<bios, running, files, cfg, work, ghosts>>

UninstallDeep ==
  /\ pc = "u_deep"
  /\ grub' = [grub EXCEPT !.deep = @ /\ ~TM2019]
  /\ Goto("u_mkconfig")
  /\ UNCHANGED <<bios, running, files, cfg, work, ghosts>>

UninstallUpdateGrub ==
  /\ pc = "u_mkconfig"
  /\ cfg' = Generate(grub, override)
  /\ broken' = {} /\ removed' = TRUE
  /\ Exit
  /\ UNCHANGED <<bios, running, files, grub, claimed>>

------------------------------------------------------------------------------
(* A script stops before its end: always where a command cannot succeed, and *)
(* anywhere if commands may fail or the machine may lose power.              *)

UninstallSteps == {"u_rm", "u_early", "u_deep", "u_mkconfig"}

StopsAlways ==
  \/ pc = "patch" /\ backup[bios] # Table(bios, FALSE)
  \/ pc = "memsleep" /\ TM2019 /\ ~grub.deep /\ grub.cmdline

Stop ==
  /\ ~Idle
  /\ MayInterrupt \/ StopsAlways
  /\ broken' = broken \cup {IF pc \in UninstallSteps THEN "uninstall" ELSE "install"}
  /\ Exit
  /\ override' \in IF pc = "copy" THEN {override, Partial} ELSE {override}
  /\ UNCHANGED <<bios, running, backup, original, boot, claimed, removed>>

------------------------------------------------------------------------------
Init ==
  /\ bios \in Bios
  /\ running = Table(bios, FALSE)
  /\ backup = [b \in Bios |-> None]
  /\ original = None /\ override = None
  /\ grub \in {g \in GrubFiles : g.early # "ours" /\ (g.deep => g.cmdline)}
  /\ cfg = Generate(grub, override)
  /\ pc = "idle" /\ nogrub = FALSE /\ work = NoTable
  /\ claimed = FALSE /\ removed = FALSE /\ broken = {}

Next ==
  \/ Reboot \/ ProvideOriginal
  \/ \E b \in Bios : FlashBios(b)
  \/ InstallStart \/ MakeDumpDir \/ Redump \/ RmDump \/ RestoreOriginal
  \/ RemoveOriginal
  \/ MakeBackupDir \/ Acpidump \/ PatchSucceeds \/ CopyOverride
  \/ UpdateGrubOsi \/ UpdateGrubEarly \/ GrubMemSleep \/ UpdateGrub \/ Finish
  \/ UninstallStart \/ UninstallRm \/ UninstallEarly \/ UninstallDeep
  \/ UninstallUpdateGrub
  \/ Stop

Spec == Init /\ [][Next]_vars

------------------------------------------------------------------------------
(* Type correctness of the disk state and of the scripts' position.          *)
TypeOK ==
  /\ bios \in Bios /\ running \in Tables
  /\ backup \in [Bios -> Tables \cup {None, Partial}]
  /\ original \in Tables \cup {None}
  /\ override \in Tables \cup {None, Partial, NoTable}
  /\ work \in Tables \cup {NoTable}
  /\ grub \in GrubFiles /\ cfg \in Configs
  /\ nogrub \in BOOLEAN /\ claimed \in BOOLEAN /\ removed \in BOOLEAN
  /\ broken \subseteq {"install", "uninstall"}
  /\ pc \in {"idle", "redump", "dump", "rmdump", "restore", "rmoriginal", "mkdir",
             "acpidump", "patch", "copy", "osi", "early", "memsleep", "mkconfig",
             "finish"}
            \cup UninstallSteps

(* The order of install.sh (copy the archive, then name it in grub's files)  *)
(* never leaves a grub.cfg that loads a file which is not there, however the *)
(* runs before it ended: only an uninstall under way or cut short does, as   *)
(* it removes the file first.                                                *)
BootFilePresent ==
  cfg.early = "ours" /\ override = None =>
    pc \in UninstallSteps \/ "uninstall" \in broken

(* An uninstall.sh that reaches its end undoes whatever installs and         *)
(* uninstalls were cut short before it: no archive, no line that names it,   *)
(* no grub.cfg that loads it, and the next boot is on the BIOS's own table.  *)
UninstallCleans ==
  removed =>
    /\ override = None /\ grub.early # "ours" /\ cfg.early # "ours"
    /\ TM2019 => ~cfg.deep
    /\ NextBoot(bios) = Table(bios, FALSE)

(* "Successful!!!" (install.sh:136) is true of a careful user's machine if   *)
(* no script stopped half-way since grub.cfg was generated: the next boot is *)
(* on the patched table of the BIOS, and grub.cfg has all that the scripts   *)
(* wrote to /etc/default/grub.                                               *)
SuccessMeansActive ==
  claimed /\ broken = {} =>
    /\ NextBoot(bios) = Table(bios, bios \in Patches)
    /\ cfg = Generate(grub, override)

(* A stop or a failing command in dump_table.sh:9-17 never costs the         *)
(* original table, which every later install has to start from: what is kept *)
(* under a BIOS version is its original, or an incomplete dump that patch    *)
(* refuses, or, from acpidump to the next install that gets past `rm -f      *)
(* dsdt.dat`, the patched table that was running, but then the user's        *)
(* original_dsdt.dat is still there.                                         *)
BackupRecoverable ==
  \A b \in Bios :
    \/ backup[b] \in {None, Partial, Table(b, FALSE)}
    \/ backup[b] = Table(b, TRUE) /\ original = Table(b, FALSE)

(* install.sh prints "Successful!!!" (install.sh:136) only when the next     *)
(* boot will load the override.                                              *)
SuccessIsHonest == claimed => cfg.early = "ours"

==============================================================================
