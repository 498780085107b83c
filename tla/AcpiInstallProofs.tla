--------------------------- MODULE AcpiInstallProofs ---------------------------
(***************************************************************************)
(* The invariants of AcpiInstall, for every set of BIOS versions, patches  *)
(* and boards, whether or not commands fail.                               *)
(*                                                                         *)
(* Two groups.  The first holds whatever the user does and rests on the    *)
(* order of the commands: what uninstall.sh has undone by each position,   *)
(* and what a finished uninstall keeps.  The second needs a careful user,  *)
(* and is about agreement: of the tables on disk with the BIOS, and of     *)
(* grub.cfg with /etc/default/grub.                                        *)
(***************************************************************************)
EXTENDS AcpiInstall, TLAPS

\* TypeOK in parts: tables, grub's files, truth values, positions.
FilesOK ==
  /\ bios \in Bios /\ running \in Tables
  /\ backup \in [Bios -> Tables \cup {None, Partial}]
  /\ original \in Tables \cup {None}
  /\ override \in Tables \cup {None, Partial, NoTable}
  /\ work \in Tables \cup {NoTable}
GrubOK  == grub \in GrubFiles /\ cfg \in Configs
FlagsOK == nogrub \in BOOLEAN /\ claimed \in BOOLEAN /\ removed \in BOOLEAN
PcOK ==
  /\ broken \subseteq {"install", "uninstall"}
  /\ pc \in {"idle", "redump", "dump", "rmdump", "restore", "rmoriginal", "mkdir",
             "acpidump", "patch", "copy", "osi", "early", "memsleep", "mkconfig",
             "finish"}
            \cup UninstallSteps

\* What the commands of uninstall.sh before this one have undone.
UninstallAt ==
  /\ pc \in {"u_early", "u_deep", "u_mkconfig"} => override = None
  /\ pc \in {"u_deep", "u_mkconfig"} => grub.early # "ours"
  /\ pc = "u_mkconfig" /\ TM2019 => ~grub.deep

\* A finished uninstall stays finished until the next install.
RemovedAt ==
  removed =>
    /\ pc \in {"idle"} \cup UninstallSteps
    /\ override = None /\ grub.early # "ours" /\ cfg.early # "ours"
    /\ TM2019 => ~cfg.deep

\* What the commands of install.sh before this one have done.
InstallAt ==
  /\ pc \in {"osi", "early", "memsleep", "mkconfig"} => ~nogrub
  /\ pc \in {"memsleep", "mkconfig"} => grub.early = "ours"
  /\ pc = "finish" /\ ~nogrub => grub.early = "ours"
  /\ pc \in {"early", "memsleep", "mkconfig"} /\ bios \in OsiScripts => grub.osi
  /\ pc \in {"osi", "early", "memsleep", "mkconfig", "finish"} => override = work
  /\ claimed => Idle

IInv ==
  /\ FilesOK /\ GrubOK /\ FlagsOK /\ PcOK
  /\ UninstallAt /\ RemovedAt /\ InstallAt /\ BootFilePresent

\* The tables of a careful user's machine are those of its BIOS, and a patched
\* one was made from a backup.
TablesAt ==
  /\ running \in {Table(bios, FALSE), Table(bios, TRUE)}
  /\ IsTable(override) => override = Table(bios, TRUE)
  /\ work \in {NoTable, Table(bios, TRUE)}
  /\ original \in {None, Table(bios, FALSE)}
  /\ backup[bios] = None =>
       running = Table(bios, FALSE) /\ ~IsTable(override) /\ work = NoTable

\* dump_table.sh and patch: which table is there when.  A patched backup is
\* gone before the copy, and so before the user's file is.
DumpAt ==
  /\ pc \in {"redump", "dump", "rmdump", "restore"} => original # None
  /\ pc \in {"restore", "rmoriginal"} =>
       backup[bios] \in {None, Partial, Table(bios, FALSE)}
  /\ pc = "mkdir" => backup[bios] = None
  /\ pc = "acpidump" => running = Table(bios, FALSE)
  /\ pc \in {"redump", "dump", "rmdump", "restore", "rmoriginal", "mkdir",
             "acpidump", "patch"} => bios \in Patches
  /\ pc \in {"copy", "osi", "early", "memsleep", "mkconfig", "finish"} =>
       work = IF bios \in Patches THEN Table(bios, TRUE) ELSE NoTable
  /\ pc \in {"idle"} \cup UninstallSteps => work = NoTable

\* What "Successful!!!" was printed for is still there.
ClaimAt ==
  claimed =>
    /\ grub.early = "ours"
    /\ override = IF bios \in Patches THEN Table(bios, TRUE) ELSE NoTable

\* The positions where /etc/default/grub and grub.cfg are to agree: before a
\* script writes the one, and after it has generated the other.
Agreeing == {"idle", "redump", "dump", "rmdump", "restore", "rmoriginal", "mkdir",
             "acpidump", "patch", "copy", "osi", "finish", "u_rm"}

Synced ==
  broken = {} =>
    /\ pc \in Agreeing => cfg = Generate(grub, override)
    /\ grub.early = "ours" /\ pc \notin UninstallSteps =>
         override # None /\ (bios \in OsiScripts => grub.osi)

CarefulInv == TablesAt /\ DumpAt /\ ClaimAt /\ BackupRecoverable /\ Synced

------------------------------------------------------------------------------
(* A table is known by its fields, and is none of the other things that a    *)
(* file can be.                                                              *)
LEMMA Kinds ==
  /\ \A b, p : /\ Table(b, p).kind = "table"
               /\ Table(b, p).bios = b /\ Table(b, p).patched = p
  /\ None.kind = "none" /\ Partial.kind = "partial" /\ NoTable.kind = "notable"
  BY DEF Table, None, Partial, NoTable

(* grub-mkconfig: what it makes of /etc/default/grub and the archive.        *)
LEMMA GenerateIs ==
  ASSUME NEW g \in GrubFiles, NEW file
  PROVE  /\ Generate(g, file) \in Configs
         /\ Generate(g, file).early = "ours" <=> g.early = "ours" /\ file # None
         /\ Generate(g, file).deep = g.deep
<1> DEFINE e == CASE g.early = "ours" -> IF file # None THEN "ours" ELSE "none"
                  [] g.early = "empty" -> "none"
                  [] g.early = "absent" -> IF g.user THEN "user" ELSE "none"
<1>1. g.early \in {"absent", "empty", "ours"} /\ g.osi \in BOOLEAN /\ g.deep \in BOOLEAN
  BY DEF GrubFiles
<1>2. e \in {"none", "user", "ours"} /\ (e = "ours" <=> g.early = "ours" /\ file # None)
  BY <1>1
<1>3. Generate(g, file) = [early |-> e, osi |-> g.osi, deep |-> g.deep]
  BY DEF Generate
<1> HIDE DEF e
<1> QED
  BY <1>1, <1>2, <1>3 DEF Configs

(* ... and that it only asks whether the archive is there.                   *)
LEMMA GenerateSame ==
  ASSUME NEW g \in GrubFiles, NEW file, NEW other,
         g.early = "ours" => file # None /\ other # None
  PROVE  Generate(g, file) = Generate(g, other)
<1>1. g.early \in {"absent", "empty", "ours"}
  BY DEF GrubFiles
<1>2. CASE g.early = "ours"
  BY <1>2 DEF Generate
<1>3. CASE g.early = "empty"
  BY <1>3 DEF Generate
<1>4. CASE g.early = "absent"
  BY <1>4 DEF Generate
<1> QED
  BY <1>1, <1>2, <1>3, <1>4

(* The type invariant is the conjunction of its parts.                       *)
LEMMA TypeParts == TypeOK <=> FilesOK /\ GrubOK /\ FlagsOK /\ PcOK
  BY DEF TypeOK, FilesOK, GrubOK, FlagsOK, PcOK

(* Every file that is a table is one of the board's.                         *)
LEMMA TableIn ==
  /\ \A b \in Bios, p \in BOOLEAN : Table(b, p) \in Tables
  /\ \A f \in Tables : IsTable(f) /\ f.bios \in Bios /\ f.patched \in BOOLEAN
  /\ ~IsTable(None) /\ ~IsTable(Partial) /\ ~IsTable(NoTable)
  BY Kinds DEF Tables, IsTable

(* So is the one that the kernel boots with.                                 *)
LEMMA NextBootTable ==
  ASSUME FilesOK, NEW b \in Bios
  PROVE  NextBoot(b) \in Tables
  BY TableIn DEF FilesOK, NextBoot

(* The fields of /etc/default/grub.                                          *)
LEMMA GrubFields ==
  ASSUME NEW g \in GrubFiles
  PROVE  g.deep \in BOOLEAN /\ g.osi \in BOOLEAN /\ g.early \in {"absent", "empty", "ours"}
  BY DEF GrubFiles

(* override_acpi_osi.sh adds its parameter, and is a no-op once it is there. *)
LEMMA OsiStep ==
  ASSUME GrubOK, UpdateGrubOsi
  PROVE  /\ GrubOK' /\ grub'.early = grub.early /\ grub'.deep = grub.deep
         /\ bios \in OsiScripts => grub'.osi
         /\ (bios \in OsiScripts => grub.osi) => grub' = grub
<1> DEFINE x == grub.osi \/ bios \in OsiScripts
<1>1. x \in BOOLEAN /\ (bios \in OsiScripts => x = TRUE)
  OBVIOUS
<1>2. grub' = [grub EXCEPT !.osi = x] /\ cfg' = cfg
  BY DEF UpdateGrubOsi
<1>3. (bios \in OsiScripts => grub.osi) => x = grub.osi
  BY GrubFields, Zenon DEF GrubOK
<1> HIDE DEF x
<1>4. /\ grub' \in GrubFiles /\ grub'.early = grub.early /\ grub'.deep = grub.deep
      /\ grub'.osi = x
  BY <1>1, <1>2 DEF GrubOK, GrubFiles
<1>5. bios \in OsiScripts => grub'.osi
  <2>1. bios \in OsiScripts => grub'.osi = TRUE
    BY <1>1, <1>4
  <2> QED
    BY <2>1
<1>6. (bios \in OsiScripts => grub.osi) => grub' = grub
  BY <1>2, <1>3 DEF GrubOK, GrubFiles
<1>7. GrubOK'
  BY <1>2, <1>4 DEF GrubOK
<1> QED
  BY <1>4, <1>5, <1>6, <1>7

(* The second sed of uninstall.sh, on the TM2019.                            *)
LEMMA DeepStep ==
  ASSUME GrubOK, UninstallDeep
  PROVE  /\ GrubOK' /\ grub'.early = grub.early
         /\ TM2019 => ~grub'.deep
<1> DEFINE x == grub.deep /\ ~TM2019
<1>1. x \in BOOLEAN /\ (TM2019 => x = FALSE)
  BY ParametersAssumption
<1>2. grub' = [grub EXCEPT !.deep = x] /\ cfg' = cfg
  BY DEF UninstallDeep
<1> HIDE DEF x
<1>3. grub' \in GrubFiles /\ grub'.early = grub.early /\ grub'.deep = x
  BY <1>1, <1>2 DEF GrubOK, GrubFiles
<1>4. TM2019 => ~grub'.deep
  <2>1. TM2019 => grub'.deep = FALSE
    BY <1>1, <1>3
  <2> QED
    BY <2>1
<1>5. GrubOK'
  BY <1>2, <1>3 DEF GrubOK
<1> QED
  BY <1>3, <1>4, <1>5

(* grub_mem_sleep touches neither the early initrd nor acpi_osi.             *)
LEMMA MemSleepStep ==
  ASSUME GrubOK, GrubMemSleep
  PROVE  GrubOK' /\ grub'.early = grub.early /\ grub'.osi = grub.osi
  BY DEF GrubOK, GrubFiles, GrubMemSleep

------------------------------------------------------------------------------
(* A machine on which no script has run satisfies the invariant.             *)
LEMMA InitIInv == Init => IInv
<1> SUFFICES ASSUME Init PROVE IInv
  OBVIOUS
<1>1. grub \in GrubFiles /\ grub.early # "ours" /\ cfg = Generate(grub, None)
  BY DEF Init
<1>2. FilesOK
  BY TableIn DEF Init, FilesOK
<1>3. GrubOK /\ cfg.early # "ours"
  BY <1>1, GenerateIs DEF GrubOK
<1>4. FlagsOK /\ PcOK
  BY DEF Init, FlagsOK, PcOK, UninstallSteps
<1>5. UninstallAt /\ RemovedAt /\ InstallAt
  BY DEF Init, UninstallAt, RemovedAt, InstallAt, UninstallSteps, Idle
<1>6. BootFilePresent
  BY <1>3 DEF BootFilePresent
<1> QED
  BY <1>2, <1>3, <1>4, <1>5, <1>6 DEF IInv

(* Every command of the scripts and every act of the user preserves it.      *)
LEMMA NextIInv == IInv /\ [Next]_vars => IInv'
<1> SUFFICES ASSUME FilesOK, GrubOK, FlagsOK, PcOK, UninstallAt, RemovedAt,
                    InstallAt, BootFilePresent, [Next]_vars
             PROVE  IInv'
  BY DEF IInv
<1>1. CASE Reboot
  <2>1. GrubOK' /\ FlagsOK' /\ PcOK'
    BY <1>1 DEF Reboot, Idle, files, boot, script, ghosts, GrubOK, FlagsOK,
            PcOK, UninstallSteps
  <2>2. UninstallAt' /\ RemovedAt' /\ InstallAt' /\ BootFilePresent'
    BY <1>1 DEF Reboot, Idle, files, boot, script, ghosts, UninstallAt,
            RemovedAt, InstallAt, BootFilePresent, UninstallSteps
  <2>3. FilesOK'
    BY <1>1, NextBootTable DEF Reboot, Idle, files, boot, script, ghosts,
            FilesOK
  <2> QED
    BY <2>1, <2>2, <2>3 DEF IInv
<1>2. CASE ProvideOriginal
  <2>1. FilesOK' /\ GrubOK' /\ FlagsOK' /\ PcOK'
    BY <1>2 DEF ProvideOriginal, Idle, boot, script, ghosts, FilesOK, GrubOK,
            FlagsOK, PcOK, UninstallSteps
  <2>2. UninstallAt' /\ RemovedAt' /\ InstallAt' /\ BootFilePresent'
    BY <1>2 DEF ProvideOriginal, Idle, boot, script, ghosts, UninstallAt,
            RemovedAt, InstallAt, BootFilePresent, UninstallSteps
  <2> QED
    BY <2>1, <2>2 DEF IInv
<1>3. ASSUME NEW b \in Bios, FlashBios(b)
     PROVE  IInv'
  <2>1. GrubOK' /\ FlagsOK' /\ PcOK'
    BY <1>3 DEF FlashBios, Idle, files, boot, script, GrubOK, FlagsOK, PcOK,
            UninstallSteps
  <2>2. UninstallAt' /\ RemovedAt' /\ InstallAt' /\ BootFilePresent'
    BY <1>3 DEF FlashBios, Idle, files, boot, script, UninstallAt, RemovedAt,
            InstallAt, BootFilePresent, UninstallSteps
  <2>3. FilesOK'
    BY <1>3, NextBootTable DEF FlashBios, Idle, files, boot, script, FilesOK
  <2> QED
    BY <2>1, <2>2, <2>3 DEF IInv
<1>4. CASE InstallStart
  <2>1. FilesOK' /\ GrubOK' /\ FlagsOK' /\ PcOK'
    BY <1>4 DEF InstallStart, Idle, files, boot, FilesOK, GrubOK, FlagsOK,
            PcOK, UninstallSteps
  <2>2. UninstallAt' /\ RemovedAt' /\ InstallAt' /\ BootFilePresent'
    BY <1>4 DEF InstallStart, Idle, files, boot, UninstallAt, RemovedAt,
            InstallAt, BootFilePresent, UninstallSteps
  <2> QED
    BY <2>1, <2>2 DEF IInv
<1>5. CASE MakeDumpDir
  <2>1. FilesOK' /\ GrubOK' /\ FlagsOK' /\ PcOK'
    BY <1>5 DEF MakeDumpDir, Goto, boot, ghosts, FilesOK, GrubOK, FlagsOK, PcOK,
            UninstallSteps
  <2>2. UninstallAt' /\ RemovedAt' /\ InstallAt' /\ BootFilePresent'
    BY <1>5 DEF MakeDumpDir, Goto, boot, ghosts, UninstallAt, RemovedAt, InstallAt,
            BootFilePresent, UninstallSteps, Idle
  <2> QED
    BY <2>1, <2>2 DEF IInv
<1>6. CASE Redump
  <2>1. FilesOK' /\ GrubOK' /\ FlagsOK' /\ PcOK'
    BY <1>6 DEF Redump, Goto, boot, ghosts, FilesOK, GrubOK, FlagsOK, PcOK,
            UninstallSteps
  <2>2. UninstallAt' /\ RemovedAt' /\ InstallAt' /\ BootFilePresent'
    BY <1>6 DEF Redump, Goto, boot, ghosts, UninstallAt, RemovedAt, InstallAt,
            BootFilePresent, UninstallSteps, Idle
  <2> QED
    BY <2>1, <2>2 DEF IInv
<1>7. CASE RmDump
  <2>1. FilesOK' /\ GrubOK' /\ FlagsOK' /\ PcOK'
    BY <1>7 DEF RmDump, Goto, boot, ghosts, FilesOK, GrubOK, FlagsOK, PcOK,
            UninstallSteps
  <2>2. UninstallAt' /\ RemovedAt' /\ InstallAt' /\ BootFilePresent'
    BY <1>7 DEF RmDump, Goto, boot, ghosts, UninstallAt, RemovedAt, InstallAt,
            BootFilePresent, UninstallSteps, Idle
  <2> QED
    BY <2>1, <2>2 DEF IInv
<1>8. CASE RestoreOriginal
  <2>1. FilesOK' /\ GrubOK' /\ FlagsOK' /\ PcOK'
    BY <1>8 DEF RestoreOriginal, Goto, boot, ghosts, FilesOK, GrubOK, FlagsOK,
            PcOK, UninstallSteps
  <2>2. UninstallAt' /\ RemovedAt' /\ InstallAt' /\ BootFilePresent'
    BY <1>8 DEF RestoreOriginal, Goto, boot, ghosts, UninstallAt, RemovedAt,
            InstallAt, BootFilePresent, UninstallSteps, Idle
  <2> QED
    BY <2>1, <2>2 DEF IInv
<1>9. CASE RemoveOriginal
  <2>1. FilesOK' /\ GrubOK' /\ FlagsOK' /\ PcOK'
    BY <1>9 DEF RemoveOriginal, Goto, boot, ghosts, FilesOK, GrubOK, FlagsOK,
            PcOK, UninstallSteps
  <2>2. UninstallAt' /\ RemovedAt' /\ InstallAt' /\ BootFilePresent'
    BY <1>9 DEF RemoveOriginal, Goto, boot, ghosts, UninstallAt, RemovedAt,
            InstallAt, BootFilePresent, UninstallSteps, Idle
  <2> QED
    BY <2>1, <2>2 DEF IInv
<1>10. CASE MakeBackupDir
  <2>1. FilesOK' /\ GrubOK' /\ FlagsOK' /\ PcOK'
    BY <1>10 DEF MakeBackupDir, Goto, boot, ghosts, FilesOK, GrubOK, FlagsOK,
            PcOK, UninstallSteps
  <2>2. UninstallAt' /\ RemovedAt' /\ InstallAt' /\ BootFilePresent'
    BY <1>10 DEF MakeBackupDir, Goto, boot, ghosts, UninstallAt, RemovedAt,
            InstallAt, BootFilePresent, UninstallSteps, Idle
  <2> QED
    BY <2>1, <2>2 DEF IInv
<1>11. CASE Acpidump
  <2>1. FilesOK' /\ GrubOK' /\ FlagsOK' /\ PcOK'
    BY <1>11 DEF Acpidump, Goto, boot, ghosts, FilesOK, GrubOK, FlagsOK, PcOK,
            UninstallSteps
  <2>2. UninstallAt' /\ RemovedAt' /\ InstallAt' /\ BootFilePresent'
    BY <1>11 DEF Acpidump, Goto, boot, ghosts, UninstallAt, RemovedAt,
            InstallAt, BootFilePresent, UninstallSteps, Idle
  <2> QED
    BY <2>1, <2>2 DEF IInv
<1>12. CASE PatchSucceeds
  <2>1. GrubOK' /\ FlagsOK' /\ PcOK'
    BY <1>12 DEF PatchSucceeds, Goto, files, boot, ghosts, GrubOK, FlagsOK,
            PcOK, UninstallSteps
  <2>2. UninstallAt' /\ RemovedAt' /\ InstallAt' /\ BootFilePresent'
    BY <1>12 DEF PatchSucceeds, Goto, files, boot, ghosts, UninstallAt,
            RemovedAt, InstallAt, BootFilePresent, UninstallSteps, Idle
  <2>3. FilesOK'
    BY <1>12, TableIn DEF PatchSucceeds, Goto, files, boot, ghosts, FilesOK
  <2> QED
    BY <2>1, <2>2, <2>3 DEF IInv
<1>13. CASE CopyOverride
  <2>1. FilesOK' /\ GrubOK' /\ FlagsOK' /\ PcOK'
    BY <1>13 DEF CopyOverride, Goto, boot, ghosts, FilesOK, GrubOK, FlagsOK,
            PcOK, UninstallSteps
  <2>2. UninstallAt' /\ RemovedAt' /\ InstallAt'
    BY <1>13 DEF CopyOverride, Goto, boot, ghosts, UninstallAt, RemovedAt,
            InstallAt, UninstallSteps, Idle
  <2>3. BootFilePresent'
    BY <1>13, Kinds, TableIn DEF CopyOverride, Goto, boot, ghosts,
            BootFilePresent, FilesOK, UninstallSteps
  <2> QED
    BY <2>1, <2>2, <2>3 DEF IInv
<1>14. CASE UpdateGrubOsi
  <2>1. FilesOK' /\ FlagsOK' /\ PcOK'
    BY <1>14 DEF UpdateGrubOsi, Goto, files, ghosts, FilesOK, FlagsOK, PcOK,
            UninstallSteps
  <2>2. UninstallAt' /\ RemovedAt' /\ BootFilePresent'
    BY <1>14 DEF UpdateGrubOsi, Goto, files, ghosts, UninstallAt, RemovedAt,
            BootFilePresent, UninstallSteps
  <2>3. GrubOK'
    BY <1>14, OsiStep
  <2>4. InstallAt'
    BY <1>14, OsiStep DEF UpdateGrubOsi, Goto, files, ghosts, InstallAt,
            GrubOK, Idle
  <2> QED
    BY <2>1, <2>2, <2>3, <2>4 DEF IInv
<1>15. CASE UpdateGrubEarly
  <2>1. FilesOK' /\ FlagsOK' /\ PcOK'
    BY <1>15 DEF UpdateGrubEarly, Goto, files, ghosts, FilesOK, FlagsOK, PcOK,
            UninstallSteps
  <2>2. UninstallAt' /\ RemovedAt' /\ InstallAt' /\ BootFilePresent'
    BY <1>15 DEF UpdateGrubEarly, Goto, files, ghosts, UninstallAt, RemovedAt,
            InstallAt, BootFilePresent, UninstallSteps, Idle
  <2>3. GrubOK'
    BY <1>15 DEF UpdateGrubEarly, Goto, files, ghosts, GrubOK, GrubFiles,
            Configs
  <2> QED
    BY <2>1, <2>2, <2>3 DEF IInv
<1>16. CASE GrubMemSleep
  <2>1. FilesOK' /\ FlagsOK' /\ PcOK'
    BY <1>16 DEF GrubMemSleep, Goto, files, ghosts, FilesOK, FlagsOK, PcOK,
            UninstallSteps
  <2>2. UninstallAt' /\ RemovedAt' /\ InstallAt' /\ BootFilePresent'
    BY <1>16 DEF GrubMemSleep, Goto, files, ghosts, UninstallAt, RemovedAt,
            InstallAt, BootFilePresent, UninstallSteps, Idle
  <2>3. GrubOK'
    BY <1>16, MemSleepStep
  <2> QED
    BY <2>1, <2>2, <2>3 DEF IInv
<1>17. CASE UpdateGrub
  <2>1. FilesOK' /\ FlagsOK' /\ PcOK'
    BY <1>17 DEF UpdateGrub, Goto, files, FilesOK, FlagsOK, PcOK,
            UninstallSteps
  <2>2. UninstallAt' /\ RemovedAt' /\ InstallAt'
    BY <1>17 DEF UpdateGrub, Goto, files, UninstallAt, RemovedAt, InstallAt,
            UninstallSteps, Idle
  <2>3. GrubOK'
    BY <1>17, GenerateIs DEF UpdateGrub, Goto, files, GrubOK
  <2>4. BootFilePresent'
    BY <1>17, GenerateIs DEF UpdateGrub, Goto, files, BootFilePresent, GrubOK,
            UninstallSteps
  <2> QED
    BY <2>1, <2>2, <2>3, <2>4 DEF IInv
<1>18. CASE Finish
  <2>1. FilesOK' /\ GrubOK' /\ FlagsOK' /\ PcOK'
    BY <1>18 DEF Finish, Exit, files, boot, FilesOK, GrubOK, FlagsOK, PcOK,
            UninstallSteps
  <2>2. UninstallAt' /\ RemovedAt' /\ InstallAt' /\ BootFilePresent'
    BY <1>18 DEF Finish, Exit, files, boot, UninstallAt, RemovedAt, InstallAt,
            BootFilePresent, UninstallSteps, Idle
  <2> QED
    BY <2>1, <2>2 DEF IInv
<1>19. CASE UninstallStart
  <2>1. FilesOK' /\ GrubOK' /\ FlagsOK' /\ PcOK'
    BY <1>19 DEF UninstallStart, Idle, Goto, files, boot, FilesOK, GrubOK,
            FlagsOK, PcOK, UninstallSteps
  <2>2. UninstallAt' /\ RemovedAt' /\ InstallAt' /\ BootFilePresent'
    BY <1>19 DEF UninstallStart, Idle, Goto, files, boot, UninstallAt,
            RemovedAt, InstallAt, BootFilePresent, UninstallSteps
  <2> QED
    BY <2>1, <2>2 DEF IInv
<1>20. CASE UninstallRm
  <2>1. FilesOK' /\ GrubOK' /\ FlagsOK' /\ PcOK'
    BY <1>20 DEF UninstallRm, Goto, boot, ghosts, FilesOK, GrubOK, FlagsOK,
            PcOK, UninstallSteps
  <2>2. UninstallAt' /\ RemovedAt' /\ InstallAt' /\ BootFilePresent'
    BY <1>20 DEF UninstallRm, Goto, boot, ghosts, UninstallAt, RemovedAt,
            InstallAt, BootFilePresent, UninstallSteps, Idle
  <2> QED
    BY <2>1, <2>2 DEF IInv
<1>21. CASE UninstallEarly
  <2>1. FilesOK' /\ FlagsOK' /\ PcOK'
    BY <1>21 DEF UninstallEarly, Goto, files, ghosts, FilesOK, FlagsOK, PcOK,
            UninstallSteps
  <2>2. UninstallAt' /\ RemovedAt' /\ InstallAt' /\ BootFilePresent'
    BY <1>21 DEF UninstallEarly, Goto, files, ghosts, UninstallAt, RemovedAt,
            InstallAt, BootFilePresent, UninstallSteps, Idle
  <2>3. GrubOK'
    BY <1>21 DEF UninstallEarly, Goto, files, ghosts, GrubOK, GrubFiles,
            Configs
  <2> QED
    BY <2>1, <2>2, <2>3 DEF IInv
<1>22. CASE UninstallDeep
  <2>1. FilesOK' /\ FlagsOK' /\ PcOK'
    BY <1>22 DEF UninstallDeep, Goto, files, ghosts, FilesOK, FlagsOK, PcOK,
            UninstallSteps
  <2>2. RemovedAt' /\ InstallAt' /\ BootFilePresent'
    BY <1>22 DEF UninstallDeep, Goto, files, ghosts, RemovedAt, InstallAt,
            BootFilePresent, UninstallSteps, Idle
  <2>3. GrubOK'
    BY <1>22, DeepStep
  <2>4. UninstallAt'
    BY <1>22, DeepStep DEF UninstallDeep, Goto, files, ghosts, UninstallAt
  <2> QED
    BY <2>1, <2>2, <2>3, <2>4 DEF IInv
<1>23. CASE UninstallUpdateGrub
  <2>1. FilesOK' /\ FlagsOK' /\ PcOK'
    BY <1>23 DEF UninstallUpdateGrub, Exit, files, FilesOK, FlagsOK, PcOK,
            UninstallSteps
  <2>2. UninstallAt' /\ InstallAt'
    BY <1>23 DEF UninstallUpdateGrub, Exit, files, UninstallAt, InstallAt,
            Idle
  <2>3. GrubOK'
    BY <1>23, GenerateIs DEF UninstallUpdateGrub, Exit, files, GrubOK
  <2>4. RemovedAt'
    BY <1>23, GenerateIs DEF UninstallUpdateGrub, Exit, files, RemovedAt,
            GrubOK, UninstallAt, UninstallSteps
  <2>5. BootFilePresent'
    BY <1>23, GenerateIs DEF UninstallUpdateGrub, Exit, files,
            BootFilePresent, GrubOK, UninstallSteps
  <2> QED
    BY <2>1, <2>2, <2>3, <2>4, <2>5 DEF IInv
<1>24. CASE Stop
  <2>1. FilesOK' /\ GrubOK' /\ FlagsOK' /\ PcOK'
    BY <1>24 DEF Stop, Idle, StopsAlways, UninstallSteps, Exit, boot, FilesOK,
            GrubOK, FlagsOK, PcOK
  <2>2. UninstallAt' /\ RemovedAt' /\ InstallAt'
    BY <1>24 DEF Stop, Idle, StopsAlways, UninstallSteps, Exit, boot,
            UninstallAt, RemovedAt, InstallAt
  <2>3. BootFilePresent'
    BY <1>24, Kinds DEF Stop, Idle, StopsAlways, UninstallSteps, Exit, boot,
            BootFilePresent
  <2> QED
    BY <2>1, <2>2, <2>3 DEF IInv
<1>25. CASE UNCHANGED vars
  BY <1>25 DEF IInv, vars, files, boot, script, ghosts, FilesOK, GrubOK, FlagsOK,
            PcOK, UninstallAt, RemovedAt, InstallAt, BootFilePresent,
            UninstallSteps, Idle
<1> QED
  BY <1>1, <1>2, <1>3, <1>4, <1>5, <1>6, <1>7, <1>8, <1>9, <1>10, <1>11, <1>12,
     <1>13, <1>14, <1>15, <1>16, <1>17, <1>18, <1>19, <1>20, <1>21, <1>22,
     <1>23, <1>24, <1>25 DEF Next

------------------------------------------------------------------------------
(* A careful user.  The table that patch makes is that of the BIOS.          *)
LEMMA BuiltTable ==
  ASSUME FilesOK, BackupRecoverable, PatchSucceeds
  PROVE  backup[bios] = Table(bios, FALSE) /\ work' = Table(bios, TRUE)
<1>1. \/ backup[bios] \in {None, Partial, Table(bios, FALSE)}
      \/ backup[bios] = Table(bios, TRUE)
  BY DEF FilesOK, BackupRecoverable
<1>2. backup[bios] # Table(bios, TRUE)
  <2>1. Table(bios, TRUE).patched
    BY Kinds, Zenon
  <2> QED
    BY <2>1, Zenon DEF PatchSucceeds
<1>3. backup[bios] = Table(bios, FALSE)
  BY <1>1, <1>2, TableIn DEF PatchSucceeds
<1> QED
  BY <1>3 DEF PatchSucceeds, Table

(* The user's file is the original of the BIOS that is there, so the backups *)
(* of the others are no patched tables.                                      *)
LEMMA OthersPristine ==
  ASSUME TablesAt, BackupRecoverable, NEW b \in Bios, b # bios
  PROVE  backup[b] \in {None, Partial, Table(b, FALSE)}
<1>1. original # Table(b, FALSE)
  <2>1. /\ Table(b, FALSE).kind = "table" /\ None.kind = "none"
        /\ Table(b, FALSE).bios = b /\ Table(bios, FALSE).bios = bios
    BY Kinds, Zenon
  <2> QED
    BY <2>1 DEF TablesAt
<1> QED
  BY <1>1 DEF BackupRecoverable

(* What install.sh copies is a file ...                                      *)
LEMMA Built ==
  ASSUME TablesAt PROVE work # None
  BY DEF TablesAt, NoTable, Table, None

(* ... and after the copy the archive is there.                              *)
LEMMA Copied ==
  ASSUME TablesAt, InstallAt, pc \in {"osi", "early", "memsleep", "mkconfig", "finish"}
  PROVE  override # None
  BY Built DEF InstallAt

(* The careful user's machine agrees with itself at first ...                *)
LEMMA InitCareful == Init => CarefulInv
<1> SUFFICES ASSUME Init PROVE CarefulInv
  OBVIOUS
<1>1. TablesAt
  BY TableIn DEF Init, TablesAt
<1>2. DumpAt /\ ClaimAt
  BY DEF Init, DumpAt, ClaimAt, UninstallSteps
<1>3. BackupRecoverable /\ Synced
  BY DEF Init, BackupRecoverable, Synced
<1> QED
  BY <1>1, <1>2, <1>3 DEF CarefulInv

(* ... and every step keeps it so.                                           *)
LEMMA NextCareful ==
  ASSUME ~Careless, IInv, CarefulInv, [Next]_vars
  PROVE  CarefulInv'
<1> SUFFICES ASSUME FilesOK, GrubOK, UninstallAt, InstallAt, TablesAt, DumpAt,
                    ClaimAt, BackupRecoverable, Synced, [Next]_vars
             PROVE  CarefulInv'
  BY DEF IInv, CarefulInv
<1>1. CASE Reboot
  BY <1>1 DEF CarefulInv, Reboot, Idle, NextBoot, files, boot, script, ghosts, IsTable,
            TablesAt, DumpAt, ClaimAt, BackupRecoverable, Synced, UninstallSteps,
            Agreeing
<1>2. CASE ProvideOriginal
  <2>1. TablesAt' /\ DumpAt' /\ ClaimAt' /\ Synced'
    BY <1>2 DEF ProvideOriginal, Idle, boot, script, ghosts, TablesAt, DumpAt,
            ClaimAt, Synced, IsTable, UninstallSteps, Agreeing
  <2>2. original' = Table(bios, FALSE) /\ UNCHANGED backup
    BY <1>2 DEF ProvideOriginal
  <2>3. BackupRecoverable'
    BY <2>2, OthersPristine DEF BackupRecoverable
  <2> QED
    BY <2>1, <2>3 DEF CarefulInv
<1>3. ASSUME NEW b \in Bios, FlashBios(b)
     PROVE  CarefulInv'
  <2>1. DumpAt' /\ ClaimAt' /\ BackupRecoverable' /\ Synced'
    BY <1>3 DEF FlashBios, Idle, NextBoot, files, boot, script, IsTable,
            DumpAt, ClaimAt, BackupRecoverable, Synced, UninstallSteps, Agreeing
  <2>2. TablesAt'
    BY <1>3, Kinds DEF FlashBios, Idle, NextBoot, files, boot, script,
            IsTable, TablesAt, FilesOK, DumpAt, UninstallSteps
  <2> QED
    BY <2>1, <2>2 DEF CarefulInv
<1>4. CASE InstallStart
  BY <1>4 DEF CarefulInv, InstallStart, Idle, files, boot, TablesAt, DumpAt, ClaimAt,
            BackupRecoverable, Synced, IsTable, UninstallSteps, Agreeing
<1>5. CASE MakeDumpDir
  <2>1. ClaimAt' /\ Synced'
    BY <1>5 DEF MakeDumpDir, Goto, boot, ghosts, ClaimAt, Synced, UninstallSteps, Agreeing
  <2>2. DumpAt'
    BY <1>5 DEF MakeDumpDir, Goto, boot, ghosts, DumpAt, FilesOK, UninstallSteps
  <2>3. TablesAt'
    BY <1>5, Kinds, TableIn DEF MakeDumpDir, Goto, boot, ghosts, TablesAt, FilesOK, IsTable
  <2>4. BackupRecoverable'
    BY <1>5, Kinds DEF MakeDumpDir, Goto, boot, ghosts, BackupRecoverable, FilesOK, TablesAt,
            DumpAt, UninstallSteps
  <2> QED
    BY <2>1, <2>2, <2>3, <2>4 DEF CarefulInv
<1>6. CASE Redump
  <2>1. ClaimAt' /\ Synced'
    BY <1>6 DEF Redump, Goto, boot, ghosts, ClaimAt, Synced, UninstallSteps, Agreeing
  <2>2. DumpAt'
    BY <1>6 DEF Redump, Goto, boot, ghosts, DumpAt, FilesOK, UninstallSteps
  <2>3. TablesAt'
    BY <1>6, Kinds, TableIn DEF Redump, Goto, boot, ghosts, TablesAt, FilesOK, IsTable
  <2>4. BackupRecoverable'
    <3>1. original = Table(bios, FALSE) /\ original' = original
      BY <1>6 DEF Redump, TablesAt, DumpAt
    <3>2. /\ backup'[bios] \in {Table(bios, FALSE), Table(bios, TRUE), Partial, backup[bios]}
          /\ \A b \in Bios \ {bios} : backup'[b] = backup[b]
      BY <1>6 DEF Redump, TablesAt, FilesOK
    <3> QED
      BY <3>1, <3>2, OthersPristine DEF BackupRecoverable
  <2> QED
    BY <2>1, <2>2, <2>3, <2>4 DEF CarefulInv
<1>7. CASE RmDump
  <2>1. ClaimAt' /\ Synced'
    BY <1>7 DEF RmDump, Goto, boot, ghosts, ClaimAt, Synced, UninstallSteps, Agreeing
  <2>2. DumpAt'
    BY <1>7 DEF RmDump, Goto, boot, ghosts, DumpAt, FilesOK, UninstallSteps
  <2>3. TablesAt'
    BY <1>7, Kinds, TableIn DEF RmDump, Goto, boot, ghosts, TablesAt, FilesOK, IsTable
  <2>4. BackupRecoverable'
    BY <1>7, Kinds DEF RmDump, Goto, boot, ghosts, BackupRecoverable, FilesOK, TablesAt,
            DumpAt, UninstallSteps
  <2> QED
    BY <2>1, <2>2, <2>3, <2>4 DEF CarefulInv
<1>8. CASE RestoreOriginal
  <2>1. ClaimAt' /\ Synced'
    BY <1>8 DEF RestoreOriginal, Goto, boot, ghosts, ClaimAt, Synced, UninstallSteps, Agreeing
  <2>2. DumpAt'
    BY <1>8, Kinds DEF RestoreOriginal, Goto, boot, ghosts, DumpAt, TablesAt, FilesOK,
            UninstallSteps
  <2>3. TablesAt'
    BY <1>8, Kinds, TableIn DEF RestoreOriginal, Goto, boot, ghosts, TablesAt, DumpAt,
            FilesOK, IsTable
  <2>4. BackupRecoverable'
    BY <1>8, Kinds DEF RestoreOriginal, Goto, boot, ghosts, BackupRecoverable, FilesOK, TablesAt,
            DumpAt, UninstallSteps
  <2> QED
    BY <2>1, <2>2, <2>3, <2>4 DEF CarefulInv
<1>9. CASE RemoveOriginal
  <2>1. ClaimAt' /\ Synced'
    BY <1>9 DEF RemoveOriginal, Goto, boot, ghosts, ClaimAt, Synced, UninstallSteps, Agreeing
  <2>2. DumpAt'
    BY <1>9 DEF RemoveOriginal, Goto, boot, ghosts, DumpAt, FilesOK, UninstallSteps
  <2>3. TablesAt'
    BY <1>9, Kinds, TableIn DEF RemoveOriginal, Goto, boot, ghosts, TablesAt, FilesOK, IsTable
  <2>4. BackupRecoverable'
    <3>1. UNCHANGED <<backup, bios>> /\ backup[bios] \in {None, Partial, Table(bios, FALSE)}
      BY <1>9 DEF RemoveOriginal, DumpAt
    <3> QED
      BY <3>1, OthersPristine DEF BackupRecoverable
  <2> QED
    BY <2>1, <2>2, <2>3, <2>4 DEF CarefulInv
<1>10. CASE MakeBackupDir
  <2>1. ClaimAt' /\ Synced'
    BY <1>10 DEF MakeBackupDir, Goto, boot, ghosts, ClaimAt, Synced, Agreeing,
            UninstallSteps
  <2>2. TablesAt'
    BY <1>10, Kinds DEF MakeBackupDir, Goto, boot, ghosts, TablesAt, FilesOK,
            IsTable
  <2>3. DumpAt'
    BY <1>10, Kinds DEF MakeBackupDir, Goto, boot, ghosts, DumpAt, FilesOK,
            TablesAt, UninstallSteps, IsTable
  <2>4. BackupRecoverable'
    BY <1>10 DEF MakeBackupDir, Goto, boot, ghosts, BackupRecoverable, FilesOK
  <2> QED
    BY <2>1, <2>2, <2>3, <2>4 DEF CarefulInv
<1>11. CASE Acpidump
  <2>1. DumpAt' /\ ClaimAt' /\ Synced'
    BY <1>11 DEF Acpidump, Goto, boot, ghosts, DumpAt, ClaimAt, Synced,
            UninstallSteps, Agreeing
  <2>2. TablesAt'
    BY <1>11, Kinds, TableIn DEF Acpidump, Goto, boot, ghosts, TablesAt,
            FilesOK, DumpAt, IsTable, UninstallSteps
  <2>3. BackupRecoverable'
    BY <1>11, Kinds DEF Acpidump, Goto, boot, ghosts, BackupRecoverable, FilesOK,
            DumpAt, UninstallSteps
  <2> QED
    BY <2>1, <2>2, <2>3 DEF CarefulInv
<1>12. CASE PatchSucceeds
  <2>1. ClaimAt' /\ BackupRecoverable' /\ Synced'
    BY <1>12 DEF PatchSucceeds, IsTable, Goto, files, boot, ghosts, ClaimAt,
            BackupRecoverable, Synced, Agreeing, UninstallSteps
  <2>2. TablesAt'
    BY <1>12, BuiltTable, Kinds DEF PatchSucceeds, IsTable, Goto, files, boot,
            ghosts, TablesAt
  <2>3. DumpAt'
    BY <1>12, BuiltTable DEF PatchSucceeds, IsTable, Goto, files, boot,
            ghosts, DumpAt, UninstallSteps
  <2> QED
    BY <2>1, <2>2, <2>3 DEF CarefulInv
<1>13. CASE CopyOverride
  <2>1. DumpAt' /\ BackupRecoverable'
    BY <1>13 DEF CopyOverride, Goto, boot, ghosts, DumpAt, BackupRecoverable,
            UninstallSteps
  <2>2. TablesAt'
    BY <1>13, Kinds DEF CopyOverride, Goto, boot, ghosts, TablesAt, IsTable
  <2>3. ClaimAt'
    BY <1>13 DEF CopyOverride, Goto, boot, ghosts, ClaimAt, InstallAt, Idle
  <2>4. Synced'
    <3>1. broken = {} => Generate(grub, override) = Generate(grub, work)
      BY <1>13, Built, GenerateSame DEF GrubOK, Synced, CopyOverride, UninstallSteps
    <3> QED
      BY <1>13, <3>1, Built DEF CopyOverride, Synced, Agreeing, UninstallSteps, boot,
         ghosts, Goto
  <2> QED
    BY <2>1, <2>2, <2>3, <2>4 DEF CarefulInv
<1>14. CASE UpdateGrubOsi
  <2>1. TablesAt' /\ DumpAt' /\ BackupRecoverable'
    BY <1>14 DEF UpdateGrubOsi, Goto, files, ghosts, TablesAt, DumpAt,
            BackupRecoverable, IsTable, UninstallSteps
  <2>2. ClaimAt'
    BY <1>14 DEF UpdateGrubOsi, Goto, files, ghosts, ClaimAt, InstallAt, Idle
  <2>3. Synced'
    BY <1>14, OsiStep DEF UpdateGrubOsi, Goto, files, ghosts, Synced,
            Agreeing, UninstallSteps
  <2> QED
    BY <2>1, <2>2, <2>3 DEF CarefulInv
<1>15. CASE UpdateGrubEarly
  <2>1. TablesAt' /\ DumpAt' /\ BackupRecoverable'
    BY <1>15 DEF UpdateGrubEarly, Goto, files, ghosts, TablesAt, DumpAt,
            BackupRecoverable, IsTable, UninstallSteps
  <2>2. ClaimAt'
    BY <1>15 DEF UpdateGrubEarly, Goto, files, ghosts, ClaimAt, InstallAt,
            Idle
  <2>3. Synced'
    BY <1>15, Copied DEF UpdateGrubEarly, Goto, files, ghosts, Synced,
            InstallAt, GrubOK, Agreeing, UninstallSteps, Idle, GrubFiles
  <2> QED
    BY <2>1, <2>2, <2>3 DEF CarefulInv
<1>16. CASE GrubMemSleep
  <2>1. TablesAt' /\ DumpAt' /\ BackupRecoverable'
    BY <1>16 DEF GrubMemSleep, Goto, files, ghosts, TablesAt, DumpAt,
            BackupRecoverable, IsTable, UninstallSteps
  <2>2. ClaimAt'
    BY <1>16 DEF GrubMemSleep, Goto, files, ghosts, ClaimAt, InstallAt, Idle
  <2>3. Synced'
    BY <1>16, MemSleepStep DEF GrubMemSleep, Goto, files, ghosts, Synced,
            Agreeing, UninstallSteps
  <2> QED
    BY <2>1, <2>2, <2>3 DEF CarefulInv
<1>17. CASE UpdateGrub
  <2>1. TablesAt' /\ DumpAt' /\ ClaimAt' /\ BackupRecoverable'
    BY <1>17 DEF UpdateGrub, Goto, files, TablesAt, DumpAt, ClaimAt,
            BackupRecoverable, IsTable, UninstallSteps
  <2>2. Synced'
    BY <1>17, Copied DEF UpdateGrub, Goto, files, Synced, InstallAt, Agreeing,
            UninstallSteps, Idle
  <2> QED
    BY <2>1, <2>2 DEF CarefulInv
<1>18. CASE Finish
  <2>1. TablesAt' /\ DumpAt' /\ BackupRecoverable' /\ Synced'
    BY <1>18 DEF Finish, Exit, files, boot, TablesAt, DumpAt, BackupRecoverable,
            Synced, IsTable, UninstallSteps, Agreeing
  <2>2. ClaimAt'
    BY <1>18 DEF Finish, Exit, files, boot, ClaimAt, InstallAt, DumpAt, Idle,
            UninstallSteps
  <2> QED
    BY <2>1, <2>2 DEF CarefulInv
<1>19. CASE UninstallStart
  BY <1>19 DEF CarefulInv, UninstallStart, Idle, Goto, files, boot, TablesAt, DumpAt,
            ClaimAt, BackupRecoverable, Synced, IsTable, UninstallSteps, Agreeing
<1>20. CASE UninstallRm
  <2>1. DumpAt' /\ BackupRecoverable' /\ Synced'
    BY <1>20 DEF UninstallRm, Goto, boot, ghosts, DumpAt, BackupRecoverable,
            Synced, UninstallSteps, Agreeing
  <2>2. TablesAt'
    BY <1>20, Kinds DEF UninstallRm, Goto, boot, ghosts, TablesAt, IsTable
  <2>3. ClaimAt'
    BY <1>20 DEF UninstallRm, Goto, boot, ghosts, ClaimAt, InstallAt, Idle
  <2> QED
    BY <2>1, <2>2, <2>3 DEF CarefulInv
<1>21. CASE UninstallEarly
  <2>1. TablesAt' /\ DumpAt' /\ BackupRecoverable' /\ Synced'
    BY <1>21 DEF UninstallEarly, Goto, files, ghosts, TablesAt, DumpAt,
            BackupRecoverable, Synced, IsTable, UninstallSteps, Agreeing
  <2>2. ClaimAt'
    BY <1>21 DEF UninstallEarly, Goto, files, ghosts, ClaimAt, InstallAt, Idle
  <2> QED
    BY <2>1, <2>2 DEF CarefulInv
<1>22. CASE UninstallDeep
  <2>1. TablesAt' /\ DumpAt' /\ BackupRecoverable' /\ Synced'
    BY <1>22 DEF UninstallDeep, Goto, files, ghosts, TablesAt, DumpAt,
            BackupRecoverable, Synced, IsTable, UninstallSteps, Agreeing
  <2>2. ClaimAt'
    BY <1>22 DEF UninstallDeep, Goto, files, ghosts, ClaimAt, InstallAt, Idle
  <2> QED
    BY <2>1, <2>2 DEF CarefulInv
<1>23. CASE UninstallUpdateGrub
  <2>1. TablesAt' /\ DumpAt' /\ ClaimAt' /\ BackupRecoverable'
    BY <1>23 DEF UninstallUpdateGrub, Exit, files, TablesAt, DumpAt, ClaimAt,
            BackupRecoverable, IsTable, UninstallSteps
  <2>2. Synced'
    BY <1>23 DEF UninstallUpdateGrub, Exit, files, Synced, UninstallAt,
            Agreeing, UninstallSteps
  <2> QED
    BY <2>1, <2>2 DEF CarefulInv
<1>24. CASE Stop
  <2>1. DumpAt' /\ BackupRecoverable' /\ Synced'
    BY <1>24 DEF Stop, Idle, StopsAlways, UninstallSteps, Exit, boot, DumpAt,
            BackupRecoverable, Synced, Agreeing
  <2>2. TablesAt'
    BY <1>24, Kinds DEF Stop, Idle, StopsAlways, UninstallSteps, Exit, boot,
            TablesAt, IsTable
  <2>3. ClaimAt'
    BY <1>24 DEF Stop, Idle, StopsAlways, UninstallSteps, Exit, boot, ClaimAt,
            InstallAt
  <2> QED
    BY <2>1, <2>2, <2>3 DEF CarefulInv
<1>25. CASE UNCHANGED vars
  <2>1. TablesAt' /\ DumpAt'
    BY <1>25 DEF vars, files, boot, script, ghosts, TablesAt, DumpAt, IsTable,
            UninstallSteps
  <2>2. ClaimAt' /\ BackupRecoverable'
    BY <1>25 DEF vars, files, boot, script, ghosts, ClaimAt, BackupRecoverable
  <2>3. Synced'
    BY <1>25 DEF vars, files, boot, script, ghosts, Synced, Agreeing,
            UninstallSteps
  <2> QED
    BY <2>1, <2>2, <2>3 DEF CarefulInv
<1> QED
  BY <1>1, <1>2, <1>3, <1>4, <1>5, <1>6, <1>7, <1>8, <1>9, <1>10, <1>11, <1>12,
     <1>13, <1>14, <1>15, <1>16, <1>17, <1>18, <1>19, <1>20, <1>21, <1>22,
     <1>23, <1>24, <1>25 DEF Next

(* The inductive invariant holds in every reachable state.                   *)
LEMMA Invariance == Spec => [](IInv /\ (~Careless => CarefulInv))
<1>1. Init => IInv /\ (~Careless => CarefulInv)
  BY InitIInv, InitCareful
<1>2. IInv /\ (~Careless => CarefulInv) /\ [Next]_vars
        => (IInv /\ (~Careless => CarefulInv))'
  BY NextIInv, NextCareful
<1> QED
  BY <1>1, <1>2, PTL DEF Spec

------------------------------------------------------------------------------
(* Type correctness of the files that install.sh, dump_table.sh and          *)
(* uninstall.sh write and of the scripts' positions.                         *)
THEOREM TypeCorrect == Spec => []TypeOK
<1>1. IInv => TypeOK
  BY TypeParts DEF IInv
<1> QED
  BY <1>1, Invariance, PTL

(* grub.cfg never loads an archive that is not there, except while or after  *)
(* an uninstall.sh was cut short: for any number of BIOS versions, careful   *)
(* user or not, whatever command fails.                                      *)
THEOREM NoMissingArchive == Spec => []BootFilePresent
<1>1. IInv => BootFilePresent
  BY DEF IInv
<1> QED
  BY <1>1, Invariance, PTL

(* An uninstall.sh that comes to its end undoes everything that matters to   *)
(* the next boot, however the scripts before it ended.                       *)
THEOREM UninstallIsComplete == Spec => []UninstallCleans
<1>1. IInv => UninstallCleans
  BY DEF IInv, RemovedAt, UninstallCleans, NextBoot
<1> QED
  BY <1>1, Invariance, PTL

(* Whatever is interrupted, and whichever command of dump_table.sh fails,    *)
(* the original table of a careful user's BIOS is not lost: the backup is    *)
(* never that of another BIOS, and is a patched table only while the user's  *)
(* original_dsdt.dat is there to replace it.                                 *)
THEOREM BackupStaysRecoverable == Spec => [](~Careless => BackupRecoverable)
<1>1. CarefulInv => BackupRecoverable
  BY DEF CarefulInv
<1> QED
  BY <1>1, Invariance, PTL

(* On a careful user's machine "Successful!!!" is true if no script stopped  *)
(* half-way since grub.cfg was generated.                                    *)
THEOREM SuccessIsReal == Spec => [](~Careless => SuccessMeansActive)
<1>1. IInv /\ CarefulInv => SuccessMeansActive
  <2> SUFFICES ASSUME IInv, CarefulInv, claimed, broken = {}
               PROVE  /\ NextBoot(bios) = Table(bios, bios \in Patches)
                      /\ cfg = Generate(grub, override)
    BY DEF SuccessMeansActive
  <2>1. cfg = Generate(grub, override) /\ override # None
    BY DEF IInv, InstallAt, Idle, CarefulInv, ClaimAt, Synced, Agreeing, UninstallSteps
  <2>2. cfg.early = "ours"
    BY <2>1, GenerateIs DEF IInv, GrubOK, CarefulInv, ClaimAt
  <2>3. CASE bios \in Patches
    <3>1. override = Table(bios, TRUE)
      BY <2>3 DEF CarefulInv, ClaimAt
    <3>2. NextBoot(bios) = Table(bios, TRUE)
      BY <2>2, <3>1, Kinds DEF NextBoot, IsTable
    <3>3. (bios \in Patches) = TRUE
      BY <2>3
    <3> QED
      BY <2>1, <3>2, <3>3, Zenon
  <2>4. CASE bios \notin Patches
    <3>1. NextBoot(bios) = Table(bios, FALSE)
      BY <2>2, <2>4, Kinds DEF CarefulInv, ClaimAt, NextBoot, IsTable
    <3>2. (bios \in Patches) = FALSE
      BY <2>4
    <3> QED
      BY <2>1, <3>1, <3>2, Zenon
  <2> QED
    BY <2>3, <2>4
<1> QED
  BY <1>1, Invariance, PTL

==============================================================================
