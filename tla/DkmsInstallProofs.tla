--------------------------- MODULE DkmsInstallProofs ---------------------------
(***************************************************************************)
(* The invariants of DkmsInstall, for every set of revisions and kernels.  *)
(* None of the three is inductive: they speak of a script at rest, and     *)
(* what makes them true is where each command of the script leaves the     *)
(* five places.  ScriptAt says that, command by command.                   *)
(***************************************************************************)
EXTENDS DkmsInstall, TLAPS

\* What the commands before this one have brought about.
ScriptAt ==
  /\ pc = "add" => src = "none"
  /\ pc = "install" => added /\ src \in Revisions
  /\ pc \in {"unload", "load", "initrd"} =>
       added /\ src \in Builds /\ installed[kernel] = src
  /\ pc = "load" => loaded = "none"
  /\ pc = "initrd" => loaded = src

\* DKMS has an entry for every module it has installed.
EntryForModule == \A k \in Kernels : installed[k] # "none" => added

\* From `dkms add` on, every module in /lib/modules is of the new revision.
OneSource ==
  pc \in {"install", "unload", "load", "initrd"} =>
    \A k \in Kernels : installed[k] \in {"none", src}

\* An entry without sources, now or after the next command, is a leftover.
EntryHasSource == added /\ (src = "none" \/ pc = "rm") => leftover

\* The disk still is as the last complete install left it.
ClaimKept == claimed # "none" => Idle /\ src = claimed

IInv ==
  /\ TypeOK /\ ScriptAt /\ EntryForModule /\ OneSource /\ EntryHasSource
  /\ ClaimKept /\ OneRevision /\ SuccessLasts

------------------------------------------------------------------------------
(* A machine that has never seen the driver satisfies the invariant.         *)
LEMMA InitIInv == Init => IInv
<1> SUFFICES ASSUME Init PROVE IInv
  OBVIOUS
<1>1. TypeOK
  BY DEF Init, TypeOK
<1>2. ScriptAt /\ EntryForModule /\ OneSource /\ EntryHasSource
  BY DEF Init, ScriptAt, EntryForModule, OneSource, EntryHasSource
<1>3. ClaimKept /\ OneRevision /\ SuccessLasts
  BY DEF Init, ClaimKept, OneRevision, SuccessLasts
<1> QED
  BY <1>1, <1>2, <1>3 DEF IInv

(* Every command of dkms.bash, every interruption of one, and every step of  *)
(* the rest of the machine preserves it.                                     *)
LEMMA NextIInv == IInv /\ [Next]_vars => IInv'
<1> SUFFICES ASSUME TypeOK, ScriptAt, EntryForModule, OneSource, EntryHasSource,
                    ClaimKept, OneRevision, SuccessLasts, [Next]_vars
             PROVE  IInv'
  BY DEF IInv
<1> USE ParametersAssumption
<1>1. CASE InstallStart
  BY <1>1 DEF IInv, InstallStart, Idle, disk, memory, TypeOK, ScriptAt,
          EntryForModule, OneSource, EntryHasSource, ClaimKept, OneRevision,
          SuccessLasts
<1>2. CASE UninstallStart
  BY <1>2 DEF IInv, UninstallStart, Idle, disk, memory, TypeOK, ScriptAt,
          EntryForModule, OneSource, EntryHasSource, ClaimKept, OneRevision,
          SuccessLasts
<1>3. CASE DkmsRemoveAll
  <2>1. /\ ScriptAt' /\ OneSource' /\ EntryHasSource'
        /\ ClaimKept' /\ OneRevision'
    BY <1>3 DEF DkmsRemoveAll, RemoveAll, RemoveSome, memory, ScriptAt,
            OneSource, EntryHasSource, ClaimKept, OneRevision, Idle
  <2>2. TypeOK'
    BY <1>3 DEF DkmsRemoveAll, RemoveAll, RemoveSome, memory, TypeOK
  <2>3. EntryForModule'
    BY <1>3 DEF DkmsRemoveAll, RemoveAll, RemoveSome, memory, EntryForModule
  <2>4. SuccessLasts'
    BY <1>3 DEF DkmsRemoveAll, RemoveAll, RemoveSome, memory, SuccessLasts,
            TypeOK, ClaimKept, Idle
  <2> QED
    BY <2>1, <2>2, <2>3, <2>4 DEF IInv
<1>4. CASE RmRf
  BY <1>4 DEF IInv, RmRf, memory, ghosts, TypeOK, ScriptAt, EntryForModule,
          OneSource, EntryHasSource, ClaimKept, OneRevision, SuccessLasts,
          Idle
<1>5. CASE DkmsAdd
  <2>1. /\ TypeOK' /\ EntryForModule' /\ ClaimKept'
        /\ OneRevision' /\ SuccessLasts'
    BY <1>5 DEF DkmsAdd, Exit, memory, ghosts, TypeOK, EntryForModule,
            ClaimKept, OneRevision, SuccessLasts, Idle
  <2>2. ScriptAt'
    BY <1>5 DEF DkmsAdd, Exit, memory, ghosts, ScriptAt, TypeOK
  <2>3. OneSource'
    BY <1>5 DEF DkmsAdd, Exit, memory, ghosts, OneSource, TypeOK,
            EntryForModule
  <2>4. EntryHasSource'
    BY <1>5 DEF DkmsAdd, Exit, memory, ghosts, EntryHasSource, TypeOK
  <2> QED
    BY <2>1, <2>2, <2>3, <2>4 DEF IInv
<1>6. CASE DkmsInstall
  <2>1. TypeOK' /\ EntryHasSource' /\ ClaimKept'
    BY <1>6 DEF DkmsInstall, Exit, memory, ghosts, TypeOK, EntryHasSource,
            ClaimKept, Idle
  <2>2. ScriptAt'
    BY <1>6 DEF DkmsInstall, Exit, memory, ghosts, ScriptAt, TypeOK
  <2>3. EntryForModule'
    BY <1>6 DEF DkmsInstall, Exit, memory, ghosts, EntryForModule, TypeOK,
            ScriptAt
  <2>4. OneSource'
    BY <1>6 DEF DkmsInstall, Exit, memory, ghosts, OneSource, TypeOK
  <2>5. OneRevision'
    BY <1>6 DEF DkmsInstall, Exit, memory, ghosts, OneRevision, TypeOK,
            ClaimKept, Idle
  <2>6. SuccessLasts'
    BY <1>6 DEF DkmsInstall, Exit, memory, ghosts, SuccessLasts, TypeOK,
            OneSource
  <2> QED
    BY <2>1, <2>2, <2>3, <2>4, <2>5, <2>6 DEF IInv
<1>7. CASE ModprobeRemove
  <2>1. /\ TypeOK' /\ ScriptAt' /\ EntryForModule' /\ OneSource'
        /\ EntryHasSource' /\ ClaimKept' /\ OneRevision'
    BY <1>7 DEF ModprobeRemove, Exit, disk, ghosts, TypeOK, ScriptAt,
            EntryForModule, OneSource, EntryHasSource, ClaimKept, OneRevision,
            Idle
  <2>2. SuccessLasts'
    BY <1>7 DEF ModprobeRemove, Exit, disk, ghosts, SuccessLasts, TypeOK,
            ClaimKept, Idle
  <2> QED
    BY <2>1, <2>2 DEF IInv
<1>8. CASE Modprobe
  BY <1>8 DEF IInv, Modprobe, disk, ghosts, TypeOK, ScriptAt, EntryForModule,
          OneSource, EntryHasSource, ClaimKept, OneRevision, SuccessLasts,
          Idle
<1>9. CASE UpdateInitrd
  <2>1. /\ ScriptAt' /\ EntryForModule' /\ OneSource'
        /\ EntryHasSource' /\ ClaimKept'
    BY <1>9 DEF UpdateInitrd, Exit, memory, ScriptAt, EntryForModule,
            OneSource, EntryHasSource, ClaimKept, Idle
  <2>2. TypeOK'
    BY <1>9 DEF UpdateInitrd, Exit, memory, TypeOK, ScriptAt
  <2>3. OneRevision'
    BY <1>9 DEF UpdateInitrd, Exit, memory, OneRevision, TypeOK, OneSource
  <2>4. SuccessLasts'
    BY <1>9 DEF UpdateInitrd, Exit, memory, SuccessLasts, TypeOK, ScriptAt
  <2> QED
    BY <2>1, <2>2, <2>3, <2>4 DEF IInv
<1>10. CASE DkmsRemove
  <2>1. ScriptAt' /\ OneSource' /\ ClaimKept'
    BY <1>10 DEF DkmsRemove, Exit, memory, ScriptAt, OneSource, ClaimKept,
            Idle
  <2>2. TypeOK'
    BY <1>10 DEF DkmsRemove, Exit, memory, TypeOK
  <2>3. EntryForModule'
    BY <1>10 DEF DkmsRemove, Exit, memory, EntryForModule, TypeOK
  <2>4. EntryHasSource'
    BY <1>10 DEF DkmsRemove, Exit, memory, EntryHasSource
  <2>5. OneRevision'
    BY <1>10 DEF DkmsRemove, Exit, memory, OneRevision, TypeOK
  <2>6. SuccessLasts'
    BY <1>10 DEF DkmsRemove, Exit, memory, SuccessLasts, TypeOK, ClaimKept,
            Idle
  <2> QED
    BY <2>1, <2>2, <2>3, <2>4, <2>5, <2>6 DEF IInv
<1>11. CASE ModprobeRemoveLast
  <2>1. /\ TypeOK' /\ ScriptAt' /\ EntryForModule' /\ OneSource'
        /\ EntryHasSource' /\ ClaimKept' /\ OneRevision'
    BY <1>11 DEF ModprobeRemoveLast, Exit, disk, ghosts, TypeOK, ScriptAt,
            EntryForModule, OneSource, EntryHasSource, ClaimKept, OneRevision,
            Idle
  <2>2. SuccessLasts'
    BY <1>11 DEF ModprobeRemoveLast, Exit, disk, ghosts, SuccessLasts, TypeOK,
            ClaimKept, Idle
  <2> QED
    BY <2>1, <2>2 DEF IInv
<1>12. CASE Interrupt
  <2>1. /\ ScriptAt' /\ OneSource' /\ EntryHasSource'
        /\ ClaimKept' /\ OneRevision'
    BY <1>12 DEF Interrupt, Idle, Exit, RemoveSome, disk, memory, ScriptAt,
            OneSource, EntryHasSource, ClaimKept, OneRevision
  <2>2. TypeOK'
    BY <1>12 DEF Interrupt, Idle, Exit, RemoveSome, disk, memory, TypeOK
  <2>3. EntryForModule'
    BY <1>12 DEF Interrupt, Idle, Exit, RemoveSome, disk, memory,
            EntryForModule
  <2>4. SuccessLasts'
    BY <1>12 DEF Interrupt, Idle, Exit, RemoveSome, disk, memory,
            SuccessLasts, TypeOK, ClaimKept
  <2> QED
    BY <2>1, <2>2, <2>3, <2>4 DEF IInv
<1>13. CASE Use
  BY <1>13 DEF IInv, Use, disk, ghosts, TypeOK, ScriptAt, EntryForModule,
          OneSource, EntryHasSource, ClaimKept, OneRevision, SuccessLasts,
          Idle
<1>14. ASSUME NEW k \in Kernels, Reboot(k)
     PROVE  IInv'
  BY <1>14 DEF IInv, Reboot, Idle, disk, ghosts, TypeOK, ScriptAt,
          EntryForModule, OneSource, EntryHasSource, ClaimKept, OneRevision,
          SuccessLasts
<1>15. ASSUME NEW k \in Kernels, KernelHook(k)
     PROVE  IInv'
  <2>1. /\ TypeOK' /\ ScriptAt' /\ EntryForModule' /\ OneSource'
        /\ EntryHasSource' /\ ClaimKept' /\ SuccessLasts'
    BY <1>15 DEF KernelHook, memory, ghosts, TypeOK, ScriptAt, EntryForModule,
            OneSource, EntryHasSource, ClaimKept, SuccessLasts, Idle
  <2>2. OneRevision'
    BY <1>15 DEF KernelHook, memory, ghosts, OneRevision, TypeOK, ClaimKept,
            Idle
  <2> QED
    BY <2>1, <2>2 DEF IInv
<1>16. ASSUME NEW r \in Revisions, Pull(r)
     PROVE  IInv'
  BY <1>16 DEF IInv, Pull, Idle, disk, memory, ghosts, TypeOK, ScriptAt,
          EntryForModule, OneSource, EntryHasSource, ClaimKept, OneRevision,
          SuccessLasts
<1>17. CASE UNCHANGED vars
  BY <1>17 DEF IInv, vars, disk, memory, ghosts, TypeOK, ScriptAt,
          EntryForModule, OneSource, EntryHasSource, ClaimKept, OneRevision,
          SuccessLasts, Idle
<1> QED
  BY <1>1, <1>2, <1>3, <1>4, <1>5, <1>6, <1>7, <1>8, <1>9, <1>10, <1>11,
     <1>12, <1>13, <1>14, <1>15, <1>16, <1>17 DEF Next, Script

(* The inductive invariant holds in every reachable state.                   *)
LEMMA Invariance == Spec => []IInv
  BY InitIInv, NextIInv, PTL DEF Spec

------------------------------------------------------------------------------
(* Type correctness of dkms.bash and the machine it changes: what does not   *)
(* compile is never installed, put into an image or loaded.                  *)
THEOREM TypeCorrect == Spec => []TypeOK
<1>1. IInv => TypeOK
  BY DEF IInv
<1> QED
  BY <1>1, Invariance, PTL

(* However dkms.bash is interrupted, an entry of DKMS without sources is     *)
(* there only after a `dkms remove` whose failure `|| true` has hidden.      *)
THEOREM AlwaysRepeatable == Spec => []Repeatable
<1>1. IInv => Repeatable
  BY DEF IInv, EntryHasSource, Repeatable
<1> QED
  BY <1>1, Invariance, PTL

(* After a complete install of dkms.bash no kernel has another revision, in  *)
(* /lib/modules or in its initial RAM disk, for any number of kernels.       *)
THEOREM OnlyOneRevision == Spec => []OneRevision
<1>1. IInv => OneRevision
  BY DEF IInv
<1> QED
  BY <1>1, Invariance, PTL

(* A complete install of dkms.bash lasts: disk, initial RAM disk and memory  *)
(* have the revision until the scripts run again.                            *)
THEOREM InstallLasts == Spec => []SuccessLasts
<1>1. IInv => SuccessLasts
  BY DEF IInv
<1> QED
  BY <1>1, Invariance, PTL

==============================================================================
