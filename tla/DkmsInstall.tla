----------------------------- MODULE DkmsInstall ------------------------------
(***************************************************************************)
(* The DKMS wrapper drivers/dkms.bash, which install.sh and uninstall.sh   *)
(* run for every driver with a dkms.conf, for one such driver.             *)
(*                                                                         *)
(* A driver is in five places: the repository, /usr/src, the tree of DKMS, *)
(* /lib/modules and the initial RAM disk of each kernel, and the memory of *)
(* the kernel that runs.  Each command changes one of them, `set -e` stops *)
(* the script at the first that fails, and it can be interrupted anywhere, *)
(* while the package manager installs kernels and the user reboots, uses   *)
(* the driver, and updates the repository without a new version number.    *)
(***************************************************************************)
CONSTANTS
  Revisions,   \* the contents of the driver's directory over time
  Builds,      \* those that compile
  Kernels      \* the kernels on the disk

ASSUME ParametersAssumption ==
  /\ Builds \subseteq Revisions /\ Kernels # {}
  /\ {"none", "partial"} \cap Revisions = {}

VARIABLES
  repo,       \* the revision in the repository
  src,        \* /usr/src/$PACKAGE_NAME-$PACKAGE_VERSION
  added,      \* the DKMS tree has an entry for this package and version
  installed,  \* the module in /lib/modules, for each kernel
  image,      \* the module in the initial RAM disk, for each kernel
  kernel,     \* the kernel that runs
  loaded,     \* the module it has loaded
  busy,       \* ... which is in use
  pc,         \* the next command of the script
  \* History variables.
  claimed,    \* the revision of the last install that came to its end
  home,       \* the kernel it ran under
  leftover    \* a failed `dkms remove` left an entry in the tree

disk   == <<src, added, installed, image>>
memory == <<kernel, loaded, busy>>
ghosts == <<claimed, home, leftover>>
vars   == <<repo, disk, memory, pc, ghosts>>

Idle == pc = "idle"
Exit == pc' = "idle"

------------------------------------------------------------------------------
(* dkms.bash install.                                                        *)

\* A wrapper that does not ask DKMS to remove the old version.
BadInstallStart ==
  /\ Idle
  /\ pc' = IF src = "none" THEN "add" ELSE "rm"
  /\ claimed' = "none"
  /\ UNCHANGED <<repo, disk, memory, home, leftover>>

InstallStart ==
  /\ Idle
  /\ pc' = IF src = "none" THEN "add" ELSE "remove"
  /\ claimed' = "none"
  /\ UNCHANGED <<repo, disk, memory, home, leftover>>

\* dkms remove --all --force ... || true: all of it, or an unknown part.
RemoveAll ==
  /\ installed' = [k \in Kernels |-> "none"]
  /\ added' = FALSE /\ leftover' = FALSE

RemoveSome ==
  /\ \E K \in SUBSET Kernels :
       installed' = [k \in Kernels |-> IF added /\ k \in K THEN "none" ELSE installed[k]]
  /\ leftover' = added /\ UNCHANGED added

DkmsRemoveAll ==
  /\ pc = "remove"
  /\ (added /\ RemoveAll) \/ RemoveSome
  /\ pc' = "rm"
  /\ UNCHANGED <<repo, src, image, memory, claimed, home>>

RmRf ==
  /\ pc = "rm"
  /\ src' = "none"
  /\ pc' = "add"
  /\ UNCHANGED <<repo, added, installed, image, memory, ghosts>>

\* dkms add: a copy to /usr/src and an entry, refused if there is one.
DkmsAdd ==
  /\ pc = "add"
  /\ \/ ~added /\ added' = TRUE /\ src' = repo /\ pc' = "install"
     \/ added /\ Exit /\ UNCHANGED <<added, src>>
  /\ UNCHANGED <<repo, installed, image, memory, ghosts>>

\* dkms install, for the running kernel.
DkmsInstall ==
  /\ pc = "install"
  /\ \/ src \in Builds /\ installed' = [installed EXCEPT ![kernel] = src] /\ pc' = "unload"
     \/ src \notin Builds /\ Exit /\ UNCHANGED installed
  /\ UNCHANGED <<repo, src, added, image, memory, ghosts>>

\* A wrapper that goes on when the old module cannot be unloaded.
BadModprobeRemove ==
  /\ pc = "unload"
  /\ loaded' = IF busy THEN loaded ELSE "none"
  /\ pc' = "load"
  /\ UNCHANGED <<repo, disk, kernel, busy, ghosts>>

ModprobeRemove ==
  /\ pc = "unload"
  /\ \/ ~busy /\ loaded' = "none" /\ pc' = "load"
     \/ busy /\ Exit /\ UNCHANGED loaded
  /\ UNCHANGED <<repo, disk, kernel, busy, ghosts>>

\* A module that is loaded by now stays.  postinst.sh, which copies firmware,
\* comes between this and the last command.
Modprobe ==
  /\ pc = "load"
  /\ loaded' = IF loaded = "none" THEN installed[kernel] ELSE loaded
  /\ pc' = "initrd"
  /\ UNCHANGED <<repo, disk, kernel, busy, ghosts>>

\* An update-initrd.sh for the running kernel only.
BadUpdateInitrd ==
  /\ pc = "initrd"
  /\ image' = [image EXCEPT ![kernel] = installed[kernel]]
  /\ claimed' = src /\ home' = kernel
  /\ Exit
  /\ UNCHANGED <<repo, src, added, installed, memory, leftover>>

\* update-initrd.sh, for all kernels; then the script asks for a reboot.
UpdateInitrd ==
  /\ pc = "initrd"
  /\ image' = installed
  /\ claimed' = src /\ home' = kernel
  /\ Exit
  /\ UNCHANGED <<repo, src, added, installed, memory, leftover>>

------------------------------------------------------------------------------
(* dkms.bash uninstall.                                                      *)

UninstallStart ==
  /\ Idle
  /\ pc' = "uremove"
  /\ claimed' = "none"
  /\ UNCHANGED <<repo, disk, memory, home, leftover>>

\* dkms remove without --all: the running kernel, and the entry with the last
\* kernel.  It needs the entry and a dkms.conf in /usr/src.
DkmsRemove ==
  /\ pc = "uremove"
  /\ \/ /\ added /\ src # "none"
        /\ installed' = [installed EXCEPT ![kernel] = "none"]
        /\ added' = \E k \in Kernels : installed'[k] # "none"
        /\ leftover' = (leftover /\ added')
        /\ pc' = "uunload"
     \/ /\ ~added \/ src \in {"none", "partial"}
        /\ Exit
        /\ UNCHANGED <<installed, added, leftover>>
  /\ UNCHANGED <<repo, src, image, memory, claimed, home>>

\* modprobe -r: it may not find a module that is no longer in /lib/modules.
ModprobeRemoveLast ==
  /\ pc = "uunload"
  /\ (~busy /\ loaded' = "none") \/ UNCHANGED loaded
  /\ Exit
  /\ UNCHANGED <<repo, disk, kernel, busy, ghosts>>

------------------------------------------------------------------------------
(* The script stops: a command fails, or it is killed in the middle of one.  *)
Interrupt ==
  /\ ~Idle
  /\ Exit
  /\ \/ pc = "remove" /\ RemoveSome /\ UNCHANGED <<src, image>>
     \/ pc = "rm" /\ src' = "partial" /\ UNCHANGED <<added, installed, image, leftover>>
     \/ pc = "add" /\ ~added /\ src' \in {"partial", repo}
        /\ UNCHANGED <<added, installed, image, leftover>>
     \/ pc = "initrd"
        /\ \E K \in SUBSET Kernels :
             image' = [k \in Kernels |-> IF k \in K THEN installed[k] ELSE image[k]]
        /\ UNCHANGED <<src, added, installed, leftover>>
     \/ UNCHANGED <<disk, leftover>>
  /\ UNCHANGED <<repo, memory, claimed, home>>

------------------------------------------------------------------------------
(* The rest of the machine.                                                  *)

\* The initial RAM disk comes first.
Reboot(k) ==
  /\ Idle
  /\ kernel' = k
  /\ loaded' = IF image[k] # "none" THEN image[k] ELSE installed[k]
  /\ busy' = FALSE
  /\ UNCHANGED <<repo, disk, pc, ghosts>>

\* The package manager installs a kernel at any time: AUTOINSTALL="yes".
KernelHook(k) ==
  /\ installed' = [installed EXCEPT ![k] =
       IF @ = "none" /\ added /\ src \in Builds THEN src ELSE @]
  /\ image' = [image EXCEPT ![k] = installed'[k]]
  /\ UNCHANGED <<repo, src, added, memory, pc, ghosts>>

\* Somebody opens or closes the device, or brings the network up or down.
Use ==
  /\ loaded # "none"
  /\ busy' = ~busy
  /\ UNCHANGED <<repo, disk, kernel, loaded, pc, ghosts>>

\* git pull, with the same PACKAGE_VERSION
Pull(r) ==
  /\ Idle
  /\ repo' = r
  /\ UNCHANGED <<disk, memory, pc, ghosts>>

------------------------------------------------------------------------------
\* A machine that has never seen the driver.
Init ==
  /\ repo \in Revisions
  /\ src = "none" /\ added = FALSE
  /\ installed = [k \in Kernels |-> "none"] /\ image = installed
  /\ kernel \in Kernels /\ loaded = "none" /\ busy = FALSE
  /\ pc = "idle"
  /\ claimed = "none" /\ home = kernel /\ leftover = FALSE

Script ==
  \/ DkmsRemoveAll \/ RmRf \/ DkmsAdd \/ DkmsInstall
  \/ ModprobeRemove \/ Modprobe \/ UpdateInitrd
  \/ DkmsRemove \/ ModprobeRemoveLast

Next ==
  \/ InstallStart \/ UninstallStart \/ Script \/ Interrupt \/ Use
  \/ \E k \in Kernels : Reboot(k) \/ KernelHook(k)
  \/ \E r \in Revisions : Pull(r)

Spec == Init /\ [][Next]_vars

------------------------------------------------------------------------------
(* Type correctness; only what compiles is ever installed or loaded.         *)
TypeOK ==
  /\ repo \in Revisions
  /\ src \in Revisions \cup {"none", "partial"} /\ added \in BOOLEAN
  /\ installed \in [Kernels -> Builds \cup {"none"}]
  /\ image \in [Kernels -> Builds \cup {"none"}]
  /\ kernel \in Kernels /\ loaded \in Builds \cup {"none"} /\ busy \in BOOLEAN
  /\ pc \in {"idle", "remove", "rm", "add", "install", "unload", "load", "initrd",
             "uremove", "uunload"}
  /\ claimed \in Builds \cup {"none"} /\ home \in Kernels /\ leftover \in BOOLEAN

(* An install can always be repeated: whatever was interrupted, DKMS has no  *)
(* entry whose sources are gone.  With such an entry dkms.bash skips its     *)
(* `dkms remove` (line 16), `dkms add` refuses for ever, and uninstall finds *)
(* no dkms.conf.  Only a `dkms remove` that failed, and whose failure        *)
(* `|| true` hides, leads there.                                             *)
Repeatable == Idle /\ src = "none" /\ added => leftover

(* No trace of another revision is left by an install that came to its end:  *)
(* for no kernel, on disk or in its initial RAM disk, whatever happened      *)
(* before the install and whatever the package manager does after it.        *)
OneRevision ==
  claimed # "none" =>
    \A k \in Kernels : {installed[k], image[k]} \subseteq {"none", claimed}

(* An install that came to its end means that this kernel has the revision   *)
(* on disk and in its initial RAM disk, and runs it, also after reboots and  *)
(* updates of the repository, until the next run of the scripts.             *)
SuccessLasts ==
  claimed # "none" =>
    /\ installed[home] = claimed /\ image[home] = claimed
    /\ kernel = home => loaded = claimed

==============================================================================
