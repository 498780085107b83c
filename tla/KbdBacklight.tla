----------------------------- MODULE KbdBacklight -----------------------------
(***************************************************************************)
(* The keyboard-backlight driver redmibook_kbd_backlight.c: one register   *)
(* KBBL of the embedded controller (EC), written by four actors that do    *)
(* not know of each other:                                                 *)
(*                                                                         *)
(*   - the LED class, for a process writing or reading the sysfs file;     *)
(*   - the driver's power-management notifier, which saves KBBL and turns  *)
(*     the light off in PM_SUSPEND_PREPARE, and restores it in             *)
(*     PM_POST_SUSPEND;                                                    *)
(*   - insmod and rmmod, that run ec_init and ec_exit;                     *)
(*   - the EC firmware, when the user presses the hardware key.            *)
(*                                                                         *)
(* PREPARE runs before processes are frozen and POST after they are        *)
(* thawed, and nothing is locked between the two calls, or between the     *)
(* read and the write inside PREPARE: that is where the actors meet.       *)
(* Every access to the EC may fail (the ACPI method returns an error).     *)
(***************************************************************************)
EXTENDS Naturals

CONSTANT Requests         \* numbers that processes write to the sysfs file

ASSUME RequestsAssumption == Requests \subseteq Nat

VARIABLES
  kbbl,        \* the EC register KBBL
  saved_KBBL,  \* what the notifier saved; 0 in a freshly loaded module
  brightness,  \* redmibook_kbd_backlight.brightness, the LED class's cache
  ledReg,      \* the LED class device is registered
  notifier,    \* pm_notifier_block is on the PM notifier chain
  mod,         \* progress of ec_init and ec_exit
  phase,       \* progress of the PM core through a sleep cycle
  kind,        \* of the current or last sleep cycle
  \* History variables: the properties are stated with them, no action reads
  \* one to decide what to do.
  intent,      \* the level last asked for, or the one a sleep began with
  upset,       \* what interfered with the register since intent was set
  stale,       \* the cache was filled by a failed read, or KBBL moved under it
  blind        \* the notifier restored a saved_KBBL that it had never read

driver == <<saved_KBBL, brightness, ledReg, notifier, mod>>
pm     == <<phase, kind>>
ghosts == <<intent, upset, stale, blind>>
vars   == <<kbbl, driver, pm, ghosts>>

OFF        == 8
LegalCodes == {1, 2, 4, 8}
Codes      == LegalCodes \cup {0}
Levels     == 0 .. 3
Upsets     == {"ec_error", "raced", "relit", "lateload", "unloaded", "hibernated"}

------------------------------------------------------------------------------
(* The codec between a brightness and the one-hot code of the register.      *)

\* A slip in one row of the table: levels 1 and 2 exchanged in one direction.
BadDecode(level) ==
  CASE level = 8 -> 0 [] level = 4 -> 3 [] level = 2 -> 2 [] level = 1 -> 1
    [] OTHER -> 0

kbbl_to_brightness(level) ==
  CASE level = 8 -> 0
    [] level = 4 -> 3
    [] level = 2 -> 1
    [] level = 1 -> 2
    [] OTHER -> 0

\* The brightness written to the register as it is.
BadEncode(b) == IF b = 0 THEN 8 ELSE b

brightness_to_kbbl(b) ==
  CASE b = 0 -> 8
    [] b = 3 -> 4
    [] b = 1 -> 2
    [] b = 2 -> 1
    [] OTHER -> 8

\* The LED core clamps a request to .max_brightness before brightness_set.
Clamp(n) == IF n > 3 THEN 3 ELSE n

------------------------------------------------------------------------------
(* The EC.  A failed ECRD leaves the caller's variable alone.  A failed ECWT *)
(* may have failed before or after the EC took the value.                    *)

ecram_read(ok, old) == IF ok THEN kbbl ELSE old

ecram_write(ok, val) ==
  IF ok THEN kbbl' = val ELSE kbbl' \in {kbbl, val}

\* What an EC error adds to the history.
Error(ok) == IF ok THEN {} ELSE {"ec_error"}

\* kbbl_brightness_get: LED_OFF when the EC cannot be read.
kbbl_brightness_get(ok) == IF ok THEN kbbl_to_brightness(kbbl) ELSE 0

\* Processes run in every phase but this one.
Running == phase # "asleep"

\* A write by anyone but the notifier is what the user wants from now on.
\* After PREPARE has read the register such a write is a race with POST, and
\* after PREPARE has written it the light is on again.
Disturb(ok) ==
  Error(ok) \cup (IF phase = "awake" THEN {} ELSE {"raced"})
            \cup (IF phase \in {"awake", "saving"} THEN {} ELSE {"relit"})

UserWrites(ok, b) ==
  /\ ecram_write(ok, brightness_to_kbbl(b))
  /\ intent' = b
  /\ upset' = IF phase = "awake" THEN Error(ok) ELSE upset \cup Disturb(ok)

------------------------------------------------------------------------------
(* Loading and unloading.  An ec_init that finds no EC, no ECRD, no ECWT or  *)
(* no KBBL returns -ENODEV and has changed nothing.                          *)

EcInitLookup ==
  /\ mod = "absent" /\ Running
  /\ mod' = "probed"
  /\ \E ok \in BOOLEAN :
       /\ brightness' = kbbl_brightness_get(ok)
       /\ stale' = ~ok
  /\ saved_KBBL' = 0
  /\ UNCHANGED <<kbbl, ledReg, notifier, pm, intent, upset, blind>>

\* led_classdev_register.  It refreshes the cache itself; its error is ignored.
EcInitLed ==
  /\ mod = "probed" /\ Running
  /\ mod' = "ledup"
  /\ \/ \E ok \in BOOLEAN :
          /\ ledReg' = TRUE
          /\ brightness' = kbbl_brightness_get(ok)
          /\ stale' = ~ok
     \/ UNCHANGED <<ledReg, brightness, stale>>
  /\ UNCHANGED <<kbbl, saved_KBBL, notifier, pm, intent, upset, blind>>

\* register_pm_notifier waits for a notifier call that is under way.
EcInitNotifier ==
  /\ mod = "ledup" /\ Running
  /\ phase # "saving"
  /\ mod' = "live"
  /\ notifier' = TRUE
  /\ upset' = IF phase = "awake" THEN upset ELSE upset \cup {"lateload"}
  /\ UNCHANGED <<kbbl, saved_KBBL, brightness, ledReg, pm, intent, stale, blind>>

\* ec_exit without its first call.
BadExitNotifier ==
  /\ mod = "live" /\ Running
  /\ mod' = "stopping"
  /\ UNCHANGED <<kbbl, saved_KBBL, brightness, ledReg, notifier, pm, ghosts>>

EcExitNotifier ==
  /\ mod = "live" /\ Running
  /\ phase # "saving"
  /\ mod' = "stopping"
  /\ notifier' = FALSE
  /\ upset' = IF phase = "awake" THEN upset ELSE upset \cup {"unloaded"}
  /\ UNCHANGED <<kbbl, saved_KBBL, brightness, ledReg, pm, intent, stale, blind>>

\* led_classdev_unregister stores LED_OFF; it does nothing for an LED whose
\* registration had failed.
EcExitLed ==
  /\ mod = "stopping" /\ Running
  /\ mod' = "absent"
  /\ ledReg' = FALSE
  /\ IF ledReg
       THEN /\ brightness' = 0
            /\ \E ok \in BOOLEAN : UserWrites(ok, 0)
       ELSE UNCHANGED <<kbbl, brightness, intent, upset>>
  /\ stale' = FALSE
  /\ UNCHANGED <<saved_KBBL, notifier, pm, blind>>

------------------------------------------------------------------------------
(* The LED class, on behalf of a process.                                    *)

LedStore(n) ==
  /\ ledReg /\ Running
  /\ brightness' = Clamp(n)
  /\ \E ok \in BOOLEAN :
       /\ UserWrites(ok, Clamp(n))
       /\ stale' = (~ok \/ phase # "awake")
  /\ UNCHANGED <<saved_KBBL, ledReg, notifier, mod, pm, blind>>

LedShow ==
  /\ ledReg /\ Running
  /\ \E ok \in BOOLEAN :
       /\ brightness' = kbbl_brightness_get(ok)
       /\ stale' = (~ok \/ phase # "awake")
  /\ UNCHANGED <<kbbl, saved_KBBL, ledReg, notifier, mod, pm, intent, upset, blind>>

\* The EC firmware answers the hardware key by itself.
Hotkey(code) ==
  /\ kbbl' = code
  /\ intent' = kbbl_to_brightness(code)
  /\ upset' = IF phase = "awake" THEN {} ELSE upset \cup Disturb(TRUE)
  /\ stale' = TRUE
  /\ UNCHANGED <<driver, pm, blind>>

------------------------------------------------------------------------------
(* The PM core and the notifier it calls.                                    *)

\* A PREPARE that turns the light off before it reads the level to keep.
BadPrepare ==
  /\ phase = "awake"
  /\ intent' = kbbl_to_brightness(kbbl)
  /\ kind' = "suspend"
  /\ upset' = {}
  /\ IF notifier
       THEN phase' = "saving" /\ kbbl' = OFF /\ saved_KBBL' = OFF
       ELSE phase' = "prepared" /\ UNCHANGED <<kbbl, saved_KBBL>>
  /\ UNCHANGED <<brightness, ledReg, notifier, mod, stale, blind>>

\* PM_SUSPEND_PREPARE, up to the read.  The level that the cycle has to give
\* back is the one the register holds now.
SuspendPrepare ==
  /\ phase = "awake"
  /\ kind' = "suspend"
  /\ intent' = kbbl_to_brightness(kbbl)
  /\ IF notifier
       THEN /\ phase' = "saving"
            /\ \E ok \in BOOLEAN :
                 /\ saved_KBBL' = ecram_read(ok, saved_KBBL)
                 /\ upset' = Error(ok)
       ELSE /\ phase' = "prepared"
            /\ upset' = {}
            /\ UNCHANGED saved_KBBL
  /\ UNCHANGED <<kbbl, brightness, ledReg, notifier, mod, stale, blind>>

\* A PREPARE that only saves the level.
BadSaveOff ==
  /\ phase = "saving"
  /\ phase' = "prepared"
  /\ UNCHANGED <<kbbl, driver, kind, ghosts>>

\* PM_SUSPEND_PREPARE, the write.
SaveOff ==
  /\ phase = "saving"
  /\ phase' = "prepared"
  /\ \E ok \in BOOLEAN :
       /\ ecram_write(ok, OFF)
       /\ upset' = upset \cup Error(ok)
  /\ UNCHANGED <<driver, kind, intent, stale, blind>>

\* Hibernation has notifications of its own, which the callback ignores.
HibernationPrepare ==
  /\ phase = "awake"
  /\ phase' = "prepared"
  /\ kind' = "hibernate"
  /\ intent' = kbbl_to_brightness(kbbl)
  /\ upset' = {}
  /\ UNCHANGED <<kbbl, driver, stale, blind>>

\* Freezing waits for an insmod or rmmod that is under way.
Freeze ==
  /\ phase = "prepared"
  /\ mod \in {"absent", "live"}
  /\ phase' = "asleep"
  /\ UNCHANGED <<kbbl, driver, kind, ghosts>>

\* Freezing processes or a later notifier failed: the cycle is unwound.
SleepAborted ==
  /\ phase = "prepared"
  /\ phase' = "thawed"
  /\ UNCHANGED <<kbbl, driver, kind, ghosts>>

\* The EC is powered during suspend and loses its registers in hibernation.
Wake ==
  /\ phase = "asleep"
  /\ phase' = "thawed"
  /\ IF kind = "hibernate"
       THEN /\ kbbl' \in LegalCodes
            /\ upset' = upset \cup {"hibernated"}
       ELSE UNCHANGED <<kbbl, upset>>
  /\ stale' = (stale \/ kind = "hibernate")
  /\ UNCHANGED <<driver, kind, intent, blind>>

\* PM_POST_SUSPEND, or PM_POST_HIBERNATION, which the callback ignores.
PostSleep ==
  /\ phase = "thawed"
  /\ phase' = "awake"
  /\ IF notifier /\ kind = "suspend"
       THEN /\ \E ok \in BOOLEAN :
                 /\ ecram_write(ok, saved_KBBL)
                 /\ upset' = upset \cup Error(ok)
            /\ blind' = (blind \/ saved_KBBL = 0)
       ELSE UNCHANGED <<kbbl, upset, blind>>
  /\ stale' = (stale \/ upset' # {})
  /\ UNCHANGED <<driver, kind, intent>>

------------------------------------------------------------------------------
Init ==
  /\ kbbl \in LegalCodes
  /\ saved_KBBL = 0 /\ brightness = 0
  /\ ledReg = FALSE /\ notifier = FALSE /\ mod = "absent"
  /\ phase = "awake" /\ kind = "suspend"
  /\ intent = kbbl_to_brightness(kbbl)
  /\ upset = {} /\ stale = FALSE /\ blind = FALSE

Next ==
  \/ EcInitLookup \/ EcInitLed \/ EcInitNotifier
  \/ EcExitNotifier \/ EcExitLed
  \/ \E n \in Requests : LedStore(n)
  \/ LedShow
  \/ \E code \in LegalCodes : Hotkey(code)
  \/ SuspendPrepare \/ SaveOff \/ HibernationPrepare
  \/ Freeze \/ SleepAborted \/ Wake \/ PostSleep

Spec == Init /\ [][Next]_vars

------------------------------------------------------------------------------
(* Type correctness: the cached brightness stays within 0..max_brightness    *)
(* and the register holds a code of the table, or the 0 of a blind restore.  *)
TypeOK ==
  /\ kbbl \in Codes /\ saved_KBBL \in Codes
  /\ brightness \in Levels /\ intent \in Levels
  /\ ledReg \in BOOLEAN /\ notifier \in BOOLEAN
  /\ stale \in BOOLEAN /\ blind \in BOOLEAN
  /\ mod \in {"absent", "probed", "ledup", "live", "stopping"}
  /\ phase \in {"awake", "saving", "prepared", "asleep", "thawed"}
  /\ kind \in {"suspend", "hibernate"}
  /\ upset \subseteq Upsets

(* The promise of pm_notifier_call: whatever sleep cycles, aborted ones      *)
(* included, have come and gone, the backlight has the level that was last   *)
(* asked for, unless the EC failed, someone wrote the register inside the    *)
(* window from PREPARE to POST, the module came or went in that window, or   *)
(* the EC lost power.                                                        *)
LevelKept ==
  phase = "awake" /\ upset = {} => kbbl_to_brightness(kbbl) = intent

(* A suspended machine whose notifier ran is dark, unless the EC failed, the *)
(* module was loaded after PREPARE, or the light was lit again between the   *)
(* write of PREPARE and the freezing of processes.                           *)
DarkWhileAsleep ==
  /\ phase = "asleep" /\ kind = "suspend" /\ notifier
  /\ upset \cap {"ec_error", "relit", "lateload"} = {}
  => kbbl = OFF

(* The register only ever holds one of the four codes of the table, with one *)
(* exception: a POST in a module that never read KBBL (its PREPARE failed to *)
(* or was missed) writes the initial 0 of saved_KBBL.                        *)
LegalUnlessBlind == kbbl \notin LegalCodes => blind

(* The cache of the LED class agrees with the EC when the system is awake,   *)
(* unless the last refresh failed or fell in the window of a sleep cycle, or *)
(* the register changed behind the driver's back (nobody tells the LED class *)
(* of a hotkey press).                                                       *)
CacheCoherent ==
  phase = "awake" /\ ledReg /\ ~stale => brightness = kbbl_to_brightness(kbbl)

(* No callback of the module outlives it: once ec_exit has returned neither  *)
(* the LED class nor the PM chain can call into freed code.                  *)
NoDanglingCallback == notifier \/ ledReg => mod # "absent"

==============================================================================
