-------------------------- MODULE KbdBacklightProofs --------------------------
(***************************************************************************)
(* The invariants of KbdBacklight, for every set of requests.  LevelKept   *)
(* says nothing of the time between PREPARE and POST, so it is not         *)
(* inductive: InFlight says where the level is while the light is off.     *)
(***************************************************************************)
EXTENDS KbdBacklight, TLAPS

Level == kbbl_to_brightness(kbbl)

\* The notifier is due to restore the register when the cycle ends.
Due == notifier /\ kind = "suspend"

\* Where the level the user wants is kept during an undisturbed sleep cycle:
\* in saved_KBBL if POST will restore it, otherwise still in the register.
InFlight ==
  /\ phase = "saving" => Due
  /\ phase # "awake" /\ upset = {} =>
       IF Due THEN kbbl_to_brightness(saved_KBBL) = intent ELSE Level = intent

\* The light is off from the write of PREPARE to that of POST.
Dark ==
  /\ phase \in {"prepared", "asleep", "thawed"} /\ Due
  /\ upset \cap {"ec_error", "relit", "lateload"} = {}
  => kbbl = OFF

\* A fresh cache holds the level that the end of the cycle will restore.
CacheInFlight ==
  phase # "awake" /\ ledReg /\ ~stale /\ upset = {} => brightness = intent

\* What ec_init and ec_exit have registered.
Registered ==
  /\ notifier => mod = "live"
  /\ ledReg => mod \in {"ledup", "live", "stopping"}

IInv ==
  /\ TypeOK /\ LevelKept /\ InFlight /\ Dark
  /\ LegalUnlessBlind /\ CacheCoherent /\ CacheInFlight /\ Registered

------------------------------------------------------------------------------
(* The codec: every register value decodes to a level, every level encodes   *)
(* to a legal code, and decoding undoes encoding (the switch tables of       *)
(* kbbl_to_brightness and brightness_to_kbbl agree).                         *)
LEMMA Codec ==
  /\ \A c \in Codes : kbbl_to_brightness(c) \in Levels
  /\ \A b \in Levels : /\ brightness_to_kbbl(b) \in LegalCodes
                       /\ kbbl_to_brightness(brightness_to_kbbl(b)) = b
  /\ kbbl_to_brightness(OFF) = 0
<1>1. \A c \in Codes : kbbl_to_brightness(c) \in Levels
  BY DEF Codes, LegalCodes, Levels, kbbl_to_brightness
<1>2. ASSUME NEW b \in Levels
      PROVE  /\ brightness_to_kbbl(b) \in LegalCodes
             /\ kbbl_to_brightness(brightness_to_kbbl(b)) = b
  <2>1. b \in {0, 1, 2, 3}
    BY DEF Levels
  <2>2. CASE b = 0
    BY <2>2 DEF brightness_to_kbbl, kbbl_to_brightness, LegalCodes
  <2>3. CASE b = 1
    BY <2>3 DEF brightness_to_kbbl, kbbl_to_brightness, LegalCodes
  <2>4. CASE b = 2
    BY <2>4 DEF brightness_to_kbbl, kbbl_to_brightness, LegalCodes
  <2>5. CASE b = 3
    BY <2>5 DEF brightness_to_kbbl, kbbl_to_brightness, LegalCodes
  <2> QED
    BY <2>1, <2>2, <2>3, <2>4, <2>5
<1>3. kbbl_to_brightness(OFF) = 0
  BY DEF kbbl_to_brightness, OFF
<1> QED
  BY <1>1, <1>2, <1>3

(* Whatever a process writes, the LED core hands the driver a level.         *)
LEMMA ClampIsLevel == \A n \in Requests : Clamp(n) \in Levels
  BY RequestsAssumption DEF Clamp, Levels

(* The initial states satisfy the inductive invariant.                       *)
LEMMA InitIInv == Init => IInv
<1> SUFFICES ASSUME Init PROVE IInv
  OBVIOUS
<1>1. kbbl \in Codes /\ 0 \in Codes /\ intent \in Levels /\ 0 \in Levels
  BY Codec DEF Init, Codes, Levels
<1>2. TypeOK
  BY <1>1, Zenon DEF Init, TypeOK
<1>3. LevelKept /\ InFlight /\ Dark /\ LegalUnlessBlind
  BY DEF Init, LevelKept, InFlight, Dark, LegalUnlessBlind
<1>4. CacheCoherent /\ CacheInFlight /\ Registered
  BY DEF Init, CacheCoherent, CacheInFlight, Registered
<1> QED
  BY <1>2, <1>3, <1>4 DEF IInv


(* What a write on behalf of the user does to the register and the history.  *)
LEMMA UserWriteEffect ==
  ASSUME TypeOK, NEW ok \in BOOLEAN, NEW b \in Levels, UserWrites(ok, b)
  PROVE  /\ kbbl' \in Codes /\ intent' \in Levels /\ upset' \subseteq Upsets
         /\ intent' = b
         /\ kbbl' \notin LegalCodes => kbbl \notin LegalCodes
         /\ ok => kbbl_to_brightness(kbbl') = b
         /\ upset' = {} => ok /\ phase = "awake"
         /\ phase \notin {"awake", "saving"} => "relit" \in upset'
<1>1. /\ brightness_to_kbbl(b) \in LegalCodes
      /\ kbbl_to_brightness(brightness_to_kbbl(b)) = b
  BY Codec
<1>2. kbbl' \in {kbbl, brightness_to_kbbl(b)} /\ (ok => kbbl' = brightness_to_kbbl(b))
  BY DEF UserWrites, ecram_write
<1>3. upset' \subseteq Upsets /\ (upset' = {} => ok /\ phase = "awake")
  BY DEF UserWrites, Disturb, Error, Upsets, TypeOK
<1>4. phase \notin {"awake", "saving"} => "relit" \in upset'
  BY DEF UserWrites, Disturb, Error
<1> QED
  BY <1>1, <1>2, <1>3, <1>4 DEF UserWrites, TypeOK, Codes

(* Every step of the driver, the LED class, the PM core and the EC firmware  *)
(* preserves the inductive invariant.                                        *)
LEMMA NextIInv == IInv /\ [Next]_vars => IInv'
<1> SUFFICES ASSUME IInv, [Next]_vars PROVE IInv'
  OBVIOUS
<1> USE DEF IInv
<1> USE Codec, ClampIsLevel
<1>1. CASE EcInitLookup
  BY <1>1 DEF EcInitLookup, Running, kbbl_brightness_get, Levels, Codes, pm,
          TypeOK, LevelKept, InFlight, Dark, LegalUnlessBlind,
          CacheCoherent, CacheInFlight, Registered, Level, Due
<1>2. CASE EcInitLed
  <2>1. TypeOK'
    <3>1. brightness' \in Levels
      BY <1>2 DEF EcInitLed, kbbl_brightness_get, TypeOK, Levels
    <3> QED
      BY <1>2, <3>1, Zenon DEF EcInitLed, TypeOK, pm
  <2>2. \/ \E ok \in BOOLEAN : brightness' = kbbl_brightness_get(ok) /\ stale' = ~ok
        \/ UNCHANGED <<ledReg, brightness, stale>>
    BY <1>2 DEF EcInitLed
  <2> QED
    BY <1>2, <2>1, <2>2 DEF EcInitLed, TypeOK, kbbl_brightness_get, pm,
            LevelKept, InFlight, Dark, LegalUnlessBlind,
            CacheCoherent, CacheInFlight, Registered, Level, Due
<1>3. CASE EcInitNotifier
  BY <1>3 DEF EcInitNotifier, Running, Upsets, pm,
          TypeOK, LevelKept, InFlight, Dark, LegalUnlessBlind,
          CacheCoherent, CacheInFlight, Registered, Level, Due
<1>4. CASE EcExitNotifier
  BY <1>4 DEF EcExitNotifier, Running, Upsets, pm,
          TypeOK, LevelKept, InFlight, Dark, LegalUnlessBlind,
          CacheCoherent, CacheInFlight, Registered, Level, Due
<1>5. CASE EcExitLed
  <2>1. CASE ledReg
    <3>1. PICK ok \in BOOLEAN : UserWrites(ok, 0)
      BY <1>5, <2>1 DEF EcExitLed
    <3>2. 0 \in Levels
      BY DEF Levels
    <3>3. /\ kbbl' \in Codes /\ intent' \in Levels /\ upset' \subseteq Upsets
          /\ kbbl' \notin LegalCodes => kbbl \notin LegalCodes
          /\ upset' = {} => phase = "awake" /\ kbbl_to_brightness(kbbl') = intent'
      BY <3>1, <3>2, UserWriteEffect
    <3>4. TypeOK'
      BY <1>5, <2>1, <3>2, <3>3, Zenon DEF EcExitLed, TypeOK, pm
    <3> QED
      BY <1>5, <2>1, <3>3, <3>4 DEF EcExitLed, pm, LevelKept, InFlight, Dark,
           LegalUnlessBlind,
            CacheCoherent, CacheInFlight, Registered, Level, Due
  <2>2. CASE ~ledReg
    <3>1. TypeOK'
      BY <1>5, <2>2, Zenon DEF EcExitLed, TypeOK, pm
    <3> QED
      BY <1>5, <2>2, <3>1 DEF EcExitLed, pm, LevelKept, InFlight, Dark,
           LegalUnlessBlind,
            CacheCoherent, CacheInFlight, Registered, Level, Due
  <2> QED
    BY <2>1, <2>2
<1>6. CASE \E n \in Requests : LedStore(n)
  <2>1. PICK n \in Requests : LedStore(n)
    BY <1>6
  <2>2. PICK ok \in BOOLEAN : /\ UserWrites(ok, Clamp(n))
                              /\ stale' = (~ok \/ phase # "awake")
    BY <2>1 DEF LedStore
  <2>3. /\ kbbl' \in Codes /\ intent' \in Levels /\ upset' \subseteq Upsets
        /\ kbbl' \notin LegalCodes => kbbl \notin LegalCodes
        /\ ok => kbbl_to_brightness(kbbl') = Clamp(n)
        /\ intent' = Clamp(n)
        /\ upset' = {} => ok /\ phase = "awake"
        /\ phase \notin {"awake", "saving"} => "relit" \in upset'
    BY <2>2, UserWriteEffect
  <2>4. TypeOK'
    <3>1. stale' \in BOOLEAN
      BY <2>2, Zenon
    <3> QED
      BY <2>1, <2>3, <3>1, Zenon DEF LedStore, TypeOK, pm
  <2>5. ~stale' => ok /\ phase = "awake"
    BY <2>2
  <2> QED
    BY <2>1, <2>3, <2>4, <2>5 DEF LedStore, pm, LevelKept, InFlight, Dark,
         LegalUnlessBlind,
            CacheCoherent, CacheInFlight, Registered, Level, Due
<1>7. CASE LedShow
  <2>1. PICK ok \in BOOLEAN : /\ brightness' = kbbl_brightness_get(ok)
                              /\ stale' = (~ok \/ phase # "awake")
    BY <1>7 DEF LedShow
  <2>2. TypeOK'
    <3>1. brightness' \in Levels
      BY <2>1 DEF kbbl_brightness_get, TypeOK, Levels
    <3>2. stale' \in BOOLEAN
      BY <2>1, Zenon
    <3> QED
      BY <1>7, <3>1, <3>2, Zenon DEF LedShow, TypeOK, pm
  <2>3. ~stale' => phase = "awake" /\ brightness' = Level
    BY <2>1 DEF kbbl_brightness_get, Level
  <2> QED
    BY <1>7, <2>2, <2>3 DEF LedShow, pm, LevelKept, InFlight, Dark, LegalUnlessBlind,
            CacheCoherent, CacheInFlight, Registered, Level, Due
<1>8. CASE \E code \in LegalCodes : Hotkey(code)
  <2>1. PICK code \in LegalCodes : Hotkey(code)
    BY <1>8
  <2>2. kbbl' \in LegalCodes /\ intent' \in Levels /\ kbbl_to_brightness(kbbl') = intent'
    BY <2>1 DEF Hotkey, Codes
  <2>3. /\ upset' \subseteq Upsets
        /\ upset' = {} => phase = "awake"
        /\ phase \notin {"awake", "saving"} => "relit" \in upset'
    BY <2>1 DEF Hotkey, Disturb, Error, Upsets, TypeOK
  <2>4. TypeOK'
    BY <2>1, <2>2, <2>3, Zenon DEF Hotkey, TypeOK, Codes, driver, pm
  <2> QED
    BY <2>1, <2>2, <2>3, <2>4 DEF Hotkey, driver, pm, LevelKept, InFlight, Dark,
         LegalUnlessBlind,
            CacheCoherent, CacheInFlight, Registered, Level, Due
<1>9. CASE SuspendPrepare
  BY <1>9 DEF SuspendPrepare, ecram_read, Error, Upsets,
          TypeOK, LevelKept, InFlight, Dark, LegalUnlessBlind,
          CacheCoherent, CacheInFlight, Registered, Level, Due
<1>10. CASE SaveOff
  BY <1>10 DEF SaveOff, ecram_write, Error, Upsets, Codes, LegalCodes, OFF, driver,
          TypeOK, LevelKept, InFlight, Dark, LegalUnlessBlind,
          CacheCoherent, CacheInFlight, Registered, Level, Due
<1>11. CASE HibernationPrepare
  BY <1>11 DEF HibernationPrepare, driver,
          TypeOK, LevelKept, InFlight, Dark, LegalUnlessBlind,
          CacheCoherent, CacheInFlight, Registered, Level, Due
<1>12. CASE Freeze
  BY <1>12 DEF Freeze, driver, ghosts,
          TypeOK, LevelKept, InFlight, Dark, LegalUnlessBlind,
          CacheCoherent, CacheInFlight, Registered, Level, Due
<1>13. CASE SleepAborted
  BY <1>13 DEF SleepAborted, driver, ghosts,
          TypeOK, LevelKept, InFlight, Dark, LegalUnlessBlind,
          CacheCoherent, CacheInFlight, Registered, Level, Due
<1>14. CASE Wake
  BY <1>14 DEF Wake, Upsets, Codes, driver,
          TypeOK, LevelKept, InFlight, Dark, LegalUnlessBlind,
          CacheCoherent, CacheInFlight, Registered, Level, Due
<1>15. CASE PostSleep
  BY <1>15 DEF PostSleep, ecram_write, Error, Upsets, Codes, driver,
          TypeOK, LevelKept, InFlight, Dark, LegalUnlessBlind,
          CacheCoherent, CacheInFlight, Registered, Level, Due
<1>16. CASE UNCHANGED vars
  BY <1>16 DEF vars, driver, pm, ghosts,
          TypeOK, LevelKept, InFlight, Dark, LegalUnlessBlind,
          CacheCoherent, CacheInFlight, Registered, Level, Due
<1> QED
  BY <1>1, <1>2, <1>3, <1>4, <1>5, <1>6, <1>7, <1>8, <1>9, <1>10, <1>11, <1>12,
       <1>13, <1>14, <1>15, <1>16 DEF Next

------------------------------------------------------------------------------
(* The inductive invariant holds in every reachable state.                   *)
LEMMA Invariance == Spec => []IInv
  BY InitIInv, NextIInv, PTL DEF Spec

(* The register, the saved level and the cached brightness stay in range,    *)
(* whatever is written to the sysfs file and whatever EC access fails.       *)
THEOREM TypeCorrect == Spec => []TypeOK
<1>1. IInv => TypeOK
  BY DEF IInv
<1> QED
  BY <1>1, Invariance, PTL

(* The save and restore of pm_notifier_call give back the level that was     *)
(* last asked for after any number of undisturbed sleep cycles.              *)
THEOREM LevelIsKept == Spec => []LevelKept
<1>1. IInv => LevelKept
  BY DEF IInv
<1> QED
  BY <1>1, Invariance, PTL

(* A suspended machine whose notifier ran undisturbed is dark.               *)
THEOREM SuspendedIsDark == Spec => []DarkWhileAsleep
<1>1. IInv => DarkWhileAsleep
  BY DEF IInv, Dark, Due, DarkWhileAsleep
<1> QED
  BY <1>1, Invariance, PTL

(* Only a blind restore, of a saved_KBBL never read, can put a value in the  *)
(* EC register that is not one of its four codes.                            *)
THEOREM RegisterLegal == Spec => []LegalUnlessBlind
<1>1. IInv => LegalUnlessBlind
  BY DEF IInv
<1> QED
  BY <1>1, Invariance, PTL

(* The LED class's cache agrees with the EC unless it is known to be stale.  *)
THEOREM CacheIsCoherent == Spec => []CacheCoherent
<1>1. IInv => CacheCoherent
  BY DEF IInv
<1> QED
  BY <1>1, Invariance, PTL

(* After ec_exit no callback into the module is registered anywhere.         *)
THEOREM NoCallbackDangles == Spec => []NoDanglingCallback
<1>1. IInv => NoDanglingCallback
  BY DEF IInv, Registered, NoDanglingCallback
<1> QED
  BY <1>1, Invariance, PTL

==============================================================================
