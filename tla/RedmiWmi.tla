------------------------------- MODULE RedmiWmi -------------------------------
(***************************************************************************)
(* The hotkey driver redmibook_wmi.c: probe, remove and the notification   *)
(* that turns a WMI event into key events of an input device.  The WMI     *)
(* core calls notify for every event while the driver is attached to the   *)
(* device, from the moment before probe until after remove, on a work      *)
(* queue that can run two notifications at once; the driver takes no lock. *)
(*                                                                         *)
(* Most keys are reported as a press and a release in one notification;    *)
(* the <Xiao Ai> key has an event for each, and the driver only follows.   *)
(***************************************************************************)
EXTENDS Naturals, Sequences

CONSTANTS
  Workers,   \* threads of the ACPI notify work queue
  Objects    \* event data that the firmware sends for the other keys

\* An object is a buffer, or not; its first bytes are magic and code.
ASSUME ObjectsAssumption ==
  Objects \subseteq [buffer : BOOLEAN, length : Nat, magic : Nat, code : Nat \ {24, 25}]

VARIABLES
  pc,         \* where probe or remove is; "unbound" and "bound" between them
  drvdata,    \* dev_get_drvdata(&wdev->dev) # NULL
  input_dev,  \* data->input_dev: "null", "allocated" or "registered"
  keys,       \* keys that the input device has down
  handler,    \* per worker: its reports to come, and whether its data lives
  pressed,    \* the <Xiao Ai> key is held by the user
  \* History variables.
  overlap,    \* workers whose notification overlapped a probe or a remove
  missed      \* an event of the <Xiao Ai> key was lost, or raced with another

driver == <<pc, drvdata, input_dev>>
vars   == <<driver, keys, handler, pressed, overlap, missed>>

------------------------------------------------------------------------------
(* Decoding.                                                                 *)

\* The keys that probe announces in keybit.
Pulses == {"KEY_FN_ESC", "KEY_PROG1", "KEY_PROG2", "KEY_PROG3", "KEY_PROG4", "KEY_FN_F10"}
Media  == "KEY_MEDIA"

PulseKey(code) ==
  CASE code = 7  -> "KEY_FN_ESC"
    [] code = 1  -> "KEY_PROG1"
    [] code = 2  -> "KEY_PROG2"
    [] code = 3  -> "KEY_PROG3"
    [] code = 27 -> "KEY_PROG4"
    [] code = 5  -> "KEY_FN_F10"

Report(key, value) == [key |-> key, value |-> value]

\* A press that is never followed by its release.
BadPulse(key) == <<Report(key, 1)>>

\* A press and a release, each with its input_sync.
Pulse(key) == <<Report(key, 1), Report(key, 0)>>

\* The object of the <Xiao Ai> key, pressed or released.
XiaoAi(down) == [buffer |-> TRUE, length |-> 32, magic |-> 1,
                 code |-> IF down THEN 24 ELSE 25]

\* An Up of the <Xiao Ai> key that falls through to the default.
BadReports(obj) ==
  IF obj.buffer /\ obj.length = 32 /\ obj.magic = 1
    THEN CASE obj.code \in {1, 2, 3, 5, 7, 27} -> Pulse(PulseKey(obj.code))
           [] obj.code = 24 -> <<Report(Media, 1)>>
           [] OTHER -> << >>
    ELSE << >>

\* What redmibook_wmi_notify reports for an object, in order.
Reports(obj) ==
  IF obj.buffer /\ obj.length = 32 /\ obj.magic = 1
    THEN CASE obj.code \in {1, 2, 3, 5, 7, 27} -> Pulse(PulseKey(obj.code))
           [] obj.code = 24 -> <<Report(Media, 1)>>
           [] obj.code = 25 -> <<Report(Media, 0)>>
           [] OTHER -> << >>
    ELSE << >>

------------------------------------------------------------------------------
(* Probe and remove.                                                         *)

Idle(w)    == handler[w].todo = << >>
Active     == {w \in Workers : ~Idle(w)}
OnMedia(w) == ~Idle(w) /\ Head(handler[w].todo).key = Media

\* The driver is attached, and the work done up to the call of probe.
ProbeStart ==
  /\ pc = "unbound"
  /\ pc' = "probe"
  /\ UNCHANGED <<drvdata, input_dev, keys, handler, pressed, overlap, missed>>

\* Managed memory goes when probe fails and after remove, and the driver core
\* clears the pointer to it; a notification may still use both.
Release ==
  /\ pc' = "unbound"
  /\ drvdata' = FALSE /\ input_dev' = "null"
  /\ keys' = {}
  /\ handler' = [w \in Workers |-> [handler[w] EXCEPT !.live = FALSE]]

\* devm_kzalloc and dev_set_drvdata.
ProbeData ==
  /\ pc = "probe"
  /\ \/ /\ pc' = "input" /\ drvdata' = TRUE
        /\ UNCHANGED <<input_dev, keys, handler>>
     \/ Release
  /\ UNCHANGED <<pressed, overlap, missed>>

\* A probe that leaves the input device to the first notification.
BadProbeInput ==
  /\ pc = "input"
  /\ pc' = "bound"
  /\ UNCHANGED <<drvdata, input_dev, keys, handler, pressed, overlap, missed>>

\* devm_input_allocate_device, whose result nobody tests: probe dies on a NULL
\* and leaves drvdata behind.
ProbeInput ==
  /\ pc = "input"
  /\ \/ pc' = "register" /\ input_dev' = "allocated"
     \/ pc' = "dead" /\ UNCHANGED input_dev
  /\ UNCHANGED <<drvdata, keys, handler, pressed, overlap, missed>>

ProbeRegister ==
  /\ pc = "register"
  /\ \/ /\ pc' = "bound" /\ input_dev' = "registered"
        /\ UNCHANGED <<drvdata, keys, handler>>
     \/ Release
  /\ UNCHANGED <<pressed, overlap, missed>>

\* input_unregister_device releases every key that is down.
RemoveUnregister ==
  /\ pc = "bound"
  /\ pc' = "rm_null"
  /\ input_dev' = "allocated"
  /\ keys' = {}
  /\ overlap' = overlap \cup Active
  /\ missed' = TRUE
  /\ UNCHANGED <<drvdata, handler, pressed>>

RemoveNull ==
  /\ pc = "rm_null"
  /\ pc' = "rm_drvdata"
  /\ input_dev' = "null"
  /\ UNCHANGED <<drvdata, keys, handler, pressed, overlap, missed>>

RemoveDrvdata ==
  /\ pc = "rm_drvdata"
  /\ pc' = "rm_release"
  /\ drvdata' = FALSE
  /\ UNCHANGED <<input_dev, keys, handler, pressed, overlap, missed>>

RemoveRelease ==
  /\ pc = "rm_release"
  /\ Release
  /\ UNCHANGED <<pressed, overlap, missed>>

------------------------------------------------------------------------------
(* Notifications.                                                            *)

\* The entry of redmibook_wmi_notify, up to the switch.
Enter(w, obj) ==
  /\ pc # "unbound" /\ Idle(w)
  /\ handler' = IF drvdata THEN [handler EXCEPT ![w] = [todo |-> Reports(obj), live |-> TRUE]]
                           ELSE handler
  /\ overlap' = IF pc = "bound" THEN overlap \ {w} ELSE overlap \cup {w}
  /\ UNCHANGED <<driver, keys>>

Notify(w, obj) ==
  /\ Enter(w, obj)
  /\ UNCHANGED <<pressed, missed>>

\* The user presses or releases <Xiao Ai>, seen when a worker takes the event
\* up.  A clean event heals an earlier loss: it says what the key is, not that
\* it changed.
XiaoAiEvent(w) ==
  /\ pressed' = ~pressed
  /\ Enter(w, XiaoAi(pressed'))
  /\ missed' = (pc # "bound" \/ \E v \in Workers : OnMedia(v))

\* The same with no driver there to be told.
XiaoAiLost ==
  /\ pc = "unbound"
  /\ pressed' = ~pressed
  /\ missed' = TRUE
  /\ UNCHANGED <<driver, keys, handler, overlap>>

\* input_report_key and input_sync.  On a NULL device, or in memory that was
\* released, the worker dies.
InputReport(w) ==
  /\ ~Idle(w)
  /\ IF handler[w].live /\ input_dev # "null"
       THEN LET report == Head(handler[w].todo) IN
            /\ keys' = IF report.value = 1 THEN keys \cup {report.key} ELSE keys \ {report.key}
            /\ handler' = [handler EXCEPT ![w].todo = Tail(@)]
       ELSE /\ handler' = [handler EXCEPT ![w].todo = << >>]
            /\ UNCHANGED keys
  /\ UNCHANGED <<driver, pressed, overlap, missed>>

------------------------------------------------------------------------------
Init ==
  /\ pc = "unbound" /\ drvdata = FALSE /\ input_dev = "null" /\ keys = {}
  /\ handler = [w \in Workers |-> [todo |-> << >>, live |-> FALSE]]
  /\ pressed = FALSE /\ overlap = {} /\ missed = FALSE

Next ==
  \/ ProbeStart \/ ProbeData \/ ProbeInput \/ ProbeRegister
  \/ RemoveUnregister \/ RemoveNull \/ RemoveDrvdata \/ RemoveRelease
  \/ \E w \in Workers : \/ \E obj \in Objects : Notify(w, obj)
                        \/ XiaoAiEvent(w) \/ InputReport(w)
  \/ XiaoAiLost

Spec == Init /\ [][Next]_vars

------------------------------------------------------------------------------
(* Type correctness; the device only reports keys that probe announced.      *)
TypeOK ==
  /\ pc \in {"unbound", "probe", "input", "register", "bound", "dead",
             "rm_null", "rm_drvdata", "rm_release"}
  /\ drvdata \in BOOLEAN /\ input_dev \in {"null", "allocated", "registered"}
  /\ keys \subseteq Pulses \cup {Media}
  /\ \A w \in Workers : /\ handler[w].live \in BOOLEAN
                        /\ Len(handler[w].todo) <= 2
  /\ pressed \in BOOLEAN /\ overlap \subseteq Workers /\ missed \in BOOLEAN

(* A notification reports to an input device that exists, unless it          *)
(* overlapped a probe or a remove: only there can it meet the NULL or the    *)
(* released memory that the checks of redmibook_wmi_notify do not see.       *)
ReportsToDevice ==
  \A w \in Active : w \notin overlap => handler[w].live /\ input_dev = "registered"

(* No function key stays down: when no notification is under way every key   *)
(* but <Xiao Ai> is up, however two notifications of one key were            *)
(* interleaved, with each other or with a probe or a remove.                 *)
PulseReleased == pc = "bound" /\ Active = {} => keys \cap Pulses = {}

(* KEY_MEDIA is down exactly while the user holds <Xiao Ai>, as soon as its  *)
(* notifications are over, unless the last event was lost or raced with the  *)
(* one before it.                                                            *)
MediaFollows ==
  pc = "bound" /\ ~missed /\ (\A w \in Workers : ~OnMedia(w)) =>
    (Media \in keys <=> pressed)

==============================================================================
