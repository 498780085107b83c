------------------------------ MODULE EventProofs -----------------------------
(***************************************************************************)
(* The two parts that pass on what a device reports: the hotkey driver     *)
(* (RedmiWmi) and the fingerprint reader (FpcProto).  They share no state. *)
(*                                                                         *)
(* First RedmiWmi, for any number of workers and any events of the         *)
(* firmware.  Each property speaks of a moment when no notification is     *)
(* under way; the inductive invariant says who will bring it about: a key  *)
(* that is down has a worker that owes its release, and a worker on        *)
(* <Xiao Ai> is about to report what the key now is.                       *)
(***************************************************************************)
EXTENDS RedmiWmi, FpcProto, TLAPS, WellFoundedInduction, SequenceTheorems

\* What a notification can have left to report.
ReleaseOf(key) == <<Report(key, 0)>>
MediaIs(down)  == <<Report(Media, IF down THEN 1 ELSE 0)>>
Todos ==
  {<< >>} \cup {Pulse(k) : k \in Pulses} \cup {ReleaseOf(k) : k \in Pulses}
          \cup {MediaIs(d) : d \in BOOLEAN}

Positions == {"unbound", "probe", "input", "register", "bound", "dead",
              "rm_null", "rm_drvdata", "rm_release"}

TypeInv ==
  /\ pc \in Positions
  /\ drvdata \in BOOLEAN /\ input_dev \in {"null", "allocated", "registered"}
  /\ keys \subseteq Pulses \cup {Media}
  /\ handler \in [Workers -> [todo : Todos, live : BOOLEAN]]
  /\ pressed \in BOOLEAN /\ overlap \subseteq Workers /\ missed \in BOOLEAN

\* What probe and remove have set up at each of their positions.
DeviceAt ==
  /\ drvdata <=> pc \in {"input", "register", "bound", "dead", "rm_null", "rm_drvdata"}
  /\ input_dev = IF pc = "bound" THEN "registered"
                 ELSE IF pc \in {"register", "rm_null"} THEN "allocated" ELSE "null"
  /\ pc \in {"unbound", "probe", "input", "dead"} => keys = {}
  /\ pc \in {"unbound", "probe"} => \A w \in Workers : ~handler[w].live

\* A notification that has overlapped nothing runs on a device that is bound.
OverlapAt ==
  \A w \in Workers : ~Idle(w) /\ w \notin overlap => pc = "bound" /\ handler[w].live

\* Worker w will release the key.
Owes(w, key) == handler[w].live /\ handler[w].todo \in {Pulse(key), ReleaseOf(key)}

PulseOwed ==
  pc \in {"register", "bound"} =>
    \A k \in keys \cap Pulses : \E w \in Workers : Owes(w, k)

\* While no event of <Xiao Ai> has been lost, every report about it that is still
\* to come is right; before the first bind there was none.
MediaAt ==
  ~missed =>
    /\ pc = "bound" =>
         /\ \A w \in Workers : OnMedia(w) => handler[w].live /\ handler[w].todo = MediaIs(pressed)
         /\ (\A w \in Workers : ~OnMedia(w)) => (Media \in keys <=> pressed)
    /\ pc # "bound" =>
         Media \notin keys /\ ~pressed /\ \A w \in Workers : ~OnMedia(w)

IInv == TypeInv /\ DeviceAt /\ OverlapAt /\ PulseOwed /\ MediaAt

------------------------------------------------------------------------------
(* The sequences that a notification works through.                          *)
LEMMA Shapes ==
  /\ \A k : /\ Pulse(k) # << >> /\ Head(Pulse(k)) = Report(k, 1)
            /\ Tail(Pulse(k)) = ReleaseOf(k) /\ Len(Pulse(k)) = 2
  /\ \A k : /\ ReleaseOf(k) # << >> /\ Head(ReleaseOf(k)) = Report(k, 0)
            /\ Tail(ReleaseOf(k)) = << >> /\ Len(ReleaseOf(k)) = 1
  /\ \A d : /\ MediaIs(d) # << >> /\ Head(MediaIs(d)) = Report(Media, IF d THEN 1 ELSE 0)
            /\ Tail(MediaIs(d)) = << >> /\ Len(MediaIs(d)) = 1
  /\ \A k, v : Report(k, v).key = k /\ Report(k, v).value = v
<1>1. \A k : /\ Pulse(k) # << >> /\ Head(Pulse(k)) = Report(k, 1)
             /\ Tail(Pulse(k)) = ReleaseOf(k) /\ Len(Pulse(k)) = 2
  BY DEF Pulse, ReleaseOf
<1>2. \A k : /\ ReleaseOf(k) # << >> /\ Head(ReleaseOf(k)) = Report(k, 0)
             /\ Tail(ReleaseOf(k)) = << >> /\ Len(ReleaseOf(k)) = 1
  BY DEF ReleaseOf
<1>3. \A d : /\ MediaIs(d) # << >> /\ Head(MediaIs(d)) = Report(Media, IF d THEN 1 ELSE 0)
             /\ Tail(MediaIs(d)) = << >> /\ Len(MediaIs(d)) = 1
  BY DEF MediaIs
<1>4. \A k, v : Report(k, v).key = k /\ Report(k, v).value = v
  BY DEF Report
<1> QED
  BY <1>1, <1>2, <1>3, <1>4

(* Media is not one of the keys that are pulsed.                             *)
LEMMA MediaApart == Media \notin Pulses
  BY DEF Media, Pulses

(* What is left after a report is one of them again.                         *)
LEMMA KindOf ==
  ASSUME NEW t \in Todos
  PROVE  /\ t # << >> => Tail(t) \in Todos
         /\ t # << >> => Head(t).key \in Pulses \cup {Media}
         /\ Len(t) <= 2
  BY Shapes DEF Todos

(* redmibook_wmi_notify decodes an event to nothing or to a pulse of a key   *)
(* that probe announced, and one of <Xiao Ai> to what the key is.            *)
LEMMA Decoding ==
  /\ \A obj \in Objects : Reports(obj) = << >> \/ \E k \in Pulses : Reports(obj) = Pulse(k)
  /\ \A d \in BOOLEAN : Reports(XiaoAi(d)) = MediaIs(d)
<1>1. ASSUME NEW obj \in Objects
      PROVE  Reports(obj) = << >> \/ \E k \in Pulses : Reports(obj) = Pulse(k)
  <2>1. obj.code # 24 /\ obj.code # 25
    BY ObjectsAssumption
  <2>2. obj.code \in {1, 2, 3, 5, 7, 27} => PulseKey(obj.code) \in Pulses
    BY DEF PulseKey, Pulses
  <2> QED
    BY <2>1, <2>2 DEF Reports
<1>2. ASSUME NEW d \in BOOLEAN
      PROVE  Reports(XiaoAi(d)) = MediaIs(d)
  BY DEF Reports, XiaoAi, MediaIs
<1> QED
  BY <1>1, <1>2
(* The entry of a notification, with reports of the given shape.             *)
LEMMA EnterEffect ==
  ASSUME TypeInv, DeviceAt, OverlapAt, PulseOwed, NEW w \in Workers, NEW obj,
         Enter(w, obj), Reports(obj) \in Todos
  PROVE  /\ handler' \in [Workers -> [todo : Todos, live : BOOLEAN]]
         /\ \A v \in Workers \ {w} : handler'[v] = handler[v]
         /\ Idle(w) /\ handler'[w] = IF drvdata THEN [todo |-> Reports(obj), live |-> TRUE]
                                              ELSE handler[w]
         /\ overlap' \subseteq Workers
         /\ DeviceAt' /\ OverlapAt' /\ PulseOwed'
<1>1. /\ handler' \in [Workers -> [todo : Todos, live : BOOLEAN]]
      /\ \A v \in Workers \ {w} : handler'[v] = handler[v]
      /\ Idle(w) /\ handler'[w] = IF drvdata THEN [todo |-> Reports(obj), live |-> TRUE]
                                           ELSE handler[w]
  BY DEF Enter, TypeInv
<1>2. overlap' \subseteq Workers /\ pc' = pc /\ keys' = keys
      /\ input_dev' = input_dev /\ drvdata' = drvdata
  BY DEF Enter, TypeInv, driver
<1>3. DeviceAt'
  BY <1>1, <1>2 DEF DeviceAt, TypeInv
<1>4. OverlapAt'
  <2> SUFFICES ASSUME NEW v \in Workers, ~Idle(v)', v \notin overlap'
               PROVE  pc' = "bound" /\ handler'[v].live
    BY DEF OverlapAt
  <2>1. CASE v = w
    BY <1>1, <1>2, <2>1 DEF Enter, DeviceAt, Idle
  <2>2. CASE v # w
    BY <1>1, <1>2, <2>2 DEF Enter, OverlapAt, Idle
  <2> QED
    BY <2>1, <2>2
<1>5. PulseOwed'
  <2> SUFFICES ASSUME pc \in {"register", "bound"}, NEW k \in keys \cap Pulses
               PROVE  \E v \in Workers : Owes(v, k)'
    BY <1>2 DEF PulseOwed
  <2>1. PICK v \in Workers : Owes(v, k)
    BY DEF PulseOwed
  <2>2. v # w
    BY <1>1, <2>1, Shapes DEF Owes, Idle
  <2> QED
    BY <1>1, <2>1, <2>2 DEF Owes
<1> QED
  BY <1>1, <1>2, <1>3, <1>4, <1>5

(* A notification of any key but <Xiao Ai>.                                  *)
LEMMA NotifyStep ==
  ASSUME IInv, NEW w \in Workers, NEW obj \in Objects, Notify(w, obj)
  PROVE  IInv'
<1> USE DEF IInv
<1>1. Reports(obj) \in Todos /\ (Reports(obj) # << >> => Head(Reports(obj)).key # Media)
  BY Decoding, Shapes, MediaApart DEF Todos
<1>2. /\ handler' \in [Workers -> [todo : Todos, live : BOOLEAN]]
      /\ \A v \in Workers \ {w} : handler'[v] = handler[v]
      /\ Idle(w) /\ handler'[w] = IF drvdata THEN [todo |-> Reports(obj), live |-> TRUE]
                                           ELSE handler[w]
      /\ overlap' \subseteq Workers
      /\ DeviceAt' /\ OverlapAt' /\ PulseOwed'
  BY <1>1, EnterEffect DEF Notify
<1>3. UNCHANGED <<driver, keys, pressed, missed>>
  BY DEF Notify, Enter
<1>4. TypeInv'
  BY <1>2, <1>3 DEF TypeInv, driver
<1>5. ~OnMedia(w)' /\ ~OnMedia(w) /\ \A v \in Workers \ {w} : OnMedia(v)' <=> OnMedia(v)
  BY <1>1, <1>2 DEF OnMedia, Idle
<1>6. MediaAt'
  BY <1>2, <1>3, <1>5 DEF MediaAt, driver
<1> QED
  BY <1>2, <1>4, <1>6

(* An event of <Xiao Ai>: it forgives a loss only where no other is pending. *)
LEMMA XiaoAiStep ==
  ASSUME IInv, NEW w \in Workers, XiaoAiEvent(w)
  PROVE  IInv'
<1> USE DEF IInv
<1>1. pressed' \in BOOLEAN /\ Reports(XiaoAi(pressed')) = MediaIs(pressed')
  BY Decoding DEF XiaoAiEvent, TypeInv
<1>2. MediaIs(pressed') \in Todos
  BY <1>1 DEF Todos
<1>3. /\ handler' \in [Workers -> [todo : Todos, live : BOOLEAN]]
      /\ \A v \in Workers \ {w} : handler'[v] = handler[v]
      /\ Idle(w) /\ handler'[w] = IF drvdata THEN [todo |-> MediaIs(pressed'), live |-> TRUE]
                                           ELSE handler[w]
      /\ overlap' \subseteq Workers
      /\ DeviceAt' /\ OverlapAt' /\ PulseOwed'
  BY <1>1, <1>2, EnterEffect DEF XiaoAiEvent
<1>4. UNCHANGED <<driver, keys>> /\ missed' = (pc # "bound" \/ \E v \in Workers : OnMedia(v))
  BY DEF XiaoAiEvent, Enter
<1>5. TypeInv'
  BY <1>1, <1>3, <1>4 DEF TypeInv, driver
<1>6. MediaAt'
  <2> SUFFICES ASSUME ~missed'
               PROVE  MediaAt'
    BY DEF MediaAt
  <2>1. pc = "bound" /\ pc' = "bound" /\ drvdata /\ \A v \in Workers : ~OnMedia(v)
    BY <1>4 DEF DeviceAt, driver
  <2>2. \A v \in Workers \ {w} : ~OnMedia(v)'
    BY <1>3, <2>1 DEF OnMedia, Idle
  <2>3. OnMedia(w)'
    BY <1>3, <2>1, Shapes DEF OnMedia, Idle
  <2> QED
    BY <1>3, <2>1, <2>2, <2>3 DEF MediaAt
<1> QED
  BY <1>3, <1>5, <1>6

(* One input_report_key, or the end of a worker without a device.            *)
LEMMA ReportStep ==
  ASSUME IInv, NEW w \in Workers, InputReport(w)
  PROVE  IInv'
<1> USE DEF IInv
<1> DEFINE t == handler[w].todo
<1>1. t \in Todos /\ t # << >>
  BY DEF InputReport, Idle, TypeInv
<1>2. UNCHANGED <<driver, pressed, overlap, missed>>
  BY DEF InputReport
<1>3. \A v \in Workers \ {w} : handler'[v] = handler[v]
  BY DEF InputReport, TypeInv
<1>4. handler'[w].live = handler[w].live
  BY DEF InputReport, TypeInv
<1>5. \A v \in Workers \ {w} : OnMedia(v)' <=> OnMedia(v)
  BY <1>3 DEF OnMedia, Idle
<1>6. OverlapAt'
  BY <1>1, <1>2, <1>3, <1>4 DEF OverlapAt, Idle, driver
<1>7. CASE ~(handler[w].live /\ input_dev # "null")
  <2>1. keys' = keys /\ handler' = [handler EXCEPT ![w].todo = << >>]
    BY <1>7 DEF InputReport
  <2>2. handler' \in [Workers -> [todo : Todos, live : BOOLEAN]]
    BY <2>1 DEF TypeInv, Todos
  <2>3. TypeInv' /\ DeviceAt'
    BY <1>2, <1>3, <1>4, <2>1, <2>2 DEF TypeInv, DeviceAt, driver
  <2>4. PulseOwed'
    <3> SUFFICES ASSUME pc \in {"register", "bound"}, NEW k \in keys \cap Pulses
                 PROVE  \E v \in Workers : Owes(v, k)'
      BY <1>2, <2>1 DEF PulseOwed, driver
    <3>1. PICK v \in Workers : Owes(v, k)
      BY DEF PulseOwed
    <3>2. v # w
      BY <1>7, <3>1 DEF Owes, DeviceAt
    <3> QED
      BY <1>3, <3>1, <3>2 DEF Owes
  <2>5. MediaAt'
    <3>1. ~OnMedia(w)'
      BY <2>1 DEF OnMedia, Idle, TypeInv
    <3>2. pc = "bound" /\ ~missed => ~OnMedia(w)
      BY <1>7 DEF MediaAt, DeviceAt
    <3> QED
      BY <1>2, <1>3, <1>5, <2>1, <3>1, <3>2 DEF MediaAt, driver
  <2> QED
    BY <1>6, <2>3, <2>4, <2>5
<1>8. CASE handler[w].live /\ input_dev # "null"
  <2>1. /\ keys' = IF Head(t).value = 1 THEN keys \cup {Head(t).key} ELSE keys \ {Head(t).key}
        /\ handler'[w].todo = Tail(t)
        /\ handler' = [handler EXCEPT ![w].todo = Tail(@)]
    BY <1>8 DEF InputReport, TypeInv
  <2>2. Tail(t) \in Todos /\ Head(t).key \in Pulses \cup {Media}
    BY <1>1, KindOf
  <2>3. TypeInv'
    BY <1>2, <2>1, <2>2 DEF TypeInv, driver
  <2>4. DeviceAt'
    BY <1>2, <1>3, <1>4, <1>8 DEF DeviceAt, driver
  <2>5. PulseOwed'
    <3> SUFFICES ASSUME pc \in {"register", "bound"}, NEW k \in keys' \cap Pulses
                 PROVE  \E v \in Workers : Owes(v, k)'
      BY <1>2 DEF PulseOwed, driver
    <3>1. CASE k = Head(t).key /\ t = Pulse(k)
      BY <1>4, <1>8, <2>1, <3>1, Shapes DEF Owes
    <3>2. CASE k \in keys /\ t \notin {Pulse(k), ReleaseOf(k)}
      <4>1. PICK v \in Workers : Owes(v, k)
        BY <3>2 DEF PulseOwed
      <4>2. v # w
        BY <3>2, <4>1 DEF Owes
      <4> QED
        BY <1>3, <4>1, <4>2 DEF Owes
    <3>3. t # ReleaseOf(k)
      BY <2>1, Shapes
    <3>4. k \in keys \/ (k = Head(t).key /\ Head(t).value = 1)
      BY <2>1
    <3>5. k = Head(t).key /\ Head(t).value = 1 => t = Pulse(k)
      BY <1>1, Shapes, MediaApart DEF Todos
    <3>6. t = Pulse(k) => k = Head(t).key
      BY Shapes
    <3> QED
      BY <3>1, <3>2, <3>3, <3>4, <3>5, <3>6
  <2>6. MediaAt'
    <3>1. CASE Head(t).key = Media
      <4>1. PICK d \in BOOLEAN : t = MediaIs(d)
        BY <1>1, <3>1, Shapes, MediaApart DEF Todos
      <4>2. ~OnMedia(w)' /\ OnMedia(w)
        BY <1>1, <2>1, <3>1, <4>1, Shapes DEF OnMedia, Idle
      <4>3. ~missed /\ pc = "bound" => (Media \in keys' <=> pressed)
        <5> SUFFICES ASSUME ~missed, pc = "bound" PROVE Media \in keys' <=> pressed
          OBVIOUS
        <5>1. t = MediaIs(pressed)
          BY <4>2 DEF MediaAt
        <5>2. Head(t).key = Media /\ Head(t).value = IF pressed THEN 1 ELSE 0
          BY <5>1, Shapes
        <5> QED
          BY <2>1, <5>2
      <4> QED
        BY <1>2, <1>3, <1>5, <4>2, <4>3 DEF MediaAt, driver
    <3>2. CASE Head(t).key # Media
      <4>1. ~OnMedia(w)
        BY <3>2 DEF OnMedia
      <4>2. ~OnMedia(w)'
        <5>1. PICK k \in Pulses : t \in {Pulse(k), ReleaseOf(k)}
          BY <1>1, <3>2, Shapes DEF Todos
        <5>2. Tail(t) = << >> \/ Head(Tail(t)) = Report(k, 0)
          BY <5>1, Shapes
        <5>3. Report(k, 0).key # Media
          BY Shapes, MediaApart
        <5> QED
          BY <2>1, <5>2, <5>3 DEF OnMedia, Idle
      <4>3. Media \in keys' <=> Media \in keys
        BY <2>1, <3>2
      <4> QED
        BY <1>2, <1>3, <1>5, <4>1, <4>2, <4>3 DEF MediaAt, driver
    <3> QED
      BY <3>1, <3>2
  <2> QED
    BY <1>6, <2>3, <2>4, <2>5, <2>6
<1> QED
  BY <1>7, <1>8

------------------------------------------------------------------------------
(* The unbound driver satisfies the invariant.                               *)
LEMMA InitIInv == Init => IInv
<1> SUFFICES ASSUME Init PROVE IInv
  OBVIOUS
<1>1. TypeInv
  BY DEF Init, TypeInv, Positions, Todos
<1>2. DeviceAt /\ OverlapAt /\ PulseOwed /\ MediaAt
  BY DEF Init, DeviceAt, OverlapAt, PulseOwed, MediaAt, Idle, OnMedia
<1> QED
  BY <1>1, <1>2 DEF IInv

(* Every step of probe, remove and the notifications preserves it.           *)
LEMMA NextIInv == IInv /\ [Next]_vars => IInv'
<1> SUFFICES ASSUME TypeInv, DeviceAt, OverlapAt, PulseOwed, MediaAt, [Next]_vars
             PROVE  IInv'
  BY DEF IInv
<1>1. CASE ProbeStart
  BY <1>1 DEF IInv, ProbeStart, TypeInv, DeviceAt, OverlapAt, PulseOwed,
          MediaAt, Positions, Idle, Owes, OnMedia
<1>2. CASE ProbeData
  <2>1. TypeInv'
    <3>1. handler' \in [Workers -> [todo : Todos, live : BOOLEAN]]
      BY <1>2 DEF ProbeData, Release, TypeInv
    <3> QED
      BY <1>2, <3>1 DEF ProbeData, Release, TypeInv, Positions
  <2>2. DeviceAt'
    BY <1>2 DEF ProbeData, Release, DeviceAt, TypeInv, Positions
  <2>3. OverlapAt'
    BY <1>2 DEF ProbeData, Release, OverlapAt, TypeInv, Idle, Positions
  <2>4. MediaAt'
    BY <1>2 DEF ProbeData, Release, MediaAt, TypeInv, OnMedia, Idle, Positions
  <2>5. PulseOwed'
    BY <1>2 DEF ProbeData, Release, PulseOwed, Owes
  <2> QED
    BY <2>1, <2>2, <2>3, <2>4, <2>5 DEF IInv
<1>3. CASE ProbeInput
  <2>1. TypeInv' /\ DeviceAt' /\ OverlapAt' /\ MediaAt'
    BY <1>3 DEF ProbeInput, TypeInv, DeviceAt, OverlapAt, MediaAt, Positions,
            Idle, OnMedia
  <2>2. PulseOwed'
    BY <1>3 DEF ProbeInput, PulseOwed, TypeInv, DeviceAt, Owes, Positions
  <2> QED
    BY <2>1, <2>2 DEF IInv
<1>4. CASE ProbeRegister
  <2>1. TypeInv'
    <3>1. handler' \in [Workers -> [todo : Todos, live : BOOLEAN]]
      BY <1>4 DEF ProbeRegister, Release, TypeInv
    <3> QED
      BY <1>4, <3>1 DEF ProbeRegister, Release, TypeInv, Positions
  <2>2. DeviceAt'
    BY <1>4 DEF ProbeRegister, Release, DeviceAt, TypeInv, Positions
  <2>3. OverlapAt'
    BY <1>4 DEF ProbeRegister, Release, OverlapAt, TypeInv, Idle, Positions
  <2>4. MediaAt'
    BY <1>4 DEF ProbeRegister, Release, MediaAt, TypeInv, OnMedia, Idle,
            Positions
  <2>5. PulseOwed'
    BY <1>4 DEF ProbeRegister, Release, PulseOwed, Owes
  <2> QED
    BY <2>1, <2>2, <2>3, <2>4, <2>5 DEF IInv
<1>5. CASE RemoveUnregister
  BY <1>5 DEF IInv, RemoveUnregister, Active, Idle, TypeInv, DeviceAt,
          OverlapAt, PulseOwed, MediaAt, Positions, Owes, OnMedia
<1>6. CASE RemoveNull
  BY <1>6 DEF IInv, RemoveNull, TypeInv, DeviceAt, OverlapAt, PulseOwed,
          MediaAt, Positions, Idle, Owes, OnMedia
<1>7. CASE RemoveDrvdata
  BY <1>7 DEF IInv, RemoveDrvdata, TypeInv, DeviceAt, OverlapAt, PulseOwed,
          MediaAt, Positions, Idle, Owes, OnMedia
<1>8. CASE RemoveRelease
  <2>1. TypeInv' /\ PulseOwed'
    BY <1>8 DEF RemoveRelease, Release, TypeInv, PulseOwed, Positions, Owes
  <2>2. DeviceAt'
    BY <1>8 DEF RemoveRelease, Release, DeviceAt, TypeInv, Positions
  <2>3. OverlapAt'
    BY <1>8 DEF RemoveRelease, Release, OverlapAt, TypeInv, Idle, Positions
  <2>4. MediaAt'
    BY <1>8 DEF RemoveRelease, Release, MediaAt, TypeInv, OnMedia, Idle,
            Positions
  <2> QED
    BY <2>1, <2>2, <2>3, <2>4 DEF IInv
<1>9. CASE XiaoAiLost
  BY <1>9 DEF IInv, XiaoAiLost, driver, TypeInv, DeviceAt, OverlapAt,
          PulseOwed, MediaAt, Positions, Idle, Owes, OnMedia
<1>10. CASE UNCHANGED vars
  BY <1>10 DEF IInv, vars, driver, TypeInv, DeviceAt, OverlapAt, PulseOwed,
          MediaAt, Positions, Idle, Owes, OnMedia
<1>11. ASSUME NEW w \in Workers, NEW obj \in Objects, Notify(w, obj)
      PROVE  IInv'
  BY <1>11, NotifyStep DEF IInv
<1>12. ASSUME NEW w \in Workers, XiaoAiEvent(w)
      PROVE  IInv'
  BY <1>12, XiaoAiStep DEF IInv
<1>13. ASSUME NEW w \in Workers, InputReport(w)
      PROVE  IInv'
  BY <1>13, ReportStep DEF IInv
<1> QED
  BY <1>1, <1>2, <1>3, <1>4, <1>5, <1>6, <1>7, <1>8, <1>9, <1>10, <1>11, <1>12,
     <1>13 DEF Next

(* The inductive invariant holds in every reachable state.                   *)
LEMMA Invariance == Spec => []IInv
  BY InitIInv, NextIInv, PTL DEF Spec

------------------------------------------------------------------------------
(* Type correctness; the input device only ever has keys down that the probe *)
(* of redmibook_wmi.c announced.                                             *)
THEOREM TypeCorrect == Spec => []TypeOK
<1>1. IInv => TypeOK
  BY KindOf DEF IInv, TypeInv, Positions, TypeOK
<1> QED
  BY <1>1, Invariance, PTL

(* A notification of redmibook_wmi_notify that overlapped neither a probe    *)
(* nor a remove reports to a registered device, for any number of workers.   *)
THEOREM DeviceThere == Spec => []ReportsToDevice
<1>1. IInv => ReportsToDevice
  BY DEF IInv, OverlapAt, DeviceAt, ReportsToDevice, Active
<1> QED
  BY <1>1, Invariance, PTL

(* No order of notifications on any number of workers leaves a function key  *)
(* down.                                                                     *)
THEOREM NoKeyStuck == Spec => []PulseReleased
<1>1. IInv => PulseReleased
  BY Shapes DEF IInv, PulseOwed, PulseReleased, Active, Owes, Idle
<1> QED
  BY <1>1, Invariance, PTL

(* KEY_MEDIA follows <Xiao Ai>, whatever the other keys and workers do,      *)
(* unless the last of its events was lost or raced.                          *)
THEOREM MediaFollowsKey == Spec => []MediaFollows
<1>1. IInv => MediaFollows
  BY DEF IInv, MediaAt, MediaFollows
<1> QED
  BY <1>1, Invariance, PTL

------------------------------------------------------------------------------
(***************************************************************************)
(* The fingerprint reader.  RelayFaithful compares what was delivered with *)
(* the concatenation of all TLS events, so the first thing to know is how  *)
(* a concatenation grows.  FlattenSeq is a recursive function; that it is  *)
(* one, and has the values it should, is shown by induction, with the      *)
(* least number for which it fails.                                        *)
(***************************************************************************)

(* Induction over the natural numbers, in the form that the provers can      *)
(* instantiate: a set of numbers that is not empty has a least one.          *)
LEMMA Least ==
  ASSUME NEW T, T \subseteq Nat, T # {}
  PROVE  \E m \in T : \A k \in T : m <= k
<1> DEFINE R == OpToRel(<, Nat)
<1>1. IsWellFoundedOn(R, Nat)
  BY NatLessThanWellFounded
<1>2. PICK m \in T : \A k \in T : <<k, m>> \notin R
  <2> HIDE DEF R
  <2> QED
    BY <1>1, WFMin
<1>3. \A k \in T : ~ (k < m)
  BY <1>2 DEF OpToRel
<1> QED
  BY <1>3

\* What the recursive function in FlattenSeq has to be equal to.
Unfold(s, n, f) == [i \in 1 .. n |-> IF i = 1 THEN s[i] ELSE f[i - 1] \o s[i]]
IsFlat(s, n, f) == f = Unfold(s, n, f)

\* The first n elements are the same.
SameUpTo(n, s, t) == \A i \in 1 .. n : s[i] = t[i]

(* Such a function exists ...                                                *)
LEMMA FlatExists ==
  ASSUME NEW S, NEW s \in Seq(Seq(S)), NEW n \in 0 .. Len(s)
  PROVE  \E f \in [1 .. n -> Seq(S)] : IsFlat(s, n, f)
<1> DEFINE Has(m) == \E f \in [1 .. m -> Seq(S)] : IsFlat(s, m, f)
           T == {m \in 0 .. Len(s) : ~Has(m)}
<1>1. T = {}
  <2> SUFFICES ASSUME T # {} PROVE FALSE
    OBVIOUS
  <2>1. PICK m \in T : \A k \in T : m <= k
    <3>1. T \subseteq Nat
      OBVIOUS
    <3> HIDE DEF T
    <3> QED
      BY <3>1, Least
  <2>2. m \in 0 .. Len(s) /\ ~Has(m)
    OBVIOUS
  <2>3. m # 0
    <3>1. SUFFICES ASSUME m = 0 PROVE FALSE
      OBVIOUS
    <3> DEFINE e == [i \in 1 .. 0 |-> << >>]
    <3>2. e \in [1 .. 0 -> Seq(S)]
      OBVIOUS
    <3>3. IsFlat(s, 0, e)
      BY DEF IsFlat, Unfold
    <3> QED
      BY <2>2, <3>1, <3>2, <3>3
  <2>4. m - 1 \in 0 .. Len(s) /\ m - 1 \notin T
    <3> HIDE DEF T, Has
    <3>1. m - 1 \in Nat /\ m - 1 \in 0 .. Len(s) /\ ~ (m <= m - 1)
      BY <2>2, <2>3
    <3> QED
      BY <2>1, <3>1
  <2>5. PICK f \in [1 .. m - 1 -> Seq(S)] : IsFlat(s, m - 1, f)
    BY <2>4
  <2> DEFINE g == [i \in 1 .. m |-> IF i = m THEN IF m = 1 THEN s[m] ELSE f[m - 1] \o s[m]
                                   ELSE f[i]]
  <2>6. \A i \in 1 .. m : s[i] \in Seq(S)
    BY <2>2
  <2>7. g \in [1 .. m -> Seq(S)]
    <3>1. m = 1 \/ m - 1 \in 1 .. m - 1
      BY <2>2, <2>3
    <3>2. m \in 1 .. m
      BY <2>2, <2>3
    <3>3. (IF m = 1 THEN s[m] ELSE f[m - 1] \o s[m]) \in Seq(S)
      BY <2>6, <3>1, <3>2
    <3>4. \A i \in 1 .. m : i # m => i \in 1 .. m - 1
      BY <2>2
    <3> QED
      BY <3>3, <3>4
  <2>8. \A i \in 1 .. m : g[i] = IF i = 1 THEN s[i] ELSE g[i - 1] \o s[i]
    <3> SUFFICES ASSUME NEW i \in 1 .. m
                 PROVE  g[i] = IF i = 1 THEN s[i] ELSE g[i - 1] \o s[i]
      OBVIOUS
    <3>1. i = 1 \/ (i - 1 \in 1 .. m /\ i - 1 # m /\ i - 1 \in 1 .. m - 1)
      BY <2>2
    <3>2. i # 1 => g[i - 1] = f[i - 1]
      BY <3>1
    <3>3. CASE i = m
      BY <3>2, <3>3
    <3>4. CASE i # m
      <4>1. i \in 1 .. m - 1
        BY <2>2, <3>4
      <4>2. f[i] = IF i = 1 THEN s[i] ELSE f[i - 1] \o s[i]
        BY <2>5, <4>1 DEF IsFlat, Unfold
      <4> QED
        BY <3>2, <3>4, <4>2
    <3> QED
      BY <3>3, <3>4
  <2>9. IsFlat(s, m, g)
    <3>1. g = [i \in 1 .. m |-> g[i]]
      OBVIOUS
    <3> HIDE DEF g
    <3> QED
      BY <2>8, <3>1 DEF IsFlat, Unfold
  <2> QED
    BY <2>2, <2>7, <2>9
<1> QED
  BY <1>1

(* ... and depends only on the sequences before the place it is asked for.   *)
LEMMA FlatUnique ==
  ASSUME NEW s, NEW t, NEW f, NEW g, NEW n \in Nat, NEW k \in Nat, n <= k,
         SameUpTo(n, s, t), IsFlat(s, n, f), IsFlat(t, k, g)
  PROVE  SameUpTo(n, f, g)
<1> DEFINE T == {i \in 1 .. n : f[i] # g[i]}
<1>1. T = {}
  <2> SUFFICES ASSUME T # {} PROVE FALSE
    OBVIOUS
  <2>1. PICK m \in T : \A i \in T : m <= i
    <3>1. T \subseteq Nat
      OBVIOUS
    <3> HIDE DEF T
    <3> QED
      BY <3>1, Least
  <2>2. m \in 1 .. n /\ f[m] # g[m]
    OBVIOUS
  <2>3. f[m] = IF m = 1 THEN s[m] ELSE f[m - 1] \o s[m]
    BY <2>2 DEF IsFlat, Unfold
  <2>4. g[m] = IF m = 1 THEN t[m] ELSE g[m - 1] \o t[m]
    <3>1. m \in 1 .. k
      BY <2>2
    <3> QED
      BY <3>1 DEF IsFlat, Unfold
  <2>5. m # 1 => f[m - 1] = g[m - 1]
    <3> SUFFICES ASSUME m # 1 PROVE f[m - 1] = g[m - 1]
      OBVIOUS
    <3>1. m - 1 \in 1 .. n
      BY <2>2
    <3>2. m - 1 \notin T
      BY <2>1, <2>2
    <3> QED
      BY <3>1, <3>2
  <2> QED
    BY <2>2, <2>3, <2>4, <2>5 DEF SameUpTo
<1> QED
  BY <1>1 DEF SameUpTo

(* So FlattenSeq is the last value of one.                                   *)
LEMMA FlattenIs ==
  ASSUME NEW S, NEW s \in Seq(Seq(S)), s # << >>
  PROVE  \E f \in [1 .. Len(s) -> Seq(S)] :
            IsFlat(s, Len(s), f) /\ FlattenSeq(s) = f[Len(s)]
<1> DEFINE n == Len(s)
           c == CHOOSE f : f = Unfold(s, n, f)
<1>0. n \in Nat /\ n # 0
  OBVIOUS
<1>1. PICK f \in [1 .. n -> Seq(S)] : IsFlat(s, n, f)
  BY FlatExists
<1>2. c = Unfold(s, n, c)
  BY <1>1, Zenon DEF IsFlat
<1>3. FlattenSeq(s) = c[n]
  BY <1>0 DEF FlattenSeq, Unfold
<1> HIDE DEF c
<1>4. IsFlat(s, n, c)
  BY <1>2 DEF IsFlat
<1>5. SameUpTo(n, s, s) /\ n <= n
  BY <1>0 DEF SameUpTo
<1>6. SameUpTo(n, c, f)
  BY <1>0, <1>1, <1>4, <1>5, FlatUnique, Zenon
<1>7. c[n] = f[n]
  BY <1>0, <1>6 DEF SameUpTo
<1> QED
  BY <1>1, <1>3, <1>7

(* With one more sequence at its end, a concatenation grows by that one.      *)
LEMMA FlattenAppend ==
  ASSUME NEW S, NEW s \in Seq(Seq(S)), NEW x \in Seq(S)
  PROVE  /\ FlattenSeq(s) \in Seq(S)
         /\ FlattenSeq(Append(s, x)) = FlattenSeq(s) \o x
<1>1. PICK n \in Nat, p \in Nat, t \in Seq(Seq(S)) :
        n = Len(s) /\ p = n + 1 /\ t = Append(s, x)
  <2>1. Append(s, x) \in Seq(Seq(S)) /\ Len(s) \in Nat /\ Len(s) + 1 \in Nat
    OBVIOUS
  <2> QED
    BY <2>1, Zenon
<1>2. Len(t) = p /\ t[p] = x /\ t # << >> /\ SameUpTo(n, s, t)
  <2>1. Len(t) = p /\ t[p] = x /\ SameUpTo(n, s, t)
    BY <1>1 DEF SameUpTo
  <2>2. Len(t) # 0
    BY <1>1, <2>1
  <2> QED
    BY <2>1, <2>2
<1>3. PICK g \in [1 .. p -> Seq(S)] : IsFlat(t, p, g) /\ FlattenSeq(t) = g[p]
  BY <1>2, FlattenIs
<1>4. p \in 1 .. p /\ n <= p /\ p - 1 = n
  BY <1>1
<1>5. \A i \in 1 .. p : g[i] = IF i = 1 THEN t[i] ELSE g[i - 1] \o t[i]
  BY <1>3 DEF IsFlat, Unfold
<1>6. CASE s = << >>
  <2>1. p = 1 /\ FlattenSeq(s) = << >>
    BY <1>1, <1>6 DEF FlattenSeq
  <2>2. g[p] = x
    BY <1>2, <1>4, <1>5, <2>1
  <2>3. << >> \in Seq(S) /\ << >> \o x = x
    OBVIOUS
  <2> QED
    BY <1>1, <1>3, <2>1, <2>2, <2>3, Zenon
<1>7. CASE s # << >>
  <2>1. PICK f \in [1 .. n -> Seq(S)] : IsFlat(s, n, f) /\ FlattenSeq(s) = f[n]
    BY <1>1, <1>7, FlattenIs
  <2>2. n \in 1 .. n /\ p # 1
    BY <1>1, <1>7
  <2>3. SameUpTo(n, f, g)
    BY <1>2, <1>3, <1>4, <2>1, FlatUnique, Zenon
  <2>4. f[n] = g[n] /\ f[n] \in Seq(S)
    BY <2>2, <2>3 DEF SameUpTo
  <2>5. g[p] = g[n] \o x
    BY <1>2, <1>4, <1>5, <2>2
  <2> QED
    BY <1>1, <1>3, <2>1, <2>4, <2>5, Zenon
<1> QED
  BY <1>6, <1>7

------------------------------------------------------------------------------
Units  == Nat \X Nat
Events == [code : Codes, size : Nat]

\* All units of event n, and those after its header if they are TLS data.
EventUnits(n) == [i \in 1 .. sent[n].size + 1 |-> Unit(n, i - 1)]
TlsPart(n) ==
  IF sent[n].code = "ev_tls" THEN [i \in 1 .. sent[n].size |-> Unit(n, i)] ELSE << >>

\* Neither the socket nor an unknown event has disturbed the relay.
Calm == ~short /\ ~foreign /\ at # "crashed"

\* The callback on the socket is armed, and the transfer's space freed, only
\* after the socket has refused something.
ArmedAt == (armed => short) /\ (dangling => short)

\* One event is under way, and the buffer holds what has come of it; or none is,
\* and the buffer is empty.
BufferAt ==
  Calm =>
    /\ rest = << >> => buffer = << >>
    /\ rest # << >> => sent # << >> /\ buffer \o rest = EventUnits(Len(sent))

\* What was delivered, by the event that is under way.
DeliveredAt ==
  Calm =>
    /\ rest = << >> => delivered = TlsData(Len(sent))
    /\ rest # << >> => delivered = TlsData(Len(sent) - 1)

Sequenced == sent \in Seq(Events) /\ buffer \in Seq(Units) /\ rest \in Seq(Units)

RelayInv == Sequenced /\ ArmedAt /\ BufferAt /\ DeliveredAt

(* The TLS data of one more event is what there was, and its own.            *)
LEMMA TlsDataGrows ==
  ASSUME sent \in Seq(Events), NEW n \in 1 .. Len(sent)
  PROVE  TlsData(n) = TlsData(n - 1) \o TlsPart(n) /\ TlsData(n - 1) \in Seq(Units)
<1> DEFINE s == [j \in 1 .. n - 1 |-> TlsPart(j)]
           t == [j \in 1 .. n |-> TlsPart(j)]
<1>1. \A j \in 1 .. n : TlsPart(j) \in Seq(Units)
  <2> TAKE j \in 1 .. n
  <2>1. sent[j].size \in Nat /\ j \in Nat
    <3>1. sent[j] \in Events
      OBVIOUS
    <3> QED
      BY <3>1 DEF Events
  <2>2. \A i \in 1 .. sent[j].size : Unit(j, i) \in Units
    BY <2>1 DEF Unit, Units
  <2> QED
    BY <2>1, <2>2 DEF TlsPart
<1>2. s \in Seq(Seq(Units)) /\ Len(s) = n - 1
  BY <1>1
<1>3. t = Append(s, TlsPart(n))
  <2>1. t \in Seq(Seq(Units)) /\ Len(t) = n
    BY <1>1
  <2>2. \A j \in 1 .. n : t[j] = Append(s, TlsPart(n))[j]
    BY <1>2
  <2> QED
    BY <1>1, <1>2, <2>1, <2>2
<1>4. TlsData(n) = FlattenSeq(t) /\ TlsData(n - 1) = FlattenSeq(s)
  BY DEF TlsData, TlsPart
<1> HIDE DEF s, t
<1>5. TlsPart(n) \in Seq(Units)
  BY <1>1
<1> QED
  BY <1>2, <1>3, <1>4, <1>5, FlattenAppend

(* A write to the socket that takes everything leaves nothing in the buffer; *)
(* one that does not is noted.                                               *)
LEMMA Drained ==
  ASSUME NEW b \in Seq(Units), NEW k \in 0 .. Len(b), WriteAndDrain(b, k)
  PROVE  /\ buffer' \in Seq(Units)
         /\ short => short'
         /\ buffer' # << >> => short'
         /\ ~short' => buffer' = << >> /\ delivered' = delivered \o b
<1>1. short' = (short \/ k < Len(b))
  BY DEF WriteAndDrain
<1>2. k < Len(b) \/ k = Len(b)
  OBVIOUS
<1>3. buffer' = IF k = 0 THEN << >> ELSE SubSeq(b, 2 * k + 1, Len(b))
  BY DEF WriteAndDrain
<1>4. buffer' \in Seq(Units)
  BY <1>3
<1>5. k = Len(b) => buffer' = << >>
  BY <1>3
<1>6. k = Len(b) => delivered' = delivered \o b
  <2>1. SubSeq(b, 1, Len(b)) = b
    OBVIOUS
  <2> QED
    BY <2>1 DEF WriteAndDrain
<1> QED
  BY <1>1, <1>2, <1>4, <1>5, <1>6, Zenon

(* What handle_fpc_event makes of the buffer and the units of a transfer: an *)
(* event that is complete is taken out, its data passed on if it is TLS.     *)
LEMMA Handled ==
  ASSUME Sequenced, ArmedAt, NEW u \in Seq(Units), handle_fpc_event(u),
         NEW buf, buf = buffer \o u
  PROVE  /\ buffer' \in Seq(Units) /\ ArmedAt'
         /\ Calm' => Calm /\ buf # << >>
         /\ Calm' /\ IsHeader(Head(buf)) /\ Len(buf) = sent[Head(buf)[1]].size + 1 =>
              /\ buffer' = << >>
              /\ delivered' = IF sent[Head(buf)[1]].code = "ev_tls"
                                THEN delivered \o Tail(buf) ELSE delivered
         /\ Calm' /\ IsHeader(Head(buf)) /\ Len(buf) # sent[Head(buf)[1]].size + 1 =>
              buffer' = buf /\ delivered' = delivered
<1>0. buf \in Seq(Units) /\ at # "crashed" /\ UNCHANGED dangling
  BY DEF Sequenced, handle_fpc_event
<1>1. CASE dangling \/ buf = << >>
  <2>1. at' = "crashed" /\ UNCHANGED <<buffer, armed, short>>
    BY <1>1 DEF handle_fpc_event
  <2> QED
    BY <1>0, <2>1 DEF Sequenced, ArmedAt, Calm
<1>2. CASE ~dangling /\ buf # << >>
  <2>0. UNCHANGED at
    BY <1>2 DEF handle_fpc_event
  <2>1. PICK complete \in IsComplete(buf) :
          IF complete THEN \E code \in CodeOf(buf) : Dispatch(buf, code)
                      ELSE buffer' = buf /\ UNCHANGED <<armed, delivered, short, foreign>>
    BY <1>2 DEF handle_fpc_event
  <2>2. IsHeader(Head(buf)) => (complete <=> Len(buf) = sent[Head(buf)[1]].size + 1)
    BY <2>1 DEF IsComplete
  <2>3. CASE ~complete
    BY <1>0, <1>2, <2>0, <2>1, <2>2, <2>3 DEF ArmedAt, Calm
  <2>4. CASE complete
    <3>1. PICK code \in CodeOf(buf) : Dispatch(buf, code)
      BY <2>1, <2>4
    <3>2. IsHeader(Head(buf)) => code = sent[Head(buf)[1]].code
      BY <3>1 DEF CodeOf
    <3>3. CASE code = "ev_init_result"
      <4>1. buffer' = << >> /\ UNCHANGED <<armed, delivered, short, foreign>>
        BY <3>1, <3>3 DEF Dispatch
      <4> QED
        BY <1>0, <1>2, <2>0, <2>2, <2>4, <3>2, <3>3, <4>1 DEF ArmedAt, Calm
    <3>4. CASE code = "ev_tls"
      <4>1. handle_fpc_tls_data(buf) /\ UNCHANGED foreign
        BY <3>1, <3>4 DEF Dispatch
      <4>2. PICK k \in 0 .. Len(Tail(buf)) : WriteAndDrain(Tail(buf), k)
        BY <4>1 DEF handle_fpc_tls_data
      <4>3. Tail(buf) \in Seq(Units)
        BY <1>0, <1>2
      <4>4. /\ buffer' \in Seq(Units) /\ (short => short') /\ (buffer' # << >> => short')
            /\ ~short' => buffer' = << >> /\ delivered' = delivered \o Tail(buf)
        BY <4>2, <4>3, Drained
      <4>5. armed' => armed \/ buffer' # << >>
        BY <4>1, Zenon DEF handle_fpc_tls_data
      <4> QED
        BY <1>0, <1>2, <2>0, <2>2, <2>4, <3>2, <3>4, <4>1, <4>4, <4>5 DEF ArmedAt, Calm
    <3>5. CASE code = "other"
      <4>1. buffer' = buf /\ foreign' = TRUE /\ UNCHANGED <<armed, short>>
        BY <3>1, <3>5 DEF Dispatch
      <4> QED
        BY <1>0, <1>2, <4>1 DEF ArmedAt, Calm
    <3> QED
      BY <3>1, <3>3, <3>4, <3>5 DEF Dispatch
  <2> QED
    BY <2>3, <2>4
<1> QED
  BY <1>1, <1>2

(* The units of the last event.                                              *)
LEMMA LastEvent ==
  ASSUME Sequenced, sent # << >>, NEW m, m = Len(sent)
  PROVE  /\ m \in Nat \ {0} /\ m \in 1 .. Len(sent)
         /\ EventUnits(m) \in Seq(Units) /\ Len(EventUnits(m)) = sent[m].size + 1
         /\ EventUnits(m)[1] = Unit(m, 0)
         /\ Tail(EventUnits(m)) = [i \in 1 .. sent[m].size |-> Unit(m, i)]
<1>1. m \in Nat \ {0} /\ m \in 1 .. Len(sent)
  BY DEF Sequenced
<1>2. sent[m] \in Events
  BY <1>1 DEF Sequenced
<1>3. PICK z \in Nat : z = sent[m].size
  BY <1>2 DEF Events
<1>4. EventUnits(m) = [i \in 1 .. z + 1 |-> Unit(m, i - 1)]
  BY <1>3 DEF EventUnits
<1>5. \A i \in 1 .. z + 1 : Unit(m, i - 1) \in Units
  BY <1>1, <1>3 DEF Unit, Units
<1>6. EventUnits(m) \in Seq(Units) /\ Len(EventUnits(m)) = z + 1
  BY <1>3, <1>4, <1>5
<1>7. EventUnits(m)[1] = Unit(m, 0)
  BY <1>3, <1>4
<1>8. Tail(EventUnits(m)) = [i \in 1 .. z |-> Unit(m, i)]
  BY <1>3, <1>4, <1>6
<1> QED
  BY <1>1, <1>3, <1>6, <1>7, <1>8

(* A sequence in two parts.                                                  *)
LEMMA Parts ==
  ASSUME NEW S, NEW b \in Seq(S), NEW r \in Seq(S), NEW e \in Seq(S), b \o r = e
  PROVE  /\ r = << >> => b = e
         /\ r # << >> => Len(b) # Len(e)
         /\ b # << >> => Head(b) = e[1]
<1>1. Len(b) + Len(r) = Len(e)
  OBVIOUS
<1>2. b # << >> => e[1] = b[1]
  OBVIOUS
<1> QED
  BY <1>1, <1>2

\* The first k units of r, and the others; and b and r with the first of them
\* moved from one to the other.
Splits(r, k, u, v) == u = SubSeq(r, 1, k) /\ v = SubSeq(r, k + 1, Len(r))
Continues(S, b, r, u, v) ==
  b \o u \in Seq(S) /\ b \o u # << >> /\ (b \o u) \o v = b \o r
Joined(b, u, v, r) == u \o v = r => (b \o u) \o v = b \o r

(* Concatenation is associative.                                             *)
LEMMA Joins ==
  ASSUME NEW S, NEW b \in Seq(S), NEW u \in Seq(S), NEW v \in Seq(S), NEW r
  PROVE  Joined(b, u, v, r)
<1>1. (b \o u) \o v = b \o (u \o v)
  BY ConcatAssociative
<1> QED
  BY <1>1, Zenon DEF Joined

(* What remains after the first k units have moved to the buffer.            *)
LEMMA Moved ==
  ASSUME NEW S, NEW b \in Seq(S), NEW r \in Seq(S), NEW k \in 1 .. Len(r),
         NEW u \in Seq(S), NEW v \in Seq(S), Splits(r, k, u, v)
  PROVE  Continues(S, b, r, u, v)
<1>1. Len(u) = k
  BY DEF Splits
<1>2. u \o v = r
  <2>1. SubSeq(r, 1, Len(r)) = r
    OBVIOUS
  <2>2. k \in 1 - 1 .. Len(r) /\ Len(r) \in k .. Len(r) /\ 1 \in 1 .. Len(r) + 1
    OBVIOUS
  <2> QED
    BY <2>1, <2>2, ConcatAdjacentSubSeq DEF Splits
<1>3. Joined(b, u, v, r)
  BY Joins, Zenon
<1>4. b \o u \in Seq(S) /\ Len(b \o u) = Len(b) + Len(u)
  OBVIOUS
<1>5. Len(b \o u) # 0
  BY <1>1, <1>4
<1>6. b \o u # << >>
  BY <1>4, <1>5
<1> QED
  BY <1>2, <1>3, <1>4, <1>6, Zenon DEF Continues, Joined

(* Every step of the device, of libevent's callbacks and of main preserves   *)
(* the invariant.                                                            *)
LEMMA NextRelay == RelayInv /\ [FpcNext]_fpcVars => RelayInv'
<1> SUFFICES ASSUME Sequenced, ArmedAt, BufferAt, DeliveredAt, [FpcNext]_fpcVars
             PROVE  RelayInv'
  BY DEF RelayInv
<1> DEFINE m == Len(sent)
<1>1. CASE TransferCompletes
  <2> DEFINE n == IF PacketSize < Len(rest) THEN PacketSize ELSE Len(rest)
  <2>1. /\ rest # << >> /\ handle_fpc_event(SubSeq(rest, 1, n))
        /\ rest' = SubSeq(rest, n + 1, Len(rest))
    BY <1>1 DEF TransferCompletes
  <2>2. n \in 1 .. Len(rest)
    <3>1. Len(rest) \in Nat \ {0}
      BY <2>1 DEF Sequenced
    <3> QED
      BY <3>1, SizesAssumption
  <2> HIDE DEF n
  <2>3. PICK u : u = SubSeq(rest, 1, n)
    OBVIOUS
  <2>4. PICK buf : buf = buffer \o u
    OBVIOUS
  <2>5. /\ u \in Seq(Units) /\ rest' \in Seq(Units) /\ buf \in Seq(Units) /\ buf # << >>
        /\ buf \o rest' = buffer \o rest
    <3>1. buffer \in Seq(Units) /\ rest \in Seq(Units)
      BY DEF Sequenced
    <3>2. Splits(rest, n, u, rest')
      BY <2>1, <2>3 DEF Splits
    <3>3. u \in Seq(Units) /\ rest' \in Seq(Units)
      BY <2>1, <2>2, <2>3, <3>1
    <3>4. Continues(Units, buffer, rest, u, rest')
      BY <2>2, <3>1, <3>2, <3>3, Moved, Zenon
    <3> QED
      BY <2>4, <3>3, <3>4, Zenon DEF Continues
  <2>6. handle_fpc_event(u) /\ UNCHANGED sent
    BY <2>1, <2>3 DEF handle_fpc_event
  <2>7. buffer' \in Seq(Units) /\ ArmedAt' /\ (Calm' => Calm)
    BY <2>4, <2>5, <2>6, Handled
  <2>8. Sequenced'
    BY <2>5, <2>6, <2>7 DEF Sequenced
  <2>9. ASSUME Calm' PROVE BufferAt' /\ DeliveredAt'
    <3>1. sent # << >> /\ buffer \o rest = EventUnits(m) /\ delivered = TlsData(m - 1)
      BY <2>1, <2>7, <2>9 DEF BufferAt, DeliveredAt
    <3>2. /\ m \in Nat \ {0} /\ m \in 1 .. Len(sent)
          /\ EventUnits(m) \in Seq(Units) /\ Len(EventUnits(m)) = sent[m].size + 1
          /\ EventUnits(m)[1] = Unit(m, 0)
          /\ Tail(EventUnits(m)) = [i \in 1 .. sent[m].size |-> Unit(m, i)]
      BY <3>1, LastEvent
    <3>3. PICK e \in Seq(Units) : e = EventUnits(m)
      BY <3>2
    <3>4. /\ rest' = << >> => buf = e
          /\ rest' # << >> => Len(buf) # Len(e)
          /\ Head(buf) = e[1]
      <4>1. buf \o rest' = e
        BY <2>5, <3>1, <3>3, Zenon
      <4> QED
        BY <2>5, <4>1, Parts, Zenon
    <3>5. IsHeader(Head(buf)) /\ Head(buf)[1] = m
      BY <3>2, <3>3, <3>4 DEF Unit, IsHeader
    <3>6. CASE rest' = << >>
      <4>1. Len(buf) = sent[m].size + 1 /\ Tail(buf) = [i \in 1 .. sent[m].size |-> Unit(m, i)]
        BY <3>2, <3>3, <3>4, <3>6
      <4>2. /\ buffer' = << >>
            /\ delivered' = IF sent[m].code = "ev_tls" THEN delivered \o Tail(buf) ELSE delivered
        BY <2>4, <2>5, <2>6, <2>9, <3>5, <4>1, Handled
      <4>3. TlsData(m) = TlsData(m - 1) \o TlsPart(m) /\ TlsData(m - 1) \in Seq(Units)
        BY <3>2, TlsDataGrows DEF Sequenced
      <4>4. delivered' = TlsData(m)
        <5>1. CASE sent[m].code = "ev_tls"
          BY <3>1, <4>1, <4>2, <4>3, <5>1, Zenon DEF TlsPart
        <5>2. CASE sent[m].code # "ev_tls"
          <6>1. PICK d \in Seq(Units) : d = TlsData(m - 1)
            BY <4>3, Zenon
          <6>2. d \o << >> = d
            OBVIOUS
          <6>3. TlsPart(m) = << >>
            BY <5>2, Zenon DEF TlsPart
          <6> QED
            BY <3>1, <4>2, <4>3, <5>2, <6>1, <6>2, <6>3, Zenon
        <5> QED
          BY <5>1, <5>2
      <4>5. TlsData(m)' = TlsData(m)
        BY <2>6 DEF TlsData
      <4> QED
        BY <2>6, <3>6, <4>2, <4>4, <4>5 DEF BufferAt, DeliveredAt
    <3>7. CASE rest' # << >>
      <4>1. Len(buf) # sent[m].size + 1
        BY <3>2, <3>3, <3>4, <3>7
      <4>2. buffer' = buf /\ delivered' = delivered
        BY <2>4, <2>5, <2>6, <2>9, <3>5, <4>1, Handled
      <4>3. TlsData(m - 1)' = TlsData(m - 1) /\ EventUnits(m)' = EventUnits(m)
        BY <2>6 DEF TlsData, EventUnits
      <4> QED
        BY <2>5, <2>6, <3>1, <3>7, <4>2, <4>3 DEF BufferAt, DeliveredAt
    <3> QED
      BY <3>6, <3>7
  <2>10. ~Calm' => BufferAt' /\ DeliveredAt'
    BY DEF BufferAt, DeliveredAt
  <2> QED
    BY <2>7, <2>8, <2>9, <2>10 DEF RelayInv
<1>2. CASE TransferFails
  <2>1. handle_fpc_event(<< >>) /\ UNCHANGED <<rest, sent>>
    BY <1>2 DEF TransferFails, handle_fpc_event
  <2>2. << >> \in Seq(Units) /\ buffer = buffer \o << >>
    BY DEF Sequenced
  <2>3. buffer' \in Seq(Units) /\ ArmedAt' /\ (Calm' => Calm /\ buffer # << >>)
    BY <2>1, <2>2, Handled
  <2>4. Sequenced'
    BY <2>1, <2>3 DEF Sequenced
  <2>5. ASSUME Calm' PROVE BufferAt' /\ DeliveredAt'
    <3>1. /\ rest # << >> /\ buffer # << >> /\ sent # << >>
          /\ buffer \o rest = EventUnits(m)
      BY <2>3, <2>5 DEF BufferAt
    <3>2. /\ EventUnits(m) \in Seq(Units) /\ Len(EventUnits(m)) = sent[m].size + 1
          /\ EventUnits(m)[1] = Unit(m, 0)
      BY <3>1, LastEvent
    <3>3. PICK e \in Seq(Units) : e = EventUnits(m)
      BY <3>2
    <3>4. Len(buffer) # Len(e) /\ Head(buffer) = e[1]
      BY <3>1, <3>3, Parts DEF Sequenced
    <3>5. IsHeader(Head(buffer)) /\ Head(buffer)[1] = m
      BY <3>2, <3>3, <3>4 DEF Unit, IsHeader
    <3>6. Len(buffer) # sent[m].size + 1
      BY <3>2, <3>3, <3>4
    <3>7. buffer' = buffer /\ delivered' = delivered
      BY <2>1, <2>2, <2>5, <3>5, <3>6, Handled
    <3> QED
      BY <2>1, <2>3, <2>5, <3>7 DEF BufferAt, DeliveredAt, TlsData, EventUnits
  <2>6. ~Calm' => BufferAt' /\ DeliveredAt'
    BY DEF BufferAt, DeliveredAt
  <2> QED
    BY <2>3, <2>4, <2>5, <2>6 DEF RelayInv
<1>3. CASE ev_device_to_conn
  <2>1. PICK k \in 1 .. Len(buffer) : WriteAndDrain(buffer, k)
    BY <1>3 DEF ev_device_to_conn
  <2>2. short /\ UNCHANGED <<sent, rest, armed>>
    BY <1>3 DEF ev_device_to_conn, ArmedAt
  <2>3. buffer' \in Seq(Units) /\ short'
    BY <2>1, <2>2, Drained DEF Sequenced
  <2> QED
    BY <2>2, <2>3 DEF RelayInv, Sequenced, ArmedAt, BufferAt, DeliveredAt, Calm
<1>4. CASE DeviceSends
  <2>1. PICK code \in Codes, size \in Sizes :
          /\ sent' = Append(sent, [code |-> code, size |-> size])
          /\ rest' = [i \in 1 .. size + 1 |-> Unit(Len(sent) + 1, i - 1)]
    BY <1>4 DEF DeviceSends
  <2>2. rest = << >> /\ UNCHANGED <<at, buffer, armed, dangling, delivered, short, foreign>>
    BY <1>4 DEF DeviceSends, loop
  <2>3. size \in Nat /\ m \in Nat
    BY SizesAssumption DEF Sequenced
  <2>4. sent' \in Seq(Events) /\ Len(sent') = m + 1 /\ sent'[m + 1] = [code |-> code, size |-> size]
    BY <2>1, <2>3 DEF Sequenced, Events
  <2>5. \A i \in 1 .. size + 1 : Unit(m + 1, i - 1) \in Units
    BY <2>3 DEF Unit, Units
  <2>6. rest' \in Seq(Units) /\ Len(rest') = size + 1
    BY <2>1, <2>3, <2>5
  <2>7. Sequenced' /\ ArmedAt'
    BY <2>2, <2>4, <2>6 DEF Sequenced, ArmedAt
  <2>8. BufferAt'
    <3>1. EventUnits(Len(sent))' = rest'
      BY <2>1, <2>3, <2>4 DEF EventUnits
    <3>2. sent' # << >> /\ rest' # << >>
      BY <2>3, <2>4, <2>6
    <3>3. << >> \o rest' = rest'
      BY <2>6
    <3> QED
      BY <2>2, <2>4, <3>1, <3>2, <3>3 DEF BufferAt, Calm
  <2>9. DeliveredAt'
    <3>1. \A j \in 1 .. m : sent'[j] = sent[j]
      BY <2>1 DEF Sequenced
    <3>2. rest' # << >> /\ Len(sent') - 1 = m
      BY <2>3, <2>4, <2>6
    <3>3. TlsData(Len(sent) - 1)' = TlsData(m)
      BY <3>1, <3>2 DEF TlsData
    <3> QED
      BY <2>2, <3>2, <3>3 DEF DeliveredAt, Calm
  <2> QED
    BY <2>7, <2>8, <2>9 DEF RelayInv
<1>5. CASE Main \/ ev_host_to_device_cb \/ UNCHANGED fpcVars
  <2>1. /\ UNCHANGED <<buffer, armed, dangling, sent, rest, delivered, short, foreign>>
        /\ at = "crashed" => at' = "crashed"
    BY <1>5 DEF Main, StageSwitch, DispatchReturns, GetTlsKeyReturns, ev_host_to_device_cb,
       fpcVars, loop
  <2> QED
    BY <2>1 DEF RelayInv, Sequenced, ArmedAt, BufferAt, DeliveredAt, Calm, TlsData, EventUnits
<1> QED
  BY <1>1, <1>2, <1>3, <1>4, <1>5 DEF FpcNext

(* The program before its first transfer satisfies it.                       *)
LEMMA InitRelay == FpcInit => RelayInv
<1> SUFFICES ASSUME FpcInit PROVE RelayInv
  OBVIOUS
<1>1. Sequenced /\ ArmedAt /\ BufferAt
  BY DEF FpcInit, Sequenced, ArmedAt, BufferAt
<1>2. TlsData(0) = << >>
  BY DEF TlsData, FlattenSeq
<1> QED
  BY <1>1, <1>2 DEF FpcInit, RelayInv, DeliveredAt

(* The TLS server has received exactly the data of the TLS events that are   *)
(* complete, and the buffer holds exactly what has come of the next one, for *)
(* every packet size, every length of an event and any number of events.     *)
THEOREM RelayIsFaithful == FpcSpec => []RelayFaithful
<1>1. RelayInv => RelayFaithful
  <2> SUFFICES ASSUME RelayInv, Calm
               PROVE  LET n == IF rest = << >> THEN Len(sent) ELSE Len(sent) - 1 IN
                      /\ delivered = TlsData(n)
                      /\ buffer \o rest = IF rest = << >> THEN << >>
                           ELSE [i \in 1 .. sent[n + 1].size + 1 |-> Unit(n + 1, i - 1)]
    BY DEF RelayFaithful, Calm
  <2>1. CASE rest = << >>
    BY <2>1 DEF RelayInv, BufferAt, DeliveredAt
  <2>2. CASE rest # << >>
    <3>1. sent # << >> /\ buffer \o rest = EventUnits(Len(sent)) /\ delivered = TlsData(Len(sent) - 1)
      BY <2>2 DEF RelayInv, BufferAt, DeliveredAt
    <3>2. Len(sent) - 1 + 1 = Len(sent)
      BY DEF RelayInv, Sequenced
    <3> QED
      BY <2>2, <3>1, <3>2 DEF EventUnits
  <2> QED
    BY <2>1, <2>2
<1> QED
  BY <1>1, InitRelay, NextRelay, PTL DEF FpcSpec

==============================================================================
