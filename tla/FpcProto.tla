------------------------------- MODULE FpcProto -------------------------------
(***************************************************************************)
(* The event loop of the fingerprint reader prototype, fpc.c: USB bulk     *)
(* transfers are put together to events in one buffer; the result of the   *)
(* initialisation fetches the TLS key, and TLS data is passed on to the    *)
(* TLS server through a socket pair.  What the socket does not take stays  *)
(* in the same buffer, for a callback on the socket.                       *)
(*                                                                         *)
(* Everything runs on one thread.  A control transfer waits by handling    *)
(* USB events, so a bulk transfer can complete inside of one.              *)
(***************************************************************************)
EXTENDS Naturals, Sequences, SequencesExt

CONSTANTS
  PacketSize,  \* BULK_BUFFER_SIZE, in units; the header of an event is one
  Sizes,       \* lengths of what follows the header
  MaxEvents    \* bound: the events that the device sends

ASSUME SizesAssumption == PacketSize \in Nat \ {0} /\ Sizes \subseteq Nat /\ MaxEvents \in Nat

VARIABLES
  at,         \* where main is
  stage,      \* global->stage
  broken,     \* event_base_loopbreak was called
  rsz,        \* the static of ev_host_to_device_cb
  transfer,   \* the bulk transfer is submitted
  buffer,     \* bulk_buffer
  armed,      \* tls_ev_device_to_conn is added
  dangling,   \* the space reserved for the transfer has been freed
  sent,       \* the events of the device, the last one perhaps in part
  rest,       \* what is still to come of it
  delivered,  \* written to the socket of the TLS server
  \* History variables.
  short,      \* the socket did not take all it was given
  foreign,    \* an event came that nobody takes out of the buffer
  left        \* the buffer holds what the socket did not take

loop == <<at, stage, broken>>
fpcVars == <<loop, rsz, transfer, buffer, armed, dangling, sent, rest, delivered,
             short, foreign, left>>

Codes == {"ev_init_result", "ev_tls", "other"}

\* Unit i of event n; unit 0 is its header.
Unit(n, i) == <<n, i>>
IsHeader(u) == u[2] = 0

Ended == at \in {"ended", "hung", "crashed"}

------------------------------------------------------------------------------
(* The device (external).                                                    *)

DeviceSends ==
  /\ rest = << >> /\ Len(sent) < MaxEvents
  /\ \E code \in Codes, size \in Sizes :
       /\ sent' = Append(sent, [code |-> code, size |-> size])
       /\ rest' = [i \in 1 .. size + 1 |-> Unit(Len(sent) + 1, i - 1)]
  /\ UNCHANGED <<loop, rsz, transfer, buffer, armed, dangling, delivered, short,
                 foreign, left>>

------------------------------------------------------------------------------
(* The events.                                                               *)

\* evbuffer_write takes what it writes out of the buffer itself, and the drain
\* after it takes out as much again; a write that fails (-1) drains everything.
WriteAndDrain(buf, k) ==
  /\ delivered' = delivered \o SubSeq(buf, 1, k)
  /\ buffer' = IF k = 0 THEN << >> ELSE SubSeq(buf, 2 * k + 1, Len(buf))
  /\ short' = (short \/ k < Len(buf))
  /\ left' = (buffer' # << >>)

\* Passes the header on as well.
BadTlsHeader(buf) ==
  /\ \E k \in 0 .. Len(buf) : WriteAndDrain(buf, k)
  /\ armed' = (armed \/ buffer' # << >>)

\* Leaves the rest to whatever comes next.
BadTlsData(buf) ==
  /\ \E k \in 0 .. Len(Tail(buf)) : WriteAndDrain(Tail(buf), k)
  /\ UNCHANGED armed

handle_fpc_tls_data(buf) ==
  /\ \E k \in 0 .. Len(Tail(buf)) : WriteAndDrain(Tail(buf), k)
  /\ armed' = (armed \/ buffer' # << >>)

\* The length in the header at the front is the length of the buffer; data in
\* the place of a header may say anything.
IsComplete(buf) ==
  IF IsHeader(Head(buf)) THEN {Len(buf) = sent[Head(buf)[1]].size + 1} ELSE BOOLEAN
CodeOf(buf) ==
  IF IsHeader(Head(buf)) THEN {sent[Head(buf)[1]].code} ELSE Codes

Dispatch(buf, code) ==
  \/ /\ code = "ev_init_result"
     /\ buffer' = << >> /\ left' = FALSE
     /\ stage' = "get_tls_key" /\ broken' = TRUE
     /\ UNCHANGED <<armed, delivered, short, foreign>>
  \/ /\ code = "ev_tls"
     /\ handle_fpc_tls_data(buf)
     /\ UNCHANGED <<stage, broken, foreign>>
  \/ /\ code = "other"
     /\ buffer' = buf /\ foreign' = TRUE
     /\ UNCHANGED <<stage, broken, armed, delivered, short, left>>

\* handle_fpc_event, for a transfer that has ended with some units, or with an
\* error and none.  The header is read before it is known to be there.  Nobody
\* looks at the result of the next submission.
handle_fpc_event(units) ==
  LET buf == buffer \o units IN
  /\ transfer /\ at \in {"init", "dispatch", "get_tls_key", "hung"}
  /\ IF dangling \/ buf = << >>
       THEN /\ at' = "crashed"
            /\ UNCHANGED <<stage, broken, transfer, buffer, armed, delivered, short,
                           foreign, left>>
       ELSE /\ \E complete \in IsComplete(buf) :
                 IF complete
                   THEN \E code \in CodeOf(buf) : Dispatch(buf, code)
                   ELSE /\ buffer' = buf
                        /\ UNCHANGED <<stage, broken, armed, delivered, short, foreign, left>>
            /\ transfer' \in BOOLEAN
            /\ UNCHANGED at
  /\ UNCHANGED <<rsz, dangling, sent>>

TransferCompletes ==
  LET n == IF PacketSize < Len(rest) THEN PacketSize ELSE Len(rest) IN
  /\ rest # << >>
  /\ handle_fpc_event(SubSeq(rest, 1, n))
  /\ rest' = SubSeq(rest, n + 1, Len(rest))

TransferFails == handle_fpc_event(<< >>) /\ UNCHANGED rest

\* ev_device_to_conn, when the socket has room.  The event is persistent: once
\* added it stays, and the callback writes whatever the buffer holds.  Emptying
\* the buffer frees the space that the transfer writes to.
ev_device_to_conn ==
  /\ at = "dispatch" /\ ~broken /\ armed /\ buffer # << >>
  /\ \E k \in 1 .. Len(buffer) : WriteAndDrain(buffer, k)
  /\ dangling' = (dangling \/ (transfer /\ buffer' = << >>))
  /\ UNCHANGED <<loop, rsz, transfer, armed, sent, rest, foreign>>

\* ev_host_to_device_cb: three records of known length, and no more.
ev_host_to_device_cb ==
  /\ at = "dispatch" /\ ~broken
  /\ \/ /\ rsz # 9
        /\ rsz' = CASE rsz = 0 -> 64 [] rsz = 64 -> 15 [] rsz = 15 -> 9
        /\ UNCHANGED at
     \/ at' = "ended" /\ UNCHANGED rsz
  /\ UNCHANGED <<stage, broken, transfer, buffer, armed, dangling, sent, rest,
                 delivered, short, foreign, left>>

------------------------------------------------------------------------------
(* main.                                                                     *)

StageSwitch ==
  /\ at \in {"init", "loop"}
  /\ at' = IF stage = "initial" THEN "dispatch" ELSE "get_tls_key"
  /\ stage' = "initial"
  /\ broken' = IF stage = "initial" THEN FALSE ELSE broken
  /\ UNCHANGED <<rsz, transfer, buffer, armed, dangling, sent, rest, delivered,
                 short, foreign, left>>

DispatchReturns ==
  /\ at = "dispatch" /\ broken
  /\ at' = "loop"
  /\ UNCHANGED <<stage, broken, rsz, transfer, buffer, armed, dangling, sent, rest,
                 delivered, short, foreign, left>>

\* fpc_get_tls_key aborts on any error, waits for cmd_tls_init without a
\* time-out, and returns no value: main may take what it finds for -1.
GetTlsKeyReturns ==
  /\ at = "get_tls_key"
  /\ at' \in {"loop", "ended", "hung"}
  /\ UNCHANGED <<stage, broken, rsz, transfer, buffer, armed, dangling, sent, rest,
                 delivered, short, foreign, left>>

FpcInit ==
  /\ at = "init" /\ stage = "initial" /\ broken = FALSE /\ rsz = 0
  /\ transfer = TRUE /\ buffer = << >> /\ armed = FALSE /\ dangling = FALSE
  /\ sent = << >> /\ rest = << >> /\ delivered = << >>
  /\ short = FALSE /\ foreign = FALSE /\ left = FALSE

Main == StageSwitch \/ DispatchReturns \/ GetTlsKeyReturns

FpcNext ==
  \/ Main
  \/ TransferCompletes \/ TransferFails
  \/ ev_device_to_conn \/ ev_host_to_device_cb
  \/ DeviceSends

FpcSpec == FpcInit /\ [][FpcNext]_fpcVars

\* The loop goes on, and the TLS server reads what it is sent.
FpcFairSpec == FpcSpec /\ WF_fpcVars(Main) /\ WF_fpcVars(ev_device_to_conn)

------------------------------------------------------------------------------
\* The TLS data of the first n events.
TlsData(n) ==
  FlattenSeq([j \in 1 .. n |->
    IF sent[j].code = "ev_tls" THEN [i \in 1 .. sent[j].size |-> Unit(j, i)] ELSE << >>])

(* The relay is faithful: the TLS server has received the data of exactly    *)
(* the TLS events that are complete, in order and without their headers, and *)
(* the buffer of handle_fpc_event holds exactly what has come of the next    *)
(* event; this through failed and split transfers and a key fetched in the   *)
(* middle, unless the socket was full once or an event came that the switch  *)
(* leaves in the buffer.                                                     *)
RelayFaithful ==
  ~short /\ ~foreign /\ at # "crashed" =>
    LET n == IF rest = << >> THEN Len(sent) ELSE Len(sent) - 1 IN
    /\ delivered = TlsData(n)
    /\ buffer \o rest = IF rest = << >> THEN << >>
                        ELSE [i \in 1 .. sent[n + 1].size + 1 |-> Unit(n + 1, i - 1)]

(* What the socket did not take does not stay in bulk_buffer: the event on   *)
(* the socket is armed for it, and its callback comes back until nothing is  *)
(* left, unless the program ends or hangs in cmd_tls_init.                   *)
LeftoverGoes == left ~> ~left \/ Ended

==============================================================================
