-------------------------------- MODULE Capture -------------------------------
(***************************************************************************)
(* What a capture device promises to the ALSA core, without saying how: an *)
(* engine writes samples to the buffer of a stream.  It is switched only   *)
(* on request, on before the stream runs and off before the stream stops   *)
(* running, and is never on without a buffer.  A device that has failed    *)
(* promises nothing about its engine until it recovers, which leaves the   *)
(* engine off; the states of the stream follow each other in the same      *)
(* order even then.                                                        *)
(***************************************************************************)
VARIABLES
  state,    \* of the stream
  moving,   \* a request to start or stop the stream is being served
  buffer,   \* the stream has a buffer
  writing,  \* the engine is on
  faulty    \* the device has failed and not recovered

vars == <<state, moving, buffer, writing, faulty>>

Halted == {"setup", "paused", "suspended"}

------------------------------------------------------------------------------
Open ==
  /\ state = "closed" /\ state' = "open"
  /\ UNCHANGED <<moving, buffer, writing, faulty>>

Close ==
  /\ state = "open" /\ state' = "closed"
  /\ UNCHANGED <<moving, buffer, writing, faulty>>

HwParams ==
  /\ state \in {"open", "setup"} /\ ~moving
  /\ state' = "setup" /\ buffer' = TRUE
  /\ UNCHANGED <<moving, writing, faulty>>

HwFree ==
  /\ state = "setup" /\ ~moving
  /\ state' = "open" /\ buffer' = FALSE
  /\ UNCHANGED <<moving, writing, faulty>>

Request ==
  /\ state \in Halted \cup {"running"} /\ ~moving
  /\ moving' = TRUE
  /\ (writing' = writing) \/ (faulty /\ writing' = FALSE)
  /\ UNCHANGED <<state, buffer, faulty>>

\* The engine is switched for a request; one that has failed, at any time.
Switch ==
  /\ (moving /\ buffer) \/ faulty
  /\ writing' = ~writing
  /\ UNCHANGED <<state, moving, buffer, faulty>>

Run ==
  /\ state \in Halted /\ state' = "running"
  /\ (moving /\ writing) \/ faulty
  /\ moving' = FALSE
  /\ UNCHANGED <<buffer, writing, faulty>>

\* Stop, pause, drop, and the system going to sleep and coming back.
Halt ==
  /\ state \in Halted \cup {"running"} /\ state' \in Halted
  /\ ~writing \/ faulty
  /\ moving' = FALSE
  /\ UNCHANGED <<buffer, writing, faulty>>

\* The request fails and the device with it, or a reset of the idle device does.
Fail ==
  /\ faulty' = TRUE
  /\ \/ UNCHANGED <<state, moving>>
     \/ moving /\ moving' = FALSE /\ state' \in Halted
  /\ UNCHANGED <<buffer, writing>>

Recover ==
  /\ state # "running" /\ ~moving
  /\ faulty' = FALSE /\ writing' = FALSE
  /\ UNCHANGED <<state, moving, buffer>>

Init == /\ state = "closed" /\ moving = FALSE /\ buffer = FALSE
        /\ writing = FALSE /\ faulty = FALSE

Next == \/ Open \/ HwParams \/ HwFree \/ Close
        \/ Request \/ Switch \/ Run \/ Halt
        \/ Fail \/ Recover

Spec == Init /\ [][Next]_vars

------------------------------------------------------------------------------
(* What the contract amounts to: a device that has not failed, and has no    *)
(* request to serve, has its engine on exactly while the stream runs, and    *)
(* the stream then has a buffer.                                             *)
EngineFollows ==
  ~moving /\ ~faulty => (writing <=> state = "running") /\ (writing => buffer)
==============================================================================
