------------------------------ MODULE PdmPointer ------------------------------
(***************************************************************************)
(* The position of a capture stream, acp6x_pdm_dma_pointer of              *)
(* acp6x-pdm-dma.c.  The hardware counts the bytes it has written in a     *)
(* 64-bit counter, read as two 32-bit registers, high word first, while    *)
(* it counts on.  The driver notes the count when the stream starts,       *)
(* subtracts it later, and reduces the difference modulo the buffer size.  *)
(*                                                                         *)
(* Word stands for 2^32, so that the carry into the high word comes within *)
(* reach (at 384000 bytes a second it takes three hours).                  *)
(***************************************************************************)
EXTENDS Naturals

CONSTANTS Word, BufferSize, MaxCount

ASSUME SizesAssumption ==
  Word \in Nat \ {0} /\ BufferSize \in Nat \ {0} /\ MaxCount \in Nat

VARIABLES
  count,       \* the hardware counter
  engine,      \* the DMA engine writes and counts
  running,     \* the stream runs, and the ALSA core asks for its position
  bytescount,  \* rtd->bytescount
  op,          \* the callback that reads the counter: none, trigger or pointer
  high,        \* the high word it has read
  pos,         \* the position last returned by pointer, in bytes
  \* History variables.
  began,       \* the counter when the engine was last started
  late         \* the stream started on an engine that had not stopped yet, or
               \* that stopped only after a carry between the two reads

pointerVars == <<count, engine, running, bytescount, op, high, pos, began, late>>

------------------------------------------------------------------------------
HighWord(c) == c \div Word
LowWord(c)  == c % Word

\* A union whose two words have changed places.
BadJoin(h, l) == l * Word + h

\* union acp_pdm_dma_count
Join(h, l) == h * Word + l

\* What acp6x_pdm_get_byte_count returns if the second read is made now.
ByteCount == Join(high, LowWord(count))

\* A carry came between the two reads.
Torn == HighWord(count) # high

\* The count of a driver that forgets where the stream began.
BadElapsed(b) == b

\* A count equal to rtd->bytescount, before the first byte has arrived, is
\* left as it is.
Elapsed(b) == IF b > bytescount THEN b - bytescount ELSE b

\* do_div(bytescount, buffersize)
Position(b) == Elapsed(b) % BufferSize

\* Where in the ring the engine writes next; it starts at 0.
RingPosition == (count - began) % BufferSize

------------------------------------------------------------------------------
(* The hardware.                                                             *)

\* The engine has written a byte.  Two reads of the driver are never so far
\* apart that a second carry comes between them.
Count ==
  /\ engine
  /\ count < MaxCount
  /\ op = "none" \/ HighWord(count + 1) <= high + 1
  /\ count' = count + 1
  /\ UNCHANGED <<engine, running, bytescount, op, high, pos, began, late>>

\* The late answer of an engine to a request to start or to stop that timed
\* out, whenever that was.
LateAnswer ==
  /\ ~running
  /\ engine' = ~engine
  /\ engine' => op = "none"
  /\ began' = IF engine' THEN count ELSE began
  /\ UNCHANGED <<count, running, bytescount, op, high, pos, late>>

\* The reset of the coprocessor by runtime or system sleep.
Reset ==
  /\ ~running /\ op = "none"
  /\ count' = 0 /\ began' = 0
  /\ engine' = FALSE
  /\ UNCHANGED <<running, bytescount, op, high, pos, late>>

------------------------------------------------------------------------------
(* The callbacks; the stream lock keeps them apart.                          *)

\* acp6x_pdm_get_byte_count, the first read: for acp6x_pdm_dai_trigger, or for
\* acp6x_pdm_dma_pointer of a stream that runs.
ReadHigh(who) ==
  /\ op = "none"
  /\ who = "trigger" <=> ~running
  /\ op' = who
  /\ high' = HighWord(count)
  /\ UNCHANGED <<count, engine, running, bytescount, pos, began, late>>

\* The second read in acp6x_pdm_dai_trigger, which then starts the engine
\* unless it is on.
TriggerStart ==
  /\ op = "trigger"
  /\ bytescount' = ByteCount
  /\ op' = "none"
  /\ late' = (engine \/ Torn)
  /\ began' = IF engine THEN began ELSE count
  /\ running' = TRUE /\ engine' = TRUE
  /\ UNCHANGED <<count, high, pos>>

\* The start timed out, and the stream stays where it was.
TriggerStartFails ==
  /\ op = "trigger" /\ ~engine
  /\ bytescount' = ByteCount
  /\ op' = "none"
  /\ UNCHANGED <<count, engine, running, high, pos, began, late>>

\* The second read in acp6x_pdm_dma_pointer, and the result.
Pointer ==
  /\ op = "pointer"
  /\ pos' = Position(ByteCount)
  /\ op' = "none"
  /\ UNCHANGED <<count, engine, running, bytescount, high, began, late>>

\* TRIGGER_STOP and its variants; the engine may be slow to stop.
TriggerStop ==
  /\ op = "none" /\ running
  /\ running' = FALSE
  /\ engine' \in BOOLEAN
  /\ UNCHANGED <<count, bytescount, op, high, pos, began, late>>

------------------------------------------------------------------------------
PointerInit ==
  /\ count = 0 /\ engine = FALSE /\ running = FALSE
  /\ bytescount = 0 /\ op = "none" /\ high = 0 /\ pos = 0
  /\ began = 0 /\ late = FALSE

PointerNext ==
  \/ Count \/ LateAnswer \/ Reset
  \/ \E who \in {"trigger", "pointer"} : ReadHigh(who)
  \/ TriggerStart \/ TriggerStartFails \/ Pointer \/ TriggerStop

PointerSpec == PointerInit /\ [][PointerNext]_pointerVars

------------------------------------------------------------------------------
(* acp6x_pdm_dma_pointer returns exactly where the engine writes, through    *)
(* any number of stops, restarts and resets, if the two words belong         *)
(* together, the first byte of the run has arrived, and the engine of an     *)
(* earlier run, whose stop had timed out, did not disturb the count that the *)
(* start noted.                                                              *)
PositionExact ==
  [][Pointer /\ ~Torn /\ ~late /\ ByteCount # bytescount => pos' = RingPosition]_pointerVars

(* A torn read is one Word short of the truth.  That does no harm if the     *)
(* buffer size divides Word, unless the stream began less than a Word ago    *)
(* and the count falls back to or behind its beginning.                      *)
TornReadHarmless ==
  [][Pointer /\ Torn =>
       /\ ByteCount <= count /\ count - ByteCount = Word
       /\ Word % BufferSize = 0 /\ ~late /\ ByteCount > bytescount =>
            pos' = RingPosition]_pointerVars

==============================================================================
