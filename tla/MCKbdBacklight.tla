--------------------------- MODULE MCKbdBacklight ---------------------------
(* KbdBacklight with the requests 0..4 for TLC: every level, and one value   *)
(* beyond max_brightness.                                                    *)
EXTENDS KbdBacklight

MCRequests == 0 .. 4

=============================================================================
