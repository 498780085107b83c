------------------------------ MODULE MCRedmiWmi ------------------------------
(* RedmiWmi for TLC with two workers, two keys that can be pulsed at once,   *)
(* an unknown code, and one object for each check that notify makes.         *)
EXTENDS RedmiWmi

Object(code) == [buffer |-> TRUE, length |-> 32, magic |-> 1, code |-> code]

MCObjects ==
  {Object(7), Object(1), Object(99)} \cup
  {[Object(7) EXCEPT !.buffer = FALSE], [Object(7) EXCEPT !.length = 31],
   [Object(7) EXCEPT !.magic = 0]}

===============================================================================
