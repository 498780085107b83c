------------------------------ MODULE MCFpcProto ------------------------------
(* FpcProto for TLC; the sizes are in the configuration.                     *)
EXTENDS FpcProto
==============================================================================
