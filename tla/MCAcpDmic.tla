------------------------------- MODULE MCAcpDmic ------------------------------
(* AcpDmic for TLC.                                                          *)
EXTENDS AcpDmic
==============================================================================
