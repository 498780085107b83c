------------------------------- MODULE MCAcpPci -------------------------------
(* AcpPci with the three platform devices of acp6x.h for TLC.                *)
EXTENDS AcpPci

===============================================================================
