------------------------------ MODULE MCRtw89Ser ------------------------------
(* Rtw89Ser for TLC; the bound on errors is in the configuration.            *)
EXTENDS Rtw89Ser
==============================================================================
