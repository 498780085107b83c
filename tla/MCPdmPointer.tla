----------------------------- MODULE MCPdmPointer -----------------------------
(* PdmPointer with a counter of three words of eight bytes for TLC, and a    *)
(* buffer size that divides the word.                                        *)
EXTENDS PdmPointer

===============================================================================
