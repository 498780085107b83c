------------------------------- MODULE MCPdmDma -------------------------------
(* PdmDma has no parameters: one capture device with one stream.             *)
EXTENDS PdmDma

===============================================================================
