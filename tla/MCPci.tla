-------------------------------- MODULE MCPci -------------------------------
(* A small instance of the enumeration.  Two entries fill the table, and   *)
(* the blocks malloc may return lie side by side, in any order.            *)
EXTENDS Pci
=============================================================================
