------------------------------ MODULE MCPaging ------------------------------
(* Every int32 request of a machine whose integers have five bits.         *)
EXTENDS Paging
=============================================================================
