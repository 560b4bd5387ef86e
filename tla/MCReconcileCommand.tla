------------------------- MODULE MCReconcileCommand -------------------------
(* ReconcileCommand with three polls, a blockhash that lives for one block *)
(* and a purse that can pay.                                               *)
EXTENDS ReconcileCommand

MCPurses == 0..2
MCBounds == {0, 2}
=============================================================================
