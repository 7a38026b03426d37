--------------------------- MODULE MCLoopDelivery ---------------------------
(***************************************************************************)
(* LoopDelivery on the instances of MCAgentLoop.                           *)
(***************************************************************************)
EXTENDS LoopDelivery, MCAgentLoop
=============================================================================
