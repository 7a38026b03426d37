----------------------------- MODULE MCNamespace -----------------------------
(***************************************************************************)
(* Instances of Namespace for TLC: a call and a discovery that share up to *)
(* two sessions, the second opened after the first was lost.               *)
(***************************************************************************)
EXTENDS Namespace

CONSTANTS caller, other
=============================================================================
