--------------------------- MODULE MCDroidSession ---------------------------
(***************************************************************************)
(* Instances of DroidSession for TLC.  Queues, streams and the session     *)
(* channel hold one element, so that every operation that can block does   *)
(* (the queue holds two where its order matters); three prompts are one in *)
(* the worker's hands, one that fills the queue and one that waits for     *)
(* room.                                                                   *)
(***************************************************************************)
EXTENDS DroidSession, TLC

CONSTANTS p1, p2, p3

TwoPrompts == {p1, p2}
ThreePrompts == {p1, p2, p3}

StreamThenSend == (p1 :> "stream") @@ (p2 :> "send")
ExecuteStreamSend == (p1 :> "execute") @@ (p2 :> "stream") @@ (p3 :> "send")
ExecuteSendSend == (p1 :> "execute") @@ (p2 :> "send") @@ (p3 :> "send")
=============================================================================
