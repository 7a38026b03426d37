--------------------------- MODULE PromptService ---------------------------
(***************************************************************************)
(* What a Droid promises about the prompts handed to it, with no mutex, no *)
(* channel and no goroutine in sight: a prompt is accepted or refused; the *)
(* accepted ones run one at a time in the order they were accepted; Close  *)
(* lets the run in progress end, starts no other, and settles everything   *)
(* that was accepted and had not begun.  DroidSession.tla, which follows   *)
(* droid.go and loop.go, is shown to implement this module.                *)
(***************************************************************************)
EXTENDS Sequences

CONSTANT Prompts    \* calls of Send, Execute, Stream, Continue, ContinueStream

VARIABLES
    phase,      \* how far each prompt has come
    pending,    \* accepted prompts that have not begun, oldest first
    shut        \* "open", then "closing" from Close on, then "closed"

vars == <<phase, pending, shut>>

Phases == {"new", "refused", "pending", "running", "done", "discarded"}

TypeOK ==
    /\ phase \in [Prompts -> Phases]
    /\ pending \in Seq(Prompts)
    /\ shut \in {"open", "closing", "closed"}

Init ==
    /\ phase = [p \in Prompts |-> "new"]
    /\ pending = <<>>
    /\ shut = "open"

Accept(p) ==
    /\ phase[p] = "new"
    /\ shut # "closed"
    /\ phase' = [phase EXCEPT ![p] = "pending"]
    /\ pending' = Append(pending, p)
    /\ UNCHANGED shut

Refuse(p) ==
    /\ phase[p] = "new"
    /\ phase' = [phase EXCEPT ![p] = "refused"]
    /\ UNCHANGED <<pending, shut>>

Idle == \A p \in Prompts : phase[p] # "running"

Begin ==
    /\ shut = "open"
    /\ Idle
    /\ pending # <<>>
    /\ phase' = [phase EXCEPT ![Head(pending)] = "running"]
    /\ pending' = Tail(pending)
    /\ UNCHANGED shut

Finish(p) ==
    /\ phase[p] = "running"
    /\ phase' = [phase EXCEPT ![p] = "done"]
    /\ UNCHANGED <<pending, shut>>

BeginClose ==
    /\ shut = "open"
    /\ shut' = "closing"
    /\ UNCHANGED <<phase, pending>>

Discard ==
    /\ shut = "closing"
    /\ Idle
    /\ pending # <<>>
    /\ phase' = [phase EXCEPT ![Head(pending)] = "discarded"]
    /\ pending' = Tail(pending)
    /\ UNCHANGED shut

Halt ==
    /\ shut = "closing"
    /\ Idle
    /\ pending = <<>>
    /\ shut' = "closed"
    /\ UNCHANGED <<phase, pending>>

Next ==
    \/ \E p \in Prompts : Accept(p) \/ Refuse(p) \/ Finish(p)
    \/ Begin \/ BeginClose \/ Discard \/ Halt

Spec == Init /\ [][Next]_vars

=============================================================================
