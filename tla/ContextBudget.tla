---------------------------- MODULE ContextBudget ----------------------------
(***************************************************************************)
(* How full a context is (compaction.go): the estimate of a request's      *)
(* tokens from its bytes, what remains of the model's limits, and when     *)
(* that calls for a compaction.  Limits of 0 are unknown.                  *)
(***************************************************************************)
EXTENDS Integers, Sequences

\* The loops that add up sizes.
Total(sizes) ==
    LET sum[k \in 0..Len(sizes)] == IF k = 0 THEN 0 ELSE sum[k - 1] + sizes[k]
    IN  sum[Len(sizes)]

\* A message is the bytes of its ids and names and those of each of its content
\* blocks; messages and blocks have a frame of fixed size.
MessageBytes(message) ==
    24 + message.names + Total([k \in DOMAIN message.blocks |-> 12 + message.blocks[k]])

\* estimateRequestTokens: fixed is what the prompt and the tools take.
EstimateTokens(fixed, messages) ==
    (fixed + 32 + Total([k \in DOMAIN messages |-> MessageBytes(messages[k])]) + 1) \div 2

\* defaultCompactionTriggerFraction of a limit, as the float product truncates
\* to an int (exact for limits below 2^50).
TriggerOf(limit) == (4 * limit) \div 5

\* Faulty variant: the reserved output is not counted.
ShouldCompactUnreserved(hook, model, input, reserve) ==
    /\ hook
    /\ \/ model.window > 0 /\ input >= TriggerOf(model.window)
       \/ model.maxInput > 0 /\ input >= TriggerOf(model.maxInput)

\* shouldCompact
ShouldCompact(hook, model, input, reserve) ==
    /\ hook
    /\ \/ model.window > 0 /\ input + reserve >= TriggerOf(model.window)
       \/ model.maxInput > 0 /\ input >= TriggerOf(model.maxInput)

\* ContextUsage.Remaining: what each known limit leaves, the least of them.
Left(model, input, reserve) ==
    (IF model.window > 0 THEN {model.window - input - reserve} ELSE {})
        \cup (IF model.maxInput > 0 THEN {model.maxInput - input} ELSE {})

Remaining(model, input, reserve) ==
    LET left == Left(model, input, reserve)
    IN  IF left = {} THEN 0 ELSE CHOOSE r \in left : \A other \in left : r <= other

=============================================================================
