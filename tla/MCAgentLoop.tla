----------------------------- MODULE MCAgentLoop -----------------------------
(***************************************************************************)
(* Instances of AgentLoop for TLC: batches of one and two calls, so that   *)
(* order, overlap and a batch cut in the middle can be seen, and contexts  *)
(* of a few messages around the compaction trigger.                        *)
(***************************************************************************)
EXTENDS AgentLoop

first  == [id |-> "a", name |-> "read"]
second == [id |-> "b", name |-> "read"]
writing == [id |-> "c", name |-> "write"]

OneCall == {<<first>>}
TwoCalls == {<<first, second>>}
\* write is a sequential tool: the second batch runs one call at a time.
EitherBatch == {<<first, second>>, <<first, writing>>}

\* A new session, and one that a run left with its step budget used up.
Fresh == {<<>>}
FreshOrResumed ==
    {<<>>, <<User(0), Assistant("toolUse", <<first>>), ResultFor(first)>>}
Long == {<<User(0), Assistant("stop", <<>>), User(0), Assistant("stop", <<>>)>>}

\* A summary, nothing, a stray result, and something that is too long.
HookReplacements ==
    {<<User(0)>>, <<>>, <<ResultFor(first)>>,
     <<User(0), User(0), User(0), User(0), User(0), User(0), User(0)>>}

NoReplacements == {}
NoTools == {}
=============================================================================
