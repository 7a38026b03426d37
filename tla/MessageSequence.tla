--------------------------- MODULE MessageSequence ---------------------------
(***************************************************************************)
(* The shape of a conversation: which message sequences may be continued   *)
(* (validateContinuation, loop.go) and which may replace the transcript    *)
(* (validateMessageSequence, compaction.go).                               *)
(*                                                                         *)
(* A message keeps what the two functions look at: its role, for an        *)
(* assistant message the stop reason and the tool calls, for a tool result *)
(* the id and name it answers.  A call is a record of an id and a name,    *)
(* either of which may be "", as providers send them.                      *)
(***************************************************************************)
EXTENDS Naturals, Sequences

User(id) == [role |-> "user", id |-> id]
Assistant(stop, calls) == [role |-> "assistant", stop |-> stop, calls |-> calls]
ToolResult(id, name) == [role |-> "toolResult", id |-> id, name |-> name]

IsResult(m) == m.role = "toolResult"

\* A result may leave its name empty.
Answers(result, call) ==
    /\ result.id = call.id
    /\ result.name \in {"", call.name}

\* Every call has an id of its own and a name.
Identified(calls) ==
    \A j \in DOMAIN calls :
        /\ calls[j].id # "" /\ calls[j].name # ""
        /\ \A k \in 1..(j - 1) : calls[k].id # calls[j].id

\* The position of the last message that is no tool result, 0 if there is none.
LastNonResult(messages) ==
    LET others == {k \in DOMAIN messages : ~IsResult(messages[k])} \cup {0}
    IN  CHOOSE k \in others : \A j \in others : j <= k

\* Faulty variant: the names and order of the results are not looked at.
ValidContinuationCounting(messages) ==
    LET k == LastNonResult(messages) IN
    /\ 0 < k /\ k < Len(messages)
    /\ messages[k].role = "assistant"
    /\ Identified(messages[k].calls)
    /\ Len(messages) - k = Len(messages[k].calls)

\* validateContinuation: the transcript ends with one result for every call of
\* the assistant message before them, in the order of the calls.
ValidContinuation(messages) ==
    LET k == LastNonResult(messages) IN
    /\ 0 < k /\ k < Len(messages)
    /\ messages[k].role = "assistant"
    /\ LET calls == messages[k].calls IN
       /\ calls # <<>>
       /\ Len(messages) - k = Len(calls)
       /\ Identified(calls)
       /\ \A j \in DOMAIN calls : Answers(messages[k + j], calls[j])

\* The calls of the assistant message at i stop it for tool use and are
\* answered by the messages that follow it at once.
BatchAnswered(messages, i) ==
    LET calls == messages[i].calls IN
    /\ messages[i].stop = "toolUse"
    /\ i + Len(calls) <= Len(messages)
    /\ Identified(calls)
    /\ \A j \in DOMAIN calls :
        IsResult(messages[i + j]) /\ Answers(messages[i + j], calls[j])

\* Faulty variant: the scan goes on right after the assistant message.
ValidSequenceNotSkipping(messages) ==
    \A i \in DOMAIN messages :
        messages[i].role = "assistant" =>
            IF messages[i].calls = <<>> THEN messages[i].stop # "toolUse"
                                        ELSE BatchAnswered(messages, i)

\* validateMessageSequence: the scan from position i on, which jumps over the
\* results of a batch and so finds a stray result at its turn.
ValidSequence(messages) ==
    LET scan[i \in 1..(Len(messages) + 1)] ==
          IF i > Len(messages) THEN TRUE
          ELSE LET m == messages[i] IN
               IF m.role = "user" THEN scan[i + 1]
               ELSE IF IsResult(m) THEN FALSE
               ELSE IF m.calls = <<>> THEN m.stop # "toolUse" /\ scan[i + 1]
               ELSE BatchAnswered(messages, i) /\ scan[i + Len(m.calls) + 1]
    IN  scan[1]

-----------------------------------------------------------------------------
(* What the two functions are for, without a scan.                          *)

\* The message at i is the result of call number i - k of the message at k.
ResultOf(messages, i, k) ==
    /\ k < i
    /\ messages[k].role = "assistant"
    /\ i - k <= Len(messages[k].calls)
    /\ Answers(messages[i], messages[k].calls[i - k])

\* Every call is answered in its place and every result answers a call.
Paired(messages) ==
    \A i \in DOMAIN messages :
        CASE messages[i].role = "assistant" ->
                /\ (messages[i].stop = "toolUse") = (messages[i].calls # <<>>)
                /\ messages[i].calls # <<>> => BatchAnswered(messages, i)
          [] IsResult(messages[i]) ->
                \E k \in DOMAIN messages : ResultOf(messages, i, k)
          [] OTHER -> TRUE

=============================================================================
