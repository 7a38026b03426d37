---------------------------- MODULE StreamContract ----------------------------
(***************************************************************************)
(* What a provider's stream promises the loop that reads it (stream.go):   *)
(* one StreamStart, then parts, each kind of block announced before its    *)
(* deltas, then exactly one StreamDone or StreamError, and a Result that   *)
(* is the message of that last event.  There is no goroutine, no channel   *)
(* and no wire here.  A request that fails before it is sent may say so    *)
(* with its StreamError alone (erroredStream, provider.go).                *)
(*                                                                         *)
(* A message keeps its stop reason and the indexes of its tool calls.      *)
(***************************************************************************)
EXTENDS Naturals, Sequences

CONSTANT Indexes        \* the content indexes of a message

VARIABLES
    heard,      \* the events a consumer has received
    answer      \* what Result has returned to it

vars == <<heard, answer>>

Failures == {"error", "contextWindow", "aborted"}
StopReasons == {"stop", "length", "toolUse"} \cup Failures

Message == [stop : StopReasons, calls : SUBSET Indexes]
NoMessage == [stop |-> "none", calls |-> {}]

StreamStart == [kind |-> "StreamStart"]
Part(kind, i) == [kind |-> kind, at |-> i]
StreamDone(m) == [kind |-> "StreamDone", message |-> m]
StreamError(m) == [kind |-> "StreamError", message |-> m]

\* The kinds of blocks whose deltas follow a start of their own.
Announced == {"Text", "ToolCall"}
StartOf(block) == IF block = "Text" THEN "TextStart" ELSE "ToolCallStart"
DeltaOf(block) == IF block = "Text" THEN "TextDelta" ELSE "ToolCallDelta"

Parts == [kind : {StartOf(block) : block \in Announced} \cup {DeltaOf(block) : block \in Announced}
                    \cup {"ThinkingDelta"},
          at : Indexes]
Terminals == {StreamDone(m) : m \in Message} \cup {StreamError(m) : m \in Message}
StreamEvent == {StreamStart} \cup Parts \cup Terminals

IsTerminal(e) == e.kind \in {"StreamDone", "StreamError"}

\* A failure ends in StreamError, anything else in StreamDone.
Honest(e) == (e.kind = "StreamError") = (e.message.stop \in Failures)

\* e may come after the events of past.
MayFollow(past, e) ==
    /\ \A k \in DOMAIN past : ~IsTerminal(past[k])
    /\ e.kind = "StreamStart" <=> past = <<>> /\ ~IsTerminal(e)
    /\ IsTerminal(e) => Honest(e) /\ (past = <<>> => e.kind = "StreamError")
    /\ \A block \in Announced : e.kind = DeltaOf(block) =>
           \E k \in DOMAIN past : past[k].kind = StartOf(block) /\ past[k].at = e.at

Init == heard = <<>> /\ answer = NoMessage

Hear(e) ==
    /\ MayFollow(heard, e)
    /\ heard' = Append(heard, e)
    /\ UNCHANGED answer

Conclude ==
    /\ answer = NoMessage
    /\ \E k \in DOMAIN heard : IsTerminal(heard[k]) /\ answer' = heard[k].message
    /\ UNCHANGED heard

Next == Conclude \/ \E e \in StreamEvent : Hear(e)

Spec == Init /\ [][Next]_vars

=============================================================================
