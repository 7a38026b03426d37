---------------------------- MODULE ProviderInput ----------------------------
(***************************************************************************)
(* What of a transcript goes to a provider: toOpenAIInput and              *)
(* toAnthropicMessages, as far as turns, tool calls and their outputs are  *)
(* concerned.  Contents are left out, and so is an assistant message that  *)
(* has nothing but text.                                                   *)
(***************************************************************************)
EXTENDS MessageSequence

Ext == INSTANCE SequencesExt

Turn == [kind |-> "turn"]
Call(id) == [kind |-> "call", id |-> id]
Output(id) == [kind |-> "output", id |-> id]

CallItems(calls) == [j \in DOMAIN calls |-> Call(calls[j].id)]

\* Faulty variant: the calls of every message are replayed.
OpenAIItemsOfAll(m) ==
    IF m.role = "user" THEN <<Turn>>
    ELSE IF IsResult(m) THEN <<Output(m.id)>> ELSE CallItems(m.calls)

\* The OpenAI provider replays calls only of a message that stopped for them.
OpenAIItems(m) ==
    IF m.role = "user" THEN <<Turn>>
    ELSE IF IsResult(m) THEN <<Output(m.id)>>
    ELSE IF m.stop = "toolUse" THEN CallItems(m.calls) ELSE <<>>

\* The Anthropic provider replays whatever calls a message has.
AnthropicItems(m) ==
    IF m.role = "user" THEN <<Turn>>
    ELSE IF IsResult(m) THEN <<Output(m.id)>> ELSE CallItems(m.calls)

Items(api, messages) ==
    Ext!FlattenSeq([k \in DOMAIN messages |->
        IF api = "openai" THEN OpenAIItems(messages[k]) ELSE AnthropicItems(messages[k])])

\* Item i is the call that item j answers: nothing but other calls and their
\* outputs stands between them.
Answered(items, i, j) ==
    /\ i < j
    /\ items[i].kind = "call" /\ items[j] = Output(items[i].id)
    /\ \A k \in (i + 1)..(j - 1) :
        items[k].kind # "turn" /\ items[k] \notin {items[i], items[j]}

\* Every call has its output and every output its call.
Matched(items) ==
    /\ \A i \in DOMAIN items :
        items[i].kind = "call" => \E j \in DOMAIN items : Answered(items, i, j)
    /\ \A j \in DOMAIN items :
        items[j].kind = "output" => \E i \in DOMAIN items : Answered(items, i, j)

=============================================================================
