---------------------------- MODULE ProviderStream ----------------------------
(***************************************************************************)
(* One request to a provider: registry.Stream (provider.go), the goroutine *)
(* of provider_openai.go or provider_anthropic.go that reads the wire and  *)
(* fills the pipe, and streamTurn (loop.go) that empties it.  The api of   *)
(* the request's model decides which of the two providers it is.           *)
(*                                                                         *)
(* The goroutine's step handles one wire event; the stream events it emits *)
(* wait in out for their place in the channel, one at a time.  The wire is *)
(* modelled from how the SDKs hand it over: blocks begin, grow and become  *)
(* whole; a server ends a message of its own accord, or calls tools, only  *)
(* when every block is whole, and may break off at any time.               *)
(***************************************************************************)
EXTENDS ModelLimits

LOCAL INSTANCE Functions

CONSTANTS
    Requests,       \* what the loop may ask for
    Cap,            \* capacity of pipeStream.events
    MaxBlocks,      \* bound: content blocks of a message
    MaxDeltas       \* bound: wire events that only carry a delta

ASSUME RequestsAssumption ==
    \A r \in Requests :
        /\ r.model.api \in {OpenAIResponses, AnthropicMessages}
        /\ r.model.reasoning \in BOOLEAN
        /\ r.model.maxOutput \in Nat
        /\ r.maxTokens \in Int
        /\ r.translatable \in BOOLEAN
ASSUME PipeAssumption ==
    Cap \in Nat \ {0} /\ MaxBlocks \in Nat /\ MaxDeltas \in Nat

VARIABLES
    \* --- the provider's goroutine ---
    request,        \* model, maxTokens, reasoning, and whether its content can be translated
    pc,             \* where the goroutine stands
    out,            \* stream events it has still to send
    chan,           \* pipeStream.events
    final,          \* pipeStream.final
    \* --- the wire ---
    blocks,         \* the content blocks begun, by kind
    whole,          \* the indexes of those the server has sent to their end
    announced,      \* textStarted and seenTool: indexes whose start was emitted
    deltas,         \* delta events so far
    tail,           \* the stop reason an Anthropic message has announced
    \* --- the consumer ---
    ctxDone,        \* the run's context is cancelled
    cpc,            \* where the consumer stands
    heard,          \* the events it has received
    answer          \* what Result gave it

wire     == <<blocks, whole, announced, deltas, tail>>
consumer == <<ctxDone, cpc, heard, answer>>
vars     == <<request, pc, out, chan, final, wire, consumer>>

Indexes == 1..MaxBlocks
Contract == INSTANCE StreamContract

BlockKinds == {"text", "thinking", "call", "unnamed"}
Tails == {"", "end_turn", "tool_use", "max_tokens", "window"}

TypeOK ==
    /\ request \in Requests
    /\ pc \in {"call", "prepare", "reading", "ending", "closing", "done"}
    /\ out \in Seq(Contract!StreamEvent)
    /\ chan \in Seq(Contract!StreamEvent) /\ Len(chan) <= Cap
    /\ final \in Contract!Message \cup {Contract!NoMessage}
    /\ blocks \in Seq(BlockKinds) /\ Len(blocks) <= MaxBlocks
    /\ whole \subseteq DOMAIN blocks
    /\ announced \subseteq DOMAIN blocks
    /\ deltas \in 0..MaxDeltas
    /\ tail \in Tails
    /\ ctxDone \in BOOLEAN
    /\ cpc \in {"ranging", "awaiting", "returned"}
    /\ heard \in Seq(Contract!StreamEvent)
    /\ answer \in Contract!Message \cup {Contract!NoMessage}

Init ==
    /\ request \in Requests
    /\ pc = "call"
    /\ out = <<>> /\ chan = <<>>
    /\ final = Contract!NoMessage
    /\ blocks = <<>> /\ whole = {} /\ announced = {} /\ deltas = 0
    /\ tail = ""
    /\ ctxDone = FALSE
    /\ cpc = "ranging"
    /\ heard = <<>> /\ answer = Contract!NoMessage

-----------------------------------------------------------------------------
(* The pipe.                                                                *)

\* pipeStream.emit: a send that waits for room and for nothing else.
Send ==
    /\ out # <<>>
    /\ Len(chan) < Cap
    /\ chan' = Append(chan, Head(out))
    /\ out' = Tail(out)
    /\ UNCHANGED <<request, pc, final, wire, consumer>>

\* pipeStream.finish, deferred by run: events is closed, then done.
CloseEvents ==
    /\ pc = "ending" /\ out = <<>>
    /\ pc' = "closing"
    /\ UNCHANGED <<request, out, chan, final, wire, consumer>>

CloseDone ==
    /\ pc = "closing"
    /\ pc' = "done"
    /\ UNCHANGED <<request, out, chan, final, wire, consumer>>

\* The goroutine emits events and goes on.
Emit(events) ==
    /\ out' = events
    /\ UNCHANGED <<request, pc, chan, final, consumer>>

Message(stop, calls) == [stop |-> stop, calls |-> calls]

\* It keeps the final message, emits its last event and returns.
Finish(m, event) ==
    /\ pc' = "ending"
    /\ final' = m
    /\ out' = <<event>>
    /\ UNCHANGED <<request, chan, wire, consumer>>

Fail(stop) == LET m == Message(stop, {}) IN Finish(m, Contract!StreamError(m))

-----------------------------------------------------------------------------
(* The call and what precedes the wire.                                     *)

Accepted(r) == Accepts(r.model, r.maxTokens, r.reasoning)
Refused(r) == Refuses(r.model, r.maxTokens, r.reasoning)
Speaks(api) == request.model.api = api

\* registry.Stream hands the request to the provider, whose goroutine starts.
Call ==
    /\ pc = "call"
    /\ Accepted(request)
    /\ pc' = "prepare"
    /\ out' = <<Contract!StreamStart>>
    /\ UNCHANGED <<request, chan, final, wire, consumer>>

\* erroredStream: an unacceptable request gets a stream that is over.
CallRefused ==
    /\ pc = "call"
    /\ ~Accepted(request)
    /\ pc' = "done"
    /\ final' = Message("error", {})
    /\ chan' = <<Contract!StreamError(final')>>
    /\ UNCHANGED <<request, out, wire, consumer>>

\* Translating and checking the request; only the OpenAI provider looks at the
\* context for the reason of a failure.
Prepare ==
    /\ pc = "prepare" /\ out = <<>>
    /\ IF request.translatable /\ ~Refused(request)
          THEN pc' = "reading" /\ UNCHANGED <<request, out, chan, final, wire, consumer>>
          ELSE Fail(IF ctxDone /\ Speaks(OpenAIResponses) THEN "aborted" ELSE "error")

-----------------------------------------------------------------------------
(* What both servers do.                                                    *)

Reading(api) == pc = "reading" /\ out = <<>> /\ Speaks(api)

CallsOf == {i \in DOMAIN blocks : blocks[i] = "call"}

Begins(kind) ==
    /\ Len(blocks) < MaxBlocks
    /\ blocks' = Append(blocks, kind)

Grows(i, kind) ==
    /\ i \in DOMAIN blocks \ whole
    /\ blocks[i] = kind
    /\ deltas < MaxDeltas
    /\ deltas' = deltas + 1

\* The end of a block, which neither provider passes on.
BlockEnds(i) ==
    /\ pc = "reading" /\ out = <<>>
    /\ i \in DOMAIN blocks \ whole
    /\ whole' = whole \cup {i}
    /\ UNCHANGED <<request, pc, out, chan, final, blocks, announced, deltas, tail, consumer>>

\* The SDK reports an error: a broken connection, a refused request or, once
\* the context is cancelled, that.
WireBreaks(overflow) ==
    /\ pc = "reading" /\ out = <<>>
    /\ Fail(IF ctxDone THEN "aborted" ELSE IF overflow THEN "contextWindow" ELSE "error")

-----------------------------------------------------------------------------
(* OpenAI Responses.                                                        *)

\* An item that no event has told of: the last response lists it all the same.
OpenAIItem(kind) ==
    /\ Reading(OpenAIResponses)
    /\ Begins(kind)
    /\ UNCHANGED <<request, pc, out, chan, final, whole, announced, deltas, tail, consumer>>

\* A text or refusal delta; the first of an item emits its start as well.
OpenAIText(i) ==
    /\ Reading(OpenAIResponses)
    /\ Grows(i, "text")
    /\ announced' = announced \cup {i}
    /\ Emit((IF i \in announced THEN <<>> ELSE <<Contract!Part("TextStart", i)>>)
            \o <<Contract!Part("TextDelta", i)>>)
    /\ UNCHANGED <<blocks, whole, tail>>

OpenAIThinking(i) ==
    /\ Reading(OpenAIResponses)
    /\ Grows(i, "thinking")
    /\ Emit(<<Contract!Part("ThinkingDelta", i)>>)
    /\ UNCHANGED <<blocks, whole, announced, tail>>

OpenAICallAdded ==
    /\ Reading(OpenAIResponses)
    /\ Begins("call")
    /\ announced' = announced \cup {Len(blocks')}
    /\ Emit(<<Contract!Part("ToolCallStart", Len(blocks'))>>)
    /\ UNCHANGED <<whole, deltas, tail>>

\* A call without an id ends the stream.
OpenAICallUnnamed ==
    /\ Reading(OpenAIResponses)
    /\ Fail(IF ctxDone THEN "aborted" ELSE "error")

\* Arguments are passed on only for a call that was announced.
OpenAIArguments(i) ==
    /\ Reading(OpenAIResponses)
    /\ Grows(i, "call")
    /\ Emit(IF i \in announced THEN <<Contract!Part("ToolCallDelta", i)>> ELSE <<>>)
    /\ UNCHANGED <<blocks, whole, announced, tail>>

\* Faulty variant: a call decides the stop reason before the status does.
AssembledStopByCall(status) ==
    IF CallsOf # {} THEN "toolUse"
    ELSE CASE status = "max_output_tokens" -> "length"
           [] status \in {"filtered", "failed"} -> "error"
           [] status = "cancelled" -> "aborted"
           [] status = "overflow" -> "contextWindow"
           [] OTHER -> "stop"

\* assembleResponse: a call without an id first, then the status of the
\* response, then whether it calls tools.
AssembledStop(status) ==
    IF "unnamed" \in Range(blocks) THEN "error"
    ELSE CASE status = "max_output_tokens" -> "length"
           [] status \in {"filtered", "failed"} -> "error"
           [] status = "cancelled" -> "aborted"
           [] status = "overflow" -> "contextWindow"
           [] OTHER -> IF CallsOf # {} THEN "toolUse" ELSE "stop"

\* response.completed, with its blocks whole unless its status is cancelled: the
\* message it makes decides which event is last.
OpenAICompleted(status) ==
    /\ Reading(OpenAIResponses)
    /\ status = "completed" => whole = DOMAIN blocks
    /\ LET m == Message(AssembledStop(status), CallsOf)
       IN  Finish(m, IF m.stop \in {"error", "aborted"} THEN Contract!StreamError(m)
                                                        ELSE Contract!StreamDone(m))

\* response.incomplete, whose status is never cancelled: only an error is looked for.
OpenAIIncomplete(status) ==
    /\ Reading(OpenAIResponses)
    /\ LET m == Message(AssembledStop(status), CallsOf)
       IN  Finish(m, IF m.stop = "error" THEN Contract!StreamError(m) ELSE Contract!StreamDone(m))

\* response.failed, whatever its status makes of the message.
OpenAIFailed(status) ==
    /\ Reading(OpenAIResponses)
    /\ LET m == Message(IF ctxDone THEN "aborted" ELSE AssembledStop(status), CallsOf)
       IN  Finish(m, Contract!StreamError(m))

\* The wire ends without a terminal event.
OpenAICut ==
    /\ Reading(OpenAIResponses)
    /\ Fail(IF ctxDone THEN "aborted" ELSE "error")

-----------------------------------------------------------------------------
(* Anthropic Messages.  Blocks come one after the other.                    *)

AnthropicBlock(kind) ==
    /\ Reading(AnthropicMessages)
    /\ tail = "" /\ whole = DOMAIN blocks
    /\ Begins(kind)
    /\ announced' = IF kind = "thinking" THEN announced ELSE announced \cup {Len(blocks')}
    /\ Emit(CASE kind = "text" -> <<Contract!Part("TextStart", Len(blocks'))>>
              [] kind = "call" -> <<Contract!Part("ToolCallStart", Len(blocks'))>>
              [] OTHER -> <<>>)
    /\ UNCHANGED <<whole, deltas, tail>>

AnthropicDelta(i) ==
    /\ Reading(AnthropicMessages)
    /\ \E kind \in {"text", "thinking", "call"} :
        /\ Grows(i, kind)
        /\ Emit(CASE kind = "text" -> <<Contract!Part("TextDelta", i)>>
                  [] kind = "call" -> <<Contract!Part("ToolCallDelta", i)>>
                  [] OTHER -> <<Contract!Part("ThinkingDelta", i)>>)
    /\ UNCHANGED <<blocks, whole, announced, tail>>

\* An event that Accumulate refuses is neither kept nor passed on, and nobody is
\* told.  Here it is a delta; a message whose stop reason is refused is one that is
\* cut off.  The start of a block is never refused here, since what the SDK makes
\* of the deltas after it is not for this code to say.
AnthropicSkips(i) ==
    /\ Reading(AnthropicMessages)
    /\ \E kind \in {"text", "thinking", "call"} : Grows(i, kind)
    /\ Emit(<<>>)
    /\ UNCHANGED <<blocks, whole, announced, tail>>

\* message_delta announces why the message stops.
AnthropicStops(why) ==
    /\ Reading(AnthropicMessages)
    /\ tail = ""
    /\ why \in {"end_turn", "tool_use"} => whole = DOMAIN blocks
    /\ why = "tool_use" => CallsOf # {}
    /\ tail' = why
    /\ UNCHANGED <<request, pc, out, chan, final, blocks, whole, announced, deltas, consumer>>

\* assembleAnthropicMessage: no stop reason at all is an ordinary stop.
AnthropicStop ==
    CASE tail = "tool_use" -> "toolUse"
      [] tail = "max_tokens" -> "length"
      [] tail = "window" -> "contextWindow"
      [] OTHER -> "stop"

\* Faulty variant: an overflow the server reports itself is no failure.
AnthropicTerminalEventOfErrors(m) ==
    IF m.stop \in {"error", "aborted"} THEN Contract!StreamError(m) ELSE Contract!StreamDone(m)

AnthropicTerminalEvent(m) ==
    IF m.stop \in Contract!Failures THEN Contract!StreamError(m) ELSE Contract!StreamDone(m)

\* The wire ends, after message_stop or cut off without an error.
AnthropicEnds ==
    /\ Reading(AnthropicMessages)
    /\ LET m == Message(AnthropicStop, CallsOf) IN Finish(m, AnthropicTerminalEvent(m))

-----------------------------------------------------------------------------
(* The consumer.                                                            *)

\* streamTurn ranges over the events, whatever becomes of its context: emit waits
\* for nothing else.  What it does with each event is AgentLoop's.
Receive ==
    /\ cpc = "ranging"
    /\ chan # <<>>
    /\ heard' = Append(heard, Head(chan))
    /\ chan' = Tail(chan)
    /\ UNCHANGED <<request, pc, out, final, wire, ctxDone, cpc, answer>>

\* Faulty variant: the loop stops reading once its context is cancelled.
RangeEndsOnCancel ==
    /\ cpc = "ranging"
    /\ ctxDone \/ (chan = <<>> /\ pc \in {"closing", "done"})
    /\ cpc' = "awaiting"
    /\ UNCHANGED <<request, pc, out, chan, final, wire, ctxDone, heard, answer>>

\* The channel is empty and closed.
RangeEnds ==
    /\ cpc = "ranging"
    /\ chan = <<>> /\ pc \in {"closing", "done"}
    /\ cpc' = "awaiting"
    /\ UNCHANGED <<request, pc, out, chan, final, wire, ctxDone, heard, answer>>

\* pipeStream.Result: waits for done.
Result ==
    /\ cpc = "awaiting"
    /\ pc = "done"
    /\ answer' = final
    /\ cpc' = "returned"
    /\ UNCHANGED <<request, pc, out, chan, final, wire, ctxDone, heard>>

Cancel ==
    /\ ~ctxDone
    /\ cpc # "returned"
    /\ ctxDone' = TRUE
    /\ UNCHANGED <<request, pc, out, chan, final, wire, cpc, heard, answer>>

-----------------------------------------------------------------------------

\* Steps of the goroutine that wait for nobody but the consumer's reading.
Produce == Call \/ CallRefused \/ Prepare \/ Send \/ CloseEvents \/ CloseDone

Consume == Receive \/ RangeEnds \/ Result

\* The ways in which a message may end.
WireEnds ==
    \/ \E overflow \in BOOLEAN : WireBreaks(overflow)
    \/ OpenAICallUnnamed \/ OpenAICut \/ AnthropicEnds
    \/ \E status \in {"completed", "cancelled"} : OpenAICompleted(status)
    \/ \E status \in {"max_output_tokens", "filtered"} : OpenAIIncomplete(status)
    \/ \E status \in {"failed", "overflow", "cancelled"} : OpenAIFailed(status)

WireGoesOn ==
    \/ \E kind \in BlockKinds : OpenAIItem(kind)
    \/ \E kind \in {"text", "thinking", "call"} : AnthropicBlock(kind)
    \/ OpenAICallAdded
    \/ \E i \in DOMAIN blocks :
        \/ BlockEnds(i)
        \/ OpenAIText(i) \/ OpenAIThinking(i) \/ OpenAIArguments(i)
        \/ AnthropicDelta(i) \/ AnthropicSkips(i)
    \/ \E why \in Tails \ {""} : AnthropicStops(why)

\* All is over.
Finished == cpc = "returned" /\ pc = "done" /\ UNCHANGED vars

Next == Produce \/ Consume \/ WireEnds \/ WireGoesOn \/ Cancel \/ Finished

Spec == Init /\ [][Next]_vars

(***************************************************************************)
(* Fairness.  The goroutine and its consumer are scheduled; nothing is     *)
(* asked of a server, but an SDK stream ends once its context is cancelled.*)
(* That the consumer goes on reading assumes more than scheduling: it      *)
(* passes events on itself, and waits while nobody reads those of the run  *)
(* (LoopDelivery.tla).                                                     *)
(***************************************************************************)
FairSpec ==
    /\ Spec
    /\ WF_vars(Produce)
    /\ WF_vars(Consume)
    /\ WF_vars(ctxDone /\ WireEnds)

-----------------------------------------------------------------------------
(* Properties.                                                              *)

\* The loop sees a stream that keeps the contract of stream.go, from either
\* provider, whatever the wire does and whenever the context is cancelled.
KeepsContract == Contract!Spec

\* A message that authorizes the execution of its calls carries none whose
\* arguments the server was still sending: streams that are cut, incomplete or
\* cancelled never stop for tool use.  That every piece was also kept is not said:
\* one that Accumulate refuses is skipped.
OnlyWholeCallsRun ==
    cpc = "returned" /\ answer.stop = "toolUse" => answer.calls # {} /\ answer.calls \subseteq whole

\* The checks of a model's options are made twice, by the registry and by the
\* provider with rules of its own: what the first lets through the second does
\* not refuse, so that New and Stream never accept options that cannot be used.
AcceptedOptionsServed == pc \notin {"call", "done"} => ~Refused(request)

\* Once the context is cancelled or the message is over, the consumer has its
\* result before long, as long as the events of the run are read.
StreamEnds == ctxDone \/ pc = "ending" ~> cpc = "returned"

=============================================================================
