------------------------- MODULE ProviderStreamProofs -------------------------
(***************************************************************************)
(* What ProviderStream promises for every set of requests, every capacity  *)
(* of the pipe and every number of blocks and deltas.                      *)
(***************************************************************************)
EXTENDS ProviderStream, SequenceTheorems, TLAPS

USE DEF Contract!StreamStart, Contract!Part, Contract!StreamDone, Contract!StreamError

-----------------------------------------------------------------------------
(* Options.                                                                 *)

\* The budgets are the five of model.go, or none.
LEMMA BudgetIsNatural == ASSUME NEW level PROVE ReasoningTokenBudget(level) \in Nat
  BY DEF ReasoningTokenBudget

\* For every model and all integers, what resolveRequestMaxTokens lets through
\* the Anthropic provider's own check lets through too.
THEOREM AcceptedIsNotRefused ==
  ASSUME NEW model, model.reasoning \in BOOLEAN, model.maxOutput \in Nat,
         NEW requested \in Int, NEW level, Accepts(model, requested, level)
  PROVE  ~Refuses(model, requested, level)
<1> DEFINE budget == ReasoningTokenBudget(level)
<1>1. budget \in Nat
  BY BudgetIsNatural
<1>2. AnthropicAllowance(model, requested) = Allowance(model, requested)
  BY DEF Accepts, AnthropicAllowance, Allowance
<1>3. DefaultAllowance(model) \in Nat
  BY DEF DefaultAllowance, DefaultMaxTokens
<1>4. Allowance(model, requested) \in Int
  BY <1>3 DEF Allowance
<1>5. ASSUME model.api = AnthropicMessages, model.reasoning, budget > 0
      PROVE  Allowance(model, requested) > budget
  <2>1. Minimum(model, level) = budget + 1024
    BY <1>5 DEF Minimum
  <2>2. Allowance(model, requested) >= Minimum(model, level)
    BY DEF Accepts
  <2> QED
    BY <2>1, <2>2, <1>1, <1>4
<1>6. model.api = AnthropicMessages => AnthropicFits(model, requested, level)
  BY <1>2, <1>5 DEF AnthropicFits
<1> QED
  BY <1>6 DEF Accepts, Refuses

-----------------------------------------------------------------------------
(* Types.                                                                   *)

\* What a request is made of, and what its acceptance means for the provider.
LEMMA RequestIsServed ==
  ASSUME NEW r \in Requests, Accepted(r)
  PROVE  ~Refused(r)
  BY AcceptedIsNotRefused, RequestsAssumption DEF Accepted, Refused

\* The events of the contract, by the way they are made.
LEMMA EventsAreTyped ==
  /\ Contract!StreamStart \in Contract!StreamEvent
  /\ \A i \in Indexes :
       \A kind \in {"TextStart", "TextDelta", "ToolCallStart", "ToolCallDelta", "ThinkingDelta"} :
         Contract!Part(kind, i) \in Contract!StreamEvent
  /\ \A m \in Contract!Message :
       Contract!StreamDone(m) \in Contract!StreamEvent /\ Contract!StreamError(m) \in Contract!StreamEvent
<1>1. Contract!StreamStart \in Contract!StreamEvent
  BY DEF Contract!StreamEvent
<1>2. ASSUME NEW i \in Indexes,
             NEW kind \in {"TextStart", "TextDelta", "ToolCallStart", "ToolCallDelta", "ThinkingDelta"}
      PROVE  Contract!Part(kind, i) \in Contract!StreamEvent
  <2>1. kind \in {Contract!StartOf(block) : block \in Contract!Announced}
                 \cup {Contract!DeltaOf(block) : block \in Contract!Announced} \cup {"ThinkingDelta"}
    BY <1>2 DEF Contract!StartOf, Contract!DeltaOf, Contract!Announced
  <2>2. Contract!Part(kind, i) \in Contract!Parts
    BY <2>1 DEF Contract!Parts
  <2> QED
    BY <2>2 DEF Contract!StreamEvent
<1>3. ASSUME NEW m \in Contract!Message
      PROVE  Contract!StreamDone(m) \in Contract!StreamEvent /\ Contract!StreamError(m) \in Contract!StreamEvent
  BY DEF Contract!StreamEvent, Contract!Terminals
<1> QED
  BY <1>1, <1>2, <1>3

\* The message a stream ends with, and its last event.
Ending(m, e) ==
  /\ m \in Contract!Message
  /\ e \in {Contract!StreamDone(m), Contract!StreamError(m)}
  /\ Contract!Honest(e)
  /\ m.stop = "toolUse" => m.calls # {} /\ m.calls \subseteq whole

\* The calls of a message are indexes of its blocks.
LEMMA CallsAreIndexes == ASSUME TypeOK PROVE CallsOf \in SUBSET Indexes /\ CallsOf \subseteq DOMAIN blocks
<1>1. DOMAIN blocks = 1..Len(blocks) /\ Len(blocks) \in Nat
  BY DEF TypeOK
<1> QED
  BY <1>1, PipeAssumption DEF TypeOK, Indexes, CallsOf

\* A failure has no calls and one of the reasons that are failures.
LEMMA FailIsEnding ==
  ASSUME NEW stop \in Contract!Failures, Fail(stop)
  PROVE  \E m, e : Finish(m, e) /\ Ending(m, e)
<1> DEFINE m == Message(stop, {})
<1>1. m \in Contract!Message /\ m.stop = stop
  BY DEF Message, Contract!Message, Contract!StopReasons
<1>2. stop # "toolUse"
  BY DEF Contract!Failures
<1>3. Contract!Honest(Contract!StreamError(m))
  BY <1>1 DEF Contract!Honest
<1>4. Ending(m, Contract!StreamError(m))
  BY <1>1, <1>2, <1>3 DEF Ending
<1>5. Finish(m, Contract!StreamError(m))
  BY DEF Fail
<1> QED
  BY <1>4, <1>5

\* What keeps a message from stopping for tool use before its calls are whole.
TailIsEarned ==
  /\ tail # "" => Speaks(AnthropicMessages)
  /\ tail = "tool_use" => whole = DOMAIN blocks /\ CallsOf # {}

\* The reasons a response assembles to, and when they are those of tool use.
LEMMA AssembledStopIs ==
  ASSUME NEW status
  PROVE  /\ AssembledStop(status) \in Contract!StopReasons
         /\ AssembledStop(status) = "toolUse" =>
              /\ status \notin {"max_output_tokens", "filtered", "failed", "cancelled", "overflow"}
              /\ CallsOf # {}
  BY DEF AssembledStop, Contract!StopReasons, Contract!Failures

\* The reasons an Anthropic message ends with, and when it is that of tool use.
LEMMA AnthropicStopIs ==
  /\ AnthropicStop \in Contract!StopReasons
  /\ AnthropicStop = "toolUse" => tail = "tool_use"
  BY DEF AnthropicStop, Contract!StopReasons, Contract!Failures

\* The message of a stop reason and the calls seen so far.
LEMMA MessageIsTyped ==
  ASSUME TypeOK, NEW stop \in Contract!StopReasons
  PROVE  Message(stop, CallsOf) \in Contract!Message
  BY CallsAreIndexes DEF Message, Contract!Message

\* Every way a stream ends after it began gives the loop a message whose last
\* event fits it, and whose calls, if they are to be executed, are whole.
LEMMA WireEndsWell ==
  ASSUME TypeOK, TailIsEarned, WireEnds
  PROVE  \E m, e : Finish(m, e) /\ Ending(m, e)
<1>1. CASE \E overflow \in BOOLEAN : WireBreaks(overflow)
  BY <1>1, FailIsEnding DEF WireBreaks, Contract!Failures
<1>2. CASE OpenAICallUnnamed \/ OpenAICut
  BY <1>2, FailIsEnding DEF OpenAICallUnnamed, OpenAICut, Contract!Failures
<1>3. CASE AnthropicEnds
  <2> DEFINE m == Message(AnthropicStop, CallsOf)
             e == AnthropicTerminalEvent(m)
  <2>1. m \in Contract!Message /\ m.stop = AnthropicStop /\ m.calls = CallsOf
    BY AnthropicStopIs, MessageIsTyped DEF Message
  <2>2. e \in {Contract!StreamDone(m), Contract!StreamError(m)} /\ Contract!Honest(e)
    BY DEF AnthropicTerminalEvent, Contract!Honest
  <2>3. m.stop = "toolUse" => m.calls # {} /\ m.calls \subseteq whole
    BY <2>1, AnthropicStopIs, CallsAreIndexes DEF TailIsEarned
  <2>4. Finish(m, e)
    BY <1>3 DEF AnthropicEnds
  <2>5. Ending(m, e)
    BY <2>1, <2>2, <2>3 DEF Ending
  <2> QED
    BY <2>4, <2>5
<1>4. ASSUME NEW status \in {"completed", "cancelled"}, OpenAICompleted(status)
      PROVE  \E m, e : Finish(m, e) /\ Ending(m, e)
  <2> DEFINE m == Message(AssembledStop(status), CallsOf)
             e == IF m.stop \in {"error", "aborted"} THEN Contract!StreamError(m)
                                                     ELSE Contract!StreamDone(m)
  <2>1. m \in Contract!Message /\ m.stop = AssembledStop(status) /\ m.calls = CallsOf
    BY AssembledStopIs, MessageIsTyped DEF Message
  <2>2. AssembledStop(status) # "contextWindow"
    BY <1>4 DEF AssembledStop
  <2>3. e \in {Contract!StreamDone(m), Contract!StreamError(m)} /\ Contract!Honest(e)
    BY <2>1, <2>2 DEF Contract!Honest, Contract!Failures
  <2>4. m.stop = "toolUse" => m.calls # {} /\ m.calls \subseteq whole
    BY <2>1, <1>4, AssembledStopIs, CallsAreIndexes DEF OpenAICompleted
  <2>5. Finish(m, e)
    BY <1>4 DEF OpenAICompleted
  <2>6. Ending(m, e)
    BY <2>1, <2>3, <2>4 DEF Ending
  <2> QED
    BY <2>5, <2>6
<1>5. ASSUME NEW status \in {"max_output_tokens", "filtered"}, OpenAIIncomplete(status)
      PROVE  \E m, e : Finish(m, e) /\ Ending(m, e)
  <2> DEFINE m == Message(AssembledStop(status), CallsOf)
             e == IF m.stop = "error" THEN Contract!StreamError(m) ELSE Contract!StreamDone(m)
  <2>1. m \in Contract!Message /\ m.stop = AssembledStop(status)
    BY AssembledStopIs, MessageIsTyped DEF Message
  <2>2. AssembledStop(status) \in {"error", "length"}
    BY <1>5 DEF AssembledStop
  <2>3. e \in {Contract!StreamDone(m), Contract!StreamError(m)} /\ Contract!Honest(e)
    BY <2>1, <2>2 DEF Contract!Honest, Contract!Failures
  <2>4. Finish(m, e)
    BY <1>5 DEF OpenAIIncomplete
  <2>5. Ending(m, e)
    BY <2>1, <2>2, <2>3 DEF Ending
  <2> QED
    BY <2>4, <2>5
<1>6. ASSUME NEW status \in {"failed", "overflow", "cancelled"}, OpenAIFailed(status)
      PROVE  \E m, e : Finish(m, e) /\ Ending(m, e)
  <2> DEFINE stop == IF ctxDone THEN "aborted" ELSE AssembledStop(status)
             m == Message(stop, CallsOf)
             e == Contract!StreamError(m)
  <2>1. stop \in Contract!Failures
    BY <1>6 DEF AssembledStop, Contract!Failures
  <2>2. stop \in Contract!StopReasons /\ stop # "toolUse"
    BY <2>1 DEF Contract!StopReasons, Contract!Failures
  <2>3. m \in Contract!Message /\ m.stop = stop
    BY <2>2, MessageIsTyped DEF Message
  <2>4. Contract!Honest(e)
    BY <2>1, <2>3 DEF Contract!Honest
  <2>5. Finish(m, e)
    BY <1>6 DEF OpenAIFailed
  <2>6. Ending(m, e)
    BY <2>2, <2>3, <2>4 DEF Ending
  <2> QED
    BY <2>5, <2>6
<1> QED
  BY <1>1, <1>2, <1>3, <1>4, <1>5, <1>6 DEF WireEnds

-----------------------------------------------------------------------------
(* Streams.                                                                 *)

\* All that the goroutine has emitted, wherever it is by now.
Sent == heard \o (chan \o out)

\* A sequence of events each of which may follow those before it.
Legal(s) ==
  \A k \in DOMAIN s :
    /\ Contract!IsTerminal(s[k]) =>
         /\ k = Len(s)
         /\ Contract!Honest(s[k])
         /\ k = 1 => s[k].kind = "StreamError"
    /\ s[k].kind = "StreamStart" <=> k = 1 /\ ~Contract!IsTerminal(s[k])
    /\ \A block \in Contract!Announced : s[k].kind = Contract!DeltaOf(block) =>
         \E j \in 1..(k - 1) : s[j].kind = Contract!StartOf(block) /\ s[j].at = s[k].at

\* A legal stream grows by an event that may follow it.
LEMMA LegalGrows ==
  ASSUME NEW S, NEW s \in Seq(S), NEW e \in S, Legal(s), Contract!MayFollow(s, e)
  PROVE  Legal(Append(s, e))
<1> DEFINE t == Append(s, e)
<1>1. /\ Len(s) \in Nat /\ Len(t) = Len(s) + 1 /\ t[Len(t)] = e
      /\ DOMAIN s = 1..Len(s) /\ DOMAIN t = 1..Len(t)
      /\ \A k \in 1..Len(s) : t[k] = s[k]
  OBVIOUS
<1>2. s = <<>> <=> Len(s) = 0
  OBVIOUS
<1>3. ASSUME NEW k \in 1..Len(s)
      PROVE  /\ Contract!IsTerminal(t[k]) =>
                 /\ k = Len(t)
                 /\ Contract!Honest(t[k])
                 /\ k = 1 => t[k].kind = "StreamError"
             /\ t[k].kind = "StreamStart" <=> k = 1 /\ ~Contract!IsTerminal(t[k])
             /\ \A block \in Contract!Announced : t[k].kind = Contract!DeltaOf(block) =>
                  \E j \in 1..(k - 1) : t[j].kind = Contract!StartOf(block) /\ t[j].at = t[k].at
  <2>1. t[k] = s[k] /\ \A j \in 1..(k - 1) : t[j] = s[j]
    BY <1>1
  <2>2. ~Contract!IsTerminal(s[k])
    BY <1>1 DEF Contract!MayFollow
  <2> HIDE DEF t
  <2> QED
    BY <2>1, <2>2, <1>1 DEF Legal
<1>4. LET k == Len(t)
      IN  /\ Contract!IsTerminal(t[k]) =>
                 /\ k = Len(t)
                 /\ Contract!Honest(t[k])
                 /\ k = 1 => t[k].kind = "StreamError"
          /\ t[k].kind = "StreamStart" <=> k = 1 /\ ~Contract!IsTerminal(t[k])
          /\ \A block \in Contract!Announced : t[k].kind = Contract!DeltaOf(block) =>
                  \E j \in 1..(k - 1) : t[j].kind = Contract!StartOf(block) /\ t[j].at = t[k].at
  <2> HIDE DEF t
  <2>1. Len(t) = 1 <=> s = <<>>
    BY <1>1, <1>2
  <2>2. \A block \in Contract!Announced : e.kind = Contract!DeltaOf(block) =>
                  \E j \in 1..(Len(t) - 1) : t[j].kind = Contract!StartOf(block) /\ t[j].at = e.at
    BY <1>1 DEF Contract!MayFollow
  <2> QED
    BY <2>1, <2>2, <1>1 DEF Contract!MayFollow
<1> HIDE DEF t
<1>5. \A k \in DOMAIN t : k \in 1..Len(s) \/ k = Len(t)
  BY <1>1
<1> QED
  BY <1>3, <1>4, <1>5 DEF Legal, t

\* The first event that is left of a legal stream may follow those received.
LEMMA LegalPrefix ==
  ASSUME NEW S, NEW h \in Seq(S), NEW t \in Seq(S), t # <<>>, Legal(h \o t)
  PROVE  Contract!MayFollow(h, Head(t))
<1> DEFINE s == h \o t
           n == Len(h) + 1
<1>1. /\ Len(h) \in Nat /\ n \in DOMAIN s /\ n <= Len(s) /\ s[n] = Head(t)
      /\ DOMAIN h = 1..Len(h) /\ DOMAIN s = 1..Len(s)
      /\ \A k \in 1..Len(h) : s[k] = h[k]
  OBVIOUS
<1>2. h = <<>> <=> n = 1
  BY <1>1
<1> HIDE DEF s, n
<1>3. \A k \in DOMAIN h : ~Contract!IsTerminal(h[k])
  BY <1>1 DEF Legal, s, n
<1>4. \A block \in Contract!Announced : s[n].kind = Contract!DeltaOf(block) =>
         \E k \in DOMAIN h : h[k].kind = Contract!StartOf(block) /\ h[k].at = s[n].at
  <2> SUFFICES ASSUME NEW block \in Contract!Announced, s[n].kind = Contract!DeltaOf(block)
               PROVE  \E k \in DOMAIN h : h[k].kind = Contract!StartOf(block) /\ h[k].at = s[n].at
    OBVIOUS
  <2>1. PICK j \in 1..(n - 1) : s[j].kind = Contract!StartOf(block) /\ s[j].at = s[n].at
    BY <1>1 DEF Legal, s
  <2>2. j \in DOMAIN h /\ s[j] = h[j]
    BY <1>1 DEF n
  <2> QED
    BY <2>1, <2>2
<1> QED
  BY <1>1, <1>2, <1>3, <1>4 DEF Legal, Contract!MayFollow, s

\* An event moves from the goroutine into the channel.
LEMMA SendMoves == ASSUME TypeOK, Send PROVE Sent' = Sent
<1>1. chan \in Seq(Contract!StreamEvent) /\ out \in Seq(Contract!StreamEvent) /\ out # <<>>
  BY DEF TypeOK, Send
<1>2. Append(chan, Head(out)) \o Tail(out) = chan \o out
  BY <1>1
<1> QED
  BY <1>2 DEF Send, Sent, consumer

\* An event moves from the channel to the consumer.
LEMMA ReceiveMoves == ASSUME TypeOK, Receive PROVE Sent' = Sent
<1>1. /\ chan \in Seq(Contract!StreamEvent) /\ out \in Seq(Contract!StreamEvent) /\ chan # <<>>
      /\ heard \in Seq(Contract!StreamEvent)
  BY DEF TypeOK, Receive
<1>2. Append(heard, Head(chan)) \o (Tail(chan) \o out) = heard \o (chan \o out)
  BY ONLY <1>1, SMTT(60)
<1> QED
  BY <1>2 DEF Receive, Sent

\* A goroutine with nothing left to send emits.
LEMMA EmissionAppends ==
  ASSUME NEW S, NEW h \in Seq(S), NEW c \in Seq(S)
  PROVE  /\ h \o (c \o <<>>) \in Seq(S)
         /\ \A e \in S : h \o (c \o <<e>>) = Append(h \o (c \o <<>>), e)
         /\ \A d, e \in S : h \o (c \o <<d, e>>) = Append(Append(h \o (c \o <<>>), d), e)
<1>1. h \o (c \o <<>>) \in Seq(S)
  OBVIOUS
<1>2. ASSUME NEW e \in S PROVE h \o (c \o <<e>>) = Append(h \o (c \o <<>>), e)
  OBVIOUS
<1>3. ASSUME NEW d \in S, NEW e \in S
      PROVE h \o (c \o <<d, e>>) = Append(Append(h \o (c \o <<>>), d), e)
  OBVIOUS
<1> QED
  BY <1>1, <1>2, <1>3

-----------------------------------------------------------------------------
(* The invariant.                                                           *)

\* How far the goroutine is, and what it has emitted by then.
StagesAgree ==
  /\ pc = "call" => Sent = <<>>
  /\ pc \in {"prepare", "reading"} =>
       Sent # <<>> /\ \A k \in DOMAIN Sent : ~Contract!IsTerminal(Sent[k])
  /\ pc \in {"call", "prepare", "reading"} => final = Contract!NoMessage
  /\ pc \in {"ending", "closing", "done"} =>
       /\ Sent # <<>>
       /\ Contract!IsTerminal(Sent[Len(Sent)]) /\ Sent[Len(Sent)].message = final
  /\ pc \in {"closing", "done"} => out = <<>>
  /\ pc \notin {"call", "done"} => Accepted(request)

\* How far the consumer is, and what it knows by then.
ConsumerAgrees ==
  /\ cpc # "returned" => answer = Contract!NoMessage
  /\ cpc # "ranging" => chan = <<>> /\ pc \in {"closing", "done"}
  /\ cpc = "returned" => pc = "done" /\ answer = final

\* A call whose message is to be executed was received whole.
FinalIsWhole == final.stop = "toolUse" => final.calls # {} /\ final.calls \subseteq whole

\* The start of an announced block has been emitted; the Anthropic provider
\* announces every block that has one.
StartsAreSent ==
  /\ \A i \in announced :
       /\ blocks[i] = "text" => \E k \in DOMAIN Sent : Sent[k] = Contract!Part("TextStart", i)
       /\ blocks[i] = "call" => \E k \in DOMAIN Sent : Sent[k] = Contract!Part("ToolCallStart", i)
  /\ Speaks(AnthropicMessages) =>
       \A i \in DOMAIN blocks : blocks[i] \in {"text", "call"} => i \in announced

IInv ==
  /\ TypeOK
  /\ StagesAgree
  /\ ConsumerAgrees
  /\ TailIsEarned
  /\ FinalIsWhole
  /\ StartsAreSent
  /\ Legal(Sent)

\* What the goroutine emits while the message goes on.
Emitted(events) == out = <<>> /\ out' = events /\ UNCHANGED <<request, pc, chan, final, consumer>>

\* A part whose start, where its block has one, has been sent may follow.
LEMMA PartMayFollow ==
  ASSUME NEW s, s # <<>>, \A k \in DOMAIN s : ~Contract!IsTerminal(s[k]),
         NEW kind \in {"TextStart", "TextDelta", "ToolCallStart", "ToolCallDelta", "ThinkingDelta"},
         NEW i,
         kind = "TextDelta" => \E k \in DOMAIN s : s[k] = Contract!Part("TextStart", i),
         kind = "ToolCallDelta" => \E k \in DOMAIN s : s[k] = Contract!Part("ToolCallStart", i)
  PROVE  Contract!MayFollow(s, Contract!Part(kind, i))
<1> DEFINE e == Contract!Part(kind, i)
<1>1. e.kind = kind /\ e.at = i
  OBVIOUS
<1>2. kind \notin {"StreamStart", "StreamDone", "StreamError"}
  OBVIOUS
<1>3. ASSUME NEW block \in Contract!Announced, kind = Contract!DeltaOf(block)
      PROVE  \E k \in DOMAIN s : s[k].kind = Contract!StartOf(block) /\ s[k].at = i
  <2>1. CASE block = "Text"
    BY <1>3, <2>1 DEF Contract!DeltaOf, Contract!StartOf
  <2>2. CASE block = "ToolCall"
    BY <1>3, <2>2 DEF Contract!DeltaOf, Contract!StartOf
  <2> QED
    BY <2>1, <2>2 DEF Contract!Announced
<1> HIDE DEF e
<1> QED
  BY <1>1, <1>2, <1>3 DEF Contract!MayFollow, Contract!IsTerminal, e

\* The last event of a message may follow what was sent before it.
LEMMA TerminalMayFollow ==
  ASSUME NEW s, s # <<>>, \A k \in DOMAIN s : ~Contract!IsTerminal(s[k]),
         NEW m, NEW e \in {Contract!StreamDone(m), Contract!StreamError(m)}, Contract!Honest(e)
  PROVE  Contract!MayFollow(s, e) /\ Contract!IsTerminal(e) /\ e.message = m
<1>1. e.kind \in {"StreamDone", "StreamError"} /\ e.message = m
  OBVIOUS
<1>2. \A block \in Contract!Announced : e.kind # Contract!DeltaOf(block)
  BY <1>1 DEF Contract!DeltaOf
<1> QED
  BY <1>1, <1>2 DEF Contract!MayFollow, Contract!IsTerminal

-----------------------------------------------------------------------------
(* A message goes on.                                                       *)

\* A stream that has begun and is not over.
Open(s) ==
  /\ s \in Seq(Contract!StreamEvent) /\ s # <<>>
  /\ \A k \in DOMAIN s : ~Contract!IsTerminal(s[k])
  /\ Legal(s)

\* t goes on where s is.
Keeps(s, t) == \A k \in DOMAIN s : k \in DOMAIN t /\ t[k] = s[k]

Holds(s, e) == \E k \in DOMAIN s : s[k] = e

PartKinds == {"TextStart", "TextDelta", "ToolCallStart", "ToolCallDelta", "ThinkingDelta"}

\* One more part leaves a stream open.
LEMMA OneMore ==
  ASSUME NEW s, Open(s), NEW kind \in PartKinds, NEW i \in Indexes,
         kind = "TextDelta" => Holds(s, Contract!Part("TextStart", i)),
         kind = "ToolCallDelta" => Holds(s, Contract!Part("ToolCallStart", i)),
         NEW t, t = Append(s, Contract!Part(kind, i))
  PROVE  Open(t) /\ Keeps(s, t) /\ Holds(t, Contract!Part(kind, i))
<1> DEFINE e == Contract!Part(kind, i)
<1>1. e \in Contract!StreamEvent
  BY EventsAreTyped DEF PartKinds
<1>2. Contract!MayFollow(s, e)
  BY PartMayFollow DEF Open, Holds, PartKinds
<1>3. ~Contract!IsTerminal(e)
  BY DEF Contract!IsTerminal, PartKinds
<1> HIDE DEF e
<1>4. s \in Seq(Contract!StreamEvent)
  BY DEF Open
<1>5. /\ t \in Seq(Contract!StreamEvent) /\ t # <<>>
      /\ DOMAIN t = DOMAIN s \cup {Len(t)} /\ t[Len(t)] = e
      /\ \A k \in DOMAIN s : t[k] = s[k]
  BY ONLY <1>1, <1>4, t = Append(s, e) DEF e
<1>6. Legal(t)
  BY <1>1, <1>2, <1>4, LegalGrows DEF Open, e
<1> QED
  BY <1>3, <1>5, <1>6 DEF Open, Keeps, Holds, e

\* While it reads, the goroutine has an open stream behind it.
LEMMA ReadingIsOpen == ASSUME IInv, pc = "reading", out = <<>> PROVE Open(Sent)
<1>1. heard \in Seq(Contract!StreamEvent) /\ chan \in Seq(Contract!StreamEvent)
  BY DEF IInv, TypeOK
<1>2. Sent \in Seq(Contract!StreamEvent)
  BY <1>1, EmissionAppends DEF Sent
<1> QED
  BY <1>2 DEF IInv, StagesAgree, Open

\* What the goroutine emits follows what it has sent.
LEMMA EmittedFollows ==
  ASSUME IInv, NEW events, Emitted(events)
  PROVE  /\ events = <<>> => Sent' = Sent
         /\ \A e \in Contract!StreamEvent : events = <<e>> => Sent' = Append(Sent, e)
         /\ \A d, e \in Contract!StreamEvent :
              events = <<d, e>> => Sent' = Append(Append(Sent, d), e)
<1>1. heard \in Seq(Contract!StreamEvent) /\ chan \in Seq(Contract!StreamEvent)
  BY DEF IInv, TypeOK
<1>2. out = <<>> /\ out' = events /\ heard' = heard /\ chan' = chan
  BY DEF Emitted, consumer
<1>3. Sent' = heard \o (chan \o events) /\ Sent = heard \o (chan \o <<>>)
  BY <1>2 DEF Sent
<1>4. ASSUME NEW e \in Contract!StreamEvent, events = <<e>> PROVE Sent' = Append(Sent, e)
  BY <1>1, <1>3, <1>4, EmissionAppends
<1>5. ASSUME NEW d \in Contract!StreamEvent, NEW e \in Contract!StreamEvent, events = <<d, e>>
      PROVE  Sent' = Append(Append(Sent, d), e)
  BY <1>1, <1>3, <1>5, EmissionAppends, SMTT(60)
<1> QED
  BY <1>3, <1>4, <1>5

\* The wire keeps its types.
WireTyped ==
  /\ blocks \in Seq(BlockKinds) /\ Len(blocks) <= MaxBlocks
  /\ whole \subseteq DOMAIN blocks
  /\ announced \subseteq DOMAIN blocks
  /\ deltas \in 0..MaxDeltas
  /\ tail \in Tails

\* A step of the wire after which the message goes on.
LEMMA GoesOn ==
  ASSUME IInv, pc = "reading", NEW events \in Seq(Contract!StreamEvent), Emitted(events),
         WireTyped', Open(Sent'), TailIsEarned', StartsAreSent'
  PROVE  IInv'
<1>1. /\ UNCHANGED <<request, pc, chan, final, ctxDone, cpc, heard, answer>>
      /\ out' = events
  BY DEF Emitted, consumer
<1>2. TypeOK'
  BY <1>1 DEF IInv, TypeOK, WireTyped
<1>3. StagesAgree'
  BY <1>1 DEF IInv, StagesAgree, Open, Accepted
<1>4. ConsumerAgrees'
  BY <1>1 DEF IInv, ConsumerAgrees
<1>5. FinalIsWhole'
  BY <1>1 DEF IInv, StagesAgree, FinalIsWhole, Contract!NoMessage
<1> QED
  BY <1>2, <1>3, <1>4, <1>5 DEF IInv, Open

\* Blocks and announcements as they were: their starts are where they were.
LEMMA StartsKept ==
  ASSUME StartsAreSent, Keeps(Sent, Sent'), UNCHANGED <<request, blocks, announced>>
  PROVE  StartsAreSent'
  BY DEF StartsAreSent, Keeps, Speaks

\* A new block, with its start if it is announced.
LEMMA StartsWithBlock ==
  ASSUME TypeOK, StartsAreSent, Keeps(Sent, Sent'), request' = request,
         NEW kind \in BlockKinds, blocks' = Append(blocks, kind),
         NEW n, n = Len(blocks'),
         \/ announced' = announced
         \/ /\ announced' = announced \cup {n}
            /\ kind = "text" => Holds(Sent', Contract!Part("TextStart", n))
            /\ kind = "call" => Holds(Sent', Contract!Part("ToolCallStart", n)),
         Speaks(AnthropicMessages) /\ kind \in {"text", "call"} => n \in announced'
  PROVE  StartsAreSent'
<1>1. blocks \in Seq(BlockKinds)
  BY DEF TypeOK
<1>2. /\ n \in DOMAIN blocks' /\ n \notin DOMAIN blocks
      /\ blocks'[n] = kind /\ DOMAIN blocks' = DOMAIN blocks \cup {n}
      /\ \A i \in DOMAIN blocks : blocks'[i] = blocks[i]
  BY <1>1
<1>3. announced \subseteq DOMAIN blocks
  BY DEF TypeOK
<1>4. ASSUME NEW i \in announced
      PROVE  /\ blocks'[i] = "text" => Holds(Sent', Contract!Part("TextStart", i))
             /\ blocks'[i] = "call" => Holds(Sent', Contract!Part("ToolCallStart", i))
  <2>1. blocks'[i] = blocks[i]
    BY <1>2, <1>3
  <2> QED
    BY <2>1 DEF StartsAreSent, Keeps, Holds
<1>5. \A i \in announced' :
        /\ blocks'[i] = "text" => Holds(Sent', Contract!Part("TextStart", i))
        /\ blocks'[i] = "call" => Holds(Sent', Contract!Part("ToolCallStart", i))
  BY <1>2, <1>4
<1>6. Speaks(AnthropicMessages)' => Speaks(AnthropicMessages)
  BY DEF Speaks
<1>7. Speaks(AnthropicMessages) =>
        \A i \in DOMAIN blocks' : blocks'[i] \in {"text", "call"} => i \in announced'
  BY <1>2 DEF StartsAreSent
<1> QED
  BY <1>5, <1>6, <1>7 DEF StartsAreSent, Holds

-----------------------------------------------------------------------------
(* The steps of the wire after which the message goes on.                   *)

\* A model speaks one protocol.
LEMMA ProtocolsDiffer == Speaks(OpenAIResponses) => ~Speaks(AnthropicMessages)
  BY DEF Speaks, OpenAIResponses, AnthropicMessages

\* Nothing emitted: the stream is as open as it was.
LEMMA SilentStep ==
  ASSUME IInv, pc = "reading", Emitted(<<>>)
  PROVE  Open(Sent') /\ Keeps(Sent, Sent') /\ <<>> \in Seq(Contract!StreamEvent)
<1>1. Open(Sent) /\ Sent' = Sent
  BY ReadingIsOpen, EmittedFollows DEF Emitted
<1> QED
  BY <1>1 DEF Keeps

\* One part emitted.
LEMMA PartStep ==
  ASSUME IInv, pc = "reading", NEW kind \in PartKinds, NEW i \in Indexes,
         Emitted(<<Contract!Part(kind, i)>>),
         kind = "TextDelta" => Holds(Sent, Contract!Part("TextStart", i)),
         kind = "ToolCallDelta" => Holds(Sent, Contract!Part("ToolCallStart", i))
  PROVE  /\ Open(Sent') /\ Keeps(Sent, Sent') /\ Holds(Sent', Contract!Part(kind, i))
         /\ <<Contract!Part(kind, i)>> \in Seq(Contract!StreamEvent)
<1> DEFINE e == Contract!Part(kind, i)
<1>1. e \in Contract!StreamEvent
  BY EventsAreTyped DEF PartKinds
<1> HIDE DEF e
<1>2. Open(Sent)
  BY ReadingIsOpen DEF Emitted
<1>3. Sent' = Append(Sent, e)
  BY <1>1, EmittedFollows DEF e
<1>4. <<e>> \in Seq(Contract!StreamEvent)
  BY <1>1
<1> QED
  BY <1>2, <1>3, <1>4, OneMore DEF e

\* The first delta of a text, with its start.
LEMMA FirstTextStep ==
  ASSUME IInv, pc = "reading", NEW i \in Indexes,
         Emitted(<<Contract!Part("TextStart", i), Contract!Part("TextDelta", i)>>)
  PROVE  /\ Open(Sent') /\ Keeps(Sent, Sent') /\ Holds(Sent', Contract!Part("TextStart", i))
         /\ <<Contract!Part("TextStart", i), Contract!Part("TextDelta", i)>> \in Seq(Contract!StreamEvent)
<1> DEFINE d == Contract!Part("TextStart", i)
           e == Contract!Part("TextDelta", i)
<1>1. d \in Contract!StreamEvent /\ e \in Contract!StreamEvent
  BY EventsAreTyped
<1> HIDE DEF d, e
<1>2. Open(Sent)
  BY ReadingIsOpen DEF Emitted
<1>3. Sent' = Append(Append(Sent, d), e)
  BY <1>1, EmittedFollows DEF d, e
<1>4. <<d, e>> \in Seq(Contract!StreamEvent)
  BY <1>1
<1> DEFINE s == Append(Sent, d)
<1>5. Open(s) /\ Keeps(Sent, s) /\ Holds(s, d)
  BY <1>2, OneMore DEF d, PartKinds
<1> HIDE DEF s
<1>6. Sent' = Append(s, e)
  BY <1>3 DEF s
<1>7. Open(Sent') /\ Keeps(s, Sent')
  BY <1>5, <1>6, OneMore DEF d, e, PartKinds
<1>8. Keeps(Sent, Sent') /\ Holds(Sent', d)
  BY <1>5, <1>7 DEF Keeps, Holds
<1> QED
  BY <1>4, <1>7, <1>8 DEF d, e

\* A block begun has an index, and is not whole.
LEMMA BlockBegins ==
  ASSUME IInv, NEW kind \in BlockKinds, Begins(kind), announced' \subseteq announced \cup {Len(blocks')},
         UNCHANGED <<whole, deltas, tail>>
  PROVE  /\ WireTyped' /\ Len(blocks') \in Indexes
<1>1. blocks \in Seq(BlockKinds) /\ whole \subseteq DOMAIN blocks /\ announced \subseteq DOMAIN blocks
  BY DEF IInv, TypeOK
<1>2. /\ blocks' \in Seq(BlockKinds)
      /\ DOMAIN blocks' = DOMAIN blocks \cup {Len(blocks')}
      /\ Len(blocks') = Len(blocks) + 1 /\ Len(blocks) \in Nat
  BY <1>1 DEF Begins
<1>3. Len(blocks') <= MaxBlocks
  BY <1>2, PipeAssumption DEF Begins
<1>4. deltas \in 0..MaxDeltas /\ tail \in Tails
  BY DEF IInv, TypeOK
<1> QED
  BY <1>1, <1>2, <1>3, <1>4, PipeAssumption DEF WireTyped, Indexes

\* A block grown: only the number of deltas, and what is announced, change.
LEMMA BlockGrows ==
  ASSUME IInv, NEW i, NEW kind, Grows(i, kind), announced' \subseteq announced \cup {i},
         UNCHANGED <<blocks, whole, tail>>
  PROVE  WireTyped' /\ i \in Indexes /\ i \in DOMAIN blocks /\ blocks[i] = kind
<1>1. i \in DOMAIN blocks /\ blocks[i] = kind /\ DOMAIN blocks = 1..Len(blocks) /\ Len(blocks) \in Nat
  BY DEF IInv, TypeOK, Grows
<1>2. i \in Indexes
  BY <1>1, PipeAssumption DEF IInv, TypeOK, Indexes
<1>3. deltas' \in 0..MaxDeltas
  BY PipeAssumption DEF IInv, TypeOK, Grows
<1>4. announced' \subseteq DOMAIN blocks
  BY <1>1 DEF IInv, TypeOK
<1> QED
  BY <1>1, <1>2, <1>3, <1>4 DEF IInv, TypeOK, WireTyped

\* An unannounced item is silent, and of a provider that announces no tail.
LEMMA OpenAIItemKeeps ==
  ASSUME IInv, NEW kind \in BlockKinds, OpenAIItem(kind) PROVE IInv'
<1>1. pc = "reading" /\ Emitted(<<>>) /\ ~Speaks(AnthropicMessages) /\ request' = request
  BY ProtocolsDiffer DEF OpenAIItem, Reading, Emitted
<1>2. WireTyped'
  BY BlockBegins DEF OpenAIItem
<1>3. Open(Sent') /\ Keeps(Sent, Sent') /\ <<>> \in Seq(Contract!StreamEvent)
  BY <1>1, SilentStep
<1>4. TailIsEarned'
  BY <1>1 DEF IInv, TailIsEarned, OpenAIItem, Speaks
<1>5. StartsAreSent'
  BY <1>1, <1>3, StartsWithBlock DEF IInv, OpenAIItem, Begins
<1> QED
  BY <1>1, <1>2, <1>3, <1>4, <1>5, GoesOn

\* A call added sends the start its arguments will need.
LEMMA OpenAICallAddedKeeps == ASSUME IInv, OpenAICallAdded PROVE IInv'
<1> DEFINE n == Len(blocks')
<1>1. /\ pc = "reading" /\ Emitted(<<Contract!Part("ToolCallStart", n)>>)
      /\ ~Speaks(AnthropicMessages) /\ request' = request
  BY ProtocolsDiffer DEF OpenAICallAdded, Reading, Emitted, Emit
<1>2. "call" \in BlockKinds /\ Begins("call") /\ announced' = announced \cup {n}
      /\ UNCHANGED <<whole, deltas, tail>>
  BY DEF OpenAICallAdded, BlockKinds
<1>3. WireTyped' /\ n \in Indexes
  BY <1>2, BlockBegins
<1>4. blocks' = Append(blocks, "call")
  BY <1>2 DEF Begins
<1> HIDE DEF n
<1>5. /\ Open(Sent') /\ Keeps(Sent, Sent') /\ Holds(Sent', Contract!Part("ToolCallStart", n))
      /\ <<Contract!Part("ToolCallStart", n)>> \in Seq(Contract!StreamEvent)
  BY <1>1, <1>3, PartStep DEF PartKinds
<1>6. TailIsEarned'
  BY <1>1, <1>2 DEF IInv, TailIsEarned, Speaks
<1>7. StartsAreSent'
  BY <1>1, <1>2, <1>4, <1>5, StartsWithBlock DEF IInv, n
<1> QED
  BY <1>1, <1>3, <1>5, <1>6, <1>7, GoesOn

\* A block begins before the tail, with the start of its kind.
LEMMA AnthropicBlockKeeps ==
  ASSUME IInv, NEW kind \in {"text", "thinking", "call"}, AnthropicBlock(kind) PROVE IInv'
<1> DEFINE n == Len(blocks')
<1>1. /\ pc = "reading" /\ tail = "" /\ request' = request
      /\ kind = "text" => Emitted(<<Contract!Part("TextStart", n)>>)
      /\ kind = "call" => Emitted(<<Contract!Part("ToolCallStart", n)>>)
      /\ kind = "thinking" => Emitted(<<>>)
  BY DEF AnthropicBlock, Reading, Emitted, Emit
<1>2. /\ kind \in BlockKinds /\ Begins(kind)
      /\ announced' = IF kind = "thinking" THEN announced ELSE announced \cup {n}
      /\ UNCHANGED <<whole, deltas, tail>>
  BY DEF AnthropicBlock, BlockKinds
<1>3. WireTyped' /\ n \in Indexes
  BY <1>2, BlockBegins
<1>4. blocks' = Append(blocks, kind)
  BY <1>2 DEF Begins
<1>5. TailIsEarned'
  BY <1>1, <1>2 DEF TailIsEarned
<1> HIDE DEF n
<1>6. CASE kind = "text"
  <2>1. /\ Open(Sent') /\ Keeps(Sent, Sent') /\ Holds(Sent', Contract!Part("TextStart", n))
        /\ <<Contract!Part("TextStart", n)>> \in Seq(Contract!StreamEvent)
    BY <1>1, <1>3, <1>6, PartStep DEF PartKinds
  <2>2. StartsAreSent'
    BY <1>1, <1>2, <1>4, <1>6, <2>1, StartsWithBlock DEF IInv, n
  <2> QED
    BY <1>1, <1>3, <1>5, <1>6, <2>1, <2>2, GoesOn
<1>7. CASE kind = "call"
  <2>1. /\ Open(Sent') /\ Keeps(Sent, Sent') /\ Holds(Sent', Contract!Part("ToolCallStart", n))
        /\ <<Contract!Part("ToolCallStart", n)>> \in Seq(Contract!StreamEvent)
    BY <1>1, <1>3, <1>7, PartStep DEF PartKinds
  <2>2. StartsAreSent'
    BY <1>1, <1>2, <1>4, <1>7, <2>1, StartsWithBlock DEF IInv, n
  <2> QED
    BY <1>1, <1>3, <1>5, <1>7, <2>1, <2>2, GoesOn
<1>8. CASE kind = "thinking"
  <2>1. Open(Sent') /\ Keeps(Sent, Sent') /\ <<>> \in Seq(Contract!StreamEvent)
    BY <1>1, <1>8, SilentStep
  <2>2. StartsAreSent'
    BY <1>1, <1>2, <1>4, <1>8, <2>1, StartsWithBlock DEF IInv, n
  <2> QED
    BY <1>1, <1>3, <1>5, <1>8, <2>1, <2>2, GoesOn
<1> QED
  BY <1>6, <1>7, <1>8

\* A delta of a block whose start, if it has one, was sent.
LEMMA DeltaKeeps ==
  ASSUME IInv, pc = "reading", NEW i, NEW kind, Grows(i, kind),
         NEW part \in PartKinds, Emitted(<<Contract!Part(part, i)>>),
         part = "TextDelta" => Holds(Sent, Contract!Part("TextStart", i)),
         part = "ToolCallDelta" => Holds(Sent, Contract!Part("ToolCallStart", i)),
         UNCHANGED <<blocks, whole, announced, tail>>
  PROVE  IInv'
<1>1. WireTyped' /\ i \in Indexes
  BY BlockGrows
<1>2. /\ Open(Sent') /\ Keeps(Sent, Sent')
      /\ <<Contract!Part(part, i)>> \in Seq(Contract!StreamEvent)
  BY <1>1, PartStep
<1>3. request' = request
  BY DEF Emitted
<1>4. TailIsEarned'
  BY <1>3 DEF IInv, TailIsEarned, Speaks, CallsOf
<1>5. StartsAreSent'
  BY <1>2, <1>3, StartsKept DEF IInv
<1> QED
  BY <1>1, <1>2, <1>4, <1>5, GoesOn

\* Nothing emitted, no block begun.
LEMMA SilentKeeps ==
  ASSUME IInv, pc = "reading", Emitted(<<>>), WireTyped', TailIsEarned',
         UNCHANGED <<blocks, announced>>
  PROVE  IInv'
<1>1. Open(Sent') /\ Keeps(Sent, Sent') /\ <<>> \in Seq(Contract!StreamEvent)
  BY SilentStep
<1>2. StartsAreSent'
  BY <1>1, StartsKept DEF IInv, Emitted
<1> QED
  BY <1>1, <1>2, GoesOn

\* A block cannot end after a tail of tool use: all are whole by then.
LEMMA BlockEndsKeeps == ASSUME IInv, NEW i, BlockEnds(i) PROVE IInv'
<1>1. pc = "reading" /\ Emitted(<<>>) /\ request' = request
  BY DEF BlockEnds, Emitted
<1>2. WireTyped'
  BY DEF IInv, TypeOK, WireTyped, BlockEnds
<1>3. TailIsEarned'
  BY DEF IInv, TailIsEarned, BlockEnds, Speaks
<1> QED
  BY <1>1, <1>2, <1>3, SilentKeeps DEF BlockEnds

\* A tail of tool use is announced over whole blocks only.
LEMMA AnthropicStopsKeeps ==
  ASSUME IInv, NEW why \in Tails \ {""}, AnthropicStops(why) PROVE IInv'
<1>1. pc = "reading" /\ Emitted(<<>>) /\ request' = request /\ Speaks(AnthropicMessages)
  BY DEF AnthropicStops, Reading, Emitted
<1>2. WireTyped'
  BY DEF IInv, TypeOK, WireTyped, AnthropicStops
<1>3. TailIsEarned'
  BY <1>1 DEF IInv, TailIsEarned, AnthropicStops, Speaks, CallsOf
<1> QED
  BY <1>1, <1>2, <1>3, SilentKeeps DEF AnthropicStops

\* Two events emitted together.
LEMMA TwoInOne == ASSUME NEW d, NEW e PROVE <<d>> \o <<e>> = <<d, e>>
<1> DEFINE s == <<d>> \o <<e>>
           t == <<d, e>>
<1>1. <<d>> \in Seq({d, e}) /\ <<e>> \in Seq({d, e})
  OBVIOUS
<1>2. s \in Seq({d, e}) /\ Len(s) = 2 /\ s[1] = d /\ s[2] = e
  BY <1>1
<1>3. t \in Seq({d, e}) /\ Len(t) = 2 /\ t[1] = d /\ t[2] = e
  OBVIOUS
<1> HIDE DEF s, t
<1>4. s = t
  BY <1>2, <1>3, SeqEqual
<1> QED
  BY <1>4 DEF s, t

\* A text delta finds its start sent, or sends it first.
LEMMA OpenAITextKeeps == ASSUME IInv, NEW i, OpenAIText(i) PROVE IInv'
<1>1. /\ pc = "reading" /\ ~Speaks(AnthropicMessages) /\ request' = request
      /\ Grows(i, "text") /\ announced' = announced \cup {i} /\ UNCHANGED <<blocks, whole, tail>>
  BY ProtocolsDiffer DEF OpenAIText, Reading, Emit
<1>2. WireTyped' /\ i \in Indexes /\ blocks[i] = "text"
  BY <1>1, BlockGrows
<1>3. CASE i \in announced
  <2>1. Emitted(<<Contract!Part("TextDelta", i)>>)
    <3>1. out' = <<>> \o <<Contract!Part("TextDelta", i)>>
      BY <1>3 DEF OpenAIText, Emit
    <3>2. <<>> \o <<Contract!Part("TextDelta", i)>> = <<Contract!Part("TextDelta", i)>>
      OBVIOUS
    <3> QED
      BY <3>1, <3>2 DEF OpenAIText, Reading, Emit, Emitted
  <2>2. Holds(Sent, Contract!Part("TextStart", i))
    BY <1>2, <1>3 DEF IInv, StartsAreSent, Holds
  <2>3. announced' = announced
    BY <1>1, <1>3
  <2> QED
    BY <1>1, <2>1, <2>2, <2>3, DeltaKeeps DEF PartKinds
<1>4. CASE i \notin announced
  <2> DEFINE events == <<Contract!Part("TextStart", i), Contract!Part("TextDelta", i)>>
  <2>1. Emitted(events)
    <3>1. out' = <<Contract!Part("TextStart", i)>> \o <<Contract!Part("TextDelta", i)>>
      BY <1>4 DEF OpenAIText, Emit
    <3>2. <<Contract!Part("TextStart", i)>> \o <<Contract!Part("TextDelta", i)>> = events
      BY TwoInOne
    <3> QED
      BY <3>1, <3>2 DEF OpenAIText, Reading, Emit, Emitted
  <2>2. /\ Open(Sent') /\ Keeps(Sent, Sent') /\ Holds(Sent', Contract!Part("TextStart", i))
        /\ events \in Seq(Contract!StreamEvent)
    BY <1>1, <1>2, <2>1, FirstTextStep
  <2> HIDE DEF events
  <2>3. TailIsEarned'
    BY <1>1 DEF IInv, TailIsEarned, Speaks, CallsOf
  <2>4. ~Speaks(AnthropicMessages)'
    BY <1>1 DEF Speaks
  <2>5. \A j \in announced' :
          /\ blocks[j] = "text" => Holds(Sent', Contract!Part("TextStart", j))
          /\ blocks[j] = "call" => Holds(Sent', Contract!Part("ToolCallStart", j))
    BY <1>1, <1>2, <2>2 DEF IInv, StartsAreSent, Holds, Keeps
  <2>6. StartsAreSent'
    BY <1>1, <2>4, <2>5 DEF StartsAreSent, Holds
  <2> QED
    BY <1>1, <1>2, <2>1, <2>2, <2>3, <2>6, GoesOn
<1> QED
  BY <1>3, <1>4

\* A thinking delta needs no start.
LEMMA OpenAIThinkingKeeps == ASSUME IInv, NEW i, OpenAIThinking(i) PROVE IInv'
<1>1. /\ pc = "reading" /\ Emitted(<<Contract!Part("ThinkingDelta", i)>>)
      /\ Grows(i, "thinking") /\ UNCHANGED <<blocks, whole, announced, tail>>
  BY DEF OpenAIThinking, Reading, Emit, Emitted
<1> QED
  BY <1>1, DeltaKeeps DEF PartKinds

\* Arguments are passed on behind the start of their call, or not at all.
LEMMA OpenAIArgumentsKeeps == ASSUME IInv, NEW i, OpenAIArguments(i) PROVE IInv'
<1>1. /\ pc = "reading" /\ Grows(i, "call") /\ UNCHANGED <<blocks, whole, announced, tail>>
      /\ request' = request
      /\ i \in announced => Emitted(<<Contract!Part("ToolCallDelta", i)>>)
      /\ i \notin announced => Emitted(<<>>)
  BY DEF OpenAIArguments, Reading, Emit, Emitted
<1>2. CASE i \in announced
  <2>1. Holds(Sent, Contract!Part("ToolCallStart", i))
    BY <1>1, <1>2 DEF IInv, StartsAreSent, Holds, Grows
  <2> QED
    BY <1>1, <1>2, <2>1, DeltaKeeps DEF PartKinds
<1>3. CASE i \notin announced
  <2>1. WireTyped'
    BY <1>1, BlockGrows
  <2>2. TailIsEarned'
    BY <1>1 DEF IInv, TailIsEarned, Speaks, CallsOf
  <2> QED
    BY <1>1, <1>3, <2>1, <2>2, SilentKeeps
<1> QED
  BY <1>2, <1>3

\* Every block of this provider that needs a start has one.
LEMMA AnthropicDeltaKeeps == ASSUME IInv, NEW i, AnthropicDelta(i) PROVE IInv'
<1>1. pc = "reading" /\ Speaks(AnthropicMessages) /\ UNCHANGED <<blocks, whole, announced, tail>>
  BY DEF AnthropicDelta, Reading
<1>2. \A kind \in {"text", "call"} : Grows(i, kind) => i \in announced
  BY <1>1 DEF IInv, StartsAreSent, Grows
<1>3. PICK kind \in {"text", "thinking", "call"} :
        /\ Grows(i, kind)
        /\ kind = "text" => Emitted(<<Contract!Part("TextDelta", i)>>)
        /\ kind = "call" => Emitted(<<Contract!Part("ToolCallDelta", i)>>)
        /\ kind = "thinking" => Emitted(<<Contract!Part("ThinkingDelta", i)>>)
  BY DEF AnthropicDelta, Reading, Emit, Emitted
<1>4. CASE kind = "text"
  <2>1. Holds(Sent, Contract!Part("TextStart", i))
    BY <1>2, <1>3, <1>4 DEF IInv, StartsAreSent, Holds, Grows
  <2> QED
    BY <1>1, <1>3, <1>4, <2>1, DeltaKeeps DEF PartKinds
<1>5. CASE kind = "call"
  <2>1. Holds(Sent, Contract!Part("ToolCallStart", i))
    BY <1>2, <1>3, <1>5 DEF IInv, StartsAreSent, Holds, Grows
  <2> QED
    BY <1>1, <1>3, <1>5, <2>1, DeltaKeeps DEF PartKinds
<1>6. CASE kind = "thinking"
  BY <1>1, <1>3, <1>6, DeltaKeeps DEF PartKinds
<1> QED
  BY <1>4, <1>5, <1>6

\* A delta that is skipped leaves what is sent as it is.
LEMMA AnthropicSkipsKeeps == ASSUME IInv, NEW i, AnthropicSkips(i) PROVE IInv'
<1>1. /\ pc = "reading" /\ Emitted(<<>>) /\ UNCHANGED <<blocks, whole, announced, tail>>
      /\ request' = request
      /\ \E kind \in {"text", "thinking", "call"} : Grows(i, kind)
  BY DEF AnthropicSkips, Reading, Emit, Emitted
<1>2. PICK kind \in {"text", "thinking", "call"} : Grows(i, kind)
  BY <1>1
<1>3. WireTyped'
  BY <1>1, <1>2, BlockGrows
<1>4. TailIsEarned'
  BY <1>1 DEF IInv, TailIsEarned, Speaks, CallsOf
<1> QED
  BY <1>1, <1>3, <1>4, SilentKeeps

\* Whatever the servers send next, the invariant stays.
LEMMA WireGoesOnKeeps == ASSUME IInv, WireGoesOn PROVE IInv'
  BY OpenAIItemKeeps, OpenAICallAddedKeeps, AnthropicBlockKeeps, BlockEndsKeeps, AnthropicStopsKeeps,
     OpenAITextKeeps, OpenAIThinkingKeeps, OpenAIArgumentsKeeps, AnthropicDeltaKeeps,
     AnthropicSkipsKeeps DEF WireGoesOn

-----------------------------------------------------------------------------
(* The other steps.                                                         *)

\* The step that ends a message.
LEMMA FinishKeeps ==
  ASSUME IInv, pc \in {"prepare", "reading"}, out = <<>>,
         NEW m, NEW e, Finish(m, e), Ending(m, e)
  PROVE  IInv'
<1>1. Open(Sent)
  <2>1. heard \in Seq(Contract!StreamEvent) /\ chan \in Seq(Contract!StreamEvent)
    BY DEF IInv, TypeOK
  <2> QED
    BY <2>1, EmissionAppends DEF IInv, StagesAgree, Open, Sent
<1>2. /\ pc' = "ending" /\ final' = m /\ out' = <<e>>
      /\ UNCHANGED <<request, chan, blocks, whole, announced, deltas, tail, ctxDone, cpc, heard, answer>>
  BY DEF Finish, wire, consumer
<1>3. e \in Contract!StreamEvent
  BY EventsAreTyped DEF Ending
<1>4. Sent' = Append(Sent, e)
  BY <1>2, <1>3, EmissionAppends DEF IInv, TypeOK, Sent
<1>5. Contract!MayFollow(Sent, e) /\ Contract!IsTerminal(e) /\ e.message = m
  BY <1>1, TerminalMayFollow DEF Open, Ending
<1>6. Legal(Sent')
  BY <1>1, <1>3, <1>4, <1>5, LegalGrows DEF Open
<1>7. /\ Keeps(Sent, Sent') /\ Sent' # <<>> /\ Sent'[Len(Sent')] = e
  <2>1. Sent \in Seq(Contract!StreamEvent)
    BY <1>1 DEF Open
  <2> HIDE DEF Sent
  <2> QED
    BY <2>1, <1>3, <1>4 DEF Keeps
<1>8. TypeOK'
  <2>1. <<e>> \in Seq(Contract!StreamEvent) /\ m \in Contract!Message
    BY <1>3 DEF Ending
  <2> QED
    BY <2>1, <1>2 DEF IInv, TypeOK
<1>9. StagesAgree'
  BY <1>2, <1>5, <1>7 DEF IInv, StagesAgree, Accepted
<1>10. ConsumerAgrees'
  BY <1>2 DEF IInv, ConsumerAgrees
<1>11. TailIsEarned'
  BY <1>2 DEF IInv, TailIsEarned, Speaks, CallsOf
<1>12. FinalIsWhole'
  BY <1>2 DEF Ending, FinalIsWhole
<1>13. StartsAreSent'
  BY <1>2, <1>7, StartsKept DEF IInv
<1> QED
  BY <1>6, <1>8, <1>9, <1>10, <1>11, <1>12, <1>13 DEF IInv

\* Every end of the wire finishes the message well.
LEMMA WireEndsKeeps == ASSUME IInv, WireEnds PROVE IInv'
<1>1. PICK m, e : Finish(m, e) /\ Ending(m, e)
  BY WireEndsWell DEF IInv
<1>2. pc = "reading" /\ out = <<>>
  BY DEF WireEnds, WireBreaks, OpenAICallUnnamed, OpenAICut, AnthropicEnds, OpenAICompleted,
         OpenAIIncomplete, OpenAIFailed, Reading
<1> QED
  BY <1>1, <1>2, FinishKeeps

\* The stream of an accepted request begins with its StreamStart.
LEMMA CallKeeps == ASSUME IInv, Call PROVE IInv'
<1>1. /\ pc = "call" /\ Accepted(request) /\ pc' = "prepare" /\ out' = <<Contract!StreamStart>>
      /\ UNCHANGED <<request, chan, final, blocks, whole, announced, deltas, tail,
                     ctxDone, cpc, heard, answer>>
  BY DEF Call, wire, consumer
<1>2. Sent = <<>> /\ final = Contract!NoMessage
  BY <1>1 DEF IInv, StagesAgree
<1>3. heard = <<>> /\ chan = <<>> /\ out = <<>>
  <2>1. heard \in Seq(Contract!StreamEvent) /\ chan \in Seq(Contract!StreamEvent)
        /\ out \in Seq(Contract!StreamEvent)
    BY DEF IInv, TypeOK
  <2> QED
    BY <2>1, <1>2 DEF Sent
<1> DEFINE e == Contract!StreamStart
<1>4. e \in Contract!StreamEvent
  BY EventsAreTyped
<1>5. Sent' = <<e>>
  <2>1. Sent' = Append(Sent, e)
    BY <1>1, <1>3, <1>4, EmissionAppends DEF IInv, TypeOK, Sent
  <2> QED
    BY <2>1, <1>2
<1>6. /\ ~Contract!IsTerminal(e) /\ e.kind = "StreamStart"
      /\ \A block \in Contract!Announced : e.kind # Contract!DeltaOf(block)
  BY DEF Contract!IsTerminal, Contract!DeltaOf
<1> HIDE DEF e
<1>7. Sent' # <<>> /\ Len(Sent') = 1 /\ DOMAIN Sent' = {1} /\ Sent'[1] = e
  BY <1>5
<1>8. Legal(Sent')
  BY <1>6, <1>7 DEF Legal
<1>9. TypeOK'
  BY <1>1, <1>4 DEF IInv, TypeOK, e
<1>10. StagesAgree'
  BY <1>1, <1>2, <1>6, <1>7 DEF StagesAgree, Accepted
<1>11. ConsumerAgrees'
  BY <1>1 DEF IInv, ConsumerAgrees
<1>12. TailIsEarned' /\ FinalIsWhole'
  BY <1>1 DEF IInv, TailIsEarned, FinalIsWhole, Speaks, CallsOf
<1>13. StartsAreSent'
  BY <1>1, <1>2, StartsKept DEF IInv, Keeps
<1> QED
  BY <1>8, <1>9, <1>10, <1>11, <1>12, <1>13 DEF IInv

\* The stream of a refused request is its StreamError.
LEMMA CallRefusedKeeps == ASSUME IInv, CallRefused PROVE IInv'
<1> DEFINE m == Message("error", {})
           e == Contract!StreamError(m)
<1>1. /\ pc = "call" /\ pc' = "done" /\ final' = m /\ chan' = <<e>>
      /\ UNCHANGED <<request, out, blocks, whole, announced, deltas, tail,
                     ctxDone, cpc, heard, answer>>
  BY DEF CallRefused, wire, consumer
<1>2. Sent = <<>>
  BY <1>1 DEF IInv, StagesAgree
<1>3. heard = <<>> /\ chan = <<>> /\ out = <<>>
  <2>1. heard \in Seq(Contract!StreamEvent) /\ chan \in Seq(Contract!StreamEvent)
        /\ out \in Seq(Contract!StreamEvent)
    BY DEF IInv, TypeOK
  <2> QED
    BY <2>1, <1>2 DEF Sent
<1>4. m \in Contract!Message /\ m.stop = "error"
  BY DEF Message, Contract!Message, Contract!StopReasons, Contract!Failures
<1>5. /\ e \in Contract!StreamEvent /\ Contract!IsTerminal(e) /\ e.message = m
      /\ e.kind = "StreamError" /\ Contract!Honest(e)
      /\ \A block \in Contract!Announced : e.kind # Contract!DeltaOf(block)
  BY <1>4, EventsAreTyped
     DEF Contract!IsTerminal, Contract!Honest, Contract!Failures, Contract!DeltaOf
<1> HIDE DEF e, m
<1>6. Sent' = <<e>>
  <2>1. <<>> \o (<<e>> \o <<>>) = <<e>>
    BY <1>5
  <2> QED
    BY <1>1, <1>3, <2>1 DEF Sent
<1>7. Sent' # <<>> /\ Len(Sent') = 1 /\ DOMAIN Sent' = {1} /\ Sent'[1] = e
  BY <1>6
<1>8. Legal(Sent')
  BY <1>5, <1>7 DEF Legal
<1>9. TypeOK'
  <2>1. <<e>> \in Seq(Contract!StreamEvent) /\ Len(<<e>>) <= Cap
    BY <1>5, PipeAssumption
  <2> QED
    BY <1>1, <1>4, <2>1 DEF IInv, TypeOK
<1>10. StagesAgree'
  BY <1>1, <1>3, <1>5, <1>7 DEF StagesAgree
<1>11. ConsumerAgrees'
  BY <1>1 DEF IInv, ConsumerAgrees
<1>12. TailIsEarned' /\ FinalIsWhole'
  BY <1>1, <1>4 DEF IInv, TailIsEarned, FinalIsWhole, Speaks, CallsOf
<1>13. StartsAreSent'
  BY <1>1, <1>2, StartsKept DEF IInv, Keeps
<1> QED
  BY <1>8, <1>9, <1>10, <1>11, <1>12, <1>13 DEF IInv

\* Sent, and what the wire gave, stay as they are.
LEMMA QuietKeeps ==
  ASSUME IInv, Sent' = Sent, UNCHANGED <<request, final, wire>>,
         TypeOK', StagesAgree', ConsumerAgrees'
  PROVE  IInv'
<1>1. TailIsEarned'
  BY DEF IInv, TailIsEarned, wire, Speaks, CallsOf
<1>2. FinalIsWhole'
  BY DEF IInv, FinalIsWhole, wire
<1>3. StartsAreSent'
  BY StartsKept DEF IInv, Keeps, wire
<1> QED
  BY <1>1, <1>2, <1>3 DEF IInv

\* A request that cannot be translated fails, any other is sent.
LEMMA PrepareKeeps == ASSUME IInv, Prepare PROVE IInv'
<1>1. pc = "prepare" /\ out = <<>>
  BY DEF Prepare
<1>2. CASE request.translatable /\ ~Refused(request)
  <2>1. pc' = "reading" /\ UNCHANGED <<request, out, chan, final, wire, consumer>>
    BY <1>2 DEF Prepare
  <2>2. Sent' = Sent
    BY <2>1 DEF Sent, consumer
  <2>3. TypeOK'
    BY <2>1 DEF IInv, TypeOK, wire, consumer
  <2>4. StagesAgree'
    BY <1>1, <2>1, <2>2 DEF IInv, StagesAgree, Accepted
  <2>5. ConsumerAgrees'
    BY <1>1, <2>1 DEF IInv, ConsumerAgrees, consumer
  <2> QED
    BY <2>1, <2>2, <2>3, <2>4, <2>5, QuietKeeps
<1>3. CASE ~(request.translatable /\ ~Refused(request))
  <2>1. PICK stop \in Contract!Failures : Fail(stop)
    BY <1>3 DEF Prepare, Contract!Failures
  <2>2. PICK m, e : Finish(m, e) /\ Ending(m, e)
    BY <2>1, FailIsEnding
  <2> QED
    BY <1>1, <2>2, FinishKeeps
<1> QED
  BY <1>2, <1>3

\* A send moves an event on, and only before the stream is closed.
LEMMA SendKeeps == ASSUME IInv, Send PROVE IInv'
<1>1. Sent' = Sent
  BY SendMoves DEF IInv
<1>2. /\ out # <<>> /\ Len(chan) < Cap /\ chan' = Append(chan, Head(out)) /\ out' = Tail(out)
      /\ UNCHANGED <<request, pc, final, wire, consumer>>
  BY DEF Send
<1>3. /\ chan' \in Seq(Contract!StreamEvent) /\ Len(chan') <= Cap
      /\ out' \in Seq(Contract!StreamEvent)
  <2>1. /\ chan \in Seq(Contract!StreamEvent) /\ out \in Seq(Contract!StreamEvent)
        /\ Len(chan) < Cap /\ Len(chan) \in Nat /\ Cap \in Nat
    BY <1>2, PipeAssumption DEF IInv, TypeOK
  <2> QED
    BY <1>2, <2>1
<1>4. TypeOK'
  BY <1>2, <1>3 DEF IInv, TypeOK, wire, consumer
<1>5. pc \notin {"closing", "done"}
  BY <1>2 DEF IInv, StagesAgree
<1>6. StagesAgree'
  BY <1>1, <1>2, <1>5 DEF IInv, StagesAgree, Accepted
<1>7. ConsumerAgrees'
  BY <1>2, <1>5 DEF IInv, ConsumerAgrees, consumer
<1> QED
  BY <1>1, <1>2, <1>4, <1>6, <1>7, QuietKeeps

\* The stream is closed with nothing left to send.
LEMMA CloseKeeps == ASSUME IInv, CloseEvents \/ CloseDone PROVE IInv'
<1>1. /\ pc \in {"ending", "closing"} /\ out = <<>> /\ pc' \in {"closing", "done"}
      /\ pc = "closing" => pc' = "done"
      /\ UNCHANGED <<request, out, chan, final, wire, consumer>>
  BY DEF IInv, StagesAgree, CloseEvents, CloseDone
<1>2. Sent' = Sent
  BY <1>1 DEF Sent, consumer
<1>3. TypeOK'
  BY <1>1 DEF IInv, TypeOK, wire, consumer
<1>4. StagesAgree'
  BY <1>1, <1>2 DEF IInv, StagesAgree, Accepted
<1>5. ConsumerAgrees'
  BY <1>1 DEF IInv, ConsumerAgrees, consumer
<1> QED
  BY <1>1, <1>2, <1>3, <1>4, <1>5, QuietKeeps

\* A receive moves an event on.
LEMMA ReceiveKeeps == ASSUME IInv, Receive PROVE IInv'
<1>1. Sent' = Sent
  BY ReceiveMoves DEF IInv
<1>2. /\ cpc = "ranging" /\ chan # <<>> /\ heard' = Append(heard, Head(chan)) /\ chan' = Tail(chan)
      /\ UNCHANGED <<request, pc, out, final, wire, ctxDone, cpc, answer>>
  BY DEF Receive
<1>3. /\ chan' \in Seq(Contract!StreamEvent) /\ Len(chan') <= Cap
      /\ heard' \in Seq(Contract!StreamEvent)
  <2>1. /\ chan \in Seq(Contract!StreamEvent) /\ heard \in Seq(Contract!StreamEvent)
        /\ Len(chan) <= Cap /\ Len(chan) \in Nat /\ Cap \in Nat
    BY PipeAssumption DEF IInv, TypeOK
  <2> QED
    BY <1>2, <2>1
<1>4. TypeOK'
  BY <1>2, <1>3 DEF IInv, TypeOK, wire
<1>5. StagesAgree'
  BY <1>1, <1>2 DEF IInv, StagesAgree, Accepted
<1>6. ConsumerAgrees'
  BY <1>2 DEF IInv, ConsumerAgrees
<1> QED
  BY <1>1, <1>2, <1>4, <1>5, <1>6, QuietKeeps

\* The consumer's other steps, and the cancellation.
LEMMA ConsumerKeeps == ASSUME IInv, RangeEnds \/ Result \/ Cancel PROVE IInv'
<1>1. UNCHANGED <<request, pc, out, chan, final, wire, heard>>
  BY DEF RangeEnds, Result, Cancel
<1>2. Sent' = Sent
  BY <1>1 DEF Sent
<1>3. TypeOK'
  BY <1>1 DEF IInv, TypeOK, wire, RangeEnds, Result, Cancel
<1>4. StagesAgree'
  BY <1>1, <1>2 DEF IInv, StagesAgree, Accepted
<1>5. ConsumerAgrees'
  BY <1>1 DEF IInv, ConsumerAgrees, RangeEnds, Result, Cancel
<1> QED
  BY <1>1, <1>2, <1>3, <1>4, <1>5, QuietKeeps

\* Nothing happens.
LEMMA StutterKeeps == ASSUME IInv, UNCHANGED vars PROVE IInv'
<1>1. UNCHANGED <<request, pc, out, chan, final, wire, consumer>>
  BY DEF vars
<1>2. Sent' = Sent
  BY <1>1 DEF Sent, consumer
<1>3. TypeOK' /\ StagesAgree' /\ ConsumerAgrees'
  BY <1>1, <1>2 DEF IInv, TypeOK, StagesAgree, ConsumerAgrees, wire, consumer, Accepted
<1> QED
  BY <1>1, <1>2, <1>3, QuietKeeps

-----------------------------------------------------------------------------
(* The theorems.                                                            *)

\* A request about to be made satisfies the invariant.
LEMMA InitHolds == ASSUME Init PROVE IInv
<1> DEFINE none == <<>>
<1>0. /\ none \in Seq(Contract!StreamEvent) /\ none \in Seq(BlockKinds)
      /\ Len(none) = 0 /\ DOMAIN none = {} /\ none \o (none \o none) = none
  <2>1. none \in Seq(Contract!StreamEvent) /\ none \in Seq(BlockKinds) /\ Len(none) = 0
    BY EmptySeq
  <2>2. DOMAIN none = 1..Len(none)
    BY <2>1
  <2>3. none \o none = none
    BY <2>1, ConcatEmptySeq
  <2> QED
    BY <2>1, <2>2, <2>3
<1>1. Sent = none
  BY <1>0 DEF Init, Sent
<1> HIDE DEF none
<1>2. TypeOK
  <2>1. out = none /\ chan = none /\ blocks = none /\ heard = none
    BY DEF Init, none
  <2>2. /\ request \in Requests /\ pc = "call" /\ whole = {} /\ announced = {} /\ deltas = 0 /\ tail = ""
        /\ ctxDone = FALSE /\ cpc = "ranging" /\ final = Contract!NoMessage /\ answer = Contract!NoMessage
    BY DEF Init
  <2>3. Len(none) <= Cap /\ Len(none) <= MaxBlocks /\ 0 \in 0..MaxDeltas
    BY <1>0, PipeAssumption
  <2> QED
    BY <1>0, <2>1, <2>2, <2>3 DEF TypeOK, Tails
<1>3. StagesAgree
  BY <1>1 DEF Init, StagesAgree, none
<1>4. ConsumerAgrees
  BY DEF Init, ConsumerAgrees
<1>5. TailIsEarned
  BY DEF Init, TailIsEarned
<1>6. FinalIsWhole
  BY DEF Init, FinalIsWhole, Contract!NoMessage
<1>7. StartsAreSent
  BY <1>0 DEF Init, StartsAreSent, none
<1>8. Legal(Sent)
  BY <1>0, <1>1 DEF Legal
<1> QED
  BY <1>2, <1>3, <1>4, <1>5, <1>6, <1>7, <1>8 DEF IInv

\* No step of either provider, of the wire or of the loop disturbs it.
LEMMA StepHolds == ASSUME IInv, [Next]_vars PROVE IInv'
  BY CallKeeps, CallRefusedKeeps, PrepareKeeps, SendKeeps, CloseKeeps, ReceiveKeeps, ConsumerKeeps,
     WireEndsKeeps, WireGoesOnKeeps, StutterKeeps DEF Next, Produce, Consume, Finished

\* Every reachable state satisfies the inductive invariant: the events sent,
\* queued and still to send are together a legal stream that fits the place
\* where the goroutine stands (provider_openai.go, provider_anthropic.go, stream.go).
THEOREM Invariance == Spec => []IInv
  BY InitHolds, StepHolds, PTL DEF Spec

\* The goroutine, the pipe and the consumer keep their types, and the pipe its
\* capacity.
THEOREM TypeCorrect == Spec => []TypeOK
<1>1. IInv => TypeOK
  BY DEF IInv
<1> QED
  BY <1>1, Invariance, PTL

\* A message that stops for tool use names calls, and all of them were received
\* whole: what runTools executes is never half of what the model asked for.
THEOREM WholeCallsOnly == Spec => []OnlyWholeCallsRun
<1>1. IInv => OnlyWholeCallsRun
  BY DEF IInv, ConsumerAgrees, FinalIsWhole, OnlyWholeCallsRun
<1> QED
  BY <1>1, Invariance, PTL

\* Options that registry.Stream accepts are never refused by the provider that
\* checks them again, for any catalog model, allowance and reasoning level.
THEOREM AcceptedAreServed == Spec => []AcceptedOptionsServed
<1>1. IInv => AcceptedOptionsServed
  BY RequestIsServed DEF IInv, TypeOK, StagesAgree, AcceptedOptionsServed
<1> QED
  BY <1>1, Invariance, PTL

\* What the consumer receives next may follow what it has received.
LEMMA ReceiveIsHear ==
  ASSUME IInv, Receive
  PROVE  \E e \in Contract!StreamEvent : Contract!Hear(e)
<1> DEFINE rest == chan \o out
<1>1. /\ chan \in Seq(Contract!StreamEvent) /\ out \in Seq(Contract!StreamEvent)
      /\ heard \in Seq(Contract!StreamEvent) /\ chan # <<>>
  BY DEF IInv, TypeOK, Receive
<1>2. /\ rest \in Seq(Contract!StreamEvent) /\ rest # <<>> /\ Head(rest) = Head(chan)
      /\ Head(chan) \in Contract!StreamEvent
  BY ONLY <1>1
<1>3. Legal(heard \o rest)
  BY DEF IInv, Sent
<1> HIDE DEF rest
<1>4. Contract!MayFollow(heard, Head(chan))
  BY <1>1, <1>2, <1>3, LegalPrefix
<1>5. Contract!Hear(Head(chan))
  BY <1>4 DEF Receive, Contract!Hear
<1> QED
  BY <1>2, <1>5

\* Result gives the message of the last event received.
LEMMA ResultIsConclude == ASSUME IInv, Result PROVE Contract!Conclude
<1>1. /\ answer = Contract!NoMessage /\ chan = <<>> /\ out = <<>>
      /\ answer' = final /\ heard' = heard /\ pc = "done"
  BY DEF IInv, StagesAgree, ConsumerAgrees, Result
<1>2. heard \in Seq(Contract!StreamEvent)
  BY DEF IInv, TypeOK
<1>3. heard \o (<<>> \o <<>>) = heard
  BY <1>2
<1>4. Sent = heard
  BY <1>1, <1>3 DEF Sent
<1>5. heard # <<>> /\ Contract!IsTerminal(heard[Len(heard)]) /\ heard[Len(heard)].message = final
  BY <1>1, <1>4 DEF IInv, StagesAgree
<1>6. Len(heard) \in DOMAIN heard
  BY <1>2, <1>5
<1> QED
  BY <1>1, <1>5, <1>6 DEF Contract!Conclude

\* Both providers implement the contract of stream.go: their streams, as the loop
\* receives them, are streams of the abstract specification.
THEOREM KeepsTheContract == Spec => KeepsContract
<1>1. Init => Contract!Init
  BY DEF Init, Contract!Init
<1>2. ASSUME IInv, [Next]_vars
      PROVE  [Contract!Next]_(Contract!vars)
  <2>1. CASE Receive
    BY <1>2, <2>1, ReceiveIsHear DEF Contract!Next
  <2>2. CASE Result
    BY <1>2, <2>2, ResultIsConclude DEF Contract!Next
  <2>3. CASE Produce \/ RangeEnds \/ Cancel \/ Finished \/ UNCHANGED vars
    BY <2>3 DEF Contract!vars, Produce, Call, CallRefused, Prepare, Fail, Finish, Send, CloseEvents,
                CloseDone, RangeEnds, Cancel, Finished, vars, consumer
  <2>4. CASE WireEnds
    <3>1. PICK m, e : Finish(m, e)
      BY <1>2, <2>4, WireEndsWell DEF IInv
    <3> QED
      BY <3>1 DEF Finish, Contract!vars, consumer
  <2>5. CASE WireGoesOn
    BY <2>5 DEF WireGoesOn, OpenAIItem, AnthropicBlock, OpenAICallAdded, BlockEnds, OpenAIText,
                OpenAIThinking, OpenAIArguments, AnthropicDelta, AnthropicSkips, AnthropicStops, Emit,
                Contract!vars, consumer
  <2> QED
    BY <1>2, <2>1, <2>2, <2>3, <2>4, <2>5 DEF Next, Consume
<1> QED
  BY <1>1, <1>2, Invariance, PTL DEF Spec, KeepsContract, Contract!Spec

=============================================================================
