----------------------------- MODULE MCFunctions -----------------------------
(***************************************************************************)
(* The pure functions of the package over bounded inputs, each grown one   *)
(* element at a time: the messages of a transcript or of a compaction      *)
(* replacement, the blocks of an MCP result, the messages of a context     *)
(* with their sizes in bytes.                                              *)
(***************************************************************************)
EXTENDS MessageSequence, CallResult, ContextBudget, ModelLimits

CONSTANTS MaxMessages, MaxBlocks, MaxContext

VARIABLE input

-----------------------------------------------------------------------------
(* Transcripts.                                                             *)

a == [id |-> "a", name |-> "t"]
b == [id |-> "b", name |-> "t"]
anonymous == [id |-> "", name |-> "t"]

Vocabulary ==
    {User(0)}
    \cup {Assistant(stop, <<>>) : stop \in {"stop", "toolUse"}}
    \cup {Assistant("toolUse", calls) :
            calls \in {<<a>>, <<a, b>>, <<a, a>>, <<anonymous>>}}
    \cup {Assistant("length", <<a>>)}
    \cup {ToolResult("a", "t"), ToolResult("b", ""), ToolResult("a", "u"), ToolResult("", "t")}

Transcript == [about |-> "transcript", messages |-> <<>>]

AddMessage(m) ==
    /\ input.about = "transcript"
    /\ Len(input.messages) < MaxMessages
    /\ input' = [input EXCEPT !.messages = Append(@, m)]

-----------------------------------------------------------------------------
(* MCP results around a limit of ten bytes.                                 *)

Limit == 10

Results ==
    [about : {"result"}, structured : {Absent, 0, 2, 5, 6, 10, 11}, blocks : {<<>>}]

Blocks == [kind : {"text", "other"}, size : {0, 1, 4, 6, 7, 10}, media : {0}]
          \cup [kind : {"image"}, size : {0, 1, 4, 6, 7, 10}, media : {0, 9}]

AddBlock(block) ==
    /\ input.about = "result"
    /\ Len(input.blocks) < MaxBlocks
    /\ input' = [input EXCEPT !.blocks = Append(@, block)]

-----------------------------------------------------------------------------
(* Contexts of catalog models, some of whose windows the allowance nearly   *)
(* fills and some with an input limit of their own.                         *)

Source(context, most, output) ==
    [sound |-> TRUE, responses |-> TRUE, reasoning |-> FALSE, options |-> <<>>,
     context |-> context, input |-> most, output |-> output]

Models ==
    {ModelFromCatalog("openai", source) :
        source \in {s \in {Source(context, most, output) :
                             context \in {5, 4096, 5120, 8192, 10003},
                             most \in {0, 1, 4000, 6000}, output \in {1, 1000, 4096}} :
                      Listed("openai", s)}}

Contexts ==
    [about : {"context"}, model : Models, requested : {0, 1, 1000}, fixed : {0, 7},
     messages : {<<>>}]

\* The blocks of the messages a context grows by.
BlockSizes == {<<>>, <<3000>>, <<500, 2500>>, <<6000>>}

AddToContext(blocks) ==
    /\ input.about = "context"
    /\ Len(input.messages) < MaxContext
    /\ input' = [input EXCEPT !.messages = Append(@, [names |-> 5, blocks |-> blocks])]

-----------------------------------------------------------------------------

Init == input \in {Transcript} \cup Results \cup Contexts

Next ==
    \/ \E m \in Vocabulary : AddMessage(m)
    \/ \E block \in Blocks : AddBlock(block)
    \/ \E blocks \in BlockSizes : AddToContext(blocks)

Spec == Init /\ [][Next]_input

\* The scan of validateMessageSequence, which jumps over each batch, accepts
\* exactly the sequences in which calls and results pair up.
ScanFindsPairs ==
    input.about = "transcript" => (ValidSequence(input.messages) <=> Paired(input.messages))

\* What validateMessageSequence accepts and ends in results, validateContinuation
\* accepts too, so that a compaction whose replacement keeps the results of the
\* last batch never costs a run its continuation.  The converse is narrower:
\* validateContinuation does not look at the stop reason, and after a valid
\* beginning a tail it accepts is one a replacement may have only if the message
\* its results answer stopped for tool use.
ReplacementContinues ==
    input.about = "transcript" =>
        LET messages == input.messages
            k == LastNonResult(messages)
        IN  /\ k < Len(messages) /\ ValidSequence(messages) => ValidContinuation(messages)
            /\ ValidContinuation(messages) /\ ValidSequence(SubSeq(messages, 1, k - 1)) =>
                  (ValidSequence(messages) <=> messages[k].stop = "toolUse")

\* The bytes kept of a result: the structured details, and the content given to
\* the model unless it is the text that says there is none.
Kept(result) ==
    (IF result.structured = Absent THEN 0 ELSE result.structured)
    + (IF result.structured = Absent /\ result.blocks = <<>> THEN 0 ELSE Total(Content(result)))

\* Of these, what names the media types of its images.
Labels(result) == Total([k \in DOMAIN result.blocks |-> Label(result.blocks[k])])

\* convertCallResult accepts a result exactly when what it keeps of it, but for
\* the labels of its images, stays within MaxResultBytes: structured content
\* counts again when it is repeated as text, an image counts in base64, nothing
\* is counted twice or left out.  What it accepts is never without content.
ResultWithinLimit ==
    input.about = "result" =>
        /\ Converted(input, Limit) <=> Kept(input) - Labels(input) <= Limit
        /\ Content(input) # <<>>

\* A request that New's allowance permits and shouldCompact lets pass leaves
\* part of every known limit free, the output reserved: what goes to the
\* provider uncompacted fits the model, by the estimate.
UncompactedFits ==
    input.about = "context" /\ Accepts(input.model, input.requested, "") =>
        LET tokens  == EstimateTokens(input.fixed, input.messages)
            reserve == Allowance(input.model, input.requested)
        IN  ~ShouldCompact(TRUE, input.model, tokens, reserve)
                => Remaining(input.model, tokens, reserve) > 0
=============================================================================
