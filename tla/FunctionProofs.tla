---------------------------- MODULE FunctionProofs ----------------------------
(***************************************************************************)
(* Proofs of what MCFunctions checks on short inputs: of transcripts of    *)
(* any length, from MessageSequenceProofs; of MCP results of any blocks    *)
(* around any limit; of requests of any messages that shouldCompact lets   *)
(* pass, for all limits of the model, estimates and reservations.          *)
(*                                                                         *)
(* The sums of sizes are recursive functions over an interval.  Sums says  *)
(* what such a function is at each point, and by induction over the        *)
(* interval only one is (IntervalInduction).                               *)
(***************************************************************************)
EXTENDS MCFunctions, MessageSequenceProofs

-----------------------------------------------------------------------------
(* The transcripts MCFunctions grows, of any length.                        *)

TranscriptInv ==
    \/ input \in [about : {"transcript"}, messages : Seq(Vocabulary)]
    \/ "about" \in DOMAIN input /\ input.about # "transcript"

\* Sequences over the vocabulary of MCFunctions are conversations.
LEMMA VocabularyTyped ==
    ASSUME NEW messages \in Seq(Vocabulary)
    PROVE  Conversation(messages, Vocabulary, {a, b, anonymous})
<1>. DEFINE Calls == {a, b, anonymous}
<1>1. {<<>>, <<a>>, <<a, b>>, <<a, a>>, <<anonymous>>} \subseteq Seq(Calls)
    OBVIOUS
<1>. HIDE DEF Calls
<1>2. ASSUME NEW m \in Vocabulary
      PROVE  /\ m.role \in {"user", "assistant", "toolResult"}
             /\ m.role = "assistant" => m.calls \in Seq(Calls)
  <2>1. CASE m \in {User(0), ToolResult("a", "t"), ToolResult("b", ""), ToolResult("a", "u"),
                    ToolResult("", "t")}
    <3>1. User(0).role = "user"
        BY DEF User
    <3>2. \A x, y : ToolResult(x, y).role = "toolResult"
        BY DEF ToolResult
    <3>. QED
        BY <2>1, <3>1, <3>2
  <2>2. ASSUME NEW stop, NEW calls \in Seq(Calls), m = Assistant(stop, calls)
        PROVE  m.role = "assistant" /\ m.calls \in Seq(Calls)
      BY <2>2 DEF Assistant
  <2>3. CASE m \in {Assistant(stop, <<>>) : stop \in {"stop", "toolUse"}}
    <3>1. PICK stop \in {"stop", "toolUse"} : m = Assistant(stop, <<>>)
        BY <2>3
    <3>. QED
        BY <1>1, <2>2, <3>1
  <2>4. CASE m \in {Assistant("toolUse", calls) :
                      calls \in {<<a>>, <<a, b>>, <<a, a>>, <<anonymous>>}}
    <3>1. PICK calls \in {<<a>>, <<a, b>>, <<a, a>>, <<anonymous>>} :
              m = Assistant("toolUse", calls)
        BY <2>4
    <3>2. calls \in Seq(Calls)
        BY <1>1
    <3>. QED
        BY <2>2, <3>1, <3>2
  <2>5. CASE m = Assistant("length", <<a>>)
      BY <1>1, <2>2, <2>5
  <2>. QED
      BY <2>1, <2>3, <2>4, <2>5 DEF Vocabulary
<1>. QED
    BY <1>2 DEF Conversation, Calls

\* Every transcript that MCFunctions grows is a sequence over its vocabulary.
LEMMA TranscriptInvariance == Spec => []TranscriptInv
<1>1. Init => TranscriptInv
  <2>1. <<>> \in Seq(Vocabulary)
      OBVIOUS
  <2>2. Transcript \in [about : {"transcript"}, messages : Seq(Vocabulary)]
      BY <2>1 DEF Transcript
  <2>3. \A r \in Results : "about" \in DOMAIN r /\ r.about = "result"
      BY DEF Results
  <2>4. \A c \in Contexts : "about" \in DOMAIN c /\ c.about = "context"
      BY DEF Contexts
  <2>. QED
      BY <2>2, <2>3, <2>4 DEF Init, TranscriptInv
<1>2. ASSUME TranscriptInv, [Next]_input PROVE TranscriptInv'
  <2>. USE <1>2 DEF TranscriptInv
  <2>1. ASSUME NEW m \in Vocabulary, AddMessage(m) PROVE TranscriptInv'
    <3>1. input \in [about : {"transcript"}, messages : Seq(Vocabulary)]
        BY <2>1 DEF AddMessage
    <3>2. Append(input.messages, m) \in Seq(Vocabulary)
        BY <3>1
    <3>3. input' = [input EXCEPT !.messages = Append(input.messages, m)]
        BY <2>1 DEF AddMessage
    <3>. QED
        BY <3>1, <3>2, <3>3
  <2>2. ASSUME NEW block, AddBlock(block) PROVE TranscriptInv'
      BY <2>2 DEF AddBlock
  <2>3. ASSUME NEW blocks, AddToContext(blocks) PROVE TranscriptInv'
      BY <2>3 DEF AddToContext
  <2>4. CASE UNCHANGED input
      BY <2>4
  <2>. QED
      BY <2>1, <2>2, <2>3, <2>4 DEF Next
<1>. QED
    BY <1>1, <1>2, PTL DEF Spec

\* The scan is exact on every transcript MCFunctions can grow, however long.
THEOREM ScansFindPairs == Spec => []ScanFindsPairs
<1>1. ASSUME TranscriptInv PROVE ScanFindsPairs
  <2>. SUFFICES ASSUME input.about = "transcript"
                PROVE  ValidSequence(input.messages) <=> Paired(input.messages)
      BY DEF ScanFindsPairs
  <2>1. input.messages \in Seq(Vocabulary)
      BY <1>1 DEF TranscriptInv
  <2>2. Conversation(input.messages, Vocabulary, {a, b, anonymous})
      BY <2>1, VocabularyTyped
  <2>. QED
      BY <2>2, ScanPairs
<1>. QED
    BY <1>1, TranscriptInvariance, PTL

\* What a compaction may replace a transcript by may be continued if it ends in
\* results; conversely the stop reason decides, which validateContinuation does
\* not look at.
THEOREM ReplacementsContinue == Spec => []ReplacementContinues
<1>1. ASSUME TranscriptInv PROVE ReplacementContinues
  <2>. DEFINE messages == input.messages
              k == LastNonResult(messages)
  <2>. SUFFICES ASSUME input.about = "transcript"
                PROVE  /\ k < Len(messages) /\ ValidSequence(messages) =>
                              ValidContinuation(messages)
                       /\ ValidContinuation(messages) /\ ValidSequence(SubSeq(messages, 1, k - 1)) =>
                              (ValidSequence(messages) <=> messages[k].stop = "toolUse")
      BY DEF ReplacementContinues
  <2>1. messages \in Seq(Vocabulary)
      BY <1>1 DEF TranscriptInv
  <2>2. Conversation(messages, Vocabulary, {a, b, anonymous})
      BY <2>1, VocabularyTyped
  <2>3. ASSUME k < Len(messages), ValidSequence(messages)
        PROVE  ValidContinuation(messages)
      BY <2>2, <2>3, KeptTailContinues
  <2>4. ASSUME ValidContinuation(messages), ValidSequence(SubSeq(messages, 1, k - 1))
        PROVE  ValidSequence(messages) <=> messages[k].stop = "toolUse"
    <3>1. 0 < k /\ k < Len(messages)
        BY <2>4 DEF ValidContinuation
    <3>. QED
        BY <2>2, <2>4, <3>1, ContinuationIsScan
  <2>. QED
      BY <2>3, <2>4
<1>. QED
    BY <1>1, TranscriptInvariance, PTL

-----------------------------------------------------------------------------
(* The compaction trigger.                                                  *)

\* A trigger is at most four fifths of its limit, and never above it.
LEMMA TriggerWithinLimit ==
  ASSUME NEW limit \in Nat
  PROVE  TriggerOf(limit) \in Nat /\ 5 * TriggerOf(limit) <= 4 * limit /\ TriggerOf(limit) <= limit
  BY DEF TriggerOf

\* Of at most two numbers, the least is what CHOOSE picks.
LEMMA LeastOfTwo ==
  ASSUME NEW S, NEW x \in Int, NEW y \in Int, S = {x, y}
  PROVE  LET least == CHOOSE r \in S : \A other \in S : r <= other
         IN  least \in S /\ least <= x /\ least <= y
<1>1. \E r \in S : \A other \in S : r <= other
  <2>1. CASE x <= y
    BY <2>1
  <2>2. CASE y <= x
    BY <2>2
  <2> QED
    BY <2>1, <2>2
<1> QED
  BY <1>1

\* Every limit that is known leaves more than a fifth of itself.
LEMMA EachLimitHolds ==
  ASSUME NEW model, model.window \in Nat, model.maxInput \in Nat,
         NEW tokens \in Int, NEW reserve \in Int,
         ~ShouldCompact(TRUE, model, tokens, reserve)
  PROVE  /\ model.window > 0 => 5 * (model.window - tokens - reserve) > model.window
         /\ model.maxInput > 0 => 5 * (model.maxInput - tokens) > model.maxInput
<1>1. ASSUME model.window > 0
      PROVE  5 * (model.window - tokens - reserve) > model.window
  <2>1. tokens + reserve < TriggerOf(model.window)
    BY <1>1, TriggerWithinLimit DEF ShouldCompact
  <2> QED
    BY <2>1, TriggerWithinLimit
<1>2. ASSUME model.maxInput > 0
      PROVE  5 * (model.maxInput - tokens) > model.maxInput
  <2>1. tokens < TriggerOf(model.maxInput)
    BY <1>2, TriggerWithinLimit DEF ShouldCompact
  <2> QED
    BY <2>1, TriggerWithinLimit
<1> QED
  BY <1>1, <1>2

\* A request below the trigger leaves part of every known limit free, the output
\* reserved: what ContextUsage reports as remaining is then positive, so a hook is
\* never bypassed for a request that does not fit by the estimate.
THEOREM UncompactedLeavesRoom ==
  ASSUME NEW model, model.window \in Nat, model.maxInput \in Nat,
         model.window > 0 \/ model.maxInput > 0,
         NEW tokens \in Int, NEW reserve \in Int,
         ~ShouldCompact(TRUE, model, tokens, reserve)
  PROVE  Remaining(model, tokens, reserve) > 0
<1> DEFINE x == model.window - tokens - reserve
           y == model.maxInput - tokens
           left == Left(model, tokens, reserve)
<1>1. x \in Int /\ y \in Int
  OBVIOUS
<1>2. (model.window > 0 => x > 0) /\ (model.maxInput > 0 => y > 0)
  <2>1. /\ model.window > 0 => 5 * x > model.window
        /\ model.maxInput > 0 => 5 * y > model.maxInput
    BY EachLimitHolds
  <2> HIDE DEF x, y
  <2>2. model.window > 0 => x > 0
    BY <1>1, <2>1
  <2>3. model.maxInput > 0 => y > 0
    BY <1>1, <2>1
  <2> QED
    BY <2>2, <2>3
<1>3. PICK u \in Int, v \in Int : left = {u, v} /\ u > 0 /\ v > 0
  <2>1. CASE model.window > 0 /\ model.maxInput > 0
    BY <1>1, <1>2, <2>1 DEF Left
  <2>2. CASE model.window > 0 /\ ~(model.maxInput > 0)
    <3>1. left = {x, x}
      BY <2>2 DEF Left
    <3> QED
      BY <1>1, <1>2, <2>2, <3>1
  <2>3. CASE ~(model.window > 0) /\ model.maxInput > 0
    <3>1. left = {y, y}
      BY <2>3 DEF Left
    <3> QED
      BY <1>1, <1>2, <2>3, <3>1
  <2> QED
    BY <2>1, <2>2, <2>3
<1> HIDE DEF left
<1>4. left # {}
  BY <1>3
<1>5. Remaining(model, tokens, reserve) = CHOOSE r \in left : \A other \in left : r <= other
  BY <1>4 DEF Remaining, left
<1>6. (CHOOSE r \in left : \A other \in left : r <= other) \in left
  BY <1>3, LeastOfTwo
<1> QED
  BY <1>3, <1>5, <1>6

-----------------------------------------------------------------------------
(* Sums.                                                                    *)

\* The sums of the first k sizes, for each k.
Sums(sizes, sum) ==
    sum[0] = 0 /\ \A k \in 1..Len(sizes) : sum[k] = sum[k - 1] + sizes[k]

\* Total is the last of them.
LEMMA TotalIsLastSum ==
    ASSUME NEW sizes \in Seq(Nat)
    PROVE  \E sum \in [0..Len(sizes) -> Nat] :
               Sums(sizes, sum) /\ Total(sizes) = sum[Len(sizes)]
<1>. DEFINE N == Len(sizes)
            step == [k \in 1..N |-> [x \in Nat |-> x + sizes[k]]]
            sum[k \in 0..Len(sizes)] == IF k = 0 THEN 0 ELSE sum[k - 1] + sizes[k]
<1>1. N \in Nat /\ \A k \in 1..N : sizes[k] \in Nat
    OBVIOUS
<1>2. step \in [1..N -> [Nat -> Nat]]
    BY <1>1
<1>. HIDE DEF step, sum, N
<1>3. PICK f \in [0..N -> Nat] : Recursive(f, N, 0, step)
    BY <1>1, <1>2, RecursionOverInterval
<1>4. \A k \in 1..N : f[k] = f[k - 1] + sizes[k]
  <2>. SUFFICES ASSUME NEW k \in 1..N PROVE f[k] = f[k - 1] + sizes[k]
      OBVIOUS
  <2>1. k - 1 \in 0..N
      BY <1>1
  <2>2. step[k][f[k - 1]] = f[k - 1] + sizes[k]
      BY <2>1 DEF step
  <2>. QED
      BY <1>3, <2>2 DEF Recursive
<1>5. f = [k \in 0..Len(sizes) |-> IF k = 0 THEN 0 ELSE f[k - 1] + sizes[k]]
    BY <1>1, <1>3, <1>4 DEF Recursive, N
<1>6. sum = [k \in 0..Len(sizes) |-> IF k = 0 THEN 0 ELSE sum[k - 1] + sizes[k]]
    BY <1>5 DEF sum
<1>7. Sums(sizes, sum)
    BY <1>1, <1>6, SMTT(60) DEF Sums, N
<1>8. \A k \in 0..N : sum[k] \in Nat
  <2>. DEFINE T == {k \in 0..N : sum[k] \in Nat}
  <2>1. 0 \in T
      BY <1>1, <1>7 DEF Sums
  <2>2. ASSUME NEW k \in 0..(N - 1), k \in T PROVE k + 1 \in T
    <3>1. k + 1 \in 1..N /\ (k + 1) - 1 = k /\ k + 1 \in 0..N
        BY <1>1
    <3>2. sum[k + 1] = sum[(k + 1) - 1] + sizes[k + 1]
        BY <1>7, <3>1 DEF Sums, N
    <3>3. sum[k] \in Nat /\ sizes[k + 1] \in Nat
        BY <1>1, <2>2, <3>1
    <3>4. sum[k + 1] \in Nat
        BY <3>1, <3>2, <3>3
    <3>. QED
        BY <3>1, <3>4
  <2>. HIDE DEF T
  <2>3. \A k \in 0..N : k \in T
      BY <1>1, <2>1, <2>2, UpwardInduction
  <2>. QED
      BY <2>3 DEF T
<1>9. sum \in [0..N -> Nat]
    BY <1>6, <1>8 DEF N
<1>10. Total(sizes) = sum[N]
    BY DEF Total, sum, N
<1>. QED
    BY <1>7, <1>9, <1>10 DEF N

\* Any way to add the sizes up in order gives the total.
LEMMA SumsAgree ==
    ASSUME NEW sizes \in Seq(Nat), NEW sum, Sums(sizes, sum)
    PROVE  Total(sizes) = sum[Len(sizes)] /\ Total(sizes) \in Nat
<1>. DEFINE N == Len(sizes)
<1>1. N \in Nat
    OBVIOUS
<1>2. PICK f \in [0..N -> Nat] : Sums(sizes, f) /\ Total(sizes) = f[N]
    BY TotalIsLastSum
<1>. DEFINE T == {k \in 0..N : sum[k] = f[k]}
<1>3. 0 \in T
    BY <1>1, <1>2 DEF Sums
<1>4. ASSUME NEW k \in 0..(N - 1), k \in T PROVE k + 1 \in T
  <2>1. k + 1 \in 1..N /\ k + 1 \in 0..N /\ (k + 1) - 1 = k
      BY <1>1
  <2>2. sum[k + 1] = sum[k] + sizes[k + 1] /\ f[k + 1] = f[k] + sizes[k + 1]
      BY <1>2, <2>1 DEF Sums
  <2>. QED
      BY <1>4, <2>1, <2>2
<1>. HIDE DEF T, N
<1>5. \A k \in 0..N : k \in T
    BY <1>1, <1>3, <1>4, UpwardInduction
<1>6. N \in 0..N
    BY <1>1
<1>7. sum[N] = f[N] /\ f[N] \in Nat
    BY <1>2, <1>5, <1>6 DEF T
<1>. QED
    BY <1>2, <1>7 DEF N

\* One size is its own total.
LEMMA TotalOfOne ==
    ASSUME NEW size \in Nat
    PROVE  Total(<<size>>) = size
<1>. DEFINE sizes == <<size>>
            sum == [k \in 0..1 |-> IF k = 0 THEN 0 ELSE size]
<1>1. sizes \in Seq(Nat) /\ Len(sizes) = 1 /\ sizes[1] = size
    OBVIOUS
<1>2. sum[0] = 0 /\ sum[1] = size
    OBVIOUS
<1>. HIDE DEF sizes, sum
<1>3. \A k \in 1..1 : sum[k] = sum[k - 1] + sizes[k]
  <2>1. \A k \in 1..1 : k = 1 /\ k - 1 = 0
      OBVIOUS
  <2>. QED
      BY <1>1, <1>2, <2>1
<1>4. Sums(sizes, sum)
    BY <1>1, <1>2, <1>3 DEF Sums
<1>. QED
    BY <1>1, <1>2, <1>4, SumsAgree DEF sizes

\* What is added up in two parts adds up to the sum of the two.
LEMMA TotalOfParts ==
    ASSUME NEW s \in Seq(Nat), NEW t \in Seq(Nat), NEW u \in Seq(Nat),
           Len(t) = Len(s), Len(u) = Len(s),
           \A k \in 1..Len(s) : u[k] = s[k] + t[k]
    PROVE  Total(u) = Total(s) + Total(t) /\ Total(s) \in Nat /\ Total(t) \in Nat
<1>. DEFINE N == Len(s)
<1>1. N \in Nat /\ \A k \in 1..N : s[k] \in Nat /\ t[k] \in Nat
    OBVIOUS
<1>2. PICK f \in [0..N -> Nat] : Sums(s, f) /\ Total(s) = f[N]
    BY TotalIsLastSum
<1>3. PICK g \in [0..N -> Nat] : Sums(t, g) /\ Total(t) = g[N]
    BY TotalIsLastSum
<1>. DEFINE sum == [k \in 0..N |-> f[k] + g[k]]
<1>4. sum[0] = 0
    BY <1>1, <1>2, <1>3 DEF Sums
<1>5. ASSUME NEW k \in 1..N PROVE sum[k] = sum[k - 1] + u[k]
  <2>1. k - 1 \in 0..N /\ k \in 0..N
      BY <1>1
  <2>2. /\ f[k] = f[k - 1] + s[k] /\ g[k] = g[k - 1] + t[k]
        /\ f[k - 1] \in Nat /\ g[k - 1] \in Nat /\ u[k] = s[k] + t[k]
      BY <1>2, <1>3, <2>1 DEF Sums
  <2>. QED
      BY <1>1, <2>1, <2>2, SMTT(60)
<1>6. N \in 0..N
    BY <1>1
<1>7. sum[N] = Total(s) + Total(t)
    BY <1>2, <1>3, <1>6
<1>. HIDE DEF sum
<1>8. Sums(u, sum)
    BY <1>4, <1>5 DEF Sums
<1>9. Total(u) = sum[N]
    BY <1>8, SumsAgree
<1>. QED
    BY <1>2, <1>3, <1>6, <1>7, <1>9

-----------------------------------------------------------------------------
(* MCP results.                                                             *)

RemoteBlocks == [kind : {"text", "image", "other"}, size : Nat, media : Nat]

\* What a remote server may return.
RemoteResult(result) ==
    /\ result.structured \in Nat \cup {Absent}
    /\ result.blocks \in Seq(RemoteBlocks)

\* The use of the limit after x bytes.
Use(x, limit) == IF x > limit THEN -1 ELSE x

\* convertCallResult accepts a result exactly when what it keeps of it, but for
\* the labels of its images, stays within the limit, however many blocks there
\* are and however large: no block is counted twice or left out, and no image is
\* counted before its encoding.
THEOREM ConversionsAreExact ==
    ASSUME NEW result, RemoteResult(result), NEW limit \in Nat
    PROVE  Converted(result, limit) <=> Kept(result) - Labels(result) <= limit
<1>. DEFINE N == Len(result.blocks)
            d == IF result.structured = Absent THEN 0 ELSE result.structured
            sizes == [k \in 1..N |-> Counted(result.blocks[k])]
            labels == [k \in 1..N |-> Label(result.blocks[k])]
            whole == [k \in 1..N |-> KeptSize(result.blocks[k])]
            Consume(used, size) == IF used < 0 \/ used + size > limit THEN -1 ELSE used + size
            structured == IF result.structured = Absent THEN 0
                                                        ELSE Consume(0, result.structured)
            scan[k \in 0..Len(result.blocks)] ==
                IF k = 0 THEN structured
                         ELSE Consume(scan[k - 1], Counted(result.blocks[k]))
<1>1. /\ N \in Nat /\ DOMAIN result.blocks = 1..N /\ (N = 0 <=> result.blocks = <<>>)
      /\ \A k \in 1..N : result.blocks[k].size \in Nat /\ result.blocks[k].media \in Nat
  <2>. DEFINE blocks == result.blocks
  <2>1. blocks \in Seq(RemoteBlocks)
      BY DEF RemoteResult
  <2>. HIDE DEF blocks
  <2>2. /\ Len(blocks) \in Nat /\ DOMAIN blocks = 1..Len(blocks)
        /\ (Len(blocks) = 0 <=> blocks = <<>>)
        /\ \A k \in 1..Len(blocks) : blocks[k] \in RemoteBlocks
      BY <2>1
  <2>3. \A block \in RemoteBlocks : block.size \in Nat /\ block.media \in Nat
      BY DEF RemoteBlocks
  <2>. QED
      BY <2>2, <2>3 DEF blocks
<1>2. d \in Nat /\ (result.structured # Absent => result.structured \in Nat)
    BY DEF RemoteResult, Absent
<1>3. ASSUME NEW k \in 1..N
      PROVE  /\ Counted(result.blocks[k]) \in Nat /\ Label(result.blocks[k]) \in Nat
             /\ KeptSize(result.blocks[k]) = Counted(result.blocks[k]) + Label(result.blocks[k])
             /\ KeptSize(result.blocks[k]) \in Nat
  <2>1. Counted(result.blocks[k]) \in Nat
      BY <1>1, SMTT(60) DEF Counted, Base64
  <2>2. Label(result.blocks[k]) \in Nat
      BY <1>1 DEF Label
  <2>3. KeptSize(result.blocks[k]) = Label(result.blocks[k]) + Counted(result.blocks[k])
      BY DEF KeptSize, Counted
  <2>. QED
      BY <2>1, <2>2, <2>3
<1>. HIDE DEF N
<1>4. /\ sizes \in Seq(Nat) /\ Len(sizes) = N
      /\ \A k \in 1..N : sizes[k] = Counted(result.blocks[k])
    BY <1>1, <1>3
<1>5. /\ labels \in Seq(Nat) /\ Len(labels) = N
       /\ \A k \in 1..N : labels[k] = Label(result.blocks[k])
    BY <1>1, <1>3
<1>6. /\ whole \in Seq(Nat) /\ Len(whole) = N
       /\ \A k \in 1..N : whole[k] = sizes[k] + labels[k]
    BY <1>1, <1>3
<1>7. Labels(result) = Total(labels)
    BY <1>1 DEF Labels
<1>. HIDE DEF sizes, labels, whole
<1>8. /\ Total(whole) = Total(sizes) + Total(labels)
       /\ Total(sizes) \in Nat /\ Total(labels) \in Nat
    BY <1>4, <1>5, <1>6, TotalOfParts
<1>9. PICK sum \in [0..N -> Nat] : Sums(sizes, sum) /\ Total(sizes) = sum[N]
    BY <1>4, TotalIsLastSum
<1>10. structured = Use(d, limit)
    BY <1>2 DEF Use
<1>11. \A x, y \in Nat : Consume(Use(x, limit), y) = Use(x + y, limit)
    BY DEF Use
<1>. HIDE DEF d, structured, Consume
<1>. DEFINE g == [k \in 0..N |-> Use(d + sum[k], limit)]
<1>12. g[0] = structured
    BY <1>1, <1>2, <1>9, <1>10 DEF Sums
<1>13. ASSUME NEW k \in 1..N PROVE g[k] = Consume(g[k - 1], Counted(result.blocks[k]))
  <2>1. k - 1 \in 0..N /\ k \in 0..N
      BY <1>1
  <2>2. /\ sum[k - 1] \in Nat /\ sizes[k] \in Nat /\ sum[k] = sum[k - 1] + sizes[k]
        /\ sizes[k] = Counted(result.blocks[k])
      BY <1>3, <1>4, <1>9, <2>1 DEF Sums
  <2>3. d + sum[k - 1] \in Nat /\ d + sum[k] = (d + sum[k - 1]) + sizes[k]
      BY <1>2, <2>2
  <2>4. Consume(Use(d + sum[k - 1], limit), sizes[k]) = Use(d + sum[k], limit)
      BY <1>11, <2>2, <2>3
  <2>. QED
      BY <2>1, <2>2, <2>4
<1>. HIDE DEF g
<1>14. g = [k \in 0..Len(result.blocks) |->
               IF k = 0 THEN structured
                        ELSE Consume(g[k - 1], Counted(result.blocks[k]))]
  <2>1. g = [k \in 0..N |-> g[k]]
      BY DEF g
  <2>2. \A k \in 0..N : k = 0 \/ k \in 1..N
      BY <1>1
  <2>. QED
      BY <1>12, <1>13, <2>1, <2>2 DEF N
<1>15. scan = [k \in 0..Len(result.blocks) |->
                  IF k = 0 THEN structured
                           ELSE Consume(scan[k - 1], Counted(result.blocks[k]))]
    BY <1>14 DEF scan
<1>16. \A k \in 0..N : scan[k] = g[k]
  <2>. DEFINE T == {k \in 0..N : scan[k] = g[k]}
  <2>. HIDE DEF scan
  <2>1. 0 \in T
      BY <1>1, <1>12, <1>15 DEF N
  <2>2. ASSUME NEW k \in 0..(N - 1), k \in T PROVE k + 1 \in T
    <3>1. k + 1 \in 1..N /\ k + 1 \in 0..N /\ k + 1 # 0 /\ (k + 1) - 1 = k
        BY <1>1
    <3>2. scan[k + 1] = Consume(scan[k], Counted(result.blocks[k + 1]))
        BY <1>15, <3>1 DEF N
    <3>3. g[k + 1] = Consume(g[k], Counted(result.blocks[k + 1]))
        BY <1>13, <3>1
    <3>. QED
        BY <2>2, <3>1, <3>2, <3>3
  <2>. HIDE DEF T
  <2>3. \A k \in 0..N : k \in T
      BY <1>1, <2>1, <2>2, UpwardInduction
  <2>. QED
      BY <2>3 DEF T
<1>17. scan[N] = Use(d + sum[N], limit) /\ sum[N] \in Nat
    BY <1>1, <1>9, <1>16 DEF g
<1>18. Used(result, limit) =
           IF Repeated(result) THEN Consume(scan[N], result.structured) ELSE scan[N]
    BY DEF Used, scan, structured, Consume, N
<1>. HIDE DEF scan
<1>19. \A x \in Nat : Use(x, limit) >= 0 <=> x <= limit
    BY DEF Use
<1>20. CASE result.blocks # <<>>
  <2>1. Content(result) = whole
      BY <1>1, <1>20 DEF Content, whole
  <2>2. Kept(result) - Labels(result) = d + sum[N]
    <3>1. Kept(result) = d + Total(whole)
        BY <1>20, <2>1 DEF Kept, d
    <3>. QED
        BY <1>2, <1>7, <1>8, <1>9, <3>1
  <2>3. Used(result, limit) = Use(d + sum[N], limit)
      BY <1>17, <1>18, <1>20 DEF Repeated
  <2>4. d + sum[N] \in Nat
      BY <1>2, <1>17
  <2>. QED
      BY <1>19, <2>2, <2>3, <2>4 DEF Converted
<1>21. CASE result.blocks = <<>>
  <2>1. sum[N] = 0 /\ scan[N] = Use(d, limit)
      BY <1>1, <1>2, <1>9, <1>17, <1>21 DEF Sums
  <2>2. Labels(result) = 0
    <3>1. Len(labels) = 0
        BY <1>1, <1>5, <1>21
    <3>2. PICK f \in [0..Len(labels) -> Nat] : Sums(labels, f) /\ Total(labels) = f[Len(labels)]
        BY <1>5, TotalIsLastSum
    <3>. QED
        BY <1>7, <3>1, <3>2 DEF Sums
  <2>3. CASE result.structured = Absent
    <3>1. Used(result, limit) = Use(0, limit) /\ Kept(result) = 0
        BY <1>18, <1>21, <2>1, <2>3 DEF Repeated, Kept, d
    <3>. QED
        BY <1>19, <2>2, <3>1 DEF Converted
  <2>4. CASE result.structured # Absent
    <3>1. d = result.structured
        BY <2>4 DEF d
    <3>2. Content(result) = <<d>> /\ Total(<<d>>) = d
        BY <1>2, <1>21, <2>4, <3>1, TotalOfOne DEF Content, Repeated
    <3>3. Kept(result) = d + d
        BY <1>21, <2>4, <3>1, <3>2 DEF Kept
    <3>4. Used(result, limit) = Use(d + d, limit)
        BY <1>2, <1>11, <1>18, <1>21, <2>1, <2>4, <3>1 DEF Repeated
    <3>5. d + d \in Nat
        BY <1>2
    <3>. QED
        BY <1>19, <2>2, <3>3, <3>4, <3>5 DEF Converted
  <2>. QED
      BY <2>3, <2>4
<1>. QED
    BY <1>20, <1>21

\* The results MCFunctions grows, of any length.
ResultInv ==
    \/ input \in [about : {"result"}, structured : Nat \cup {Absent}, blocks : Seq(Blocks)]
    \/ "about" \in DOMAIN input /\ input.about # "result"

\* Every result that MCFunctions grows has blocks with sizes, and details or none.
LEMMA ResultInvariance == Spec => []ResultInv
<1>1. Init => ResultInv
  <2>1. Transcript.about = "transcript" /\ "about" \in DOMAIN Transcript
      BY DEF Transcript
  <2>2. Results \subseteq [about : {"result"}, structured : Nat \cup {Absent}, blocks : Seq(Blocks)]
    <3>1. <<>> \in Seq(Blocks) /\ {Absent, 0, 2, 5, 6, 10, 11} \subseteq Nat \cup {Absent}
        OBVIOUS
    <3>. QED
        BY <3>1 DEF Results
  <2>3. \A c \in Contexts : "about" \in DOMAIN c /\ c.about = "context"
      BY DEF Contexts
  <2>. QED
      BY <2>1, <2>2, <2>3 DEF Init, ResultInv
<1>2. ASSUME ResultInv, [Next]_input PROVE ResultInv'
  <2>. USE <1>2 DEF ResultInv
  <2>1. ASSUME NEW m, AddMessage(m) PROVE ResultInv'
      BY <2>1 DEF AddMessage
  <2>2. ASSUME NEW block \in Blocks, AddBlock(block) PROVE ResultInv'
    <3>1. input \in [about : {"result"}, structured : Nat \cup {Absent}, blocks : Seq(Blocks)]
        BY <2>2 DEF AddBlock
    <3>2. Append(input.blocks, block) \in Seq(Blocks)
        BY <3>1
    <3>3. input' = [input EXCEPT !.blocks = Append(input.blocks, block)]
        BY <2>2 DEF AddBlock
    <3>. QED
        BY <3>1, <3>2, <3>3
  <2>3. ASSUME NEW blocks, AddToContext(blocks) PROVE ResultInv'
      BY <2>3 DEF AddToContext
  <2>4. CASE UNCHANGED input
      BY <2>4
  <2>. QED
      BY <2>1, <2>2, <2>3, <2>4 DEF Next
<1>. QED
    BY <1>1, <1>2, PTL DEF Spec

\* What the labels come to: whatever the limit, a result that is accepted may be
\* kept with more bytes, for an image without data under a media type as long as
\* the limit counts nothing.
THEOREM LabelsGoUncounted ==
    ASSUME NEW limit \in Nat
    PROVE  \E result : RemoteResult(result) /\ Converted(result, limit) /\ Kept(result) > limit
<1>. DEFINE image == [kind |-> "image", size |-> 0, media |-> limit]
            blocks == <<image>>
            result == [structured |-> Absent, blocks |-> blocks]
<1>1. image \in RemoteBlocks /\ Label(image) = 2 * limit + 13 /\ KeptSize(image) = 2 * limit + 13
    BY DEF RemoteBlocks, Label, KeptSize, Base64
<1>2. blocks \in Seq(RemoteBlocks) /\ blocks # <<>> /\ DOMAIN blocks = 1..1 /\ blocks[1] = image
    BY <1>1
<1>3. RemoteResult(result)
    BY <1>2 DEF RemoteResult
<1>4. Content(result) = <<2 * limit + 13>>
  <2>1. Content(result) = [k \in DOMAIN blocks |-> KeptSize(blocks[k])]
      BY <1>2 DEF Content
  <2>. QED
      BY <1>1, <1>2, <2>1
<1>5. Kept(result) = 2 * limit + 13
  <2>1. Kept(result) = Total(Content(result))
      BY <1>2, <1>4, TotalOfOne DEF Kept
  <2>. QED
      BY <1>4, <2>1, TotalOfOne
<1>6. Labels(result) = 2 * limit + 13
  <2>1. [k \in DOMAIN blocks |-> Label(blocks[k])] = <<2 * limit + 13>>
      BY <1>1, <1>2
  <2>. QED
      BY <2>1, TotalOfOne DEF Labels
<1>7. Converted(result, limit)
    BY <1>3, <1>5, <1>6, ConversionsAreExact
<1>. HIDE DEF result
<1>. QED
    BY <1>3, <1>5, <1>7

\* The count is exact for every result MCFunctions can grow, however long, and
\* what is accepted is never without content.
THEOREM ResultsStayWithinLimit == Spec => []ResultWithinLimit
<1>1. ASSUME ResultInv PROVE ResultWithinLimit
  <2>. SUFFICES ASSUME input.about = "result"
                PROVE  /\ Converted(input, Limit) <=> Kept(input) - Labels(input) <= Limit
                       /\ Content(input) # <<>>
      BY DEF ResultWithinLimit
  <2>1. input \in [about : {"result"}, structured : Nat \cup {Absent}, blocks : Seq(Blocks)]
      BY <1>1 DEF ResultInv
  <2>2. \A block \in Blocks : block \in RemoteBlocks
      BY DEF Blocks, RemoteBlocks
  <2>3. RemoteResult(input)
    <3>1. input.blocks \in Seq(Blocks) /\ input.structured \in Nat \cup {Absent}
        BY <2>1
    <3>2. input.blocks \in Seq(RemoteBlocks)
        BY <2>2, <3>1
    <3>. QED
        BY <3>1, <3>2 DEF RemoteResult
  <2>4. Limit \in Nat
      BY DEF Limit
  <2>5. Content(input) # <<>>
    <3>1. CASE input.blocks # <<>>
      <4>. DEFINE blocks == input.blocks
                  content == [k \in DOMAIN blocks |-> KeptSize(blocks[k])]
      <4>1. blocks \in Seq(Blocks) /\ blocks # <<>>
          BY <2>1, <3>1
      <4>2. Content(input) = content
          BY <3>1 DEF Content
      <4>. HIDE DEF blocks
      <4>3. DOMAIN content = DOMAIN blocks /\ 1 \in DOMAIN blocks
          BY <4>1
      <4>. QED
          BY <4>2, <4>3
    <3>2. CASE input.blocks = <<>>
        BY <3>2 DEF Content
    <3>. QED
        BY <3>1, <3>2
  <2>. QED
      BY <2>3, <2>4, <2>5, ConversionsAreExact
<1>. QED
    BY <1>1, ResultInvariance, PTL

-----------------------------------------------------------------------------
(* Requests of estimated size.                                              *)

\* The contexts MCFunctions grows, of any length.
ContextInv ==
    \/ /\ input \in [about : {"context"}, model : Models, requested : Nat, fixed : Nat,
                     messages : Seq([names : Nat, blocks : Seq(Nat)])]
    \/ "about" \in DOMAIN input /\ input.about # "context"

\* Every context that MCFunctions grows has a catalog model and sized messages.
LEMMA ContextInvariance == Spec => []ContextInv
<1>. DEFINE Sized == [names : Nat, blocks : Seq(Nat)]
            Typed == [about : {"context"}, model : Models, requested : Nat, fixed : Nat,
                      messages : Seq(Sized)]
<1>1. Init => ContextInv
  <2>1. Transcript.about = "transcript" /\ "about" \in DOMAIN Transcript
      BY DEF Transcript
  <2>2. \A r \in Results : "about" \in DOMAIN r /\ r.about = "result"
      BY DEF Results
  <2>3. Contexts \subseteq Typed
    <3>. HIDE DEF Sized
    <3>. SUFFICES ASSUME NEW c \in Contexts PROVE c \in Typed
        OBVIOUS
    <3>1. c \in [about : {"context"}, model : Models, requested : {0, 1, 1000}, fixed : {0, 7},
                 messages : {<<>>}]
        BY DEF Contexts
    <3>2. <<>> \in Seq(Sized)
        OBVIOUS
    <3>. DEFINE S == Seq(Sized)
    <3>3. {<<>>} \subseteq S
        BY <3>2
    <3>. HIDE DEF S
    <3>4. c \in [about : {"context"}, model : Models, requested : Nat, fixed : Nat, messages : S]
        BY <3>1, <3>3
    <3>. QED
        BY <3>4 DEF S
  <2>. HIDE DEF Typed
  <2>4. input \in Typed => ContextInv
      BY DEF ContextInv, Typed
  <2>. QED
      BY <2>1, <2>2, <2>3, <2>4 DEF Init, ContextInv
<1>2. ASSUME ContextInv, [Next]_input PROVE ContextInv'
  <2>. USE <1>2 DEF ContextInv
  <2>1. ASSUME NEW m, AddMessage(m) PROVE ContextInv'
      BY <2>1 DEF AddMessage
  <2>2. ASSUME NEW block, AddBlock(block) PROVE ContextInv'
      BY <2>2 DEF AddBlock
  <2>3. ASSUME NEW blocks \in BlockSizes, AddToContext(blocks) PROVE ContextInv'
    <3>. DEFINE m == [names |-> 5, blocks |-> blocks]
    <3>1. blocks \in Seq(Nat)
      <4>1. <<>> \in Seq(Nat)
          OBVIOUS
      <4>2. \A x \in Nat : <<x>> \in Seq(Nat)
          OBVIOUS
      <4>3. \A x, y \in Nat : <<x, y>> \in Seq(Nat)
          OBVIOUS
      <4>. DEFINE S == Seq(Nat)
      <4>. HIDE <1>2, <2>3 DEF S, ContextInv
      <4>4. BlockSizes \subseteq S
          BY <4>1, <4>2, <4>3 DEF BlockSizes, S
      <4>. QED
          BY <2>3, <4>4 DEF S
    <3>2. m \in Sized
        BY <3>1
    <3>3. input \in Typed
        BY <2>3 DEF AddToContext
    <3>4. input' = [input EXCEPT !.messages = Append(input.messages, m)]
        BY <2>3 DEF AddToContext
    <3>. HIDE DEF m, Sized
    <3>5. Append(input.messages, m) \in Seq(Sized)
        BY <3>2, <3>3
    <3>. DEFINE S    == Seq(Sized)
                more == Append(input.messages, m)
    <3>. HIDE DEF S, more
    <3>6. input \in [about : {"context"}, model : Models, requested : Nat, fixed : Nat,
                     messages : S]
        BY <3>3 DEF S
    <3>7. more \in S /\ input' = [input EXCEPT !.messages = more]
        BY <3>4, <3>5 DEF S, more
    <3>8. input' \in [about : {"context"}, model : Models, requested : Nat, fixed : Nat,
                      messages : S]
      <4>. HIDE <1>2 DEF ContextInv
      <4>1. \A r \in [about : {"context"}, model : Models, requested : Nat, fixed : Nat,
                      messages : S], v \in S :
              [r EXCEPT !.messages = v] \in [about : {"context"}, model : Models,
                                             requested : Nat, fixed : Nat, messages : S]
          OBVIOUS
      <4>. QED
          BY <3>6, <3>7, <4>1
    <3>9. input' \in Typed
        BY <3>8 DEF S
    <3>. QED
        BY <3>9 DEF Sized
  <2>4. CASE UNCHANGED input
      BY <2>4
  <2>. QED
      BY <2>1, <2>2, <2>3, <2>4 DEF Next
<1>. QED
    BY <1>1, <1>2, PTL DEF Spec

\* The estimate of a request is a number.
LEMMA EstimateTyped ==
    ASSUME NEW fixed \in Nat,
           NEW messages \in Seq([names : Nat, blocks : Seq(Nat)])
    PROVE  EstimateTokens(fixed, messages) \in Nat
<1>1. ASSUME NEW message \in [names : Nat, blocks : Seq(Nat)]
      PROVE  MessageBytes(message) \in Nat
  <2>. DEFINE blocks == message.blocks
              sizes == [k \in DOMAIN blocks |-> 12 + blocks[k]]
  <2>1. blocks \in Seq(Nat) /\ message.names \in Nat
      OBVIOUS
  <2>. HIDE DEF blocks
  <2>2. sizes \in Seq(Nat)
    <3>1. sizes \in [1..Len(blocks) -> Nat] /\ Len(blocks) \in Nat
        BY <2>1
    <3>. HIDE DEF sizes
    <3>. QED
        BY <3>1
  <2>. HIDE DEF sizes
  <2>3. PICK sum : Sums(sizes, sum)
      BY <2>2, TotalIsLastSum
  <2>4. Total(sizes) \in Nat
      BY <2>2, <2>3, SumsAgree
  <2>5. MessageBytes(message) = 24 + message.names + Total(sizes)
      BY DEF MessageBytes, sizes, blocks
  <2>. QED
      BY <2>1, <2>4, <2>5
<1>. DEFINE sizes == [k \in DOMAIN messages |-> MessageBytes(messages[k])]
<1>2. sizes \in Seq(Nat)
  <2>. DEFINE S == [names : Nat, blocks : Seq(Nat)]
  <2>1. messages \in Seq(S) /\ \A m \in S : MessageBytes(m) \in Nat
      BY <1>1
  <2>. HIDE DEF S
  <2>2. sizes \in [1..Len(messages) -> Nat] /\ Len(messages) \in Nat
    <3>1. DOMAIN messages = 1..Len(messages) /\ \A k \in 1..Len(messages) : messages[k] \in S
        BY <2>1
    <3>. QED
        BY <2>1, <3>1
  <2>. HIDE DEF sizes
  <2>3. \A n \in Nat : \A f \in [1..n -> Nat] : f \in Seq(Nat)
      OBVIOUS
  <2>4. \A n \in Nat : sizes \in [1..n -> Nat] => sizes \in Seq(Nat)
      BY <2>3
  <2>5. Len(messages) \in Nat
      BY <2>2
  <2>. QED
      BY <2>2, <2>4, <2>5, Zenon
<1>. HIDE DEF sizes
<1>3. PICK sum : Sums(sizes, sum)
    BY <1>2, TotalIsLastSum
<1>4. Total(sizes) \in Nat
    BY <1>2, <1>3, SumsAgree
<1>5. EstimateTokens(fixed, messages) = (fixed + 32 + Total(sizes) + 1) \div 2
    BY DEF EstimateTokens, sizes
<1>. QED
    BY <1>4, <1>5

\* A request to a model of the catalog that shouldCompact lets pass leaves part
\* of every known limit free, the output reserved, whatever the limits of the
\* model, the allowance asked of New, and however long the context.
THEOREM UncompactedRequestsFit ==
    ASSUME NEW catalog, NEW source,
           source.context \in Nat, source.input \in Nat, source.output \in Nat,
           Listed(catalog, source),
           NEW requested \in Nat, NEW fixed \in Nat,
           NEW messages \in Seq([names : Nat, blocks : Seq(Nat)])
    PROVE  LET model   == ModelFromCatalog(catalog, source)
               tokens  == EstimateTokens(fixed, messages)
               reserve == Allowance(model, requested)
           IN  ~ShouldCompact(TRUE, model, tokens, reserve)
                   => Remaining(model, tokens, reserve) > 0
<1>. DEFINE model   == ModelFromCatalog(catalog, source)
            tokens  == EstimateTokens(fixed, messages)
            reserve == Allowance(model, requested)
<1>1. /\ model.window = source.context /\ model.maxInput = source.input
      /\ model.maxOutput = source.output
    BY DEF ModelFromCatalog
<1>2. model.window \in Nat /\ model.maxInput \in Nat /\ model.window > 0
    BY <1>1 DEF Listed
<1>3. tokens \in Int
    BY EstimateTyped
<1>4. reserve \in Int
  <2>. HIDE DEF model
  <2>1. DefaultAllowance(model) \in Int
      BY <1>1 DEF DefaultAllowance, DefaultMaxTokens
  <2>. QED
      BY <2>1 DEF Allowance
<1>. HIDE DEF model, tokens, reserve
<1>5. ~ShouldCompact(TRUE, model, tokens, reserve) => Remaining(model, tokens, reserve) > 0
    BY <1>2, <1>3, <1>4, UncompactedLeavesRoom
<1>. QED
    BY <1>5 DEF model, tokens, reserve

\* So does every request MCFunctions grows, however long its context: what goes
\* to the provider uncompacted fits the model, by the estimate (compaction.go).
THEOREM UncompactedRequestsOfCatalogFit == Spec => []UncompactedFits
<1>1. ASSUME ContextInv PROVE UncompactedFits
  <2>. SUFFICES ASSUME input.about = "context"
                PROVE  LET tokens  == EstimateTokens(input.fixed, input.messages)
                           reserve == Allowance(input.model, input.requested)
                       IN  ~ShouldCompact(TRUE, input.model, tokens, reserve)
                               => Remaining(input.model, tokens, reserve) > 0
      BY DEF UncompactedFits
  <2>1. /\ input.model \in Models /\ input.requested \in Nat /\ input.fixed \in Nat
        /\ input.messages \in Seq([names : Nat, blocks : Seq(Nat)])
      BY <1>1 DEF ContextInv
  <2>. DEFINE Sources == {Source(context, most, output) :
                            context \in {5, 4096, 5120, 8192, 10003},
                            most \in {0, 1, 4000, 6000}, output \in {1, 1000, 4096}}
  <2>2. \A s \in Sources : s.context \in Nat /\ s.input \in Nat /\ s.output \in Nat
      BY DEF Source
  <2>3. input.model \in {ModelFromCatalog("openai", source) :
                           source \in {s \in Sources : Listed("openai", s)}}
      BY <2>1 DEF Models
  <2>. HIDE DEF Sources
  <2>4. PICK source \in Sources : Listed("openai", source)
                                  /\ input.model = ModelFromCatalog("openai", source)
      BY <2>3, Zenon
  <2>5. source.context \in Nat /\ source.input \in Nat /\ source.output \in Nat
      BY <2>2, <2>4
  <2>6. LET model   == ModelFromCatalog("openai", source)
            tokens  == EstimateTokens(input.fixed, input.messages)
            reserve == Allowance(model, input.requested)
        IN  ~ShouldCompact(TRUE, model, tokens, reserve)
                => Remaining(model, tokens, reserve) > 0
      BY <2>1, <2>4, <2>5, UncompactedRequestsFit, Zenon
  <2>. QED
      BY <2>4, <2>6, Zenon
<1>. QED
    BY <1>1, ContextInvariance, PTL

=============================================================================
