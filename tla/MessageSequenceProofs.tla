------------------------ MODULE MessageSequenceProofs ------------------------
(***************************************************************************)
(* Proofs about the functions of MessageSequence and ProviderInput, for    *)
(* message sequences of any length over any messages.                      *)
(*                                                                         *)
(* validateMessageSequence is a scan that jumps over the results of each   *)
(* batch.  What it finds from a position on has a meaning without a scan,  *)
(* PairedFrom: that meaning satisfies the recursive equation of the scan   *)
(* (ScanCase), and by induction from the end only one function does.       *)
(*                                                                         *)
(* toOpenAIInput joins what each message becomes.  A batch and its results *)
(* become calls and outputs that match, the joining keeps what matches,    *)
(* and so a sequence the scan accepts becomes a complete request.          *)
(***************************************************************************)
EXTENDS ProviderInput, IntervalInduction, SequenceTheorems

\* A conversation: messages of three roles, an assistant's with a list of calls.
Conversation(messages, Messages, Calls) ==
    /\ \A m \in Messages :
        /\ m.role \in {"user", "assistant", "toolResult"}
        /\ m.role = "assistant" => m.calls \in Seq(Calls)
    /\ messages \in Seq(Messages)

\* Position j is as it should be, given the messages from position i on.
PairedAt(messages, i, j) ==
    /\ messages[j].role = "assistant" =>
        /\ (messages[j].stop = "toolUse") = (messages[j].calls # <<>>)
        /\ messages[j].calls # <<>> => BatchAnswered(messages, j)
    /\ IsResult(messages[j]) => \E k \in i..Len(messages) : ResultOf(messages, j, k)

PairedFrom(messages, i) == \A j \in i..Len(messages) : PairedAt(messages, i, j)

\* The body of the scan at position i, with f for the rest of it.
ScanAt(messages, f, i) ==
    IF i > Len(messages) THEN TRUE
    ELSE LET m == messages[i] IN
         IF m.role = "user" THEN f[i + 1]
         ELSE IF IsResult(m) THEN FALSE
         ELSE IF m.calls = <<>> THEN m.stop # "toolUse" /\ f[i + 1]
         ELSE BatchAnswered(messages, i) /\ f[i + Len(m.calls) + 1]

\* Paired is PairedFrom at the first position.
LEMMA PairedIsPairedFrom ==
    ASSUME NEW Messages, NEW Calls, NEW messages, Conversation(messages, Messages, Calls)
    PROVE  Paired(messages) <=> PairedFrom(messages, 1)
<1>1. DOMAIN messages = 1..Len(messages)
    BY DEF Conversation
<1>2. \A j \in 1..Len(messages) : messages[j].role \in {"user", "assistant", "toolResult"}
    BY DEF Conversation
<1>. QED
    BY <1>1, <1>2 DEF Paired, PairedFrom, PairedAt, IsResult

\* A message that is no assistant message with calls answers for nothing after it.
LEMMA SkipOne ==
    ASSUME NEW Messages, NEW Calls, NEW messages, Conversation(messages, Messages, Calls),
           NEW i \in 1..Len(messages),
           ~IsResult(messages[i]),
           messages[i].role = "assistant" => messages[i].calls = <<>>
    PROVE  PairedFrom(messages, i) <=>
               /\ messages[i].role = "assistant" => messages[i].stop # "toolUse"
               /\ PairedFrom(messages, i + 1)
<1>. DEFINE N == Len(messages)
<1>1. N \in Nat
    BY DEF Conversation
<1>2. \A j, k \in i..N : ResultOf(messages, j, k) => k \in (i + 1)..N
  <2>. SUFFICES ASSUME NEW j \in i..N, ResultOf(messages, j, i) PROVE FALSE
      BY <1>1
  <2>1. messages[i].role = "assistant" /\ i < j /\ j - i <= Len(messages[i].calls)
      BY DEF ResultOf
  <2>. QED
      BY <2>1
<1>3. \A j \in (i + 1)..N : PairedAt(messages, i, j) <=> PairedAt(messages, i + 1, j)
    BY <1>1, <1>2 DEF PairedAt
<1>4. PairedAt(messages, i, i) <=>
          (messages[i].role = "assistant" => messages[i].stop # "toolUse")
    BY DEF PairedAt
<1>5. \A j \in i..N : j = i \/ j \in (i + 1)..N
    BY <1>1
<1>6. i \in i..N /\ (i + 1)..N \subseteq i..N
    BY <1>1
<1>. QED
    BY <1>3, <1>4, <1>5, <1>6 DEF PairedFrom

\* An assistant message with calls answers for the results of its batch, and for
\* no other.
LEMMA SkipBatch ==
    ASSUME NEW Messages, NEW Calls, NEW messages, Conversation(messages, Messages, Calls),
           NEW i \in 1..Len(messages),
           messages[i].role = "assistant", messages[i].calls # <<>>
    PROVE  PairedFrom(messages, i) <=>
               /\ BatchAnswered(messages, i)
               /\ PairedFrom(messages, i + Len(messages[i].calls) + 1)
<1>. DEFINE N == Len(messages)
            calls == messages[i].calls
            L == Len(calls)
            next == i + L + 1
<1>1. N \in Nat /\ L \in Nat \ {0} /\ DOMAIN calls = 1..L
  <2>1. N \in Nat /\ calls \in Seq(Calls)
      BY DEF Conversation
  <2>. HIDE DEF calls, N
  <2>2. calls # <<>>
      BY DEF calls
  <2>. QED
      BY <2>1, <2>2
<1>2. i \in i..N /\ i \in Nat
    BY <1>1
<1>. HIDE DEF N, L
<1>3. PairedAt(messages, i, i) <=> BatchAnswered(messages, i)
    BY <1>2 DEF PairedAt, BatchAnswered, IsResult
<1>4. ASSUME BatchAnswered(messages, i)
      PROVE  PairedFrom(messages, i) <=> PairedFrom(messages, next)
  <2>1. i + L <= N
      BY <1>4 DEF BatchAnswered, L, N
  <2>2. \A k \in 1..L : IsResult(messages[i + k]) /\ Answers(messages[i + k], calls[k])
      BY <1>1, <1>4 DEF BatchAnswered
  <2>3. \A j \in (i + 1)..(i + L) :
            j - i \in 1..L /\ IsResult(messages[j]) /\ Answers(messages[j], calls[j - i])
    <3>1. \A j \in (i + 1)..(i + L) : j - i \in 1..L /\ i + (j - i) = j
        BY <1>1, <1>2
    <3>. QED
        BY <2>2, <3>1
  <2>4. \A j \in (i + 1)..(i + L) : ResultOf(messages, j, i)
      BY <1>1, <1>2, <2>3 DEF ResultOf, L
  <2>5. \A j \in (i + 1)..(i + L) : PairedAt(messages, i, j)
      BY <1>2, <2>3, <2>4 DEF PairedAt, IsResult, N
  <2>6. \A j \in next..N, k \in i..N : ResultOf(messages, j, k) => k \in next..N
    <3>. SUFFICES ASSUME NEW j \in next..N, NEW k \in i..N, ResultOf(messages, j, k),
                         k \notin next..N
                  PROVE  FALSE
        OBVIOUS
    <3>1. messages[k].role = "assistant" /\ j - k <= Len(messages[k].calls)
        BY DEF ResultOf
    <3>2. k # i
        BY <1>1, <1>2, <3>1 DEF L
    <3>3. k \in (i + 1)..(i + L)
        BY <1>1, <1>2, <3>2
    <3>. QED
        BY <2>3, <3>1, <3>3 DEF IsResult
  <2>7. \A j \in next..N : PairedAt(messages, i, j) <=> PairedAt(messages, next, j)
    <3>1. next..N \subseteq i..N
        BY <1>1, <1>2
    <3>. QED
        BY <2>6, <3>1 DEF PairedAt, N
  <2>8. \A j \in i..N : j = i \/ j \in (i + 1)..(i + L) \/ j \in next..N
      BY <1>1, <1>2
  <2>9. next..N \subseteq i..N
      BY <1>1, <1>2
  <2>. QED
      BY <1>3, <1>4, <2>5, <2>7, <2>8, <2>9 DEF PairedFrom, N
<1>5. PairedFrom(messages, i) => BatchAnswered(messages, i)
    BY <1>2, <1>3 DEF PairedFrom, N
<1>. QED
    BY <1>4, <1>5 DEF L

\* A scan that agrees with PairedFrom after position i agrees with it at i.
LEMMA ScanCase ==
    ASSUME NEW Messages, NEW Calls, NEW messages, Conversation(messages, Messages, Calls),
           NEW f, NEW i \in 1..(Len(messages) + 1),
           \A k \in (i + 1)..(Len(messages) + 1) : f[k] = PairedFrom(messages, k)
    PROVE  ScanAt(messages, f, i) = PairedFrom(messages, i)
<1>. DEFINE N == Len(messages)
<1>1. N \in Nat
    BY DEF Conversation
<1>2. CASE i = N + 1
  <2>1. i > N /\ ~(\E j \in i..N : TRUE)
      BY <1>1, <1>2
  <2>2. PairedFrom(messages, i) = TRUE
      BY <2>1 DEF PairedFrom
  <2>. QED
      BY <2>1, <2>2 DEF ScanAt
<1>3. CASE i \in 1..N
  <2>. DEFINE m == messages[i]
  <2>1. m.role \in {"user", "assistant", "toolResult"}
        /\ (m.role = "assistant" => m.calls \in Seq(Calls))
      BY <1>3 DEF Conversation
  <2>2. i + 1 \in (i + 1)..(N + 1) /\ ~(i > N)
      BY <1>1, <1>3
  <2>3. f[i + 1] = PairedFrom(messages, i + 1)
      BY <2>2
  <2>4. \A k : PairedFrom(messages, k) \in BOOLEAN
      BY DEF PairedFrom
  <2>5. CASE m.role = "user"
    <3>1. ScanAt(messages, f, i) = f[i + 1]
        BY <2>2, <2>5 DEF ScanAt
    <3>2. PairedFrom(messages, i) <=> PairedFrom(messages, i + 1)
        BY <1>3, <2>5, SkipOne DEF IsResult
    <3>3. PairedFrom(messages, i) = PairedFrom(messages, i + 1)
        BY <2>4, <3>2, Zenon
    <3>. QED
        BY <2>3, <3>1, <3>3, Zenon
  <2>6. CASE IsResult(m)
    <3>1. ~PairedAt(messages, i, i)
        BY <1>1, <1>3, <2>6 DEF PairedAt, ResultOf
    <3>2. ~PairedFrom(messages, i)
        BY <1>1, <1>3, <3>1 DEF PairedFrom
    <3>3. PairedFrom(messages, i) = FALSE
        BY <2>4, <3>2, Zenon
    <3>4. ScanAt(messages, f, i) = FALSE
        BY <2>2, <2>6 DEF ScanAt, IsResult
    <3>. QED
        BY <3>3, <3>4, Zenon
  <2>7. CASE m.role = "assistant" /\ m.calls = <<>>
    <3>1. ScanAt(messages, f, i) = (m.stop # "toolUse" /\ f[i + 1])
        BY <2>2, <2>7 DEF ScanAt, IsResult
    <3>2. PairedFrom(messages, i) <=> m.stop # "toolUse" /\ PairedFrom(messages, i + 1)
        BY <1>3, <2>7, SkipOne DEF IsResult
    <3>3. PairedFrom(messages, i) = (m.stop # "toolUse" /\ PairedFrom(messages, i + 1))
        BY <2>4, <3>2, Zenon
    <3>. QED
        BY <2>3, <3>1, <3>3, Zenon
  <2>8. CASE m.role = "assistant" /\ m.calls # <<>>
    <3>. DEFINE next == i + Len(m.calls) + 1
    <3>1. PairedFrom(messages, i) <=> BatchAnswered(messages, i) /\ PairedFrom(messages, next)
        BY <1>3, <2>8, SkipBatch
    <3>2. BatchAnswered(messages, i) => next \in (i + 1)..(N + 1)
      <4>1. Len(m.calls) \in Nat
          BY <2>1, <2>8
      <4>. QED
          BY <1>1, <1>3, <4>1 DEF BatchAnswered
    <3>3. ScanAt(messages, f, i) = (BatchAnswered(messages, i) /\ f[next])
        BY <2>2, <2>8 DEF ScanAt, IsResult
    <3>. HIDE DEF next
    <3>4. BatchAnswered(messages, i) => f[next] = PairedFrom(messages, next)
        BY <3>2
    <3>5. PairedFrom(messages, i) = (BatchAnswered(messages, i) /\ PairedFrom(messages, next))
        BY <2>4, <3>1, Zenon
    <3>. QED
        BY <3>3, <3>4, <3>5, Zenon
  <2>. QED
      BY <2>1, <2>5, <2>6, <2>7, <2>8 DEF IsResult
<1>. QED
    BY <1>1, <1>2, <1>3

\* validateMessageSequence accepts exactly the conversations in which every call
\* is answered in its place and every result answers a call, whatever their
\* length.
THEOREM ScanPairs ==
    ASSUME NEW Messages, NEW Calls, NEW messages, Conversation(messages, Messages, Calls)
    PROVE  ValidSequence(messages) <=> Paired(messages)
<1>. DEFINE N == Len(messages)
            D == 1..(N + 1)
            scan[i \in D] ==
                IF i > N THEN TRUE
                ELSE LET m == messages[i] IN
                     IF m.role = "user" THEN scan[i + 1]
                     ELSE IF IsResult(m) THEN FALSE
                     ELSE IF m.calls = <<>> THEN m.stop # "toolUse" /\ scan[i + 1]
                     ELSE BatchAnswered(messages, i) /\ scan[i + Len(m.calls) + 1]
            g == [i \in D |-> PairedFrom(messages, i)]
<1>1. N \in Nat
    BY DEF Conversation
<1>2. g = [i \in D |-> ScanAt(messages, g, i)]
  <2>1. \A i \in D : ScanAt(messages, g, i) = PairedFrom(messages, i)
    <3>. SUFFICES ASSUME NEW i \in D PROVE ScanAt(messages, g, i) = PairedFrom(messages, i)
        OBVIOUS
    <3>1. \A k \in (i + 1)..(N + 1) : g[k] = PairedFrom(messages, k)
        BY <1>1
    <3>. HIDE DEF g
    <3>. QED
        BY <3>1, ScanCase
  <2>. QED
      BY <2>1
<1>3. \E h : h = [i \in D |-> ScanAt(messages, h, i)]
    BY <1>2
<1>4. scan = [i \in D |-> ScanAt(messages, scan, i)]
    BY <1>3 DEF ScanAt
<1>. HIDE DEF scan, g
<1>5. \A i \in D : scan[i] = ScanAt(messages, scan, i)
    BY <1>4
<1>. DEFINE S == {i \in 0..(N + 1) : i = 0 \/ scan[i] = PairedFrom(messages, i)}
<1>6. ASSUME NEW i \in 0..(N + 1), \A k \in (i + 1)..(N + 1) : k \in S
      PROVE  i \in S
  <2>1. CASE i = 0
      BY <2>1
  <2>2. CASE i \in D
    <3>1. \A k \in (i + 1)..(N + 1) : scan[k] = PairedFrom(messages, k)
        BY <1>1, <1>6, <2>2
    <3>2. scan[i] = PairedFrom(messages, i)
        BY <1>5, <2>2, <3>1, ScanCase
    <3>. QED
        BY <3>2
  <2>. QED
      BY <1>1, <2>1, <2>2
<1>. HIDE DEF S
<1>7. \A i \in 0..(N + 1) : i \in S
  <2>1. N + 1 \in Nat
      BY <1>1
  <2>2. \A i \in 0..(N + 1) : (\A k \in (i + 1)..(N + 1) : k \in S) => i \in S
      BY <1>6
  <2>. HIDE DEF N
  <2>. QED
      BY <2>1, <2>2, DownwardInduction
<1>8. scan[1] = PairedFrom(messages, 1)
    BY <1>1, <1>7 DEF S
<1>9. ValidSequence(messages) = scan[1]
    BY DEF ValidSequence, scan
<1>. QED
    BY <1>8, <1>9, PairedIsPairedFrom

-----------------------------------------------------------------------------
(* Continuations.                                                           *)

\* The last message that is no tool result is found, if there is one, and only
\* results follow it.
LEMMA LastFound ==
    ASSUME NEW Messages, NEW Calls, NEW messages, Conversation(messages, Messages, Calls)
    PROVE  LET k == LastNonResult(messages) IN
           /\ k \in 0..Len(messages)
           /\ k # 0 => ~IsResult(messages[k])
           /\ \A j \in (k + 1)..Len(messages) : IsResult(messages[j])
<1>. DEFINE N == Len(messages)
            others == {k \in DOMAIN messages : ~IsResult(messages[k])} \cup {0}
            T == {N - k : k \in others}
            last == LastNonResult(messages)
<1>1. N \in Nat /\ DOMAIN messages = 1..N
    BY DEF Conversation
<1>2. \E k \in others : \A j \in others : j <= k
  <2>. HIDE DEF N
  <2>1. others \subseteq 0..N /\ 0 \in others
      BY <1>1
  <2>. HIDE DEF others
  <2>2. T \subseteq Nat /\ T # {}
      BY <1>1, <2>1
  <2>. HIDE DEF T
  <2>3. PICK d \in T : \A e \in T : d <= e
      BY <2>2, LeastElement
  <2>. USE DEF T
  <2>4. PICK k \in others : d = N - k
      BY <2>3
  <2>5. \A j \in others : N - k <= N - j
      BY <2>3, <2>4
  <2>. QED
      BY <1>1, <2>1, <2>4, <2>5
<1>3. last \in others /\ \A j \in others : j <= last
    BY <1>2 DEF LastNonResult
<1>4. last \in 0..N /\ (last # 0 => ~IsResult(messages[last]))
    BY <1>1, <1>3
<1>5. ASSUME NEW j \in (last + 1)..N PROVE IsResult(messages[j])
  <2>1. j \in DOMAIN messages /\ ~(j <= last)
      BY <1>1, <1>4
  <2>. QED
      BY <1>3, <2>1
<1>. QED
    BY <1>4, <1>5

\* When a conversation that is paired ends in tool results, they answer the calls
\* of the message before them, each in its place.
LEMMA TailAnswers ==
    ASSUME NEW Messages, NEW Calls, NEW messages, Conversation(messages, Messages, Calls),
           NEW k \in 1..(Len(messages) - 1), ~IsResult(messages[k]),
           \A j \in (k + 1)..Len(messages) : IsResult(messages[j]),
           PairedFrom(messages, 1)
    PROVE  /\ messages[k].role = "assistant" /\ messages[k].calls # <<>>
           /\ BatchAnswered(messages, k)
           /\ Len(messages) - k = Len(messages[k].calls)
<1>. DEFINE N == Len(messages)
<1>1. N \in Nat
    BY DEF Conversation
<1>2. \A i \in 1..N : messages[i].role = "assistant" => Len(messages[i].calls) \in Nat
    BY DEF Conversation
<1>3. \A i \in 1..N : PairedAt(messages, 1, i)
    BY DEF PairedFrom
<1>4. ASSUME NEW j \in (k + 1)..N, NEW i \in 1..N, ResultOf(messages, j, i) PROVE i = k
  <2>1. messages[i].role = "assistant" /\ i < j /\ j - i <= Len(messages[i].calls)
      BY <1>4 DEF ResultOf
  <2>2. i <= k
    <3>1. i \notin (k + 1)..N
        BY <2>1 DEF IsResult
    <3>. QED
        BY <1>1, <3>1
  <2>3. ASSUME i < k PROVE FALSE
    <3>1. messages[i].calls # <<>>
        BY <1>1, <2>1
    <3>2. BatchAnswered(messages, i)
        BY <1>3, <2>1, <3>1 DEF PairedAt
    <3>3. k - i \in DOMAIN messages[i].calls
      <4>1. messages[i].calls \in Seq(Calls)
          BY <2>1 DEF Conversation
      <4>2. DOMAIN messages[i].calls = 1..Len(messages[i].calls)
          BY <4>1
      <4>3. k - i \in 1..Len(messages[i].calls)
          BY <1>1, <1>2, <2>1, <2>3
      <4>. QED
          BY <4>2, <4>3
    <3>4. IsResult(messages[i + (k - i)])
        BY <3>2, <3>3 DEF BatchAnswered
    <3>5. i + (k - i) = k
        BY <1>1
    <3>. QED
        BY <3>4, <3>5
  <2>. QED
      BY <1>1, <2>2, <2>3
<1>5. \A j \in (k + 1)..N : ResultOf(messages, j, k)
  <2>. SUFFICES ASSUME NEW j \in (k + 1)..N PROVE ResultOf(messages, j, k)
      OBVIOUS
  <2>1. j \in 1..N
      BY <1>1
  <2>2. PICK i \in 1..N : ResultOf(messages, j, i)
      BY <1>3, <2>1 DEF PairedAt
  <2>. QED
      BY <1>4, <2>2
<1>6. k + 1 \in (k + 1)..N /\ N \in (k + 1)..N /\ k \in 1..N
    BY <1>1
<1>7. messages[k].role = "assistant" /\ N - k <= Len(messages[k].calls) /\ N - k >= 1
    BY <1>1, <1>5, <1>6 DEF ResultOf
<1>8. messages[k].calls # <<>>
    BY <1>1, <1>7
<1>9. BatchAnswered(messages, k)
    BY <1>3, <1>6, <1>7, <1>8 DEF PairedAt
<1>10. k + Len(messages[k].calls) <= N
    BY <1>9 DEF BatchAnswered
<1>11. N - k = Len(messages[k].calls)
    BY <1>1, <1>2, <1>6, <1>7, <1>10
<1>. QED
    BY <1>7, <1>8, <1>9, <1>11

\* A paired beginning followed by an assistant message and the results of its
\* calls is paired.
LEMMA ContinuedIsPaired ==
    ASSUME NEW Messages, NEW Calls, NEW messages, Conversation(messages, Messages, Calls),
           NEW k \in 1..Len(messages),
           PairedFrom(SubSeq(messages, 1, k - 1), 1),
           messages[k].role = "assistant", messages[k].calls # <<>>,
           BatchAnswered(messages, k), Len(messages) - k = Len(messages[k].calls)
    PROVE  PairedFrom(messages, 1)
<1>. DEFINE N == Len(messages)
            calls == messages[k].calls
            before == SubSeq(messages, 1, k - 1)
<1>1. N \in Nat /\ messages \in Seq(Messages)
    BY DEF Conversation
<1>2. Len(before) = k - 1 /\ \A i \in 1..(k - 1) : before[i] = messages[i]
    BY <1>1
<1>. HIDE DEF before
<1>3. ASSUME NEW i \in 1..(k - 1) PROVE PairedAt(messages, 1, i)
  <2>1. PairedAt(before, 1, i)
      BY <1>2, <1>3 DEF PairedFrom, before
  <2>2. BatchAnswered(before, i) /\ messages[i].role = "assistant" => BatchAnswered(messages, i)
    <3>. SUFFICES ASSUME BatchAnswered(before, i), messages[i].role = "assistant"
                  PROVE  BatchAnswered(messages, i)
        OBVIOUS
    <3>. DEFINE theirs == messages[i].calls
    <3>1. theirs = before[i].calls /\ before[i] = messages[i]
        BY <1>2
    <3>2. theirs \in Seq(Calls) /\ i \in 1..N
        BY <1>1 DEF Conversation
    <3>3. Len(theirs) \in Nat /\ DOMAIN theirs = 1..Len(theirs)
        BY <3>2
    <3>4. i + Len(theirs) <= k - 1
        BY <1>2, <3>1 DEF BatchAnswered
    <3>. HIDE DEF theirs
    <3>5. \A j \in DOMAIN theirs : i + j \in 1..(k - 1)
        BY <3>3, <3>4
    <3>6. \A j \in DOMAIN theirs : before[i + j] = messages[i + j]
        BY <1>2, <3>5
    <3>7. i + Len(theirs) <= N
        BY <1>1, <3>3, <3>4
    <3>. QED
        BY <3>1, <3>6, <3>7 DEF BatchAnswered, theirs
  <2>3. \A j \in 1..(k - 1) : ResultOf(before, i, j) => ResultOf(messages, i, j)
      BY <1>2 DEF ResultOf
  <2>4. 1..(k - 1) \subseteq 1..N
      BY <1>1
  <2>. QED
      BY <1>2, <2>1, <2>2, <2>3, <2>4 DEF PairedAt
<1>4. PairedAt(messages, 1, k)
    BY DEF PairedAt, IsResult, BatchAnswered
<1>5. ASSUME NEW j \in (k + 1)..N PROVE PairedAt(messages, 1, j)
  <2>1. calls \in Seq(Calls)
      BY DEF Conversation
  <2>2. Len(calls) \in Nat /\ DOMAIN calls = 1..Len(calls)
      BY <2>1
  <2>3. j - k \in DOMAIN calls /\ k + (j - k) = j
      BY <1>1, <2>2
  <2>4. IsResult(messages[j]) /\ Answers(messages[j], calls[j - k])
      BY <2>3 DEF BatchAnswered
  <2>5. ResultOf(messages, j, k)
      BY <1>1, <2>2, <2>3, <2>4 DEF ResultOf
  <2>. QED
      BY <1>1, <2>4, <2>5 DEF PairedAt, IsResult
<1>6. \A j \in 1..N : j \in 1..(k - 1) \/ j = k \/ j \in (k + 1)..N
    BY <1>1
<1>. QED
    BY <1>3, <1>4, <1>5, <1>6 DEF PairedFrom

\* A conversation that validateMessageSequence accepts and that ends in results
\* may be continued.
THEOREM KeptTailContinues ==
    ASSUME NEW Messages, NEW Calls, NEW messages, Conversation(messages, Messages, Calls),
           LastNonResult(messages) < Len(messages), ValidSequence(messages)
    PROVE  ValidContinuation(messages)
<1>. DEFINE k == LastNonResult(messages)
            N == Len(messages)
<1>1. N \in Nat /\ messages \in Seq(Messages) /\ DOMAIN messages = 1..N
    BY DEF Conversation
<1>2. Paired(messages) /\ PairedFrom(messages, 1)
    BY ScanPairs, PairedIsPairedFrom
<1>3. k \in 0..N /\ \A j \in (k + 1)..N : IsResult(messages[j])
    BY <1>1, LastFound
<1>4. k # 0
  <2>. SUFFICES ASSUME k = 0 PROVE FALSE
      OBVIOUS
  <2>1. 1 \in 1..N /\ IsResult(messages[1])
      BY <1>1, <1>3
  <2>2. \E i \in 1..N : ResultOf(messages, 1, i)
      BY <1>2, <2>1 DEF PairedFrom, PairedAt
  <2>. QED
      BY <2>2 DEF ResultOf
<1>5. k \in 1..(N - 1) /\ ~IsResult(messages[k])
    BY <1>1, <1>3, <1>4, LastFound
<1>6. /\ messages[k].role = "assistant" /\ messages[k].calls # <<>>
      /\ BatchAnswered(messages, k)
      /\ N - k = Len(messages[k].calls)
    BY <1>2, <1>3, <1>5, TailAnswers
<1>. QED
    BY <1>1, <1>5, <1>6 DEF BatchAnswered, ValidContinuation

\* After a beginning that is valid, validateMessageSequence accepts a tail of
\* results exactly when validateContinuation does and the message they answer
\* stopped for tool use.
THEOREM ContinuationIsScan ==
    ASSUME NEW Messages, NEW Calls, NEW messages, Conversation(messages, Messages, Calls),
           0 < LastNonResult(messages), LastNonResult(messages) < Len(messages),
           ValidSequence(SubSeq(messages, 1, LastNonResult(messages) - 1))
    PROVE  ValidSequence(messages) <=>
               /\ ValidContinuation(messages)
               /\ messages[LastNonResult(messages)].stop = "toolUse"
<1>. DEFINE k == LastNonResult(messages)
            N == Len(messages)
            before == SubSeq(messages, 1, k - 1)
<1>1. N \in Nat /\ messages \in Seq(Messages)
    BY DEF Conversation
<1>2. /\ k \in 1..(N - 1) /\ k \in 1..N
      /\ ~IsResult(messages[k])
      /\ \A j \in (k + 1)..N : IsResult(messages[j])
    BY <1>1, LastFound
<1>. HIDE DEF k
<1>3. before \in Seq(Messages)
    BY <1>1, <1>2
<1>4. Conversation(before, Messages, Calls)
    BY <1>3 DEF Conversation
<1>5. PairedFrom(before, 1)
  <2>1. ValidSequence(before)
      BY DEF k
  <2>. HIDE DEF before
  <2>. QED
      BY <1>4, <2>1, ScanPairs, PairedIsPairedFrom
<1>6. ValidSequence(messages) <=> PairedFrom(messages, 1)
    BY ScanPairs, PairedIsPairedFrom
<1>7. ASSUME PairedFrom(messages, 1)
      PROVE  ValidContinuation(messages) /\ messages[k].stop = "toolUse"
  <2>1. /\ messages[k].role = "assistant" /\ messages[k].calls # <<>>
        /\ BatchAnswered(messages, k)
        /\ N - k = Len(messages[k].calls)
      BY <1>2, <1>7, TailAnswers
  <2>. QED
      BY <1>1, <1>2, <2>1 DEF BatchAnswered, ValidContinuation, k
<1>8. ASSUME ValidContinuation(messages), messages[k].stop = "toolUse"
      PROVE  PairedFrom(messages, 1)
  <2>1. /\ messages[k].role = "assistant" /\ messages[k].calls # <<>>
        /\ N - k = Len(messages[k].calls)
        /\ Identified(messages[k].calls)
        /\ \A j \in DOMAIN messages[k].calls : Answers(messages[k + j], messages[k].calls[j])
      BY <1>8 DEF ValidContinuation, k
  <2>2. messages[k].calls \in Seq(Calls)
      BY <1>2, <2>1 DEF Conversation
  <2>3. \A j \in DOMAIN messages[k].calls : k + j \in (k + 1)..N
    <3>1. DOMAIN messages[k].calls = 1..(N - k)
        BY <2>1, <2>2
    <3>. QED
        BY <1>1, <1>2, <3>1
  <2>4. k + Len(messages[k].calls) <= N
      BY <1>1, <1>2, <2>1
  <2>5. BatchAnswered(messages, k)
      BY <1>2, <1>8, <2>1, <2>3, <2>4 DEF BatchAnswered
  <2>. QED
      BY <1>2, <1>5, <2>1, <2>5, ContinuedIsPaired
<1>. QED
    BY <1>6, <1>7, <1>8 DEF k

-----------------------------------------------------------------------------
(* Joining sequences.                                                       *)

\* The first i sequences joined, for each i.
Joins(seqs, f) ==
    /\ f[0] = <<>>
    /\ \A i \in 1..Len(seqs) : f[i] = f[i - 1] \o seqs[i]

\* FlattenSeq is the last of them.
LEMMA FlattenJoins ==
    ASSUME NEW S, NEW seqs \in Seq(Seq(S))
    PROVE  \E f \in [0..Len(seqs) -> Seq(S)] :
               Joins(seqs, f) /\ Ext!FlattenSeq(seqs) = f[Len(seqs)]
<1>. DEFINE N == Len(seqs)
            step == [i \in 1..N |-> [s \in Seq(S) |-> s \o seqs[i]]]
<1>1. N \in Nat /\ \A i \in 1..N : seqs[i] \in Seq(S)
    OBVIOUS
<1>2. step \in [1..N -> [Seq(S) -> Seq(S)]]
    BY <1>1
<1>3. <<>> \in Seq(S)
    OBVIOUS
<1>4. PICK f \in [0..N -> Seq(S)] : Recursive(f, N, <<>>, step)
  <2>. HIDE DEF N, step
  <2>. QED
      BY <1>1, <1>2, <1>3, RecursionOverInterval
<1>5. \A i \in 1..N : f[i] = f[i - 1] \o seqs[i]
  <2>1. \A i \in 1..N : i - 1 \in 0..N /\ f[i - 1] \in Seq(S)
    <3>1. \A j \in 0..N : f[j] \in Seq(S)
        BY <1>4
    <3>2. \A i \in 1..N : i - 1 \in 0..N
        BY <1>1
    <3>. QED
        BY <3>1, <3>2
  <2>. QED
      BY <1>4, <2>1 DEF Recursive
<1>6. Joins(seqs, f)
    BY <1>4, <1>5 DEF Joins, Recursive
<1>7. CASE N = 0
  <2>1. Ext!FlattenSeq(seqs) = <<>>
      BY <1>7 DEF Ext!FlattenSeq
  <2>. QED
      BY <1>4, <1>6, <1>7, <2>1 DEF Recursive
<1>8. CASE N # 0
  <2>. DEFINE flatten[i \in 1..N] == IF i = 1 THEN seqs[i] ELSE flatten[i - 1] \o seqs[i]
              g == [i \in 1..N |-> f[i]]
  <2>1. f[1] = seqs[1]
    <3>1. 1 \in 1..N /\ 1 - 1 = 0
        BY <1>1, <1>8
    <3>2. f[1] = <<>> \o seqs[1] /\ seqs[1] \in Seq(S)
        BY <1>1, <1>4, <1>5, <3>1 DEF Recursive
    <3>. QED
        BY <3>2
  <2>2. g = [i \in 1..N |-> IF i = 1 THEN seqs[i] ELSE g[i - 1] \o seqs[i]]
    <3>1. ASSUME NEW i \in 1..N PROVE f[i] = IF i = 1 THEN seqs[i] ELSE g[i - 1] \o seqs[i]
      <4>1. CASE i = 1
          BY <2>1, <4>1
      <4>2. CASE i # 1
        <5>1. i - 1 \in 1..N
            BY <1>1, <4>2
        <5>. QED
            BY <1>5, <4>2, <5>1
      <4>. QED
          BY <4>1, <4>2
    <3>. QED
        BY <3>1
  <2>3. \E h : h = [i \in 1..N |-> IF i = 1 THEN seqs[i] ELSE h[i - 1] \o seqs[i]]
      BY <2>2
  <2>4. flatten = [i \in 1..N |-> IF i = 1 THEN seqs[i] ELSE flatten[i - 1] \o seqs[i]]
      BY <2>3
  <2>. HIDE DEF flatten, g
  <2>. DEFINE T == {i \in 0..N : i = 0 \/ flatten[i] = f[i]}
  <2>5. ASSUME NEW i \in 0..(N - 1), i \in T PROVE i + 1 \in T
    <3>1. i + 1 \in 1..N /\ i + 1 \in 0..N /\ (i + 1) - 1 = i /\ (i # 0 => i + 1 # 1)
        BY <1>1
    <3>2. CASE i = 0
        BY <2>1, <2>4, <3>1, <3>2
    <3>3. CASE i # 0
      <4>1. flatten[i + 1] = flatten[i] \o seqs[i + 1]
        <5>1. flatten[i + 1] = IF i + 1 = 1 THEN seqs[i + 1]
                                ELSE flatten[(i + 1) - 1] \o seqs[i + 1]
            BY <2>4, <3>1
        <5>. QED
            BY <3>1, <3>3, <5>1
      <4>2. f[i + 1] = f[i] \o seqs[i + 1]
          BY <1>5, <3>1
      <4>3. flatten[i] = f[i]
          BY <2>5, <3>3
      <4>. QED
          BY <3>1, <4>1, <4>2, <4>3
    <3>. QED
        BY <3>2, <3>3
  <2>6. 0 \in T
      BY <1>1
  <2>. HIDE DEF T
  <2>7. \A i \in 0..N : i \in T
    <3>. HIDE DEF N
    <3>. QED
        BY <1>1, <2>5, <2>6, UpwardInduction
  <2>8. flatten[N] = f[N]
      BY <1>1, <1>8, <2>7 DEF T
  <2>9. Ext!FlattenSeq(seqs) = flatten[N]
      BY <1>8 DEF Ext!FlattenSeq, flatten
  <2>. QED
      BY <1>6, <2>8, <2>9
<1>. QED
    BY <1>7, <1>8

\* The join of sequences of elements is a sequence of elements, and any way to
\* join them in order is the join.
LEMMA JoinsFlatten ==
    ASSUME NEW S, NEW seqs \in Seq(Seq(S)), NEW f, Joins(seqs, f)
    PROVE  Ext!FlattenSeq(seqs) = f[Len(seqs)] /\ Ext!FlattenSeq(seqs) \in Seq(S)
<1>. DEFINE N == Len(seqs)
<1>1. N \in Nat
    OBVIOUS
<1>2. PICK g \in [0..N -> Seq(S)] : Joins(seqs, g) /\ Ext!FlattenSeq(seqs) = g[N]
    BY FlattenJoins
<1>. DEFINE T == {i \in 0..N : f[i] = g[i]}
<1>3. 0 \in T
    BY <1>1, <1>2 DEF Joins
<1>4. ASSUME NEW i \in 0..(N - 1), i \in T PROVE i + 1 \in T
  <2>1. i + 1 \in 1..N /\ i + 1 \in 0..N /\ (i + 1) - 1 = i
      BY <1>1
  <2>2. f[i + 1] = f[i] \o seqs[i + 1] /\ g[i + 1] = g[i] \o seqs[i + 1]
      BY <1>2, <2>1 DEF Joins
  <2>. QED
      BY <1>4, <2>1, <2>2
<1>. HIDE DEF T, N
<1>5. \A i \in 0..N : i \in T
    BY <1>1, <1>3, <1>4, UpwardInduction
<1>6. N \in 0..N
    BY <1>1
<1>7. f[N] = g[N] /\ g[N] \in Seq(S)
    BY <1>2, <1>5, <1>6 DEF T
<1>. QED
    BY <1>2, <1>7 DEF N

\* Sequences of one element each are joined to the sequence of the elements.
LEMMA FlattenSingletons ==
    ASSUME NEW S, NEW s \in Seq(S)
    PROVE  Ext!FlattenSeq([i \in 1..Len(s) |-> <<s[i]>>]) = s
<1>. DEFINE N == Len(s)
            seqs == [i \in 1..N |-> <<s[i]>>]
            f == [i \in 0..N |-> SubSeq(s, 1, i)]
<1>1. N \in Nat /\ s \in [1..N -> S]
    OBVIOUS
<1>2. seqs \in Seq(Seq(S)) /\ Len(seqs) = N
  <2>1. \A i \in 1..N : <<s[i]>> \in Seq(S)
      BY <1>1
  <2>2. seqs \in [1..N -> Seq(S)]
      BY <2>1
  <2>. HIDE DEF seqs
  <2>. QED
      BY <1>1, <2>2
<1>3. ASSUME NEW i \in 1..N PROVE f[i] = f[i - 1] \o seqs[i]
  <2>1. i - 1 \in 0..N /\ i \in 0..N
      BY <1>1
  <2>2. SubSeq(s, 1, i) = SubSeq(s, 1, i - 1) \o <<s[i]>>
    <3>. DEFINE u == SubSeq(s, 1, i)
                v == SubSeq(s, 1, i - 1) \o <<s[i]>>
    <3>1. u \in Seq(S) /\ v \in Seq(S) /\ Len(u) = i /\ Len(v) = i
        BY <1>1
    <3>2. \A j \in 1..i : u[j] = v[j]
        BY <1>1
    <3>. HIDE DEF u, v
    <3>3. u = v
        BY <3>1, <3>2
    <3>. QED
        BY <3>3 DEF u, v
  <2>. QED
      BY <2>1, <2>2
<1>4. f[0] = <<>>
    BY <1>1
<1>5. f[N] = s
    BY <1>1
<1>. HIDE DEF f
<1>6. Joins(seqs, f)
    BY <1>2, <1>3, <1>4 DEF Joins
<1>. HIDE DEF seqs
<1>7. Ext!FlattenSeq(seqs) = f[N]
    BY <1>2, <1>6, JoinsFlatten
<1>. QED
    BY <1>5, <1>7 DEF seqs

\* The join of two sequences of sequences is that of their joins.
LEMMA FlattenBoth ==
    ASSUME NEW S, NEW s \in Seq(Seq(S)), NEW u \in Seq(Seq(S))
    PROVE  Ext!FlattenSeq(s \o u) = Ext!FlattenSeq(s) \o Ext!FlattenSeq(u)
<1>. DEFINE N == Len(s)
            M == Len(u)
            w == s \o u
<1>1. /\ N \in Nat /\ M \in Nat /\ w \in Seq(Seq(S)) /\ Len(w) = N + M
      /\ \A i \in 1..N : w[i] = s[i]
      /\ \A i \in 1..M : w[N + i] = u[i] /\ u[i] \in Seq(S)
    OBVIOUS
<1>2. PICK f \in [0..N -> Seq(S)] : Joins(s, f) /\ Ext!FlattenSeq(s) = f[N]
    BY FlattenJoins
<1>3. PICK g \in [0..M -> Seq(S)] : Joins(u, g) /\ Ext!FlattenSeq(u) = g[M]
    BY FlattenJoins
<1>4. f[N] \in Seq(S) /\ \A i \in 0..M : g[i] \in Seq(S)
  <2>1. \A i \in 0..M : g[i] \in Seq(S)
      BY <1>3
  <2>2. N \in 0..N
      BY <1>1
  <2>3. f[N] \in Seq(S)
      BY <1>2, <2>2
  <2>. QED
      BY <2>1, <2>3
<1>. HIDE DEF w, N, M
<1>. DEFINE h == [i \in 0..(N + M) |-> IF i <= N THEN f[i] ELSE f[N] \o g[i - N]]
<1>5. h[0] = <<>>
    BY <1>1, <1>2 DEF Joins
<1>6. ASSUME NEW i \in 1..(N + M) PROVE h[i] = h[i - 1] \o w[i]
  <2>1. i - 1 \in 0..(N + M) /\ i \in 0..(N + M)
      BY <1>1
  <2>2. CASE i <= N
    <3>1. i \in 1..N /\ i - 1 <= N
        BY <1>1, <2>2
    <3>2. f[i] = f[i - 1] \o s[i]
        BY <1>2, <3>1 DEF Joins, N
    <3>3. h[i] = f[i] /\ h[i - 1] = f[i - 1]
        BY <2>1, <2>2, <3>1
    <3>. HIDE DEF h
    <3>. QED
        BY <1>1, <3>1, <3>2, <3>3
  <2>3. CASE i = N + 1
    <3>1. ~(i <= N) /\ i - 1 = N /\ i - N = 1 /\ 1 \in 1..M /\ N + 1 = i
        BY <1>1, <2>3
    <3>2. h[i] = f[N] \o g[1] /\ h[i - 1] = f[N]
        BY <1>1, <2>1, <3>1, SMTT(60)
    <3>. HIDE DEF h
    <3>3. g[1] = g[0] \o u[1] /\ g[0] = <<>>
      <4>1. 1 - 1 = 0
          OBVIOUS
      <4>. QED
          BY <1>3, <3>1, <4>1 DEF Joins, M
    <3>4. u[1] \in Seq(S) /\ w[i] = u[1]
        BY <1>1, <3>1
    <3>5. g[1] = u[1]
        BY <3>3, <3>4
    <3>. QED
        BY <3>2, <3>4, <3>5
  <2>4. CASE i > N + 1
    <3>. DEFINE j == i - N
    <3>1. ~(i <= N) /\ ~(i - 1 <= N) /\ j \in 1..M /\ j - 1 \in 0..M /\ (i - 1) - N = j - 1
          /\ N + j = i
        BY <1>1, <2>4
    <3>2. h[i] = f[N] \o g[j] /\ h[i - 1] = f[N] \o g[j - 1]
        BY <2>1, <3>1
    <3>. HIDE DEF j, h
    <3>3. g[j] = g[j - 1] \o u[j] /\ w[i] = u[j] /\ u[j] \in Seq(S)
        BY <1>1, <1>3, <3>1 DEF Joins, M
    <3>4. f[N] \o (g[j - 1] \o u[j]) = (f[N] \o g[j - 1]) \o u[j]
      <4>. DEFINE x == f[N]
                  y == g[j - 1]
                  z == u[j]
      <4>1. x \in Seq(S) /\ y \in Seq(S) /\ z \in Seq(S)
          BY <1>4, <3>1, <3>3
      <4>. HIDE DEF x, y, z
      <4>2. x \o (y \o z) = (x \o y) \o z
          BY ONLY <4>1, SMTT(60)
      <4>. QED
          BY <4>2 DEF x, y, z
    <3>. QED
        BY <3>2, <3>3, <3>4
  <2>5. i <= N \/ i = N + 1 \/ i > N + 1
    <3>1. N \in Int /\ i \in Int
        BY <1>1
    <3>. QED
        BY ONLY <3>1
  <2>. QED
      BY <2>2, <2>3, <2>4, <2>5
<1>7. h[N + M] = f[N] \o g[M]
  <2>1. CASE M = 0
    <3>1. g[M] = <<>>
        BY <1>3, <2>1 DEF Joins
    <3>. QED
        BY <1>1, <1>4, <2>1, <3>1
  <2>2. CASE M # 0
    <3>1. N + M \in 0..(N + M) /\ ~(N + M <= N) /\ (N + M) - N = M
        BY <1>1, <2>2
    <3>. QED
        BY <3>1
  <2>. QED
      BY <2>1, <2>2
<1>. HIDE DEF h
<1>8. Joins(w, h)
    BY <1>1, <1>5, <1>6 DEF Joins
<1>9. Ext!FlattenSeq(w) = h[N + M]
    BY <1>1, <1>8, JoinsFlatten
<1>. QED
    BY <1>2, <1>3, <1>7, <1>9 DEF w, N, M

-----------------------------------------------------------------------------
(* Requests.                                                                *)

\* What the kinds of items are told apart by.
LEMMA ItemKinds ==
    /\ Turn.kind = "turn"
    /\ \A id : Call(id).kind = "call" /\ Call(id).id = id
    /\ \A id : Output(id).kind = "output" /\ Output(id).id = id
<1>. QED
    BY DEF Turn, Call, Output

\* What matches in each of two requests matches in both together.
LEMMA MatchedBoth ==
    ASSUME NEW S, NEW x \in Seq(S), NEW y \in Seq(S), Matched(x), Matched(y)
    PROVE  Matched(x \o y)
<1>. DEFINE n == Len(x)
            m == Len(y)
            z == x \o y
<1>1. /\ n \in Nat /\ m \in Nat /\ DOMAIN x = 1..n /\ DOMAIN y = 1..m
      /\ DOMAIN z = 1..(n + m)
      /\ \A i \in 1..n : z[i] = x[i]
      /\ \A i \in 1..m : z[n + i] = y[i]
    OBVIOUS
<1>. HIDE DEF n, m, z
<1>2. ASSUME NEW i \in 1..n, NEW j \in 1..n, Answered(x, i, j) PROVE Answered(z, i, j)
  <2>1. \A k \in (i + 1)..(j - 1) : k \in 1..n
      BY <1>1
  <2>. QED
      BY <1>1, <1>2, <2>1 DEF Answered
<1>3. ASSUME NEW i \in 1..m, NEW j \in 1..m, Answered(y, i, j)
      PROVE  Answered(z, n + i, n + j)
  <2>1. n + i < n + j /\ z[n + i] = y[i] /\ z[n + j] = y[j]
      BY <1>1, <1>3 DEF Answered
  <2>2. ASSUME NEW k \in ((n + i) + 1)..((n + j) - 1)
        PROVE  z[k].kind # "turn" /\ z[k] \notin {z[n + i], z[n + j]}
    <3>1. k - n \in (i + 1)..(j - 1) /\ k - n \in 1..m /\ n + (k - n) = k
        BY <1>1
    <3>2. z[k] = y[k - n]
        BY <1>1, <3>1
    <3>. QED
        BY <1>3, <2>1, <3>1, <3>2 DEF Answered
  <2>3. z[n + i].kind = "call" /\ z[n + j] = Output(z[n + i].id)
      BY <1>3, <2>1 DEF Answered
  <2>. QED
      BY <2>1, <2>2, <2>3 DEF Answered
<1>4. ASSUME NEW i \in 1..(n + m), i \notin 1..n PROVE i - n \in 1..m /\ n + (i - n) = i
    BY <1>1, <1>4
<1>5. \A i \in 1..n : i \in 1..(n + m)
    BY <1>1
<1>6. \A i \in 1..m : n + i \in 1..(n + m)
    BY <1>1
<1>7. ASSUME NEW i \in 1..(n + m), z[i].kind = "call"
      PROVE  \E j \in 1..(n + m) : Answered(z, i, j)
  <2>1. CASE i \in 1..n
    <3>1. PICK j \in 1..n : Answered(x, i, j)
        BY <1>1, <1>7, <2>1 DEF Matched
    <3>. QED
        BY <1>2, <1>5, <2>1, <3>1
  <2>2. CASE i \notin 1..n
    <3>1. i - n \in 1..m /\ n + (i - n) = i
        BY <1>4, <2>2
    <3>2. PICK j \in 1..m : Answered(y, i - n, j)
        BY <1>1, <1>7, <3>1 DEF Matched
    <3>3. Answered(z, n + (i - n), n + j)
        BY <1>3, <3>1, <3>2
    <3>. QED
        BY <1>6, <3>1, <3>3
  <2>. QED
      BY <2>1, <2>2
<1>8. ASSUME NEW j \in 1..(n + m), z[j].kind = "output"
      PROVE  \E i \in 1..(n + m) : Answered(z, i, j)
  <2>1. CASE j \in 1..n
    <3>1. PICK i \in 1..n : Answered(x, i, j)
        BY <1>1, <1>8, <2>1 DEF Matched
    <3>. QED
        BY <1>2, <1>5, <2>1, <3>1
  <2>2. CASE j \notin 1..n
    <3>1. j - n \in 1..m /\ n + (j - n) = j
        BY <1>4, <2>2
    <3>2. PICK i \in 1..m : Answered(y, i, j - n)
        BY <1>1, <1>8, <3>1 DEF Matched
    <3>3. Answered(z, n + i, n + (j - n))
        BY <1>3, <3>1, <3>2
    <3>. QED
        BY <1>6, <3>1, <3>3
  <2>. QED
      BY <2>1, <2>2
<1>9. Matched(z)
    BY <1>1, <1>7, <1>8 DEF Matched
<1>. QED
    BY <1>9 DEF z

\* The calls of a batch match their outputs in the same order.
LEMMA MatchedBatch ==
    ASSUME NEW Calls, NEW calls \in Seq(Calls), Identified(calls)
    PROVE  Matched(CallItems(calls) \o [j \in 1..Len(calls) |-> Output(calls[j].id)])
<1>. DEFINE n == Len(calls)
            x == CallItems(calls)
            y == [j \in 1..n |-> Output(calls[j].id)]
            z == x \o y
<1>1. n \in Nat /\ DOMAIN calls = 1..n
    OBVIOUS
<1>2. /\ x = [j \in 1..n |-> Call(calls[j].id)]
      /\ Len(x) = n /\ Len(y) = n /\ DOMAIN x = 1..n /\ DOMAIN y = 1..n
  <2>1. x = [j \in 1..n |-> Call(calls[j].id)]
      BY <1>1 DEF CallItems
  <2>. QED
      BY <1>1, <2>1
<1>3. /\ DOMAIN z = 1..(n + n)
      /\ \A i \in 1..n : z[i] = Call(calls[i].id)
      /\ \A i \in 1..n : z[n + i] = Output(calls[i].id)
  <2>1. x \in Seq({Call(calls[j].id) : j \in 1..n}) /\ y \in Seq({Output(calls[j].id) : j \in 1..n})
      BY <1>1, <1>2
  <2>. DEFINE S == {Call(calls[j].id) : j \in 1..n} \cup {Output(calls[j].id) : j \in 1..n}
  <2>2. x \in Seq(S) /\ y \in Seq(S)
    <3>1. x \in [1..n -> S]
        BY <1>2
    <3>2. y \in [1..n -> S]
        OBVIOUS
    <3>. HIDE DEF x, y, S
    <3>. QED
        BY <1>1, <3>1, <3>2
  <2>3. n \in Nat /\ Len(x) = n /\ Len(y) = n
      BY <1>1, <1>2
  <2>. HIDE DEF x, y, n, S
  <2>4. DOMAIN z = 1..(n + n) /\ \A i \in 1..n : z[i] = x[i] /\ z[n + i] = y[i]
      BY <2>2, <2>3
  <2>5. \A i \in 1..n : x[i] = Call(calls[i].id)
      BY <1>2
  <2>6. \A i \in 1..n : y[i] = Output(calls[i].id)
      BY DEF y
  <2>. HIDE DEF z
  <2>. QED
      BY <2>4, <2>5, <2>6
<1>4. \A j, k \in 1..n : j # k => calls[j].id # calls[k].id
  <2>. SUFFICES ASSUME NEW j \in 1..n, NEW k \in 1..n, j # k PROVE calls[j].id # calls[k].id
      OBVIOUS
  <2>1. CASE k < j
    <3>1. k \in 1..(j - 1)
        BY <1>1, <2>1
    <3>. QED
        BY <1>1, <3>1 DEF Identified
  <2>2. CASE j < k
    <3>1. j \in 1..(k - 1)
        BY <1>1, <2>2
    <3>. QED
        BY <1>1, <3>1 DEF Identified
  <2>. QED
      BY <1>1, <2>1, <2>2
<1>. HIDE DEF n, x, y, z
<1>5. ASSUME NEW i \in 1..n PROVE Answered(z, i, n + i)
  <2>1. i < n + i
      BY <1>1
  <2>2. z[i] = Call(calls[i].id) /\ z[n + i] = Output(calls[i].id)
      BY <1>3
  <2>3. ASSUME NEW k \in (i + 1)..((n + i) - 1)
        PROVE  z[k].kind # "turn" /\ z[k] \notin {z[i], z[n + i]}
    <3>1. CASE k \in 1..n
      <4>1. k # i
          BY <1>1
      <4>2. z[k] = Call(calls[k].id) /\ calls[k].id # calls[i].id
          BY <1>3, <1>4, <3>1, <4>1
      <4>. QED
          BY <2>2, <4>2, ItemKinds
    <3>2. CASE k \notin 1..n
      <4>1. k - n \in 1..n /\ k - n # i /\ n + (k - n) = k
          BY <1>1, <3>2
      <4>2. z[k] = Output(calls[k - n].id) /\ calls[k - n].id # calls[i].id
          BY <1>3, <1>4, <4>1
      <4>. QED
          BY <2>2, <4>2, ItemKinds
    <3>. QED
        BY <3>1, <3>2
  <2>. QED
      BY <2>1, <2>2, <2>3, ItemKinds DEF Answered
<1>6. ASSUME NEW i \in 1..(n + n), z[i].kind = "call" PROVE \E j \in 1..(n + n) : Answered(z, i, j)
  <2>1. i \in 1..n
    <3>. SUFFICES ASSUME i \notin 1..n PROVE FALSE
        OBVIOUS
    <3>1. i - n \in 1..n /\ n + (i - n) = i
        BY <1>1
    <3>. QED
        BY <1>3, <1>6, <3>1, ItemKinds
  <2>2. n + i \in 1..(n + n)
      BY <1>1, <2>1
  <2>. QED
      BY <1>5, <2>1, <2>2
<1>7. ASSUME NEW j \in 1..(n + n), z[j].kind = "output"
      PROVE  \E i \in 1..(n + n) : Answered(z, i, j)
  <2>1. j \notin 1..n
      BY <1>3, <1>7, ItemKinds
  <2>2. j - n \in 1..n /\ n + (j - n) = j /\ j - n \in 1..(n + n)
      BY <1>1, <2>1
  <2>. QED
      BY <1>5, <2>2
<1>8. Matched(z)
    BY <1>3, <1>6, <1>7 DEF Matched
<1>. QED
    BY <1>8 DEF z, x, y, n

\* What the messages and the calls of a conversation become.
AllItems(Messages, Calls) ==
    {Turn} \cup {Output(m.id) : m \in Messages} \cup {Call(c.id) : c \in Calls}

\* The items of each message, before they are joined.
Asked(messages) == [k \in DOMAIN messages |-> OpenAIItems(messages[k])]

\* They are lists of items.
LEMMA AskedTyped ==
    ASSUME NEW Messages, NEW Calls, NEW messages, Conversation(messages, Messages, Calls)
    PROVE  /\ Asked(messages) \in Seq(Seq(AllItems(Messages, Calls)))
           /\ Len(Asked(messages)) = Len(messages)
           /\ \A k \in 1..Len(messages) : Asked(messages)[k] = OpenAIItems(messages[k])
           /\ Items("openai", messages) = Ext!FlattenSeq(Asked(messages))
<1>. DEFINE S == AllItems(Messages, Calls)
            N == Len(messages)
<1>1. N \in Nat /\ DOMAIN messages = 1..N /\ \A k \in 1..N : messages[k] \in Messages
    BY DEF Conversation
<1>2. ASSUME NEW m \in Messages PROVE OpenAIItems(m) \in Seq(S)
  <2>1. Turn \in S /\ Output(m.id) \in S
      BY DEF AllItems
  <2>2. CASE m.role = "assistant"
    <3>. DEFINE calls == m.calls
    <3>1. calls \in Seq(Calls)
        BY <2>2 DEF Conversation
    <3>. HIDE DEF calls
    <3>2. \A j \in DOMAIN calls : Call(calls[j].id) \in S
        BY <3>1 DEF AllItems
    <3>. HIDE DEF S
    <3>3. DOMAIN calls = 1..Len(calls) /\ Len(calls) \in Nat
        BY <3>1
    <3>4. CallItems(calls) \in [1..Len(calls) -> S]
        BY <3>2, <3>3 DEF CallItems
    <3>5. CallItems(calls) \in Seq(S) /\ <<>> \in Seq(S)
        BY <3>3, <3>4
    <3>. QED
        BY <2>2, <3>5 DEF OpenAIItems, IsResult, calls
  <2>3. CASE m.role # "assistant"
    <3>1. OpenAIItems(m) \in {<<Turn>>, <<Output(m.id)>>}
        BY <2>3 DEF OpenAIItems, IsResult, Conversation
    <3>2. Turn \in S /\ Output(m.id) \in S
        BY <2>1
    <3>. HIDE DEF S
    <3>3. <<Turn>> \in Seq(S) /\ <<Output(m.id)>> \in Seq(S)
        BY <3>2
    <3>. QED
        BY <3>1, <3>3
  <2>. QED
      BY <2>2, <2>3
<1>. HIDE DEF S
<1>3. Asked(messages) \in [1..N -> Seq(S)]
    BY <1>1, <1>2 DEF Asked
<1>4. Asked(messages) \in Seq(Seq(S)) /\ Len(Asked(messages)) = N
    BY <1>1, <1>3
<1>5. Items("openai", messages) = Ext!FlattenSeq(Asked(messages))
    BY DEF Items, Asked
<1>6. \A k \in 1..N : Asked(messages)[k] = OpenAIItems(messages[k])
    BY <1>1 DEF Asked
<1>. QED
    BY <1>4, <1>5, <1>6 DEF S

\* A request is a list of items.
LEMMA ItemsTyped ==
    ASSUME NEW Messages, NEW Calls, NEW messages, Conversation(messages, Messages, Calls)
    PROVE  Items("openai", messages) \in Seq(AllItems(Messages, Calls))
<1>. DEFINE S == AllItems(Messages, Calls)
<1>1. Asked(messages) \in Seq(Seq(S)) /\ Items("openai", messages) = Ext!FlattenSeq(Asked(messages))
    BY AskedTyped
<1>. HIDE DEF S
<1>2. \E f : Joins(Asked(messages), f)
    BY <1>1, FlattenJoins
<1>3. Ext!FlattenSeq(Asked(messages)) \in Seq(S)
    BY <1>1, <1>2, JoinsFlatten
<1>. QED
    BY <1>1, <1>3 DEF S

\* The request of two conversations in a row is the requests of both in a row.
JoinedRequests(first, second) ==
    Items("openai", first \o second) = Items("openai", first) \o Items("openai", second)

\* The request of a longer conversation is the request of its beginning and that
\* of the rest.
LEMMA ItemsBoth ==
    ASSUME NEW Messages, NEW Calls, NEW first, NEW second,
           Conversation(first, Messages, Calls), Conversation(second, Messages, Calls)
    PROVE  /\ Conversation(first \o second, Messages, Calls)
           /\ JoinedRequests(first, second)
<1>. DEFINE S == AllItems(Messages, Calls)
            both == first \o second
<1>1. first \in Seq(Messages) /\ second \in Seq(Messages)
    BY DEF Conversation
<1>2. Conversation(both, Messages, Calls)
    BY <1>1 DEF Conversation
<1>3. /\ Asked(first) \in Seq(Seq(S)) /\ Asked(second) \in Seq(Seq(S)) /\ Asked(both) \in Seq(Seq(S))
      /\ Len(Asked(first)) = Len(first) /\ Len(Asked(second)) = Len(second)
      /\ Len(Asked(both)) = Len(both)
      /\ \A k \in 1..Len(first) : Asked(first)[k] = OpenAIItems(first[k])
      /\ \A k \in 1..Len(second) : Asked(second)[k] = OpenAIItems(second[k])
      /\ \A k \in 1..Len(both) : Asked(both)[k] = OpenAIItems(both[k])
      /\ Items("openai", first) = Ext!FlattenSeq(Asked(first))
      /\ Items("openai", second) = Ext!FlattenSeq(Asked(second))
      /\ Items("openai", both) = Ext!FlattenSeq(Asked(both))
  <2>1. ASSUME NEW messages, Conversation(messages, Messages, Calls)
        PROVE  /\ Asked(messages) \in Seq(Seq(S))
               /\ Len(Asked(messages)) = Len(messages)
               /\ \A k \in 1..Len(messages) : Asked(messages)[k] = OpenAIItems(messages[k])
               /\ Items("openai", messages) = Ext!FlattenSeq(Asked(messages))
      BY <2>1, AskedTyped, ZenonT(30)
  <2>. HIDE DEF S, both
  <2>. QED
      BY <1>2, <2>1, ZenonT(60)
<1>4. Asked(both) = Asked(first) \o Asked(second)
  <2>. DEFINE p == Asked(first)
              q == Asked(second)
              r == Asked(both)
              n == Len(first)
              m == Len(second)
  <2>1. /\ n \in Nat /\ m \in Nat /\ Len(both) = n + m
        /\ \A k \in 1..n : both[k] = first[k]
        /\ \A k \in (n + 1)..(n + m) : both[k] = second[k - n]
      BY <1>1
  <2>2. /\ p \in Seq(Seq(S)) /\ q \in Seq(Seq(S)) /\ r \in Seq(Seq(S))
        /\ Len(p) = n /\ Len(q) = m /\ Len(r) = n + m
      BY <1>3, <2>1
  <2>. HIDE DEF n, m, S, both
  <2>3. ASSUME NEW k \in 1..n PROVE r[k] = p[k]
    <3>1. k \in 1..(n + m)
        BY <2>1
    <3>2. r[k] = OpenAIItems(both[k])
        BY <1>3, <2>1, <3>1
    <3>3. p[k] = OpenAIItems(first[k])
        BY <1>3 DEF n
    <3>. QED
        BY <2>1, <3>2, <3>3
  <2>4. ASSUME NEW k \in (n + 1)..(n + m) PROVE r[k] = q[k - n]
    <3>1. k \in 1..(n + m) /\ k - n \in 1..m
        BY <2>1
    <3>2. r[k] = OpenAIItems(both[k])
        BY <1>3, <2>1, <3>1
    <3>3. q[k - n] = OpenAIItems(second[k - n])
        BY <1>3, <3>1 DEF m
    <3>. QED
        BY <2>1, <3>2, <3>3
  <2>. HIDE DEF p, q, r
  <2>. DEFINE w == p \o q
  <2>5. /\ w \in Seq(Seq(S)) /\ Len(w) = n + m
        /\ \A k \in 1..n : w[k] = p[k]
        /\ \A k \in (n + 1)..(n + m) : w[k] = q[k - n]
    <3>. DEFINE T == Seq(S)
    <3>1. p \in Seq(T) /\ q \in Seq(T)
        BY <2>2
    <3>. HIDE DEF T
    <3>2. /\ w \in Seq(T) /\ Len(w) = n + m
          /\ \A k \in 1..(n + m) : w[k] = IF k <= n THEN p[k] ELSE q[k - n]
        BY <2>2, <3>1, ConcatProperties
    <3>. HIDE DEF w
    <3>3. /\ \A k \in 1..n : w[k] = p[k]
          /\ \A k \in (n + 1)..(n + m) : w[k] = q[k - n]
        BY <2>1, <3>2
    <3>. QED
        BY <3>2, <3>3 DEF T
  <2>. HIDE DEF w
  <2>6. \A k \in 1..(n + m) : r[k] = w[k]
      BY <2>1, <2>3, <2>4, <2>5
  <2>7. r = w
      BY <2>2, <2>5, <2>6
  <2>. QED
      BY <2>7 DEF p, q, r, w
<1>. HIDE DEF S, both
<1>5. Ext!FlattenSeq(Asked(both)) = Ext!FlattenSeq(Asked(first)) \o Ext!FlattenSeq(Asked(second))
    BY <1>3, <1>4, FlattenBoth
<1>. QED
    BY <1>2, <1>3, <1>5 DEF both, JoinedRequests

\* A request that matches goes on to match.
LEMMA MatchedOn ==
    ASSUME NEW Messages, NEW Calls, NEW first, NEW second,
           Conversation(first, Messages, Calls), Conversation(second, Messages, Calls),
           Matched(Items("openai", first)), Matched(Items("openai", second))
    PROVE  Matched(Items("openai", first \o second))
<1>0. JoinedRequests(first, second)
    BY ItemsBoth
<1>. DEFINE S == AllItems(Messages, Calls)
            x == Items("openai", first)
            y == Items("openai", second)
<1>1. x \in Seq(S) /\ y \in Seq(S) /\ Matched(x) /\ Matched(y)
    BY ItemsTyped
<1>2. Items("openai", first \o second) = x \o y
    BY <1>0 DEF JoinedRequests
<1>3. Matched(x \o y)
  <2>. HIDE DEF S, x, y
  <2>. QED
      BY <1>1, MatchedBoth
<1>. QED
    BY <1>2, <1>3

-----------------------------------------------------------------------------
(* Complete requests.                                                       *)

\* No messages make an empty request, in which nothing is missing.
LEMMA RequestOfNone ==
    ASSUME NEW Messages, NEW Calls
    PROVE  /\ Conversation(<<>>, Messages, Calls) => Items("openai", <<>>) = <<>>
           /\ Matched(<<>>)
<1>1. ASSUME Conversation(<<>>, Messages, Calls) PROVE Items("openai", <<>>) = <<>>
  <2>. DEFINE S == AllItems(Messages, Calls)
              s == Asked(<<>>)
  <2>1. s \in Seq(Seq(S)) /\ Len(s) = 0 /\ Items("openai", <<>>) = Ext!FlattenSeq(s)
    <3>1. Len(<<>>) = 0
        OBVIOUS
    <3>. QED
        BY <1>1, <3>1, AskedTyped
  <2>. HIDE DEF s, S
  <2>2. Joins(s, [i \in 0..0 |-> <<>>])
      BY <2>1 DEF Joins
  <2>3. Ext!FlattenSeq(s) = [i \in 0..0 |-> <<>>][Len(s)]
      BY <2>1, <2>2, JoinsFlatten
  <2>. QED
      BY <2>1, <2>3
<1>2. Matched(<<>>)
    BY DEF Matched
<1>. QED
    BY <1>1, <1>2

\* The request of one message.
LEMMA RequestOfOne ==
    ASSUME NEW Messages, NEW Calls, NEW messages, Conversation(messages, Messages, Calls),
           Len(messages) = 1
    PROVE  Items("openai", messages) = OpenAIItems(messages[1])
<1>. DEFINE S == AllItems(Messages, Calls)
            s == Asked(messages)
            x == OpenAIItems(messages[1])
            f == [i \in 0..1 |-> IF i = 0 THEN <<>> ELSE x]
<1>1. /\ s \in Seq(Seq(S)) /\ Len(s) = 1 /\ s[1] = x
      /\ Items("openai", messages) = Ext!FlattenSeq(s)
    BY AskedTyped
<1>. HIDE DEF s, S, x
<1>2. x \in Seq(S)
    BY <1>1
<1>3. <<>> \o x = x
    BY <1>2
<1>4. Joins(s, f)
    BY <1>1, <1>3 DEF Joins
<1>5. Ext!FlattenSeq(s) = f[1]
    BY <1>1, <1>4, JoinsFlatten
<1>. QED
    BY <1>1, <1>5 DEF x

\* A user message and a result become one item each.
ItemOf(m) == IF m.role = "user" THEN Turn ELSE Output(m.id)

\* A sequence without an assistant message becomes one item for each message.
LEMMA RequestOneEach ==
    ASSUME NEW Messages, NEW Calls, NEW messages, Conversation(messages, Messages, Calls),
           \A k \in 1..Len(messages) : messages[k].role # "assistant"
    PROVE  Items("openai", messages) = [k \in 1..Len(messages) |-> ItemOf(messages[k])]
<1>. DEFINE S == AllItems(Messages, Calls)
            N == Len(messages)
            s == [k \in 1..N |-> ItemOf(messages[k])]
            each == [k \in 1..N |-> <<s[k]>>]
<1>1. /\ N \in Nat
      /\ \A k \in 1..N : messages[k] \in Messages /\ messages[k].role \in {"user", "toolResult"}
    BY DEF Conversation
<1>2. \A k \in 1..N : ItemOf(messages[k]) \in S
    BY <1>1 DEF ItemOf, AllItems
<1>3. \A k \in 1..N : OpenAIItems(messages[k]) = <<ItemOf(messages[k])>>
    BY <1>1 DEF ItemOf, OpenAIItems, IsResult
<1>4. s \in Seq(S) /\ Len(s) = N
  <2>1. s \in [1..N -> S]
      BY <1>2
  <2>. HIDE DEF s, S
  <2>. QED
      BY <1>1, <2>1
<1>5. Asked(messages) = each
  <2>1. DOMAIN messages = 1..N
      BY DEF Conversation
  <2>. QED
      BY <1>3, <2>1 DEF Asked
<1>6. Items("openai", messages) = Ext!FlattenSeq(Asked(messages))
    BY AskedTyped
<1>7. Ext!FlattenSeq([k \in 1..Len(s) |-> <<s[k]>>]) = s
  <2>. HIDE DEF s, S
  <2>. QED
      BY <1>4, FlattenSingletons
<1>8. Ext!FlattenSeq(each) = s
  <2>. HIDE DEF s
  <2>. QED
      BY <1>4, <1>7
<1>. QED
    BY <1>5, <1>6, <1>8

\* User messages leave nothing to match.
LEMMA UsersMatched ==
    ASSUME NEW Messages, NEW Calls, NEW messages, Conversation(messages, Messages, Calls),
           \A k \in 1..Len(messages) : messages[k].role = "user"
    PROVE  Matched(Items("openai", messages))
<1>. DEFINE N == Len(messages)
            s == [k \in 1..N |-> ItemOf(messages[k])]
<1>1. Items("openai", messages) = s
    BY RequestOneEach
<1>2. \A k \in 1..N : s[k].kind = "turn"
    BY ItemKinds DEF ItemOf
<1>3. DOMAIN s = 1..N
    OBVIOUS
<1>. HIDE DEF s
<1>4. Matched(s)
    BY <1>2, <1>3 DEF Matched
<1>. QED
    BY <1>1, <1>4

\* An assistant message whose calls are not replayed leaves nothing to match.
LEMMA SilentMatched ==
    ASSUME NEW Messages, NEW Calls, NEW messages, Conversation(messages, Messages, Calls),
           Len(messages) = 1, messages[1].role = "assistant",
           messages[1].stop = "toolUse" => messages[1].calls = <<>>
    PROVE  Matched(Items("openai", messages))
<1>1. OpenAIItems(messages[1]) = <<>>
  <2>1. CallItems(<<>>) = <<>>
      BY DEF CallItems
  <2>. QED
      BY <2>1 DEF OpenAIItems, IsResult
<1>2. Items("openai", messages) = <<>>
    BY <1>1, RequestOfOne
<1>. QED
    BY <1>2, RequestOfNone

\* The whole of a batch: an assistant message that stops for its calls, and the
\* results of the calls, in their order.
Batch(messages) ==
    /\ messages[1].role = "assistant"
    /\ messages[1].stop = "toolUse"
    /\ Identified(messages[1].calls)
    /\ Len(messages) = Len(messages[1].calls) + 1
    /\ \A j \in 1..Len(messages[1].calls) :
        IsResult(messages[1 + j]) /\ messages[1 + j].id = messages[1].calls[j].id

\* A batch becomes calls and outputs that match.
LEMMA BatchMatched ==
    ASSUME NEW Messages, NEW Calls, NEW messages, Conversation(messages, Messages, Calls),
           Batch(messages)
    PROVE  Matched(Items("openai", messages))
<1>. DEFINE calls == messages[1].calls
            L == Len(calls)
            head == SubSeq(messages, 1, 1)
            tail == SubSeq(messages, 2, L + 1)
            x == CallItems(calls)
            y == [j \in 1..L |-> Output(calls[j].id)]
<1>1. /\ messages \in Seq(Messages)
      /\ Len(messages) = L + 1
      /\ messages[1].role = "assistant" /\ messages[1].stop = "toolUse"
      /\ Identified(calls)
      /\ \A j \in 1..L : IsResult(messages[1 + j]) /\ messages[1 + j].id = calls[j].id
    BY DEF Conversation, Batch
<1>2. calls \in Seq(Calls) /\ L \in Nat
  <2>1. 1 \in 1..Len(messages) \/ L \notin Nat
      BY <1>1
  <2>2. Len(messages) \in Nat /\ Len(messages) # 0
    <3>1. Len(messages) \in Nat /\ (Len(messages) = 0 => messages = <<>>)
        BY <1>1
    <3>2. L = Len(messages[1].calls)
        OBVIOUS
    <3>. QED
        BY <1>1, <3>1
  <2>3. messages[1] \in Messages
      BY <1>1, <2>2
  <2>4. calls \in Seq(Calls)
      BY <1>1, <2>3 DEF Conversation
  <2>. QED
      BY <2>4
<1>. HIDE DEF L, calls
<1>3. /\ head \in Seq(Messages) /\ tail \in Seq(Messages)
      /\ Len(head) = 1 /\ head[1] = messages[1]
      /\ Len(tail) = L /\ \A j \in 1..L : tail[j] = messages[1 + j]
      /\ messages = head \o tail
    BY <1>1, <1>2
<1>. HIDE DEF head, tail
<1>4. Conversation(head, Messages, Calls) /\ Conversation(tail, Messages, Calls)
    BY <1>3 DEF Conversation
<1>5. Items("openai", head) = x
  <2>1. OpenAIItems(head[1]) = x
      BY <1>1, <1>3 DEF OpenAIItems, IsResult, calls
  <2>. QED
      BY <1>3, <1>4, <2>1, RequestOfOne
<1>6. Items("openai", tail) = y
  <2>1. \A j \in 1..L : tail[j].role = "toolResult" /\ tail[j].id = calls[j].id
      BY <1>1, <1>3 DEF IsResult
  <2>2. \A k \in 1..Len(tail) : tail[k].role # "assistant"
      BY <1>3, <2>1
  <2>3. Items("openai", tail) = [j \in 1..Len(tail) |-> ItemOf(tail[j])]
      BY <1>4, <2>2, RequestOneEach
  <2>4. \A j \in 1..L : ItemOf(tail[j]) = Output(calls[j].id)
      BY <2>1 DEF ItemOf
  <2>. QED
      BY <1>3, <2>3, <2>4
<1>7. Items("openai", messages) = x \o y
  <2>1. JoinedRequests(head, tail)
      BY <1>4, ItemsBoth
  <2>. HIDE DEF x, y
  <2>. QED
      BY <1>3, <1>5, <1>6, <2>1 DEF JoinedRequests
<1>8. Matched(x \o y)
    BY <1>1, <1>2, MatchedBatch DEF L
<1>. QED
    BY <1>7, <1>8

\* A conversation that validateMessageSequence accepts makes a request in which
\* every call has its output and every output its call, whatever its length.
THEOREM ScannedIsMatched ==
    ASSUME NEW Messages, NEW Calls, NEW messages, Conversation(messages, Messages, Calls),
           ValidSequence(messages)
    PROVE  Matched(Items("openai", messages))
<1>. DEFINE N == Len(messages)
            Rest(i) == SubSeq(messages, i, N)
            T == {i \in 0..(N + 1) : i # 0 /\ PairedFrom(messages, i) =>
                                         Matched(Items("openai", Rest(i)))}
<1>1. N \in Nat /\ messages \in Seq(Messages)
    BY DEF Conversation
<1>2. ASSUME NEW i \in 1..(N + 1)
      PROVE  Conversation(Rest(i), Messages, Calls)
  <2>1. Rest(i) \in Seq(Messages)
      BY <1>1
  <2>. HIDE DEF Rest
  <2>. QED
      BY <2>1 DEF Conversation
<1>3. ASSUME NEW i \in 1..N, NEW n \in 1..(N + 1), i < n,
             Conversation(SubSeq(messages, i, n - 1), Messages, Calls),
             Matched(Items("openai", SubSeq(messages, i, n - 1))),
             Matched(Items("openai", Rest(n)))
      PROVE  Matched(Items("openai", Rest(i)))
  <2>1. Rest(i) = SubSeq(messages, i, n - 1) \o Rest(n)
    <3>. DEFINE u == SubSeq(messages, i, n - 1)
                v == Rest(n)
                w == u \o v
    <3>1. /\ u \in Seq(Messages) /\ Len(u) = n - i
          /\ \A j \in 1..(n - i) : u[j] = messages[i + (j - 1)]
        BY <1>1, <1>3
    <3>2. /\ v \in Seq(Messages) /\ Len(v) = N + 1 - n
          /\ \A j \in 1..(N + 1 - n) : v[j] = messages[n + (j - 1)]
        BY <1>1, <1>3
    <3>3. /\ Rest(i) \in Seq(Messages) /\ Len(Rest(i)) = N + 1 - i
          /\ \A j \in 1..(N + 1 - i) : Rest(i)[j] = messages[i + (j - 1)]
        BY <1>1, <1>3
    <3>. HIDE DEF u, v, N, Rest
    <3>4. w \in Seq(Messages) /\ Len(w) = N + 1 - i
      <4>1. u \in Seq(Messages) /\ v \in Seq(Messages)
          BY <3>1, <3>2
      <4>2. w \in Seq(Messages) /\ Len(w) = Len(u) + Len(v)
          BY <4>1
      <4>3. Len(u) = n - i /\ Len(v) = N + 1 - n
          BY <3>1, <3>2
      <4>. HIDE DEF w
      <4>4. n - i + (N + 1 - n) = N + 1 - i
          BY <1>1, <1>3
      <4>. QED
          BY <4>2, <4>3, <4>4
    <3>5. ASSUME NEW j \in 1..(N + 1 - i) PROVE w[j] = messages[i + (j - 1)]
      <4>1. CASE j \in 1..(n - i)
          BY <3>1, <3>2, <4>1
      <4>2. CASE j \notin 1..(n - i)
        <5>1. /\ j - (n - i) \in 1..(N + 1 - n) /\ n + ((j - (n - i)) - 1) = i + (j - 1)
              /\ j \in 1..(Len(u) + Len(v)) /\ j \notin 1..Len(u) /\ j - Len(u) = j - (n - i)
            BY <1>1, <1>3, <3>1, <3>2, <4>2
        <5>2. w[j] = v[j - (n - i)]
          <6>1. u \in Seq(Messages) /\ v \in Seq(Messages)
              BY <3>1, <3>2
          <6>2. w[j] = v[j - Len(u)]
              BY <5>1, <6>1
          <6>. QED
              BY <5>1, <6>2
        <5>. QED
            BY <3>2, <5>1, <5>2
      <4>. QED
          BY <4>1, <4>2
    <3>. HIDE DEF w
    <3>6. Rest(i) = w
        BY <3>3, <3>4, <3>5, SMTT(60)
    <3>. QED
        BY <3>6 DEF u, v, w
  <2>2. Conversation(Rest(n), Messages, Calls)
      BY <1>2
  <2>3. Matched(Items("openai", SubSeq(messages, i, n - 1) \o Rest(n)))
    <3>. HIDE DEF Rest
    <3>. QED
        BY <1>3, <2>2, MatchedOn
  <2>. QED
      BY <2>1, <2>3
<1>4. ASSUME NEW i \in 0..(N + 1), \A k \in (i + 1)..(N + 1) : k \in T
      PROVE  i \in T
  <2>. SUFFICES ASSUME i # 0, PairedFrom(messages, i)
                PROVE  Matched(Items("openai", Rest(i)))
      OBVIOUS
  <2>1. ASSUME NEW n \in (i + 1)..(N + 1), PairedFrom(messages, n)
        PROVE  n \in 1..(N + 1) /\ i < n /\ Matched(Items("openai", Rest(n)))
      BY <1>1, <1>4, <2>1
  <2>. HIDE DEF T
  <2>2. CASE i = N + 1
    <3>1. Rest(i) = <<>>
        BY <1>1, <2>2
    <3>. HIDE DEF Rest
    <3>2. i \in 1..(N + 1)
        BY <1>1, <2>2
    <3>3. Conversation(Rest(i), Messages, Calls)
        BY <1>2, <3>2
    <3>. QED
        BY <3>1, <3>3, RequestOfNone
  <2>3. CASE i \in 1..N
    <3>. DEFINE m == messages[i]
                one == SubSeq(messages, i, i)
    <3>1. m.role \in {"user", "assistant", "toolResult"}
          /\ (m.role = "assistant" => m.calls \in Seq(Calls))
        BY <1>1, <2>3 DEF Conversation
    <3>2. one \in Seq(Messages) /\ Len(one) = 1 /\ one[1] = m /\ (i + 1) - 1 = i
        BY <1>1, <2>3
    <3>3. Conversation(one, Messages, Calls)
      <4>. HIDE DEF one
      <4>. QED
          BY <3>2 DEF Conversation
    <3>4. ASSUME Matched(Items("openai", one)), PairedFrom(messages, i + 1)
          PROVE  Matched(Items("openai", Rest(i)))
      <4>1. i + 1 \in (i + 1)..(N + 1)
          BY <1>1, <2>3
      <4>2. i + 1 \in 1..(N + 1) /\ i < i + 1 /\ Matched(Items("openai", Rest(i + 1)))
          BY <2>1, <3>4, <4>1
      <4>3. SubSeq(messages, i, (i + 1) - 1) = one
          BY <3>2
      <4>. HIDE DEF Rest, one
      <4>. QED
          BY <1>3, <2>3, <3>3, <3>4, <4>2, <4>3
    <3>. HIDE DEF Rest
    <3>5. CASE m.role = "user"
      <4>1. PairedFrom(messages, i + 1)
          BY <2>3, <3>5, SkipOne DEF IsResult
      <4>2. Matched(Items("openai", one))
        <5>. HIDE DEF one
        <5>. QED
            BY <3>2, <3>3, <3>5, UsersMatched
      <4>. QED
          BY <3>4, <4>1, <4>2
    <3>6. CASE m.role = "toolResult"
      <4>1. i \in i..N
          BY <1>1, <2>3
      <4>2. PairedAt(messages, i, i)
          BY <4>1 DEF PairedFrom
      <4>3. PICK k \in i..N : ResultOf(messages, i, k)
          BY <3>6, <4>2 DEF PairedAt, IsResult
      <4>. QED
          BY <2>3, <4>3 DEF ResultOf
    <3>7. CASE m.role = "assistant" /\ m.calls = <<>>
      <4>1. PairedFrom(messages, i + 1)
          BY <2>3, <3>7, SkipOne DEF IsResult
      <4>2. Matched(Items("openai", one))
        <5>. HIDE DEF one
        <5>. QED
            BY <3>2, <3>3, <3>7, SilentMatched
      <4>. QED
          BY <3>4, <4>1, <4>2
    <3>8. CASE m.role = "assistant" /\ m.calls # <<>>
      <4>. DEFINE L == Len(m.calls)
                  n == i + L + 1
                  all == SubSeq(messages, i, n - 1)
      <4>1. BatchAnswered(messages, i) /\ PairedFrom(messages, n)
          BY <2>3, <3>8, SkipBatch
      <4>2. L \in Nat /\ i + L <= N
          BY <3>1, <3>8, <4>1 DEF BatchAnswered
      <4>3. DOMAIN m.calls = 1..L
          BY <3>1, <3>8
      <4>4. /\ m.stop = "toolUse" /\ Identified(m.calls)
            /\ \A j \in 1..L : IsResult(messages[i + j]) /\ messages[i + j].id = m.calls[j].id
          BY <4>1, <4>3 DEF BatchAnswered, Answers
      <4>. HIDE DEF L
      <4>5. /\ all \in Seq(Messages) /\ Len(all) = L + 1 /\ all[1] = m
            /\ \A j \in 1..L : all[1 + j] = messages[i + j]
        <5>1. all \in Seq(Messages) /\ Len(all) = L + 1
            BY <1>1, <2>3, <4>2
        <5>2. ASSUME NEW j \in 1..(L + 1) PROVE all[j] = messages[i + (j - 1)]
            BY <1>1, <2>3, <4>2
        <5>3. \A j \in 1..L : 1 + j \in 1..(L + 1) /\ i + ((1 + j) - 1) = i + j
            BY <2>3, <4>2
        <5>4. 1 \in 1..(L + 1) /\ i + (1 - 1) = i
            BY <2>3, <4>2
        <5>. QED
            BY <5>1, <5>2, <5>3, <5>4
      <4>6. n \in (i + 1)..(N + 1)
          BY <1>1, <2>3, <4>2
      <4>. HIDE DEF all, n, m
      <4>7. Conversation(all, Messages, Calls)
          BY <4>5 DEF Conversation
      <4>8. Batch(all)
          BY <3>8, <4>4, <4>5 DEF Batch, L
      <4>9. Matched(Items("openai", all))
          BY <4>7, <4>8, BatchMatched
      <4>10. n \in 1..(N + 1) /\ i < n /\ Matched(Items("openai", Rest(n)))
          BY <2>1, <4>1, <4>6
      <4>. QED
          BY <1>3, <2>3, <4>7, <4>9, <4>10 DEF all
    <3>. QED
        BY <3>1, <3>5, <3>6, <3>7, <3>8
  <2>. QED
      BY <1>1, <2>2, <2>3
<1>. HIDE DEF T
<1>5. \A i \in 0..(N + 1) : i \in T
  <2>1. N + 1 \in Nat
      BY <1>1
  <2>. HIDE DEF N
  <2>. QED
      BY <1>4, <2>1, DownwardInduction
<1>6. PairedFrom(messages, 1)
    BY ScanPairs, PairedIsPairedFrom
<1>7. 1 \in 0..(N + 1)
    BY <1>1
<1>8. Matched(Items("openai", Rest(1)))
    BY <1>5, <1>6, <1>7 DEF T
<1>9. Rest(1) = messages
    BY <1>1
<1>. QED
    BY <1>8, <1>9

=============================================================================
