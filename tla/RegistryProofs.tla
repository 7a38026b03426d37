--------------------------- MODULE RegistryProofs ---------------------------
(***************************************************************************)
(* Proofs about Registry, for any finite set of providers, any models,     *)
(* documents and number of refreshes, and any order in which Go iterates   *)
(* its maps.                                                               *)
(*                                                                         *)
(* What rebuildIndex leaves for a model is a fold over the providers, so   *)
(* that LookupExact rests on an induction over the order of iteration:     *)
(* SeenIsExact says what the fold knows after any number of visits.        *)
(***************************************************************************)
EXTENDS Registry, IntervalInduction, FiniteSetTheorems, SequenceTheorems

-----------------------------------------------------------------------------
(* rebuildIndex.                                                            *)

Seen == [owner : Providers \cup {None}, ambiguous : BOOLEAN]

\* The visits of rebuildIndex to model m, one after the other.
Visits(known, order, m, n, seen) ==
    /\ seen[0] = Unseen
    /\ \A i \in 1..n : seen[i] = Visit(known, seen[i - 1], order[i], m)

\* What is known of model m after n visits: whether none, one or several of the
\* providers visited offer it, and which one.
KnownAfter(known, order, m, n, s) ==
    /\ s.owner = None /\ ~s.ambiguous =>
           \A j \in 1..n : ~Offers(known, order[j], m)
    /\ s.owner # None =>
           /\ ~s.ambiguous
           /\ \E j \in 1..n :
                /\ order[j] = s.owner
                /\ Offers(known, order[j], m)
                /\ \A k \in 1..n : Offers(known, order[k], m) => k = j
    /\ s.ambiguous =>
           \E j, k \in 1..n :
               j # k /\ Offers(known, order[j], m) /\ Offers(known, order[k], m)

\* A visit yields an entry of the index.
LEMMA VisitTyped ==
    ASSUME NEW known, NEW s \in Seen, NEW p \in Providers, NEW m
    PROVE  Visit(known, s, p, m) \in Seen
    BY DEF Visit, Seen, Unseen

\* The recursive definition of IndexOf makes the visits it describes.
LEMMA IndexOfVisits ==
    ASSUME NEW known, NEW N \in Nat, NEW order \in [1..N -> Providers], NEW m
    PROVE  \E seen \in [0..N -> Seen] :
               Visits(known, order, m, N, seen) /\ IndexOf(known, order, m) = seen[N]
<1>. DEFINE rec[i \in 0..Len(order)] ==
                IF i = 0 THEN Unseen ELSE Visit(known, rec[i - 1], order[i], m)
            step == [i \in 1..N |-> [s \in Seen |-> Visit(known, s, order[i], m)]]
<1>1. Len(order) = N
    OBVIOUS
<1>2. Unseen \in Seen
    BY DEF Unseen, Seen
<1>3. step \in [1..N -> [Seen -> Seen]]
    BY VisitTyped
<1>. HIDE DEF rec, step
<1>4. PICK f \in [0..N -> Seen] : Recursive(f, N, Unseen, step)
    BY <1>2, <1>3, RecursionOverInterval
<1>5. \A i \in 1..N : f[i] = Visit(known, f[i - 1], order[i], m)
  <2>. SUFFICES ASSUME NEW i \in 1..N
                PROVE  f[i] = Visit(known, f[i - 1], order[i], m)
      OBVIOUS
  <2>1. i - 1 \in 0..N
      OBVIOUS
  <2>2. f[i - 1] \in Seen
      BY <2>1
  <2>3. step[i][f[i - 1]] = Visit(known, f[i - 1], order[i], m)
      BY <2>2 DEF step
  <2>. QED
      BY <1>4, <2>3 DEF Recursive
<1>6. f = [i \in 0..Len(order) |->
              IF i = 0 THEN Unseen ELSE Visit(known, f[i - 1], order[i], m)]
    BY <1>1, <1>4, <1>5 DEF Recursive
<1>7. rec = [i \in 0..Len(order) |->
                IF i = 0 THEN Unseen ELSE Visit(known, rec[i - 1], order[i], m)]
    BY <1>6 DEF rec
<1>8. Visits(known, order, m, N, rec)
    BY <1>1, <1>7 DEF Visits
<1>9. \A i \in 0..N : rec[i] \in Seen
  <2>. DEFINE S == {i \in 0..N : rec[i] \in Seen}
  <2>1. 0 \in S
      BY <1>2, <1>8 DEF Visits
  <2>2. \A i \in 0..(N - 1) : i \in S => i + 1 \in S
      BY <1>8, VisitTyped DEF Visits
  <2>. HIDE DEF S
  <2>3. \A i \in 0..N : i \in S
      BY <2>1, <2>2, UpwardInduction
  <2>. QED
      BY <2>3 DEF S
<1>10. rec \in [0..N -> Seen]
    BY <1>1, <1>7, <1>9
<1>11. IndexOf(known, order, m) = rec[N]
    BY <1>1 DEF IndexOf, rec
<1>. QED
    BY <1>8, <1>10, <1>11

\* One more visit takes what is known after n of them to what is known after
\* n + 1.
LEMMA VisitKnows ==
    ASSUME NEW known, NEW N \in Nat, NEW order \in [1..N -> Providers], NEW m,
           NEW n \in 0..(N - 1), NEW s \in Seen, KnownAfter(known, order, m, n, s)
    PROVE  KnownAfter(known, order, m, n + 1, Visit(known, s, order[n + 1], m))
<1>. DEFINE p == order[n + 1]
            t == Visit(known, s, p, m)
<1>1. p \in Providers /\ p # None
    BY IdsAssumption
<1>2. \A j \in 1..(n + 1) : j \in 1..n \/ j = n + 1
    OBVIOUS
<1>3. 1..n \subseteq 1..(n + 1) /\ n + 1 \in 1..(n + 1) /\ n + 1 \notin 1..n
    OBVIOUS
<1>. SUFFICES KnownAfter(known, order, m, n + 1, t)
    OBVIOUS
<1>4. CASE ~Offers(known, p, m)
  <2>1. t = s
      BY <1>4 DEF Visit
  <2>. QED
      BY <1>2, <1>3, <1>4, <2>1 DEF KnownAfter
<1>5. CASE Offers(known, p, m) /\ s.owner # None
  <2>1. t.owner = None /\ t.ambiguous
      BY <1>5 DEF Visit
  <2>2. PICK j \in 1..n : Offers(known, order[j], m)
      BY <1>5 DEF KnownAfter
  <2>. QED
      BY <1>3, <1>5, <2>1, <2>2 DEF KnownAfter
<1>6. CASE Offers(known, p, m) /\ s.owner = None /\ s.ambiguous
  <2>1. t = s
      BY <1>6 DEF Visit
  <2>. QED
      BY <1>3, <1>6, <2>1 DEF KnownAfter
<1>7. CASE Offers(known, p, m) /\ s.owner = None /\ ~s.ambiguous
  <2>1. t.owner = p /\ ~t.ambiguous
      BY <1>7 DEF Visit, Seen
  <2>2. \A j \in 1..n : ~Offers(known, order[j], m)
      BY <1>7 DEF KnownAfter
  <2>. QED
      BY <1>1, <1>2, <1>3, <1>7, <2>1, <2>2 DEF KnownAfter
<1>. QED
    BY <1>4, <1>5, <1>6, <1>7

\* After all visits it is known whether none, one or several providers offer m.
LEMMA SeenIsExact ==
    ASSUME NEW known, NEW N \in Nat, NEW order \in [1..N -> Providers], NEW m
    PROVE  /\ IndexOf(known, order, m) \in Seen
           /\ KnownAfter(known, order, m, N, IndexOf(known, order, m))
<1>1. PICK seen \in [0..N -> Seen] :
          Visits(known, order, m, N, seen) /\ IndexOf(known, order, m) = seen[N]
    BY IndexOfVisits
<1>. DEFINE S == {n \in 0..N : KnownAfter(known, order, m, n, seen[n])}
<1>2. 0 \in S
  <2>1. seen[0] = Unseen
      BY <1>1 DEF Visits
  <2>. QED
      BY <2>1 DEF KnownAfter, Unseen
<1>3. ASSUME NEW n \in 0..(N - 1), n \in S PROVE n + 1 \in S
  <2>1. seen[n] \in Seen /\ n + 1 \in 1..N /\ n + 1 \in 0..N
      OBVIOUS
  <2>2. seen[n + 1] = Visit(known, seen[n], order[n + 1], m)
      BY <1>1, <2>1 DEF Visits
  <2>3. KnownAfter(known, order, m, n, seen[n])
      BY <1>3
  <2>4. KnownAfter(known, order, m, n + 1, seen[n + 1])
      BY <2>1, <2>2, <2>3, VisitKnows
  <2>. QED
      BY <2>1, <2>4
<1>. HIDE DEF S
<1>4. \A n \in 0..N : n \in S
    BY <1>2, <1>3, UpwardInduction
<1>5. N \in 0..N
    OBVIOUS
<1>. QED
    BY <1>1, <1>4, <1>5 DEF S

\* Every provider has its turn in an order of the map.
LEMMA OrdersVisitAll ==
    ASSUME NEW order \in Orders, NEW p \in Providers
    PROVE  \E j \in 1..Cardinality(Providers) : order[j] = p
<1>. DEFINE N == Cardinality(Providers)
<1>1. N \in Nat /\ IsFiniteSet(Providers)
    BY EmbeddedAssumption, FS_CardinalityType
<1>2. order \in Injection(1..N, Providers)
    BY DEF Orders, Injection, IsInjective
<1>3. Cardinality(1..N) = N
    BY <1>1, FS_Interval
<1>4. order \in Surjection(1..N, Providers)
    BY <1>1, <1>2, <1>3, FS_Injection
<1>. QED
    BY <1>4 DEF Surjection

\* What an entry of the index says about the providers.
Exact(known, m, owner, several) ==
    /\ owner = None /\ ~several => \A p \in Providers : ~Offers(known, p, m)
    /\ owner # None =>
           /\ owner \in Providers /\ Offers(known, owner, m) /\ ~several
           /\ \A p \in Providers : Offers(known, p, m) => p = owner
    /\ several => \E p, q \in Providers :
           p # q /\ Offers(known, p, m) /\ Offers(known, q, m)

\* rebuildIndex gets every entry right, in whatever order it meets the providers.
LEMMA RebuiltIsExact ==
    ASSUME NEW known, NEW order \in Orders, NEW m
    PROVE  LET seen == IndexOf(known, order, m) IN
           seen \in Seen /\ Exact(known, m, seen.owner, seen.ambiguous)
<1>. DEFINE N == Cardinality(Providers)
            s == IndexOf(known, order, m)
<1>1. N \in Nat
    BY EmbeddedAssumption, FS_CardinalityType
<1>2. order \in [1..N -> Providers]
    BY DEF Orders
<1>3. s \in Seen /\ KnownAfter(known, order, m, N, s)
    BY <1>1, <1>2, SeenIsExact
<1>4. \A p \in Providers : \E j \in 1..N : order[j] = p
    BY OrdersVisitAll
<1>5. \A j, k \in 1..N : j # k => order[j] # order[k]
    BY <1>2 DEF Orders
<1>. HIDE DEF N, s
<1>6. Exact(known, m, s.owner, s.ambiguous)
  <2>1. s.owner = None /\ ~s.ambiguous => \A p \in Providers : ~Offers(known, p, m)
      BY <1>3, <1>4 DEF KnownAfter
  <2>2. ASSUME s.owner # None
        PROVE  /\ s.owner \in Providers /\ Offers(known, s.owner, m) /\ ~s.ambiguous
               /\ \A p \in Providers : Offers(known, p, m) => p = s.owner
      BY <1>2, <1>3, <1>4, <2>2 DEF KnownAfter
  <2>3. s.ambiguous => \E p, q \in Providers :
            p # q /\ Offers(known, p, m) /\ Offers(known, q, m)
      BY <1>2, <1>3, <1>5 DEF KnownAfter
  <2>. QED
      BY <2>1, <2>2, <2>3 DEF Exact
<1>. QED
    BY <1>3, <1>6 DEF s
-----------------------------------------------------------------------------
(* The registry.                                                            *)

\* Every entry of the index says what the catalogs say.
IndexExact == \A m \in Models : Exact(entries, m, index[m], m \in ambiguous)

\* A call of RefreshModels that builds holds a document.
HoldsDocument == \A r \in Refreshers : pc[r] = "building" => fetched[r] # 0

IInv == TypeOK /\ IndexExact /\ HoldsDocument

\* NewProviders builds an index that is exact for the catalogs it embeds.
LEMMA InitTyped == Init => IInv
<1>. SUFFICES ASSUME Init PROVE IInv
    OBVIOUS
<1>1. PICK order \in Orders :
          /\ index = [m \in Models |-> IndexOf(entries, order, m).owner]
          /\ ambiguous = {m \in Models : IndexOf(entries, order, m).ambiguous}
    BY DEF Init
<1>2. \A m \in Models :
          /\ index[m] \in Providers \cup {None}
          /\ m \in ambiguous => index[m] = None
          /\ Exact(entries, m, index[m], m \in ambiguous)
    BY <1>1, RebuiltIsExact DEF Seen, Exact
<1>3. IndexExact
    BY <1>2 DEF IndexExact
<1>4. TypeOK
  <2>1. index \in [Models -> Providers \cup {None}] /\ ambiguous \subseteq Models
      BY <1>1, <1>2
  <2>. QED
      BY <1>2, <2>1, EmbeddedAssumption, IdsAssumption DEF Init, TypeOK
<1>5. HoldsDocument
    BY DEF Init, HoldsDocument
<1>. QED
    BY <1>3, <1>4, <1>5 DEF IInv

\* After rebuildIndex the index is exact for the catalogs it was built over.
LEMMA RebuildExact ==
    ASSUME NEW order \in Orders, RebuildIndex(entries', order)
    PROVE  /\ IndexExact'
           /\ index' \in [Models -> Providers \cup {None}]
           /\ ambiguous' \subseteq {m \in Models : index'[m] = None}
<1>1. \A m \in Models :
          LET seen == IndexOf(entries', order, m) IN
          /\ seen \in Seen
          /\ Exact(entries', m, seen.owner, seen.ambiguous)
    BY RebuiltIsExact
<1>2. \A m \in Models :
          /\ index'[m] = IndexOf(entries', order, m).owner
          /\ m \in ambiguous' <=> IndexOf(entries', order, m).ambiguous
    BY DEF RebuildIndex
<1>3. \A m \in Models :
          /\ index'[m] \in Providers \cup {None}
          /\ m \in ambiguous' => index'[m] = None
          /\ Exact(entries', m, index'[m], m \in ambiguous')
    BY <1>1, <1>2 DEF Seen, Exact
<1>4. ambiguous' \subseteq Models
    BY DEF RebuildIndex
<1>5. index' \in [Models -> Providers \cup {None}]
    BY <1>3 DEF RebuildIndex
<1>. QED
    BY <1>3, <1>4, <1>5 DEF IndexExact

\* A document of models.dev is about models of the registry.
LEMMA DocumentsTyped ==
    ASSUME TypeOK, NEW k \in 1..Len(published), NEW p \in Cataloged
    PROVE  published[k] \in Documents /\ published[k][p] \subseteq Models
    BY EmbeddedAssumption DEF TypeOK

\* A published document leaves the registry as it is.
LEMMA PublishKeeps ==
    ASSUME IInv, NEW d \in Documents, Publish(d)
    PROVE  IInv'
<1>. USE DEF IInv
<1>1. /\ published' \in Seq(Documents) /\ Len(published') = Len(published) + 1
      /\ \A k \in 1..Len(published) : published'[k] = published[k]
      /\ Len(published) \in Nat
    BY DEF Publish, TypeOK
<1>2. TypeOK'
  <2>1. Len(published') <= MaxDocuments
      BY <1>1, IdsAssumption DEF Publish, TypeOK
  <2>2. 0..Len(published) \subseteq 0..Len(published')
      BY <1>1
  <2>. QED
      BY <1>1, <2>1, <2>2 DEF Publish, TypeOK
<1>3. IndexExact' /\ HoldsDocument'
    BY DEF Publish, IndexExact, HoldsDocument
<1>. QED
    BY <1>2, <1>3

\* So does a fetch, which only notes what it read, or that it failed.
LEMMA FetchKeeps ==
    ASSUME IInv, NEW r \in Refreshers, Fetch(r) \/ FetchFails(r)
    PROVE  IInv'
<1>. USE DEF IInv
<1>1. Len(published) \in Nat /\ (published # <<>> => Len(published) # 0)
    BY DEF TypeOK
<1>2. TypeOK'
  <2>1. CASE Fetch(r)
    <3>1. fetched' \in [Refreshers -> 0..Len(published)]
        BY <1>1, <2>1 DEF Fetch, TypeOK
    <3>2. pc' \in [Refreshers -> {"idle", "building", "done", "failed"}]
        BY <2>1 DEF Fetch, TypeOK
    <3>. QED
        BY <2>1, <3>1, <3>2 DEF Fetch, TypeOK
  <2>2. CASE FetchFails(r)
      BY <2>2 DEF FetchFails, TypeOK
  <2>. QED
      BY <2>1, <2>2
<1>3. HoldsDocument'
    BY <1>1 DEF Fetch, FetchFails, HoldsDocument, TypeOK
<1>4. IndexExact'
    BY DEF Fetch, FetchFails, IndexExact
<1>. QED
    BY <1>2, <1>3, <1>4

\* An installed document changes the entries and the index in one step.
LEMMA InstallKeeps ==
    ASSUME IInv, NEW r \in Refreshers, NEW order \in Orders, Install(r, order)
    PROVE  IInv'
<1>. USE DEF IInv
<1>. DEFINE document == published[fetched[r]]
<1>1. fetched[r] \in 1..Len(published)
  <2>1. fetched[r] \in 0..Len(published) /\ fetched[r] # 0 /\ Len(published) \in Nat
      BY DEF Install, HoldsDocument, TypeOK
  <2>. QED
      BY <2>1
<1>2. \A p \in Cataloged : p \in Providers /\ document[p] \subseteq Models
    BY <1>1, DocumentsTyped, EmbeddedAssumption
<1>. HIDE DEF document
<1>3. entries' = Overlaid(document) /\ RebuildIndex(entries', order)
    BY DEF Install, document
<1>4. IndexExact'
    BY <1>3, RebuildExact
<1>5. TypeOK'
  <2>1. entries' \in [Providers -> SUBSET Models]
    <3>1. \A p \in Providers : entries[p] \subseteq Models
        BY DEF TypeOK
    <3>. QED
        BY <1>2, <1>3, <3>1 DEF Overlaid
  <2>2. /\ index' \in [Models -> Providers \cup {None}]
        /\ ambiguous' \subseteq {m \in Models : index'[m] = None}
      BY <1>3, RebuildExact
  <2>. QED
      BY <2>1, <2>2 DEF Install, TypeOK
<1>6. HoldsDocument'
    BY DEF Install, HoldsDocument, TypeOK
<1>. QED
    BY <1>4, <1>5, <1>6

\* Each step keeps the invariant.
LEMMA StepKeeps == IInv /\ [Next]_vars => IInv'
<1>. SUFFICES ASSUME IInv, [Next]_vars PROVE IInv'
    OBVIOUS
<1>1. CASE \E d \in Documents : Publish(d)
    BY <1>1, PublishKeeps
<1>2. CASE \E r \in Refreshers : Fetch(r) \/ FetchFails(r)
    BY <1>2, FetchKeeps
<1>3. CASE \E r \in Refreshers, order \in Orders : Install(r, order)
    BY <1>3, InstallKeeps
<1>4. CASE UNCHANGED vars
    BY <1>4 DEF vars, IInv, TypeOK, IndexExact, HoldsDocument
<1>. QED
    BY <1>1, <1>2, <1>3, <1>4 DEF Next

\* The inductive invariant holds throughout.
THEOREM Invariance == Spec => []IInv
    BY InitTyped, StepKeeps, PTL DEF Spec

\* The variables keep their types, and index and ambiguous belong to the entries.
THEOREM TypeCorrect == Spec => []TypeOK
<1>1. IInv => TypeOK
    BY DEF IInv
<1>. QED
    BY <1>1, Invariance, PTL

-----------------------------------------------------------------------------
(* Lookups.                                                                 *)

\* An id after the id of a provider that is one segment reads as the two.
LEMMA Spelling ==
    ASSUME NEW p \in OneSegment, NEW m \in Models
    PROVE  LET id == p \o m IN
           Len(id) > 1 /\ Spelled(id) = <<p, m>> /\ <<Head(id)>> = p /\ Tail(id) = m
<1>. DEFINE S == {p[i] : i \in DOMAIN p} \cup {m[i] : i \in DOMAIN m}
            id == p \o m
<1>1. p \in Seq(S) /\ m \in Seq(S) /\ m # <<>> /\ p \in Providers /\ Len(p) = 1
  <2>1. p \in Seq({p[i] : i \in DOMAIN p}) /\ m \in Seq({m[i] : i \in DOMAIN m})
      BY IdsAssumption DEF OneSegment
  <2>2. Len(p) \in Nat /\ Len(m) \in Nat /\ m # <<>>
      BY <2>1, IdsAssumption
  <2>3. p \in Seq(S)
      BY <2>1, <2>2
  <2>4. m \in Seq(S)
      BY <2>1, <2>2
  <2>. QED
      BY <2>2, <2>3, <2>4 DEF OneSegment
<1>. HIDE DEF S
<1>2. Len(m) \in Nat \ {0} /\ m = [i \in 1..Len(m) |-> m[i]]
    BY <1>1
<1>3. Len(id) = Len(m) + 1 /\ id[1] = p[1] /\ \A i \in 1..Len(m) : id[i + 1] = m[i]
  <2>1. /\ Len(id) = 1 + Len(m)
        /\ \A i \in 1..(1 + Len(m)) : id[i] = IF i <= 1 THEN p[i] ELSE m[i - 1]
      BY <1>1, ConcatProperties
  <2>. QED
      BY <1>2, <2>1
<1>4. Tail(id) = m
    BY <1>2, <1>3
<1>5. <<Head(id)>> = p
    BY <1>1, <1>2, <1>3
<1>. QED
    BY <1>2, <1>3, <1>4, <1>5 DEF Spelled

\* Conversely an id of two segments or more is its first segment and the rest.
LEMMA Split ==
    ASSUME NEW m \in Models, Len(m) > 1
    PROVE  m = <<Head(m)>> \o Tail(m)
<1>. DEFINE S == {m[i] : i \in DOMAIN m}
<1>1. m \in Seq(S)
    BY IdsAssumption
<1>. HIDE DEF S
<1>. QED
    BY <1>1

\* An id that names a provider of one segment and one of its models resolves to
\* that model.
LEMMA NamespacedFound ==
    ASSUME NEW p \in OneSegment, NEW m \in Models, Offers(entries, p, m)
    PROVE  Resolve(p \o m) = <<p, m>>
<1>1. p \in Providers
    BY DEF OneSegment
<1>. QED
    BY <1>1, Spelling DEF Resolve, Namespaced

\* What Model returns for a bare id that is no namespaced one.
LEMMA BareFound ==
    ASSUME NEW m \in Models, ~Namespaced(m)
    PROVE  Resolve(m) = IF m \in ambiguous THEN None
                        ELSE IF index[m] # None THEN <<index[m], m>> ELSE None
    BY DEF Resolve

\* It is the model of the only provider that has it, and nothing when there is
\* none or there are several.
LEMMA BareExact ==
    ASSUME IInv, NEW m \in Models, ~Namespaced(m)
    PROVE  IF Cardinality(Owners(m)) = 1
             THEN \E p \in Owners(m) : Resolve(m) = <<p, m>>
             ELSE Resolve(m) = None
<1>2. Resolve(m) = IF m \in ambiguous THEN None
                   ELSE IF index[m] # None THEN <<index[m], m>> ELSE None
    BY BareFound
<1>3. Exact(entries, m, index[m], m \in ambiguous)
    BY DEF IInv, IndexExact
<1>4. CASE m \in ambiguous
  <2>1. PICK p, q \in Owners(m) : p # q
      BY <1>3, <1>4 DEF Exact, Owners
  <2>2. Cardinality(Owners(m)) # 1
    <3>1. ~ \E x : Owners(m) = {x}
        BY <2>1
    <3>. QED
        BY <3>1, EmbeddedAssumption, FS_Subset, FS_Singleton DEF Owners
  <2>. QED
      BY <1>2, <1>4, <2>2
<1>5. CASE m \notin ambiguous /\ index[m] # None
  <2>1. Owners(m) = {index[m]}
      BY <1>3, <1>5 DEF Exact, Owners
  <2>2. Cardinality(Owners(m)) = 1
      BY <2>1, FS_Singleton
  <2>. QED
      BY <1>2, <1>5, <2>1, <2>2
<1>6. CASE m \notin ambiguous /\ index[m] = None
  <2>1. Owners(m) = {}
      BY <1>3, <1>6 DEF Exact, Owners
  <2>2. Cardinality(Owners(m)) = 0
      BY <2>1, FS_EmptySet
  <2>. QED
      BY <1>2, <1>6, <2>2
<1>. QED
    BY <1>4, <1>5, <1>6

\* An id is a namespaced one of the registry exactly when it is the id of a
\* provider of one segment and of one of its models.
LEMMA NamespacedIsPair ==
    ASSUME IInv, NEW m \in Models
    PROVE  Namespaced(m) <=>
               \E p \in OneSegment, n \in Models : m = p \o n /\ Offers(entries, p, n)
<1>1. ASSUME Namespaced(m)
      PROVE  \E p \in OneSegment, n \in Models : m = p \o n /\ Offers(entries, p, n)
  <2>1. /\ <<Head(m)>> \in OneSegment /\ Offers(entries, <<Head(m)>>, Tail(m))
        /\ m = <<Head(m)>> \o Tail(m)
      BY <1>1, Split DEF Namespaced, OneSegment
  <2>2. Tail(m) \in Models
      BY <2>1 DEF IInv, TypeOK, Offers, OneSegment
  <2>. QED
      BY <2>1, <2>2
<1>2. ASSUME NEW p \in OneSegment, NEW n \in Models, m = p \o n, Offers(entries, p, n)
      PROVE  Namespaced(m)
  <2>1. p \in Providers
      BY DEF OneSegment
  <2>. QED
      BY <1>2, <2>1, Spelling DEF Namespaced
<1>. QED
    BY <1>1, <1>2

\* Lookups are exact in every state, whatever refreshes have installed and in
\* whatever order rebuildIndex went over the maps.
THEOREM LookupsAreExact == Spec => []LookupExact
<1>1. ASSUME IInv PROVE LookupExact
  <2>1. \A p \in OneSegment, m \in Models :
            Offers(entries, p, m) => Resolve(p \o m) = <<p, m>>
      BY NamespacedFound
  <2>2. ASSUME NEW m \in Models, Namespaced(m)
        PROVE  Resolve(m) # None
    <3>1. PICK p \in OneSegment, n \in Models : m = p \o n /\ Offers(entries, p, n)
        BY <1>1, <2>2, NamespacedIsPair
    <3>. QED
        BY <2>1, <3>1, IdsAssumption DEF OneSegment
  <2>3. \A m \in Models : ~Namespaced(m) =>
            IF Cardinality(Owners(m)) = 1
              THEN \E p \in Owners(m) : Resolve(m) = <<p, m>>
              ELSE Resolve(m) = None
      BY <1>1, BareExact
  <2>. QED
      BY <1>1, <2>1, <2>2, <2>3, NamespacedIsPair DEF LookupExact
<1>. QED
    BY <1>1, Invariance, PTL

\* What LookupExact leaves out.  registry.Model cuts a namespaced id at its first
\* slash: with a slash in the id of the provider it never finds that provider's
\* model, whatever the entries and the index are, and the bare id of a model
\* that several providers serve finds none.
THEOREM SlashedProvidersAreUnnamed ==
    ASSUME NEW p \in Providers \ OneSegment, NEW m \in Models
    PROVE  /\ Resolve(p \o m) # <<p, m>>
           /\ m \in ambiguous => Resolve(m) # <<p, m>>
<1>1. Len(p) # 1
    BY DEF OneSegment
<1>2. \A id : Spelled(id) # <<p, m>>
    BY <1>1 DEF Spelled
<1>3. p \o m # m
  <2>1. p \in Seq({p[i] : i \in DOMAIN p}) /\ m \in Seq({m[i] : i \in DOMAIN m}) /\ p # <<>>
      BY IdsAssumption
  <2>2. Len(p) \in Nat \ {0} /\ Len(m) \in Nat
      BY <2>1
  <2>3. Len(p \o m) = Len(p) + Len(m)
      BY <2>1
  <2>. QED
      BY <2>2, <2>3
<1>4. \A id : <<index[id], id>> = <<p, m>> => id = m
    OBVIOUS
<1>5. None # <<p, m>>
    BY IdsAssumption
<1>6. Resolve(p \o m) # <<p, m>>
    BY <1>2, <1>3, <1>4, <1>5 DEF Resolve
<1>7. m \in ambiguous => Resolve(m) # <<p, m>>
    BY <1>2, <1>5 DEF Resolve
<1>. QED
    BY <1>6, <1>7

-----------------------------------------------------------------------------
(* What an id means over refreshes.                                         *)

\* A refresh takes no model from a provider.
LEMMA CatalogsGrow ==
    ASSUME [Next]_vars
    PROVE  \A p \in Providers : \A m : Offers(entries, p, m) => Offers(entries', p, m)
<1>1. CASE \E r \in Refreshers, order \in Orders : Install(r, order)
    BY <1>1 DEF Install, Overlaid, Offers
<1>2. CASE entries' = entries
    BY <1>2
<1>. QED
    BY <1>1, <1>2 DEF Next, Publish, Fetch, FetchFails, vars

\* What a lookup finds, state by state.
Found ==
    /\ \A p \in OneSegment, m \in Models :
        Offers(entries, p, m) => Resolve(p \o m) = <<p, m>>
    /\ \A m \in Models :
        /\ Namespaced(m) => Resolve(m) = Spelled(m) /\ Len(m) > 1
        /\ ~Namespaced(m) =>
              Resolve(m) = IF m \in ambiguous THEN None
                           ELSE IF index[m] # None THEN <<index[m], m>> ELSE None

\* Every id keeps its meaning through a refresh, or is refused from then on, or
\* gives way to the namespaced model it spells.
THEOREM MeaningsAreKept == Spec => MeaningKept
<1>1. Found
  <2>1. \A p \in OneSegment, m \in Models :
            Offers(entries, p, m) => Resolve(p \o m) = <<p, m>>
      BY NamespacedFound
  <2>2. \A m \in Models : Namespaced(m) => Resolve(m) = Spelled(m) /\ Len(m) > 1
      BY DEF Resolve, Namespaced
  <2>. QED
      BY <2>1, <2>2, BareFound DEF Found
<1>2. ASSUME Found, Found', IInv, IInv', [Next]_vars
      PROVE  [/\ \A p \in OneSegment, m \in Models :
                    Offers(entries, p, m) => Resolve(p \o m)' = <<p, m>>
              /\ ambiguous \subseteq ambiguous'
              /\ \A m \in Models : Resolve(m) # None =>
                    \/ Resolve(m)' = Resolve(m)
                    \/ Resolve(m)' = None /\ m \in ambiguous'
                    \/ Resolve(m)' = Spelled(m) /\ Len(m) > 1]_vars
  <2>1. \A p \in Providers, m \in Models :
            Offers(entries, p, m) => Offers(entries', p, m)
      BY <1>2, CatalogsGrow
  <2>2. \A m \in Models :
            /\ Exact(entries, m, index[m], m \in ambiguous)
            /\ Exact(entries', m, index'[m], m \in ambiguous')
      BY <1>2 DEF IInv, IndexExact
  <2>3. ASSUME NEW p \in OneSegment, NEW m \in Models, Offers(entries, p, m)
        PROVE  Resolve(p \o m)' = <<p, m>>
    <3>1. Offers(entries', p, m)
        BY <2>1, <2>3 DEF OneSegment
    <3>. QED
        BY <1>2, <3>1 DEF Found
  <2>4. ambiguous \subseteq ambiguous'
    <3>1. ambiguous \subseteq Models
        BY <1>2 DEF IInv, TypeOK
    <3>. QED
        BY <2>1, <2>2, <3>1 DEF Exact
  <2>5. ASSUME NEW m \in Models, Resolve(m) # None
        PROVE  \/ Resolve(m)' = Resolve(m)
               \/ Resolve(m)' = None /\ m \in ambiguous'
               \/ Resolve(m)' = Spelled(m) /\ Len(m) > 1
    <3>1. CASE Namespaced(m)
      <4>1. Namespaced(m)'
          BY <1>2, <3>1, CatalogsGrow DEF Namespaced
      <4>. QED
          BY <1>2, <3>1, <4>1 DEF Found
    <3>2. CASE ~Namespaced(m) /\ Namespaced(m)'
        BY <1>2, <3>2 DEF Found
    <3>3. CASE ~Namespaced(m) /\ ~Namespaced(m)'
      <4>1. m \notin ambiguous /\ index[m] # None /\ Resolve(m) = <<index[m], m>>
          BY <1>2, <2>5, <3>3 DEF Found
      <4>2. index[m] \in Providers /\ Offers(entries', index[m], m)
          BY <2>1, <2>2, <4>1 DEF Exact
      <4>3. m \in ambiguous' \/ index'[m] = index[m]
          BY <2>2, <4>2 DEF Exact
      <4>. QED
          BY <1>2, <3>3, <4>1, <4>3 DEF Found
    <3>. QED
        BY <3>1, <3>2, <3>3
  <2>. QED
      BY <2>3, <2>4, <2>5
<1>. QED
    BY <1>1, <1>2, Invariance, PTL DEF Spec, MeaningKept

=============================================================================
