------------------------------ MODULE Registry ------------------------------
(***************************************************************************)
(* The registry of providers and models (provider.go): lookups by bare or  *)
(* namespaced id while calls of RefreshModels, each from the document it   *)
(* fetched, overlay the catalogs of the built-in providers.                *)
(*                                                                         *)
(* An id is a sequence of segments, so that "openai/gpt" is                *)
(* <<"openai", "gpt">> and strings.Cut is Head and Tail.  Provider ids are *)
(* such sequences too: an application may choose them freely (ID of OpenAI *)
(* and Anthropic), and nothing keeps a slash out of them.  Of a catalog    *)
(* only the ids of its models are kept.                                    *)
(***************************************************************************)
EXTENDS Naturals, Sequences, FiniteSets

CONSTANTS
    Providers,      \* provider ids, sequences of segments
    Models,         \* model ids, sequences of segments
    Embedded,       \* [Providers -> SUBSET Models], as NewProviders builds them
    Cataloged,      \* providers with a catalogID
    Documents,      \* what models.dev may serve: [Cataloged -> SUBSET Models]
    Refreshers,     \* calls of RefreshModels
    MaxDocuments,   \* bound on the documents ever published
    None

ASSUME EmbeddedAssumption ==
    /\ Embedded \in [Providers -> SUBSET Models]
    /\ Cataloged \subseteq Providers
    /\ Documents \subseteq [Cataloged -> SUBSET Models]
    /\ IsFiniteSet(Providers)
ASSUME IdsAssumption ==
    /\ \A id \in Models \cup Providers : id # <<>> /\ id \in Seq({id[i] : i \in DOMAIN id})
    /\ None \notin Providers /\ \A p \in Providers, m \in Models : None # <<p, m>>
    /\ MaxDocuments \in Nat

VARIABLES
    entries,        \* the models of each provider
    index,          \* the provider a bare id belongs to, or None
    ambiguous,      \* the bare ids several providers serve
    published,      \* the documents of models.dev so far
    pc,             \* where each call of RefreshModels stands
    fetched         \* the document it holds

vars == <<entries, index, ambiguous, published, pc, fetched>>

TypeOK ==
    /\ entries \in [Providers -> SUBSET Models]
    /\ index \in [Models -> Providers \cup {None}]
    /\ ambiguous \subseteq {m \in Models : index[m] = None}
    /\ published \in Seq(Documents)
    /\ Len(published) <= MaxDocuments
    /\ pc \in [Refreshers -> {"idle", "building", "done", "failed"}]
    /\ fetched \in [Refreshers -> 0..Len(published)]

-----------------------------------------------------------------------------

Offers(known, p, m) == m \in known[p]

\* The orders in which a Go map of the providers may be iterated.
Orders ==
    {order \in [1..Cardinality(Providers) -> Providers] :
        \A i, j \in DOMAIN order : order[i] = order[j] => i = j}

Unseen == [owner |-> None, ambiguous |-> FALSE]

\* Faulty variant: the ids found ambiguous so far are not remembered.
VisitForgetful(known, seen, p, m) ==
    IF ~Offers(known, p, m) THEN seen
    ELSE IF seen.owner # None THEN Unseen
    ELSE [seen EXCEPT !.owner = p]

\* rebuildIndex comes to model m of provider p.
Visit(known, seen, p, m) ==
    IF ~Offers(known, p, m) THEN seen
    ELSE IF seen.owner # None THEN [owner |-> None, ambiguous |-> TRUE]
    ELSE IF seen.ambiguous THEN seen
    ELSE [seen EXCEPT !.owner = p]

IndexOf(known, order, m) ==
    LET seen[i \in 0..Len(order)] ==
          IF i = 0 THEN Unseen ELSE Visit(known, seen[i - 1], order[i], m)
    IN  seen[Len(order)]

\* rebuildIndex over known; the maps are iterated in any order.
RebuildIndex(known, order) ==
    /\ index' = [m \in Models |-> IndexOf(known, order, m).owner]
    /\ ambiguous' = {m \in Models : IndexOf(known, order, m).ambiguous}

\* What an id says when its first segment is taken for the provider's.
Spelled(id) == <<<<Head(id)>>, Tail(id)>>

Namespaced(id) ==
    /\ Len(id) > 1
    /\ <<Head(id)>> \in Providers
    /\ Offers(entries, <<Head(id)>>, Tail(id))

\* registry.Model
Resolve(id) ==
    IF Namespaced(id) THEN Spelled(id)
    ELSE IF id \notin Models \/ id \in ambiguous THEN None
    ELSE IF index[id] # None THEN <<index[id], id>>
    ELSE None

-----------------------------------------------------------------------------

\* NewProviders
Init ==
    /\ entries = Embedded
    /\ \E order \in Orders :
        /\ index = [m \in Models |-> IndexOf(entries, order, m).owner]
        /\ ambiguous = {m \in Models : IndexOf(entries, order, m).ambiguous}
    /\ published = <<>>
    /\ pc = [r \in Refreshers |-> "idle"]
    /\ fetched = [r \in Refreshers |-> 0]

Publish(d) ==
    /\ Len(published) < MaxDocuments
    /\ published' = Append(published, d)
    /\ UNCHANGED <<entries, index, ambiguous, pc, fetched>>

\* A document is fetched and parsed, and the overlays are built from it
\* without the lock.
Fetch(r) ==
    /\ pc[r] = "idle"
    /\ published # <<>>
    /\ fetched' = [fetched EXCEPT ![r] = Len(published)]
    /\ pc' = [pc EXCEPT ![r] = "building"]
    /\ UNCHANGED <<entries, index, ambiguous, published>>

FetchFails(r) ==
    /\ pc[r] = "idle"
    /\ pc' = [pc EXCEPT ![r] = "failed"]
    /\ UNCHANGED <<entries, index, ambiguous, published, fetched>>

\* Faulty variant: a catalog replaces what the provider had.
ReplacedBy(document) ==
    [p \in Providers |-> IF p \in Cataloged THEN document[p] ELSE entries[p]]

\* The models of the document over those the providers have; a model it does
\* not list stays.
Overlaid(document) ==
    [p \in Providers |->
        IF p \in Cataloged THEN entries[p] \cup document[p] ELSE entries[p]]

\* Under the write lock: every provider is overlaid and the index rebuilt.
Install(r, order) ==
    /\ pc[r] = "building"
    /\ entries' = Overlaid(published[fetched[r]])
    /\ RebuildIndex(entries', order)
    /\ pc' = [pc EXCEPT ![r] = "done"]
    /\ UNCHANGED <<published, fetched>>

Next ==
    \/ \E d \in Documents : Publish(d)
    \/ \E r \in Refreshers :
        Fetch(r) \/ FetchFails(r) \/ \E order \in Orders : Install(r, order)

Spec == Init /\ [][Next]_vars

-----------------------------------------------------------------------------
(* Properties.                                                              *)

Owners(m) == {p \in Providers : Offers(entries, p, m)}

OneSegment == {p \in Providers : Len(p) = 1}

\* Whatever order the maps are iterated in and however refreshes interleave, an
\* id namespaced by a provider id of one segment finds its model, a bare id that
\* is no namespaced one finds the only provider that has it, and is refused when
\* there are none or several.
LookupExact ==
    /\ \A p \in OneSegment, m \in Models :
        Offers(entries, p, m) => Resolve(p \o m) = <<p, m>>
    /\ \A m \in Models :
        LET found == Resolve(m) IN
        IF \E p \in OneSegment, n \in Models : m = p \o n /\ Offers(entries, p, n)
           THEN found # None
        ELSE IF Cardinality(Owners(m)) = 1
           THEN \E p \in Owners(m) : found = <<p, m>>
           ELSE found = None

\* What an id means over refreshes, in whatever order they were fetched and are
\* installed: a namespaced id goes on meaning its model; a bare one goes on too,
\* or is refused for good because a second provider has come to serve it, or
\* gives way to the namespaced model it spells.  It never moves silently from
\* one provider's model to another's of the same id.
MeaningKept ==
    [][/\ \A p \in OneSegment, m \in Models :
            Offers(entries, p, m) => Resolve(p \o m)' = <<p, m>>
       /\ ambiguous \subseteq ambiguous'
       /\ \A m \in Models : Resolve(m) # None =>
            \/ Resolve(m)' = Resolve(m)
            \/ Resolve(m)' = None /\ m \in ambiguous'
            \/ Resolve(m)' = Spelled(m) /\ Len(m) > 1]_vars

=============================================================================
