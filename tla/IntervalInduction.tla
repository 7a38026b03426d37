------------------------- MODULE IntervalInduction -------------------------
(***************************************************************************)
(* Induction over the numbers of an interval, stated for sets: the         *)
(* theorems of the library take a predicate, which no installed prover can *)
(* instantiate.  What is asked of a number n is put as membership of n in  *)
(* a set; the sets of naturals have least elements because < is well       *)
(* founded.                                                                *)
(***************************************************************************)
EXTENDS Integers, WellFoundedInduction, TLAPS

Less == {pair \in Nat \X Nat : pair[1] < pair[2]}

\* The order of the natural numbers is well founded.
LEMMA LessIsWellFounded == IsWellFoundedOn(Less, Nat)
    BY NatLessThanWellFounded DEF OpToRel, Less

\* A set of natural numbers that has an element has a least one.
THEOREM LeastElement ==
    ASSUME NEW T, T \subseteq Nat, T # {}
    PROVE  \E n \in T : \A k \in T : n <= k
<1>1. PICK n \in T : \A k \in T : <<k, n>> \notin Less
    BY LessIsWellFounded, WFMin
<1>2. \A k \in T : ~(k < n)
  <2>. SUFFICES ASSUME NEW k \in T, k < n PROVE FALSE
      OBVIOUS
  <2>1. k \in Nat /\ n \in Nat
      OBVIOUS
  <2>2. <<k, n>> \in Less
      BY <2>1 DEF Less
  <2>. QED
      BY <1>1, <2>2
<1>3. \A k \in T : k \in Nat /\ n \in Nat
    OBVIOUS
<1>. QED
    BY <1>2, <1>3

\* What holds of 0 and passes from each number to the next holds up to N.
THEOREM UpwardInduction ==
    ASSUME NEW N \in Nat, NEW S, 0 \in S,
           \A n \in 0..(N - 1) : n \in S => n + 1 \in S
    PROVE  \A n \in 0..N : n \in S
<1>. DEFINE T == {n \in 0..N : n \notin S}
<1>1. SUFFICES ASSUME T # {} PROVE FALSE
    OBVIOUS
<1>2. T \subseteq Nat
    OBVIOUS
<1>. HIDE DEF T
<1>3. PICK n \in T : \A k \in T : n <= k
    BY <1>1, <1>2, LeastElement
<1>. USE DEF T
<1>4. n \in 0..N /\ n \notin S /\ n # 0
    OBVIOUS
<1>5. n - 1 \in 0..(N - 1) /\ n - 1 \notin T
    BY <1>3, <1>4
<1>6. n - 1 \in S
    BY <1>4, <1>5
<1>. QED
    BY <1>4, <1>5, <1>6

\* What holds of a number whenever it holds of all larger ones up to N holds of
\* all of them.
THEOREM DownwardInduction ==
    ASSUME NEW N \in Nat, NEW S,
           \A n \in 0..N : (\A k \in (n + 1)..N : k \in S) => n \in S
    PROVE  \A n \in 0..N : n \in S
<1>. DEFINE T == {d \in 0..N : N - d \notin S}
<1>1. SUFFICES ASSUME NEW m \in 0..N, m \notin S PROVE FALSE
    OBVIOUS
<1>2. N - m \in T
    BY <1>1
<1>3. T \subseteq Nat
    OBVIOUS
<1>. HIDE DEF T
<1>4. PICK d \in T : \A k \in T : d <= k
    BY <1>2, <1>3, LeastElement
<1>. USE DEF T
<1>5. N - d \in 0..N /\ N - d \notin S
    OBVIOUS
<1>6. PICK k \in (N - d + 1)..N : k \notin S
    BY <1>5
<1>7. N - k \in T /\ N - k < d
    BY <1>6
<1>. QED
    BY <1>4, <1>7

Recursive(f, N, c, step) ==
    f[0] = c /\ \A i \in 1..N : f[i] = step[i][f[i - 1]]

\* A function may be defined by recursion over an interval: from c, with step[i]
\* from each value to the next.
THEOREM RecursionOverInterval ==
    ASSUME NEW N \in Nat, NEW S, NEW c \in S, NEW step \in [1..N -> [S -> S]]
    PROVE  \E f \in [0..N -> S] : Recursive(f, N, c, step)
<1>. DEFINE T == {n \in 0..N : \E f \in [0..n -> S] : Recursive(f, n, c, step)}
<1>1. 0 \in T
  <2>. DEFINE f == [i \in 0..0 |-> c]
  <2>1. f \in [0..0 -> S] /\ Recursive(f, 0, c, step)
      BY DEF Recursive
  <2>. HIDE DEF f
  <2>2. \E h \in [0..0 -> S] : Recursive(h, 0, c, step)
      BY <2>1
  <2>. QED
      BY <2>2
<1>2. ASSUME NEW n \in 0..(N - 1), n \in T PROVE n + 1 \in T
  <2>1. PICK f \in [0..n -> S] : Recursive(f, n, c, step)
      BY <1>2
  <2>. DEFINE g == [i \in 0..(n + 1) |-> IF i = n + 1 THEN step[n + 1][f[n]] ELSE f[i]]
  <2>2. step[n + 1][f[n]] \in S
      BY <2>1
  <2>3. g \in [0..(n + 1) -> S]
      BY <2>1, <2>2
  <2>4. \A i \in 0..n : g[i] = f[i]
      OBVIOUS
  <2>5. g[n + 1] = step[n + 1][g[n]]
      BY <2>4
  <2>6. ASSUME NEW i \in 1..(n + 1) PROVE g[i] = step[i][g[i - 1]]
    <3>1. CASE i = n + 1
        BY <2>5, <3>1
    <3>2. CASE i \in 1..n
        BY <2>1, <2>4, <3>2 DEF Recursive
    <3>. QED
        BY <3>1, <3>2
  <2>7. g[0] = c
      BY <2>1, <2>4 DEF Recursive
  <2>8. Recursive(g, n + 1, c, step)
      BY <2>6, <2>7 DEF Recursive
  <2>9. \E h \in [0..(n + 1) -> S] : Recursive(h, n + 1, c, step)
      BY <2>3, <2>8
  <2>. QED
      BY <2>9
<1>. HIDE DEF T
<1>3. \A n \in 0..(N - 1) : n \in T => n + 1 \in T
    BY <1>2
<1>4. \A n \in 0..N : n \in T
    BY <1>1, <1>3, UpwardInduction
<1>5. N \in T
    BY <1>4
<1>. QED
    BY <1>5 DEF T

=============================================================================
