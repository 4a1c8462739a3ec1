------------------------- MODULE CoordinatorProofs --------------------------
(***************************************************************************)
(* The coordinator keeps its queue and its file consistent and saves what  *)
(* it changes, for any set of tasks, any bounds and any number of calls.   *)
(*                                                                         *)
(* The first half holds the lemmas this rests on: what the methods of the  *)
(* event queue preserve, for every value of the bounds.  Two definitions   *)
(* are recursive functions.  That such a function exists and what it       *)
(* computes is shown by induction over a set of numbers (SetInduction),    *)
(* which needs no operator parameter.                                      *)
(***************************************************************************)
EXTENDS Coordinator, SequenceTheorems, FiniteSetTheorems, FunctionTheorems,
        WellFoundedInduction, TLAPS

\* Induction over the naturals, stated with a set: the form the queue's loops
\* (Without, EnqueueAll) are reasoned about with.
LEMMA SetInduction ==
    ASSUME NEW T, 0 \in T, \A n \in Nat : n \in T => n + 1 \in T
    PROVE  Nat \subseteq T
<1> SUFFICES ASSUME Nat \ T # {} PROVE FALSE
  OBVIOUS
<1> DEFINE R == OpToRel(<, Nat)
<1>1. PICK m \in Nat \ T : \A y \in Nat \ T : <<y, m>> \notin R
  <2>1. IsWellFoundedOn(R, Nat)
    BY NatLessThanWellFounded
  <2> HIDE DEF R
  <2> QED BY <2>1, WFMin
<1>2. m - 1 \in Nat /\ m - 1 \notin T
  OBVIOUS
<1>3. <<m - 1, m>> \in R
  BY <1>2 DEF OpToRel
<1> QED BY <1>1, <1>2, <1>3

-----------------------------------------------------------------------------
(* Sequences *)

\* The ids of a sequence, with the indices of its entries: how every lookup by
\* id in events.py is reasoned about.
LEMMA IdsOfSeq ==
    ASSUME NEW S, NEW s \in Seq(S)
    PROVE  /\ IdsOf(s) \subseteq S
           /\ \A x : x \in IdsOf(s) <=> \E i \in 1 .. Len(s) : x = s[i]
BY DEF IdsOf

\* Python's s[-n:] keeps a bounded part of the sequence and no entry twice.
LEMMA LastOfProperties ==
    ASSUME NEW S, NEW s \in Seq(S), NEW n \in Nat \ {0}
    PROVE  /\ LastOf(s, n) \in Seq(S)
           /\ Len(LastOf(s, n)) <= n
           /\ Len(LastOf(s, n)) <= Len(s)
           /\ IdsOf(LastOf(s, n)) \subseteq IdsOf(s)
           /\ Distinct(s) => Distinct(LastOf(s, n))
           /\ Len(s) <= n => LastOf(s, n) = s
<1>1. CASE Len(s) <= n
  BY <1>1 DEF LastOf
<1>2. CASE Len(s) > n
  <2> DEFINE k == Len(s) - n
             t == SubSeq(s, k + 1, Len(s))
  <2>1. LastOf(s, n) = t
    BY <1>2 DEF LastOf
  <2>2. k \in Nat /\ t \in Seq(S) /\ Len(t) = n /\ \A i \in 1 .. n : t[i] = s[k + i]
    BY <1>2
  <2>3. IdsOf(t) \subseteq IdsOf(s)
    BY <1>2, <2>2 DEF IdsOf
  <2>4. Distinct(s) => Distinct(t)
    <3> HIDE DEF t
    <3> SUFFICES ASSUME Distinct(s), NEW i \in 1 .. n, NEW j \in 1 .. n, t[i] = t[j]
                 PROVE  i = j
      BY <2>2 DEF Distinct
    <3>1. s[k + i] = s[k + j] /\ k + i \in 1 .. Len(s) /\ k + j \in 1 .. Len(s)
      BY <2>2, <1>2
    <3>2. k + i = k + j
      BY <3>1 DEF Distinct
    <3> QED BY <3>2, <1>2
  <2> HIDE DEF t
  <2> QED BY <1>2, <2>1, <2>2, <2>3, <2>4
<1> QED BY <1>1, <1>2

\* A new entry at the end.
LEMMA AppendDistinct ==
    ASSUME NEW S, NEW s \in Seq(S), NEW x \in S
    PROVE  /\ IdsOf(Append(s, x)) = IdsOf(s) \union {x}
           /\ Distinct(s) /\ x \notin IdsOf(s) => Distinct(Append(s, x))
<1> DEFINE t == Append(s, x)
<1>1. /\ t \in Seq(S) /\ Len(t) = Len(s) + 1 /\ t[Len(s) + 1] = x
      /\ \A i \in 1 .. Len(s) : t[i] = s[i]
  OBVIOUS
<1> HIDE DEF t
<1>2. IdsOf(t) = IdsOf(s) \union {x}
  BY <1>1 DEF IdsOf
<1>3. Distinct(s) /\ x \notin IdsOf(s) => Distinct(t)
  BY <1>1 DEF Distinct, IdsOf
<1> QED BY <1>2, <1>3 DEF t

\* The oldest entry dropped from the front.
LEMMA TailDistinct ==
    ASSUME NEW S, NEW s \in Seq(S), s # << >>
    PROVE  /\ Tail(s) \in Seq(S) /\ Len(Tail(s)) = Len(s) - 1 /\ Head(s) \in IdsOf(s)
           /\ IdsOf(s) = IdsOf(Tail(s)) \union {Head(s)}
           /\ Distinct(s) => Distinct(Tail(s)) /\ Head(s) \notin IdsOf(Tail(s))
<1> DEFINE t == Tail(s)
<1>1. /\ t \in Seq(S) /\ Len(t) = Len(s) - 1 /\ Len(s) \in Nat \ {0} /\ Head(s) = s[1]
      /\ \A i \in 1 .. Len(t) : t[i] = s[i + 1]
  OBVIOUS
<1> HIDE DEF t
<1>2. IdsOf(t) \subseteq IdsOf(s) /\ Head(s) \in IdsOf(s)
  BY <1>1 DEF IdsOf
<1>3. ASSUME NEW i \in 1 .. Len(s) PROVE s[i] \in IdsOf(t) \union {Head(s)}
  <2>1. CASE i = 1
    BY <2>1, <1>1
  <2>2. CASE i # 1
    <3>1. i - 1 \in 1 .. Len(t) /\ t[i - 1] = s[i]
      BY <2>2, <1>1
    <3> QED BY <3>1, <1>1 DEF IdsOf
  <2> QED BY <2>1, <2>2
<1>4. IdsOf(s) = IdsOf(t) \union {Head(s)}
  BY <1>2, <1>3, IdsOfSeq
<1>5. Distinct(s) => Distinct(t)
  <2> SUFFICES ASSUME Distinct(s), NEW i \in 1 .. Len(t), NEW j \in 1 .. Len(t), t[i] = t[j]
               PROVE  i = j
    BY <1>1 DEF Distinct
  <2>1. s[i + 1] = s[j + 1] /\ i + 1 \in 1 .. Len(s) /\ j + 1 \in 1 .. Len(s)
    BY <1>1
  <2>2. i + 1 = j + 1
    BY <2>1 DEF Distinct
  <2> QED BY <2>2, <1>1
<1>6. Distinct(s) => Head(s) \notin IdsOf(t)
  <2> SUFFICES ASSUME Distinct(s), NEW i \in 1 .. Len(t), t[i] = Head(s) PROVE FALSE
    BY <1>1, IdsOfSeq
  <2>1. s[i + 1] = s[1] /\ i + 1 \in 1 .. Len(s) /\ 1 \in 1 .. Len(s)
    BY <1>1
  <2>2. i + 1 = 1
    BY <2>1 DEF Distinct
  <2> QED BY <2>2
<1> QED BY <1>1, <1>2, <1>4, <1>5, <1>6 DEF t

\* Two sequences without common entries.
LEMMA ConcatDistinct ==
    ASSUME NEW S, NEW s \in Seq(S), NEW t \in Seq(S)
    PROVE  /\ IdsOf(s \o t) = IdsOf(s) \union IdsOf(t)
           /\ Distinct(s) /\ Distinct(t) /\ IdsOf(s) \intersect IdsOf(t) = {}
                => Distinct(s \o t)
<1> DEFINE u == s \o t
<1>1. /\ u \in Seq(S) /\ Len(u) = Len(s) + Len(t) /\ Len(s) \in Nat /\ Len(t) \in Nat
      /\ \A i \in 1 .. Len(s) : u[i] = s[i]
      /\ \A i \in 1 .. Len(t) : u[Len(s) + i] = t[i]
  OBVIOUS
<1> HIDE DEF u
<1>2. ASSUME NEW i \in 1 .. Len(u)
      PROVE  \/ i \in 1 .. Len(s) /\ u[i] = s[i]
             \/ i - Len(s) \in 1 .. Len(t) /\ u[i] = t[i - Len(s)]
  BY <1>1
<1>3. IdsOf(u) = IdsOf(s) \union IdsOf(t)
  <2>1. IdsOf(u) \subseteq IdsOf(s) \union IdsOf(t)
    BY <1>1, <1>2 DEF IdsOf
  <2>2. IdsOf(s) \subseteq IdsOf(u)
    BY <1>1 DEF IdsOf
  <2>3. IdsOf(t) \subseteq IdsOf(u)
    <3> SUFFICES ASSUME NEW i \in 1 .. Len(t) PROVE t[i] \in IdsOf(u)
      BY IdsOfSeq
    <3>1. Len(s) + i \in 1 .. Len(u) /\ u[Len(s) + i] = t[i]
      BY <1>1
    <3> QED BY <3>1, <1>1 DEF IdsOf
  <2> QED BY <2>1, <2>2, <2>3
<1>4. ASSUME Distinct(s), Distinct(t), IdsOf(s) \intersect IdsOf(t) = {}
      PROVE  Distinct(u)
  <2> SUFFICES ASSUME NEW i \in 1 .. Len(u), NEW j \in 1 .. Len(u), u[i] = u[j]
               PROVE  i = j
    BY <1>1 DEF Distinct
  <2>1. \A k \in 1 .. Len(s), l \in 1 .. Len(t) : s[k] # t[l]
    BY <1>4 DEF IdsOf
  <2>2. CASE i \in 1 .. Len(s) /\ j \in 1 .. Len(s)
    BY <2>2, <1>1, <1>4 DEF Distinct
  <2>3. CASE i \notin 1 .. Len(s) /\ j \notin 1 .. Len(s)
    <3>1. /\ i - Len(s) \in 1 .. Len(t) /\ j - Len(s) \in 1 .. Len(t)
          /\ t[i - Len(s)] = t[j - Len(s)]
      BY <2>3, <1>2
    <3>2. i - Len(s) = j - Len(s)
      BY <3>1, <1>4 DEF Distinct
    <3> QED BY <3>2, <1>1
  <2>4. CASE i \in 1 .. Len(s) /\ j \notin 1 .. Len(s)
    BY <2>4, <2>1, <1>2
  <2>5. CASE i \notin 1 .. Len(s) /\ j \in 1 .. Len(s)
    BY <2>5, <2>1, <1>2
  <2> QED BY <2>2, <2>3, <2>4, <2>5
<1> QED BY <1>3, <1>4 DEF u
-----------------------------------------------------------------------------
(* Without: the loops of remove and discard_deferred *)

\* The loop's accumulator: after i entries it holds the ones that stay.  It is
\* the recursive function in Without; the lemma is that it exists.
LEMMA WithoutUnfolds ==
    ASSUME NEW S, NEW s \in Seq(S), NEW ids
    PROVE  \E f : /\ Without(s, ids) = f[Len(s)]
                 /\ f[0] = << >>
                 /\ \A i \in 1 .. Len(s) :
                        f[i] = IF s[i] \in ids THEN f[i-1] ELSE Append(f[i-1], s[i])
<1> DEFINE Step(f, i) == IF i = 0 THEN << >>
                         ELSE IF s[i] \in ids THEN f[i-1] ELSE Append(f[i-1], s[i])
           F(n) == \E f : f = [i \in 0 .. n |-> Step(f, i)]
           T == {n \in Nat : F(n)}
<1>1. 0 \in T
  <2> DEFINE f == [i \in 0 .. 0 |-> << >>]
  <2>1. f = [i \in 0 .. 0 |-> Step(f, i)]
    OBVIOUS
  <2> QED BY <2>1
<1>2. ASSUME NEW n \in Nat, n \in T PROVE n + 1 \in T
  <2>1. PICK f : f = [i \in 0 .. n |-> Step(f, i)]
    BY <1>2
  <2> DEFINE g == [i \in 0 .. n + 1 |-> IF i = n + 1 THEN Step(f, i) ELSE f[i]]
  <2>2. \A i \in 0 .. n + 1 : i # 0 => g[i-1] = f[i-1]
    OBVIOUS
  <2>3. \A i \in 0 .. n : f[i] = Step(f, i)
    BY <2>1, Zenon
  <2>4. \A i \in 0 .. n + 1 : g[i] = Step(g, i)
    BY <2>2, <2>3
  <2>5. g = [i \in 0 .. n + 1 |-> Step(g, i)]
    <3> HIDE DEF Step
    <3> QED BY <2>4
  <2>6. F(n + 1)
    <3> HIDE DEF g, Step
    <3> QED BY <2>5
  <2> HIDE DEF F, g
  <2> QED BY <2>6
<1>3. F(Len(s))
  <2>1. Nat \subseteq T
    <3> HIDE DEF T
    <3> QED BY <1>1, <1>2, SetInduction
  <2> QED BY <2>1
<1> DEFINE kept[i \in 0 .. Len(s)] ==
            IF i = 0 THEN << >>
            ELSE IF s[i] \in ids THEN kept[i-1] ELSE Append(kept[i-1], s[i])
<1>4. Without(s, ids) = kept[Len(s)]
  BY DEF Without
<1>5. kept = [i \in 0 .. Len(s) |-> Step(kept, i)]
  BY <1>3
<1> HIDE DEF kept
<1>6. \A i \in 0 .. Len(s) : kept[i] = Step(kept, i)
  BY <1>5, Zenon
<1> QED BY <1>4, <1>6

\* What remains of a list without the given ids: exactly the other entries,
\* none twice, and the list itself if it holds none of the ids.
LEMMA WithoutProperties ==
    ASSUME NEW S, NEW s \in Seq(S), NEW ids
    PROVE  /\ Without(s, ids) \in Seq(S)
           /\ Len(Without(s, ids)) <= Len(s)
           /\ IdsOf(Without(s, ids)) = IdsOf(s) \ ids
           /\ Distinct(s) => Distinct(Without(s, ids))
           /\ IdsOf(s) \intersect ids = {} => Without(s, ids) = s
<1>1. PICK f : /\ Without(s, ids) = f[Len(s)]
               /\ f[0] = << >>
               /\ \A i \in 1 .. Len(s) :
                      f[i] = IF s[i] \in ids THEN f[i-1] ELSE Append(f[i-1], s[i])
  BY WithoutUnfolds
<1> DEFINE Front(n) == {s[i] : i \in 1 .. n}
           P(n) == /\ f[n] \in Seq(S) /\ Len(f[n]) <= n
                   /\ IdsOf(f[n]) = Front(n) \ ids
                   /\ Distinct(s) => Distinct(f[n])
                   /\ IdsOf(s) \intersect ids = {} =>
                        Len(f[n]) = n /\ \A i \in 1 .. n : f[n][i] = s[i]
           T == {n \in Nat : n <= Len(s) => P(n)}
<1>2. P(0)
  BY <1>1 DEF IdsOf, Distinct
<1>3. ASSUME NEW n \in Nat, n + 1 <= Len(s), P(n) PROVE P(n + 1)
  <2> DEFINE x == s[n + 1]
  <2>1. /\ x \in S /\ n + 1 \in 1 .. Len(s) /\ (n + 1) - 1 = n
        /\ Front(n + 1) = Front(n) \union {x} /\ x \in IdsOf(s)
    <3>1. x \in S /\ n + 1 \in 1 .. Len(s) /\ (n + 1) - 1 = n
      BY <1>3
    <3>2. Front(n + 1) \subseteq Front(n) \union {x}
      <4> SUFFICES ASSUME NEW i \in 1 .. n + 1 PROVE i \in 1 .. n \/ i = n + 1
        OBVIOUS
      <4> QED OBVIOUS
    <3>3. Front(n) \union {x} \subseteq Front(n + 1)
      <4>1. 1 .. n \subseteq 1 .. n + 1 /\ n + 1 \in 1 .. n + 1
        OBVIOUS
      <4> QED BY <4>1
    <3>4. x \in IdsOf(s)
      BY <3>1, IdsOfSeq
    <3> QED BY <3>1, <3>2, <3>3, <3>4
  <2>2. CASE x \in ids
    <3>1. f[n + 1] = f[n]
      BY <1>1, <2>1, <2>2
    <3> HIDE DEF Front
    <3> QED BY <3>1, <2>1, <2>2, <1>3
  <2>3. CASE x \notin ids
    <3>1. f[n + 1] = Append(f[n], x)
      BY <1>1, <2>1, <2>3
    <3>2. f[n + 1] \in Seq(S) /\ Len(f[n + 1]) = Len(f[n]) + 1
      BY <3>1, <1>3, <2>1
    <3>3. IdsOf(f[n + 1]) = IdsOf(f[n]) \union {x}
      BY <3>1, <1>3, <2>1, AppendDistinct
    <3>4. ASSUME Distinct(s) PROVE Distinct(f[n + 1])
      <4>1. x \notin IdsOf(f[n])
        <5> SUFFICES ASSUME x \in Front(n) PROVE FALSE
          BY <1>3
        <5>1. PICK i \in 1 .. n : s[i] = s[n + 1]
          OBVIOUS
        <5>2. i \in DOMAIN s /\ n + 1 \in DOMAIN s
          BY <1>3, <5>1
        <5>3. i = n + 1
          BY <5>1, <5>2, <3>4 DEF Distinct
        <5> QED BY <5>1, <5>3
      <4> HIDE DEF x
      <4> QED BY <4>1, <3>1, <3>4, <1>3, <2>1, AppendDistinct
    <3>5. ASSUME IdsOf(s) \intersect ids = {}
          PROVE  Len(f[n + 1]) = n + 1 /\ \A i \in 1 .. n + 1 : f[n + 1][i] = s[i]
      BY <3>1, <3>5, <1>3, <2>1
    <3>6. Len(f[n + 1]) <= n + 1
      BY <3>2, <1>3
    <3> HIDE DEF Front, x
    <3>7. IdsOf(f[n + 1]) = Front(n + 1) \ ids
      BY <3>3, <2>1, <2>3, <1>3
    <3> QED BY <3>2, <3>4, <3>5, <3>6, <3>7
  <2> QED BY <2>2, <2>3
<1>4. P(Len(s))
  <2> HIDE DEF P
  <2>1. 0 \in T
    BY <1>2
  <2>2. ASSUME NEW n \in Nat, n \in T PROVE n + 1 \in T
    <3>1. n + 1 <= Len(s) => n <= Len(s)
      OBVIOUS
    <3> QED BY <1>3, <2>2, <3>1
  <2>3. Nat \subseteq T
    <3> HIDE DEF T
    <3> QED BY <2>1, <2>2, SetInduction
  <2> QED BY <2>3
<1>5. IdsOf(s) = Front(Len(s))
  BY DEF IdsOf
<1>6. ASSUME IdsOf(s) \intersect ids = {} PROVE f[Len(s)] = s
  BY <1>4, <1>6, SeqEqual
<1> QED BY <1>1, <1>4, <1>5, <1>6

-----------------------------------------------------------------------------
(* The methods *)

\* A new EventQueue is consistent.
LEMMA EmptyQueueOK == EmptyQueue \in QueueType /\ QueueOK(EmptyQueue)
<1>1. IdsOf(<< >>) = {} /\ Distinct(<< >>)
  BY DEF IdsOf, Distinct
<1> QED BY <1>1, BoundsAssumption DEF EmptyQueue, QueueType, QueueOK

\* enqueue keeps the lists bounded and consistent, also when the dedupe list
\* expires an id and when the pending list loses its oldest event; a known id
\* changes nothing.
LEMMA EnqueueOK ==
    ASSUME NEW q \in QueueType, QueueOK(q), NEW e \in Events
    PROVE  /\ Enqueue(q, e) \in QueueType
           /\ QueueOK(Enqueue(q, e))
           /\ ~Accepts(q, e) => Enqueue(q, e) = q
<1>1. CASE ~Accepts(q, e)
  BY <1>1 DEF Enqueue
<1>2. CASE Accepts(q, e)
  <2> DEFINE processed == Append(q.processed, e)
             pending   == Append(q.pending, e)
             expires   == Len(processed) > MaxProcessed
             evicts    == Len(pending) > MaxPending
             forgotten == IF expires THEN {Head(processed)} \ IdsOf(pending) ELSE {}
             p == Enqueue(q, e)
  <2>1. /\ q.processed \in Seq(Events) /\ q.pending \in Seq(Events)
        /\ q.completed \in Seq(Recordings)
        /\ q.seen \in SUBSET Events /\ q.deferred \in SUBSET Events
        /\ Distinct(q.processed) /\ Distinct(q.pending) /\ Distinct(q.completed)
        /\ IdsOf(q.processed) \subseteq q.seen /\ IdsOf(q.pending) \subseteq q.seen
        /\ q.deferred \subseteq IdsOf(q.pending)
        /\ Len(q.pending) <= MaxPending /\ Len(q.completed) <= MaxCompleted
        /\ Len(q.processed) <= MaxProcessed + MaxPending
        /\ e \notin q.seen
    BY <1>2 DEF QueueType, QueueOK, Accepts
  <2>2. /\ processed \in Seq(Events) /\ Len(processed) = Len(q.processed) + 1
        /\ processed # << >> /\ Distinct(processed)
        /\ IdsOf(processed) = IdsOf(q.processed) \union {e}
    BY <2>1, AppendDistinct, AppendProperties
  <2>3. /\ pending \in Seq(Events) /\ Len(pending) = Len(q.pending) + 1
        /\ pending # << >> /\ Distinct(pending)
        /\ IdsOf(pending) = IdsOf(q.pending) \union {e}
    BY <2>1, AppendDistinct, AppendProperties
  <2>4. /\ Tail(processed) \in Seq(Events) /\ Len(Tail(processed)) = Len(q.processed)
        /\ Distinct(Tail(processed)) /\ Head(processed) \notin IdsOf(Tail(processed))
        /\ IdsOf(processed) = IdsOf(Tail(processed)) \union {Head(processed)}
        /\ Head(processed) \in Events
    <3> HIDE DEF processed
    <3> QED BY <2>1, <2>2, TailDistinct, HeadTailProperties
  <2>5. /\ Tail(pending) \in Seq(Events) /\ Len(Tail(pending)) = Len(q.pending)
        /\ Distinct(Tail(pending)) /\ Head(pending) \notin IdsOf(Tail(pending))
        /\ IdsOf(pending) = IdsOf(Tail(pending)) \union {Head(pending)}
    <3> HIDE DEF pending
    <3> QED BY <2>1, <2>3, TailDistinct
  <2>6. p = [processed |-> IF expires THEN Tail(processed) ELSE processed,
             seen      |-> (q.seen \union {e}) \ forgotten,
             pending   |-> IF evicts THEN Tail(pending) ELSE pending,
             completed |-> q.completed,
             deferred  |-> IF evicts THEN q.deferred \ {Head(pending)} ELSE q.deferred]
    BY <1>2 DEF Enqueue, QueueType
  <2> HIDE DEF processed, pending, p
  <2>7. p \in QueueType
    BY <2>1, <2>2, <2>3, <2>4, <2>5, <2>6 DEF QueueType
  <2>8. IdsOf(p.processed) \subseteq p.seen /\ IdsOf(p.pending) \subseteq p.seen
    <3>1. CASE expires
      BY <3>1, <2>1, <2>2, <2>3, <2>4, <2>5, <2>6
    <3>2. CASE ~expires
      BY <3>2, <2>1, <2>2, <2>3, <2>4, <2>5, <2>6
    <3> QED BY <3>1, <3>2
  <2>9. p.deferred \subseteq IdsOf(p.pending)
    <3>1. CASE evicts
      BY <3>1, <2>1, <2>3, <2>5, <2>6
    <3>2. CASE ~evicts
      BY <3>2, <2>1, <2>3, <2>6
    <3> QED BY <3>1, <3>2
  <2>10. Distinct(p.processed) /\ Distinct(p.pending) /\ Distinct(p.completed)
    BY <2>1, <2>2, <2>3, <2>4, <2>5, <2>6
  <2>11. Len(p.pending) <= MaxPending /\ Len(p.completed) <= MaxCompleted
    BY <2>1, <2>3, <2>5, <2>6, BoundsAssumption
  <2>12. Len(p.processed) <= MaxProcessed + MaxPending
    <3>1. CASE expires
      BY <3>1, <2>1, <2>4, <2>6
    <3>2. CASE ~expires
      BY <3>2, <2>2, <2>6, BoundsAssumption
    <3> QED BY <3>1, <3>2
  <2> QED BY <1>2, <2>7, <2>8, <2>9, <2>10, <2>11, <2>12 DEF QueueOK, p
<1> QED BY <1>1, <1>2

\* remove; it changes nothing when the event is not pending.
LEMMA RemoveOK ==
    ASSUME NEW q \in QueueType, QueueOK(q), NEW e
    PROVE  /\ Remove(q, e) \in QueueType
           /\ QueueOK(Remove(q, e))
           /\ e \notin IdsOf(q.pending) => Remove(q, e) = q
<1>1. /\ q.pending \in Seq(Events) /\ q.deferred \in SUBSET Events
      /\ q.deferred \subseteq IdsOf(q.pending) /\ Distinct(q.pending)
      /\ Len(q.pending) <= MaxPending /\ IdsOf(q.pending) \subseteq q.seen
  BY DEF QueueType, QueueOK
<1>2. /\ Without(q.pending, {e}) \in Seq(Events)
      /\ Len(Without(q.pending, {e})) <= Len(q.pending)
      /\ IdsOf(Without(q.pending, {e})) = IdsOf(q.pending) \ {e}
      /\ Distinct(Without(q.pending, {e}))
      /\ IdsOf(q.pending) \intersect {e} = {} => Without(q.pending, {e}) = q.pending
  BY <1>1, WithoutProperties
<1> DEFINE w == Without(q.pending, {e})
           d == q.deferred \ {e}
<1>3. Remove(q, e) = [processed |-> q.processed, seen |-> q.seen, pending |-> w,
                      completed |-> q.completed, deferred |-> d]
  <2>1. Remove(q, e) = [q EXCEPT !.pending = w, !.deferred = d]
    BY DEF Remove
  <2> HIDE DEF w, d
  <2> QED BY <2>1 DEF QueueType
<1>4. Remove(q, e) \in QueueType
  BY <1>1, <1>2, <1>3 DEF QueueType
<1>5. QueueOK(Remove(q, e))
  <2>1. Len(w) <= MaxPending
    BY <1>1, <1>2, BoundsAssumption
  <2>2. IdsOf(w) \subseteq q.seen /\ d \subseteq IdsOf(w) /\ Distinct(w)
    BY <1>1, <1>2
  <2> HIDE DEF w, d
  <2> QED BY <1>3, <2>1, <2>2 DEF QueueOK
<1>6. ASSUME e \notin IdsOf(q.pending) PROVE Remove(q, e) = q
  <2>1. q = [processed |-> q.processed, seen |-> q.seen, pending |-> q.pending,
             completed |-> q.completed, deferred |-> q.deferred]
    BY DEF QueueType
  <2>2. d = q.deferred /\ w = q.pending
    BY <1>1, <1>2, <1>6
  <2> HIDE DEF w, d
  <2> QED BY <1>3, <2>1, <2>2
<1> QED BY <1>4, <1>5, <1>6

\* remember_completed_recording keeps every fingerprint once.
LEMMA RememberOK ==
    ASSUME NEW q \in QueueType, QueueOK(q), NEW r \in Recordings
    PROVE  Remember(q, r) \in QueueType /\ QueueOK(Remember(q, r))
<1>1. CASE r \in IdsOf(q.completed)
  BY <1>1 DEF Remember
<1>2. CASE r \notin IdsOf(q.completed)
  <2> DEFINE c == Append(q.completed, r)
  <2>1. q.completed \in Seq(Recordings) /\ Distinct(q.completed)
    BY DEF QueueType, QueueOK
  <2>2. c \in Seq(Recordings) /\ Distinct(c)
    BY <1>2, <2>1, AppendDistinct
  <2> HIDE DEF c
  <2>3. /\ LastOf(c, MaxCompleted) \in Seq(Recordings)
        /\ Len(LastOf(c, MaxCompleted)) <= MaxCompleted
        /\ Distinct(LastOf(c, MaxCompleted))
    BY <2>2, LastOfProperties, BoundsAssumption
  <2>4. Remember(q, r) = [q EXCEPT !.completed = LastOf(c, MaxCompleted)]
    BY <1>2 DEF Remember, c
  <2> QED BY <2>3, <2>4 DEF QueueType, QueueOK
<1> QED BY <1>1, <1>2

\* defer and rearm only move pending events in and out of the deferrals.
LEMMA DeferRearmOK ==
    ASSUME NEW q \in QueueType, QueueOK(q), NEW e \in Events
    PROVE  /\ Defer(q, e) \in QueueType /\ QueueOK(Defer(q, e))
           /\ e \notin IdsOf(q.pending) => Defer(q, e) = q
           /\ Rearm(q, e) \in QueueType /\ QueueOK(Rearm(q, e))
           /\ e \notin q.deferred => Rearm(q, e) = q
<1>1. Defer(q, e) \in QueueType /\ QueueOK(Defer(q, e))
  BY DEF Defer, QueueType, QueueOK
<1>2. Rearm(q, e) \in QueueType /\ QueueOK(Rearm(q, e))
  BY DEF Rearm, QueueType, QueueOK
<1>3. ASSUME e \notin q.deferred PROVE Rearm(q, e) = q
  <2>1. q.deferred \ {e} = q.deferred
    BY <1>3
  <2> QED BY <2>1 DEF Rearm, QueueType
<1> QED BY <1>1, <1>2, <1>3 DEF Defer

\* discard_deferred, the clearing of the backlog.
LEMMA DiscardDeferredOK ==
    ASSUME NEW q \in QueueType, QueueOK(q), NEW ids
    PROVE  /\ DiscardDeferred(q, ids) \in QueueType
           /\ QueueOK(DiscardDeferred(q, ids))
           /\ ids \intersect q.deferred \intersect IdsOf(q.pending) = {} =>
                DiscardDeferred(q, ids) = q
<1> DEFINE removed == ids \intersect q.deferred \intersect IdsOf(q.pending)
           w == Without(q.pending, removed)
           d == q.deferred \ removed
<1>1. /\ q.pending \in Seq(Events) /\ q.deferred \in SUBSET Events
      /\ q.deferred \subseteq IdsOf(q.pending) /\ Distinct(q.pending)
      /\ Len(q.pending) <= MaxPending /\ IdsOf(q.pending) \subseteq q.seen
  BY DEF QueueType, QueueOK
<1>2. DiscardDeferred(q, ids) =
        [processed |-> q.processed, seen |-> q.seen, pending |-> w,
         completed |-> q.completed, deferred |-> d]
  <2>1. DiscardDeferred(q, ids) = [q EXCEPT !.pending = w, !.deferred = d]
    BY DEF DiscardDeferred
  <2> HIDE DEF removed, w, d
  <2> QED BY <2>1 DEF QueueType
<1> HIDE DEF removed
<1>3. /\ w \in Seq(Events) /\ Len(w) <= Len(q.pending) /\ Distinct(w)
      /\ IdsOf(w) = IdsOf(q.pending) \ removed
      /\ removed = {} => w = q.pending
  BY <1>1, WithoutProperties
<1> HIDE DEF w
<1>4. DiscardDeferred(q, ids) \in QueueType
  BY <1>1, <1>2, <1>3 DEF QueueType
<1>5. QueueOK(DiscardDeferred(q, ids))
  <2>1. Len(w) <= MaxPending
    BY <1>1, <1>3, BoundsAssumption
  <2>2. IdsOf(w) \subseteq q.seen /\ d \subseteq IdsOf(w)
    BY <1>1, <1>3
  <2> HIDE DEF d
  <2> QED BY <1>2, <1>3, <2>1, <2>2 DEF QueueOK
<1>6. ASSUME removed = {} PROVE DiscardDeferred(q, ids) = q
  <2>1. q = [processed |-> q.processed, seen |-> q.seen, pending |-> q.pending,
             completed |-> q.completed, deferred |-> q.deferred]
    BY DEF QueueType
  <2>2. d = q.deferred
    BY <1>6
  <2> HIDE DEF d
  <2> QED BY <1>2, <1>3, <1>6, <2>1, <2>2
<1> QED BY <1>4, <1>5, <1>6 DEF removed

\* What as_storage writes of a consistent queue is consistent.
LEMMA AsStorageOK ==
    ASSUME NEW q \in QueueType, QueueOK(q)
    PROVE  AsStorage(q) \in StorageType /\ StorageOK(AsStorage(q))
<1>1. /\ q.processed \in Seq(Events) /\ Distinct(q.processed)
      /\ q.completed \in Seq(Recordings) /\ Distinct(q.completed)
  BY DEF QueueType, QueueOK
<1>2. /\ LastOf(q.processed, MaxProcessed) \in Seq(Events)
      /\ Distinct(LastOf(q.processed, MaxProcessed))
      /\ Len(LastOf(q.processed, MaxProcessed)) <= MaxProcessed
  BY <1>1, LastOfProperties, BoundsAssumption
<1>3. /\ LastOf(q.completed, MaxCompleted) \in Seq(Recordings)
      /\ Distinct(LastOf(q.completed, MaxCompleted))
      /\ Len(LastOf(q.completed, MaxCompleted)) <= MaxCompleted
  BY <1>1, LastOfProperties, BoundsAssumption
<1>4. AsStorage(q) \in StorageType
  BY <1>2, <1>3 DEF AsStorage, StorageType, QueueType
<1>5. StorageOK(AsStorage(q))
  BY <1>2, <1>3 DEF AsStorage, StorageOK, QueueOK, QueueType
<1> QED BY <1>4, <1>5

\* load of a consistent file yields a consistent queue, whose dedupe set covers
\* its pending events although their processed entries may have expired.
LEMMA LoadOK ==
    ASSUME NEW d \in StorageType, StorageOK(d)
    PROVE  Load(d) \in QueueType /\ QueueOK(Load(d))
<1> DEFINE kept    == LastOf(d.processed, MaxProcessed)
           pending == LastOf(d.pending, MaxPending)
           again   == Without(pending, IdsOf(kept))
           recs    == LastOf(d.completed, MaxCompleted)
<1>1. /\ d.processed \in Seq(Events) /\ d.pending \in Seq(Events)
      /\ d.completed \in Seq(Recordings) /\ d.deferred \in SUBSET Events
      /\ Distinct(d.processed) /\ Distinct(d.pending) /\ Distinct(d.completed)
  BY DEF StorageType, StorageOK
<1>2. kept \in Seq(Events) /\ Distinct(kept) /\ Len(kept) <= MaxProcessed
  BY <1>1, LastOfProperties, BoundsAssumption
<1>3. pending \in Seq(Events) /\ Distinct(pending) /\ Len(pending) <= MaxPending
  BY <1>1, LastOfProperties, BoundsAssumption
<1>4. recs \in Seq(Recordings) /\ Distinct(recs) /\ Len(recs) <= MaxCompleted
  BY <1>1, LastOfProperties, BoundsAssumption
<1> HIDE DEF kept, pending, recs
<1>5. /\ again \in Seq(Events) /\ Distinct(again) /\ Len(again) <= Len(pending)
      /\ IdsOf(again) = IdsOf(pending) \ IdsOf(kept)
  BY <1>3, WithoutProperties
<1> HIDE DEF again
<1>6. /\ kept \o again \in Seq(Events) /\ Distinct(kept \o again)
      /\ IdsOf(kept \o again) = IdsOf(kept) \union IdsOf(again)
      /\ Len(kept \o again) = Len(kept) + Len(again)
  <2>1. IdsOf(kept) \intersect IdsOf(again) = {}
    BY <1>5
  <2> QED BY <1>2, <1>5, <2>1, ConcatDistinct, ConcatProperties
<1>7. Load(d) = [processed |-> kept \o again, seen |-> IdsOf(kept) \union IdsOf(pending),
                 pending |-> pending, completed |-> recs,
                 deferred |-> d.deferred \intersect IdsOf(pending)]
  BY DEF Load, kept, pending, again, recs
<1>8. IdsOf(kept) \subseteq Events /\ IdsOf(pending) \subseteq Events
  BY <1>2, <1>3, IdsOfSeq
<1>9. Load(d) \in QueueType
  BY <1>1, <1>3, <1>4, <1>6, <1>7, <1>8 DEF QueueType
<1>10. Len(kept \o again) <= MaxProcessed + MaxPending
  BY <1>2, <1>3, <1>5, <1>6, BoundsAssumption
<1>11. QueueOK(Load(d))
  BY <1>3, <1>4, <1>5, <1>6, <1>7, <1>10 DEF QueueOK
<1> QED BY <1>9, <1>11

-----------------------------------------------------------------------------
(* The fingerprints of completed recordings *)

\* Nothing but remember_completed_recording touches them, and all of them are
\* written.
LEMMA KeepsCompleted ==
    ASSUME NEW q \in QueueType, QueueOK(q), NEW e, NEW ids
    PROVE  /\ Enqueue(q, e).completed = q.completed
           /\ Remove(q, e).completed = q.completed
           /\ Defer(q, e).completed = q.completed
           /\ Rearm(q, e).completed = q.completed
           /\ DiscardDeferred(q, ids).completed = q.completed
           /\ AsStorage(q).completed = q.completed
<1>1. q.completed \in Seq(Recordings) /\ Len(q.completed) <= MaxCompleted
  BY DEF QueueType, QueueOK
<1>2. Enqueue(q, e).completed = q.completed
  BY DEF Enqueue, QueueType
<1>3. /\ Remove(q, e).completed = q.completed
      /\ Defer(q, e).completed = q.completed
      /\ Rearm(q, e).completed = q.completed
  BY DEF Remove, Defer, Rearm, QueueType
<1>4. DiscardDeferred(q, ids).completed = q.completed
  BY DEF DiscardDeferred, QueueType
<1>5. AsStorage(q).completed = LastOf(q.completed, MaxCompleted)
  BY DEF AsStorage
<1>6. AsStorage(q).completed = q.completed
  BY <1>1, <1>5, LastOfProperties, BoundsAssumption
<1> QED BY <1>2, <1>3, <1>4, <1>6

\* load takes all of them back.
LEMMA LoadKeepsCompleted ==
    ASSUME NEW d \in StorageType, StorageOK(d)
    PROVE  Load(d).completed = d.completed
<1>1. d.completed \in Seq(Recordings) /\ Len(d.completed) <= MaxCompleted
  BY DEF StorageType, StorageOK
<1>2. Load(d).completed = LastOf(d.completed, MaxCompleted)
  BY DEF Load
<1> QED BY <1>1, <1>2, LastOfProperties, BoundsAssumption

\* A fingerprint is remembered, or the list is full and may have dropped it.
Remembered(c, r) == r \in IdsOf(c) \/ Len(c) = MaxCompleted

\* The latest entries of a list that got one more: nothing is lost before the
\* list is full, and a full list stays full.
LEMMA LastOfAppend ==
    ASSUME NEW S, NEW s \in Seq(S), NEW x \in S, NEW n \in Nat \ {0}, Len(s) <= n,
           NEW t, t = LastOf(Append(s, x), n)
    PROVE  /\ t \in Seq(S) /\ x \in IdsOf(t) /\ IdsOf(t) \subseteq IdsOf(s) \union {x}
           /\ Len(t) = n \/ (Len(t) = Len(s) + 1 /\ IdsOf(s) \subseteq IdsOf(t))
<1> DEFINE a == Append(s, x)
<1>0. t = LastOf(a, n)
  OBVIOUS
<1>1. /\ a \in Seq(S) /\ Len(a) = Len(s) + 1 /\ a[Len(a)] = x /\ Len(s) \in Nat
      /\ IdsOf(a) = IdsOf(s) \union {x}
  BY AppendDistinct
<1> HIDE DEF a
<1>2. t \in Seq(S) /\ IdsOf(t) \subseteq IdsOf(a) /\ (Len(a) <= n => t = a)
  BY <1>0, <1>1, LastOfProperties
<1>3. CASE Len(a) <= n
  BY <1>1, <1>2, <1>3
<1>4. CASE Len(a) > n
  <2>1. t = SubSeq(a, Len(a) - n + 1, Len(a))
    BY <1>0, <1>4 DEF LastOf
  <2>2. Len(a) \in Nat /\ Len(a) - n + 1 \in 1 .. Len(a) /\ Len(a) \in 1 .. Len(a)
    BY <1>1, <1>4
  <2>3. Len(t) = n /\ \A i \in 1 .. n : t[i] = a[Len(a) - n + i]
    BY <1>1, <2>1, <2>2
  <2>4. t[n] = a[Len(a)]
    BY <2>2, <2>3
  <2>5. x \in IdsOf(t)
    BY <1>1, <1>2, <2>3, <2>4 DEF IdsOf
  <2> QED BY <1>1, <1>2, <2>3, <2>5
<1> QED BY <1>3, <1>4

\* remember_completed_recording adds the fingerprint, and forgets another one
\* only when the list is full.
LEMMA RememberKeeps ==
    ASSUME NEW q \in QueueType, QueueOK(q), NEW x \in Recordings
    PROVE  LET c == Remember(q, x).completed IN
           /\ x \in IdsOf(c) /\ IdsOf(c) \subseteq IdsOf(q.completed) \union {x}
           /\ \A r : Remembered(q.completed, r) => Remembered(c, r)
<1>1. CASE x \in IdsOf(q.completed)
  BY <1>1 DEF Remember
<1>2. CASE x \notin IdsOf(q.completed)
  <2> DEFINE t == LastOf(Append(q.completed, x), MaxCompleted)
  <2>1. q.completed \in Seq(Recordings) /\ Len(q.completed) <= MaxCompleted
    BY DEF QueueType, QueueOK
  <2>2. Remember(q, x).completed = t
    BY <1>2 DEF Remember, QueueType
  <2>3. /\ t \in Seq(Recordings) /\ x \in IdsOf(t)
        /\ IdsOf(t) \subseteq IdsOf(q.completed) \union {x}
        /\ Len(t) = MaxCompleted
             \/ (Len(t) = Len(q.completed) + 1 /\ IdsOf(q.completed) \subseteq IdsOf(t))
    BY <2>1, LastOfAppend, BoundsAssumption
  <2> HIDE DEF t
  <2>4. \A r : Remembered(q.completed, r) => Remembered(t, r)
    <3> SUFFICES ASSUME NEW r, Remembered(q.completed, r), Len(t) # MaxCompleted
                 PROVE  r \in IdsOf(t)
      BY DEF Remembered
    <3>1. Len(t) = Len(q.completed) + 1 /\ IdsOf(q.completed) \subseteq IdsOf(t)
      BY <2>3
    <3>2. Len(t) <= MaxCompleted
      BY <2>1, <2>2, RememberOK DEF QueueOK
    <3>3. Len(q.completed) # MaxCompleted
      BY <2>1, <2>3, <3>1, <3>2, BoundsAssumption
    <3> QED BY <3>1, <3>3 DEF Remembered
  <2> QED BY <2>2, <2>3, <2>4
<1> QED BY <1>1, <1>2

-----------------------------------------------------------------------------
(* The coordinator *)

\* The Store's lock and the contents it was given: phase says who holds the
\* lock; contents that no writer took yet will be taken by a task in line; if
\* there are none, the newest contents are being written or on disk.
SavesInOrder ==
    /\ phase = "free" <=> savers = << >>
    /\ unwritten => phase = "woken" \/ (savers # << >> /\ Tail(savers) # << >>)
    /\ phase = "free" => ~unwritten
    /\ ~unwritten /\ phase = "writing" => writing = AsStorage(queue)
    /\ ~unwritten /\ phase \in {"written", "woken"} => disk = AsStorage(queue)

\* The inductive invariant.  writing is about to become the file, and the two
\* consistency conditions need each other: load relies on the file's, what is
\* written on the queue's.
IInv ==
    /\ CoordTypeOK
    /\ QueueConsistent
    /\ StorageOK(writing)
    /\ SavesInOrder
    /\ IdleMeansSaved

-----------------------------------------------------------------------------
\* A new event pushes out at most the oldest pending one, and its deferral with it.
LEMMA EnqueueKeepsDeferrals ==
    ASSUME NEW q \in QueueType, QueueOK(q), NEW e \in Events, Accepts(q, e)
    PROVE  \A x \in IdsOf(Enqueue(q, e).pending) :
             x = e \/ (x \in IdsOf(q.pending)
                        /\ (x \in q.deferred => x \in Enqueue(q, e).deferred))
<1>1. /\ q.pending \in Seq(Events) /\ Distinct(q.pending) /\ e \notin IdsOf(q.pending)
      /\ q.deferred \subseteq Events
  BY DEF QueueType, QueueOK, Accepts
<1> DEFINE c == Append(q.pending, e)
<1>2. c \in Seq(Events) /\ Distinct(c) /\ IdsOf(c) = IdsOf(q.pending) \union {e} /\ c # << >>
  BY <1>1, AppendDistinct
<1> HIDE DEF c
<1>3. /\ Head(c) \notin IdsOf(Tail(c)) /\ IdsOf(Tail(c)) \subseteq IdsOf(c)
  BY <1>2, TailDistinct
<1> DEFINE p == Enqueue(q, e)
<1>4. \/ p.pending = Tail(c) /\ p.deferred = q.deferred \ {Head(c)}
      \/ p.pending = c /\ p.deferred = q.deferred
  BY DEF Enqueue, c, QueueType
<1> HIDE DEF p
<1>5. ASSUME NEW x \in IdsOf(p.pending)
      PROVE  x = e \/ (x \in IdsOf(q.pending) /\ (x \in q.deferred => x \in p.deferred))
  <2>1. x \in IdsOf(c)
    BY <1>3, <1>4, <1>5
  <2>2. x \in q.deferred => x \in p.deferred
    <3>1. CASE p.pending = Tail(c) /\ p.deferred = q.deferred \ {Head(c)}
      <4>1. x # Head(c)
        BY <1>3, <1>5, <3>1
      <4> QED BY <3>1, <4>1
    <3> QED BY <1>4, <3>1
  <2> QED BY <1>2, <2>1, <2>2
<1> QED BY <1>5 DEF p

\* A list without duplicates has as many entries as the set they form.
LEMMA DistinctIsShort ==
    ASSUME NEW S, IsFiniteSet(S), NEW c \in Seq(S), Distinct(c)
    PROVE  /\ Len(c) = Cardinality(IdsOf(c)) /\ Len(c) <= Cardinality(S)
           /\ Len(c) = Cardinality(S) => IdsOf(c) = S
<1>1. IdsOf(c) \in SUBSET S
  BY IdsOfSeq
<1>2. c \in Bijection(1 .. Len(c), IdsOf(c))
  <2>1. c \in [1 .. Len(c) -> IdsOf(c)]
    BY DEF IdsOf
  <2>2. \A i, j \in 1 .. Len(c) : c[i] = c[j] => i = j
    BY DEF Distinct
  <2>3. \A x \in IdsOf(c) : \E i \in 1 .. Len(c) : c[i] = x
    BY IdsOfSeq
  <2> QED BY <2>1, <2>2, <2>3, Fun_IsBij
<1>3. Len(c) \in Nat /\ ExistsBijection(1 .. Len(c), IdsOf(c))
  BY <1>2 DEF ExistsBijection
<1>4. Cardinality(IdsOf(c)) = Len(c)
  BY <1>3, FS_CountingElements
<1>5. /\ Cardinality(IdsOf(c)) <= Cardinality(S)
      /\ Cardinality(S) = Cardinality(IdsOf(c)) => S = IdsOf(c)
  BY <1>1, FS_Subset
<1> QED BY <1>4, <1>5

\* A new event is remembered, and no other one is forgotten for it.
LEMMA EnqueueRemembers ==
    ASSUME IsFiniteSet(Events), Cardinality(Events) <= MaxProcessed,
           NEW q \in QueueType, QueueOK(q), NEW e \in Events, Accepts(q, e)
    PROVE  /\ e \notin IdsOf(q.processed)
           /\ IdsOf(Enqueue(q, e).processed) = IdsOf(q.processed) \union {e}
           /\ Enqueue(q, e).seen = q.seen \union {e}
<1>1. q.processed \in Seq(Events) /\ Distinct(q.processed) /\ e \notin IdsOf(q.processed)
  BY DEF QueueType, QueueOK, Accepts
<1> DEFINE c == Append(q.processed, e)
<1>2. c \in Seq(Events) /\ Distinct(c) /\ IdsOf(c) = IdsOf(q.processed) \union {e}
  BY <1>1, AppendDistinct
<1> HIDE DEF c
<1>3. Len(c) <= Cardinality(Events) /\ Len(c) \in Nat /\ Cardinality(Events) \in Nat
  BY <1>2, DistinctIsShort, FS_CardinalityType
<1>4. ~(Len(c) > MaxProcessed)
  BY <1>3, BoundsAssumption
<1>5. Enqueue(q, e).processed = c /\ Enqueue(q, e).seen = q.seen \union {e}
  BY <1>4 DEF Enqueue, c, QueueType
<1> QED BY <1>1, <1>2, <1>5

\* async_ingest_events: the queue after every event of the batch is consistent,
\* and it is the old one if the batch holds no new event.  The loop is a
\* recursive function; the lemma shows that it exists and what it preserves.
LEMMA EnqueueAllOK ==
    ASSUME NEW q \in QueueType, QueueOK(q), NEW batch \in Seq(Events)
    PROVE  /\ EnqueueAll(q, batch) \in QueueType
           /\ QueueOK(EnqueueAll(q, batch))
           /\ (\A i \in DOMAIN batch : ~Accepts(q, batch[i])) => EnqueueAll(q, batch) = q
           /\ EnqueueAll(q, batch).completed = q.completed
<1> DEFINE Step(f, i) == IF i = 0 THEN q ELSE Enqueue(f[i-1], batch[i])
           F(n) == \E f : f = [i \in 0 .. n |-> Step(f, i)]
           T == {n \in Nat : F(n)}
<1>1. 0 \in T
  <2> DEFINE f == [i \in 0 .. 0 |-> q]
  <2>1. f = [i \in 0 .. 0 |-> Step(f, i)]
    OBVIOUS
  <2> QED BY <2>1
<1>2. ASSUME NEW n \in Nat, n \in T PROVE n + 1 \in T
  <2>1. PICK f : f = [i \in 0 .. n |-> Step(f, i)]
    BY <1>2
  <2> DEFINE g == [i \in 0 .. n + 1 |-> IF i = n + 1 THEN Step(f, i) ELSE f[i]]
  <2>2. \A i \in 0 .. n + 1 : i # 0 => g[i-1] = f[i-1]
    OBVIOUS
  <2>3. \A i \in 0 .. n : f[i] = Step(f, i)
    BY <2>1, Zenon
  <2>4. \A i \in 0 .. n + 1 : g[i] = Step(g, i)
    BY <2>2, <2>3
  <2>5. g = [i \in 0 .. n + 1 |-> Step(g, i)]
    <3> HIDE DEF Step
    <3> QED BY <2>4
  <2>6. F(n + 1)
    <3> HIDE DEF g, Step
    <3> QED BY <2>5
  <2> HIDE DEF F, g
  <2> QED BY <2>6
<1>3. F(Len(batch))
  <2>1. Nat \subseteq T
    <3> HIDE DEF T
    <3> QED BY <1>1, <1>2, SetInduction
  <2> QED BY <2>1
<1> DEFINE after[i \in 0 .. Len(batch)] ==
            IF i = 0 THEN q ELSE Enqueue(after[i-1], batch[i])
<1>4. EnqueueAll(q, batch) = after[Len(batch)]
  BY DEF EnqueueAll
<1>5. after = [i \in 0 .. Len(batch) |-> Step(after, i)]
  BY <1>3
<1> HIDE DEF after
<1>6. \A i \in 0 .. Len(batch) : after[i] = Step(after, i)
  BY <1>5, Zenon
<1> DEFINE Known == \A i \in DOMAIN batch : ~Accepts(q, batch[i])
           P(n) == /\ after[n] \in QueueType /\ QueueOK(after[n])
                   /\ Known => after[n] = q
                   /\ after[n].completed = q.completed
           U == {n \in Nat : n <= Len(batch) => P(n)}
<1>7. P(0)
  BY <1>6
<1>8. ASSUME NEW n \in Nat, n + 1 <= Len(batch), P(n) PROVE P(n + 1)
  <2>1. after[n + 1] = Enqueue(after[n], batch[n + 1])
    BY <1>6, <1>8
  <2>2. n + 1 \in DOMAIN batch /\ batch[n + 1] \in Events
    BY <1>8
  <2>3. Enqueue(after[n], batch[n + 1]).completed = after[n].completed
    BY <1>8, KeepsCompleted
  <2> QED BY <2>1, <2>2, <2>3, <1>8, EnqueueOK
<1>9. P(Len(batch))
  <2> HIDE DEF P
  <2>1. 0 \in U
    BY <1>7
  <2>2. ASSUME NEW n \in Nat, n \in U PROVE n + 1 \in U
    <3>1. n + 1 <= Len(batch) => n <= Len(batch)
      OBVIOUS
    <3> QED BY <1>8, <2>2, <3>1
  <2>3. Nat \subseteq U
    <3> HIDE DEF U
    <3> QED BY <2>1, <2>2, SetInduction
  <2> QED BY <2>3
<1> QED BY <1>4, <1>9

\* One event is a batch of one.
LEMMA IngestOne ==
    ASSUME NEW q, NEW e
    PROVE  EnqueueAll(q, << e >>) = Enqueue(q, e)
<1> DEFINE b == << e >>
           Step(f, i) == IF i = 0 THEN q ELSE Enqueue(f[i-1], b[i])
           g == [i \in 0 .. 1 |-> IF i = 0 THEN q ELSE Enqueue(q, e)]
           after[i \in 0 .. Len(b)] == IF i = 0 THEN q ELSE Enqueue(after[i-1], b[i])
<1>1. Len(b) = 1 /\ b[1] = e
  OBVIOUS
<1>2. g[0] = q /\ g[1] = Enqueue(q, e)
  OBVIOUS
<1>3. \A i \in 0 .. Len(b) : g[i] = Step(g, i)
  <2>1. \A i \in 0 .. Len(b) : i = 0 \/ i = 1
    BY <1>1
  <2>2. Step(g, 0) = q /\ Step(g, 1) = Enqueue(q, e)
    BY <1>1, <1>2
  <2> HIDE DEF g, Step
  <2> QED BY <1>2, <2>1, <2>2
<1>4. g = [i \in 0 .. Len(b) |-> Step(g, i)]
  <2> HIDE DEF Step, b
  <2> QED BY <1>1, <1>3
<1>5. \E f : f = [i \in 0 .. Len(b) |-> Step(f, i)]
  <2> HIDE DEF Step, b, g
  <2> QED BY <1>4
<1>6. EnqueueAll(q, b) = after[Len(b)]
  BY DEF EnqueueAll
<1>7. after = [i \in 0 .. Len(b) |-> Step(after, i)]
  BY <1>5
<1> HIDE DEF after, b
<1>8. \A i \in 0 .. Len(b) : after[i] = Step(after, i)
  BY <1>7, Zenon
<1>9. after[0] = q /\ after[1] = Enqueue(after[0], e)
  BY <1>1, <1>8
<1> QED BY <1>1, <1>6, <1>9 DEF b

-----------------------------------------------------------------------------
\* The state an empty store is loaded into.
LEMMA InitInv == CoordInit => IInv
<1> SUFFICES ASSUME CoordInit PROVE IInv
  OBVIOUS
<1> USE DEF CoordInit
<1>1. queue \in QueueType /\ QueueOK(queue)
  BY EmptyQueueOK
<1>2. disk \in StorageType /\ StorageOK(disk)
  BY <1>1, AsStorageOK
<1>3. CoordTypeOK
  <2>1. << >> \in Seq(Tasks)
    OBVIOUS
  <2> QED BY <1>1, <1>2, <2>1 DEF CoordTypeOK
<1>4. SavesInOrder /\ IdleMeansSaved
  BY DEF SavesInOrder, IdleMeansSaved
<1> QED BY <1>1, <1>2, <1>3, <1>4 DEF IInv, QueueConsistent

\* The step every method ends with: a consistent queue that is saved if it is
\* a change, and is the old one if it is not.
LEMMA CommitInv ==
    ASSUME IInv, NEW t \in Tasks, NEW q \in QueueType, QueueOK(q), NEW changed \in BOOLEAN,
           changed \/ q = queue,
           Commit(t, q, changed)
    PROVE  IInv'
<1>1. queue' = q /\ disk' = disk /\ StorageOK(disk)
  BY DEF Commit, IInv, QueueConsistent
<1>2. AsStorage(q) \in StorageType /\ StorageOK(AsStorage(q))
  BY AsStorageOK
<1>3. CASE ~changed
  <2>1. queue' = queue /\ UNCHANGED storeVars
    BY <1>1, <1>3 DEF Commit
  <2> QED BY <2>1, <1>1 DEF IInv, CoordTypeOK, QueueConsistent, SavesInOrder,
                             IdleMeansSaved, storeVars
<1>4. CASE changed
  <2>1. Save(t)
    BY <1>4 DEF Commit
  <2>2. savers \in Seq(Tasks) /\ savers' = Append(savers, t)
    BY <2>1 DEF Save, IInv, CoordTypeOK
  <2>3. savers' \in Seq(Tasks) /\ savers' # << >>
    BY <2>2
  <2>4. CASE savers = << >>
    <3>1. phase' = "writing" /\ writing' = AsStorage(q) /\ unwritten' = unwritten /\ ~unwritten
      BY <1>1, <2>1, <2>4 DEF Save, IInv, SavesInOrder
    <3> QED BY <3>1, <1>1, <1>2, <2>3
            DEF IInv, CoordTypeOK, QueueConsistent, SavesInOrder, IdleMeansSaved
  <2>5. CASE savers # << >>
    <3>1. phase' = phase /\ writing' = writing /\ unwritten' = TRUE
      BY <2>1, <2>5 DEF Save
    <3>2. Tail(savers') # << >>
      BY <2>2, <2>5
    <3> QED BY <3>1, <3>2, <1>1, <2>3, <2>5
            DEF IInv, CoordTypeOK, QueueConsistent, SavesInOrder, IdleMeansSaved
  <2> QED BY <2>4, <2>5
<1> QED BY <1>3, <1>4

\* Each method: the queue it computes is consistent, and it skips the save
\* only when the queue does not change.
LEMMA CallInv ==
    ASSUME IInv, NEW t \in Tasks, Call(t)
    PROVE  IInv'
<1> USE DEF IInv
<1>0. queue \in QueueType /\ QueueOK(queue)
  BY DEF CoordTypeOK, QueueConsistent
<1>1. ASSUME NEW batch \in Seq(Events), IngestEvents(t, batch) PROVE IInv'
  <2> DEFINE changed == \E i \in DOMAIN batch : Accepts(queue, batch[i])
  <2>1. /\ EnqueueAll(queue, batch) \in QueueType /\ QueueOK(EnqueueAll(queue, batch))
        /\ ~changed => EnqueueAll(queue, batch) = queue
    BY <1>0, EnqueueAllOK
  <2>2. Commit(t, EnqueueAll(queue, batch), changed) /\ changed \in BOOLEAN
    BY <1>1 DEF IngestEvents
  <2> HIDE DEF changed, IInv
  <2> QED BY <2>1, <2>2, CommitInv DEF IInv
<1>2. ASSUME NEW e \in Events, NEW recs, recs = {} \/ \E r \in Recordings : recs = {r},
             CompleteEvent(t, e, recs)
      PROVE  IInv'
  <2> DEFINE q == IF recs = {} THEN Remove(queue, e)
                  ELSE Remember(Remove(queue, e), CHOOSE r \in recs : TRUE)
             changed == e \in IdsOf(queue.pending) \/ recs \ IdsOf(queue.completed) # {}
  <2>1. /\ Remove(queue, e) \in QueueType /\ QueueOK(Remove(queue, e))
        /\ e \notin IdsOf(queue.pending) => Remove(queue, e) = queue
    BY <1>0, RemoveOK
  <2>2. recs # {} => (CHOOSE r \in recs : TRUE) \in recs /\ recs \subseteq Recordings
    BY <1>2
  <2>3. q \in QueueType /\ QueueOK(q)
    BY <2>1, <2>2, RememberOK
  <2>4. ~changed => q = queue
    BY <2>1, <2>2 DEF Remember
  <2>5. Commit(t, q, changed) /\ changed \in BOOLEAN
    BY <1>2 DEF CompleteEvent
  <2> HIDE DEF q, changed, IInv
  <2> QED BY <2>3, <2>4, <2>5, CommitInv DEF IInv
<1>3. ASSUME NEW e \in Events, DeferEvent(t, e) \/ RearmEvent(t, e) PROVE IInv'
  <2>1. /\ Defer(queue, e) \in QueueType /\ QueueOK(Defer(queue, e))
        /\ e \notin IdsOf(queue.pending) => Defer(queue, e) = queue
        /\ Rearm(queue, e) \in QueueType /\ QueueOK(Rearm(queue, e))
        /\ e \notin queue.deferred => Rearm(queue, e) = queue
    BY <1>0, DeferRearmOK
  <2>2. /\ (e \in IdsOf(queue.pending)) \in BOOLEAN
        /\ (e \in queue.deferred) \in BOOLEAN
    OBVIOUS
  <2>3. CASE DeferEvent(t, e)
    <3> HIDE DEF IInv
    <3> QED BY <2>1, <2>2, <2>3, CommitInv DEF DeferEvent, IInv
  <2>4. CASE RearmEvent(t, e)
    <3> HIDE DEF IInv
    <3> QED BY <2>1, <2>2, <2>4, CommitInv DEF RearmEvent, IInv
  <2> QED BY <1>3, <2>3, <2>4
<1>4. ASSUME NEW ofSource, ClearDeferred(t, ofSource) PROVE IInv'
  <2> DEFINE ids == queue.deferred \intersect ofSource
             changed == ids \intersect IdsOf(queue.pending) # {}
  <2>1. /\ DiscardDeferred(queue, ids) \in QueueType
        /\ QueueOK(DiscardDeferred(queue, ids))
        /\ ids \intersect queue.deferred \intersect IdsOf(queue.pending) = {} =>
                DiscardDeferred(queue, ids) = queue
    <3> HIDE DEF ids
    <3> QED BY <1>0, DiscardDeferredOK
  <2>2. ~changed => DiscardDeferred(queue, ids) = queue
    BY <2>1
  <2>3. Commit(t, DiscardDeferred(queue, ids), changed) /\ changed \in BOOLEAN
    BY <1>4 DEF ClearDeferred
  <2> HIDE DEF ids, changed, IInv
  <2> QED BY <2>1, <2>2, <2>3, CommitInv DEF IInv
<1>5. ASSUME Shutdown(t) PROVE IInv'
  BY <1>0, <1>5, CommitInv DEF Shutdown
<1> QED BY <1>1, <1>2, <1>3, <1>4, <1>5 DEF Call

\* The steps of the Store.
LEMMA StoreInv ==
    ASSUME IInv, StoreBegin \/ StoreWrite
    PROVE  IInv'
<1>0. AsStorage(queue) \in StorageType /\ StorageOK(AsStorage(queue))
  BY AsStorageOK DEF IInv, CoordTypeOK, QueueConsistent
<1>1. CASE StoreBegin
  BY <1>0, <1>1 DEF StoreBegin, IInv, CoordTypeOK, QueueConsistent, SavesInOrder,
                    IdleMeansSaved
<1>2. CASE StoreWrite
  BY <1>2 DEF StoreWrite, IInv, CoordTypeOK, QueueConsistent, SavesInOrder, IdleMeansSaved
<1> QED BY <1>1, <1>2

\* A save returns: if no other task waits, everything is written.
LEMMA ReturnInv ==
    ASSUME IInv, NEW t \in Tasks, Return(t)
    PROVE  IInv'
<1>1. /\ savers \in Seq(Tasks) /\ savers # << >> /\ savers' = Tail(savers)
      /\ phase = "written" \/ (phase = "woken" /\ ~unwritten)
      /\ phase' = IF savers' = << >> THEN "free" ELSE "woken"
      /\ UNCHANGED <<queue, disk, writing, unwritten>>
  BY DEF Return, IInv, CoordTypeOK
<1>2. savers' \in Seq(Tasks)
  BY <1>1
<1>3. savers' = << >> => ~unwritten
  BY <1>1 DEF IInv, SavesInOrder
<1>4. ~unwritten => disk = AsStorage(queue)
  BY <1>1 DEF IInv, SavesInOrder
<1>5. CoordTypeOK' /\ QueueConsistent' /\ StorageOK(writing)'
  BY <1>1, <1>2 DEF IInv, CoordTypeOK, QueueConsistent
<1>6. SavesInOrder' /\ IdleMeansSaved'
  BY <1>1, <1>3, <1>4 DEF SavesInOrder, IdleMeansSaved
<1> QED BY <1>5, <1>6 DEF IInv

\* A crash at any step leaves a consistent file, which loads.
LEMMA RestartInv == ASSUME IInv, Restart PROVE IInv'
<1>1. Load(disk) \in QueueType /\ QueueOK(Load(disk))
  BY LoadOK DEF IInv, CoordTypeOK, QueueConsistent
<1>2. << >> \in Seq(Tasks)
  OBVIOUS
<1>3. /\ queue' = Load(disk) /\ disk' = disk /\ writing' = disk
      /\ savers' = << >> /\ phase' = "free" /\ unwritten' = FALSE
  BY DEF Restart
<1>4. CoordTypeOK' /\ QueueConsistent' /\ StorageOK(writing)'
  BY <1>1, <1>2, <1>3 DEF IInv, CoordTypeOK, QueueConsistent
<1>5. SavesInOrder' /\ IdleMeansSaved'
  BY <1>3 DEF SavesInOrder, IdleMeansSaved
<1> QED BY <1>4, <1>5 DEF IInv

\* Every step of the coordinator keeps the inductive invariant.
LEMMA NextInv == IInv /\ [CoordNext]_coordVars => IInv'
<1> SUFFICES ASSUME IInv, [CoordNext]_coordVars PROVE IInv'
  OBVIOUS
<1>1. ASSUME NEW t \in Tasks, Call(t) PROVE IInv'
  BY <1>1, CallInv
<1>2. ASSUME NEW t \in Tasks, Return(t) PROVE IInv'
  BY <1>2, ReturnInv
<1>3. CASE StoreBegin \/ StoreWrite
  BY <1>3, StoreInv
<1>4. CASE Restart
  BY <1>4, RestartInv
<1>5. CASE UNCHANGED coordVars
  BY <1>5 DEF coordVars, IInv, CoordTypeOK, QueueConsistent, SavesInOrder, IdleMeansSaved
<1> QED BY <1>1, <1>2, <1>3, <1>4, <1>5 DEF CoordNext

\* The inductive invariant holds in every reachable state.
THEOREM Inductive == CoordSpec => []IInv
<1>1. CoordInit => IInv
  BY InitInv
<1>2. IInv /\ [CoordNext]_coordVars => IInv'
  BY NextInv
<1> QED BY <1>1, <1>2, PTL DEF CoordSpec

-----------------------------------------------------------------------------
\* The variables have their types, whoever calls the coordinator.
THEOREM TypeCorrect == CoordSpec => []CoordTypeOK
<1>1. IInv => CoordTypeOK
  BY DEF IInv
<1> QED BY <1>1, Inductive, PTL

\* The queue's lists and the file stay bounded, free of duplicates and
\* consistent with each other, through overflows, clearing and restarts.
THEOREM Consistent == CoordSpec => []QueueConsistent
<1>1. IInv => QueueConsistent
  BY DEF IInv
<1> QED BY <1>1, Inductive, PTL

\* No method of the coordinator changes the queue without its contents
\* reaching the file by the time the last caller's save returns.
THEOREM EverythingIsSaved == CoordSpec => []IdleMeansSaved
<1>1. IInv => IdleMeansSaved
  BY DEF IInv
<1> QED BY <1>1, Inductive, PTL

\* Writing the queue and loading it again loses no pending event, no deferral
\* and no fingerprint, and makes no pending event acceptable again.
THEOREM RestartIsLossless == CoordSpec => []RestartKeepsWork
<1>1. IInv => RestartKeepsWork
  <2> SUFFICES ASSUME IInv PROVE RestartKeepsWork
    OBVIOUS
  <2> DEFINE d == AsStorage(queue)
             restored == Load(d)
  <2>1. queue \in QueueType /\ QueueOK(queue)
    BY DEF IInv, CoordTypeOK, QueueConsistent
  <2>2. /\ queue.processed \in Seq(Events) /\ queue.pending \in Seq(Events)
        /\ queue.completed \in Seq(Recordings)
        /\ Len(queue.pending) <= MaxPending /\ Len(queue.completed) <= MaxCompleted
    BY <2>1 DEF QueueType, QueueOK
  <2>3. LastOf(queue.pending, MaxPending) = queue.pending
    BY <2>2, LastOfProperties, BoundsAssumption
  <2>4. LastOf(queue.completed, MaxCompleted) = queue.completed
    BY <2>2, LastOfProperties, BoundsAssumption
  <2>5. LET once == LastOf(queue.processed, MaxProcessed)
        IN  LastOf(once, MaxProcessed) = once /\ IdsOf(once) \subseteq IdsOf(queue.processed)
    BY <2>2, LastOfProperties, BoundsAssumption
  <2>6. restored.pending = queue.pending /\ restored.completed = queue.completed
    BY <2>3, <2>4 DEF Load, AsStorage
  <2>7. restored.deferred = queue.deferred
    BY <2>1, <2>3 DEF Load, AsStorage, QueueOK
  <2>8. restored.seen \subseteq queue.seen
    BY <2>1, <2>3, <2>5 DEF Load, AsStorage, QueueOK
  <2> QED BY <2>6, <2>7, <2>8 DEF RestartKeepsWork
<1> QED BY <1>1, Inductive, PTL
=============================================================================
