--------------------------- MODULE LocalGateProofs ---------------------------
(***************************************************************************)
(* Proofs about LocalGate: the gate of a path is one gate whose counters    *)
(* are the leases it gave out, its queue never holds a waiter that could be *)
(* granted, and nobody overtakes the queue, for any number of goroutines.   *)
(***************************************************************************)
EXTENDS LocalGate, FiniteSetTheorems, SequenceTheorems, WellFoundedInduction, TLAPS

(***************************************************************************)
(* The inductive invariant.  Only the registered entry has a gate in use;   *)
(* its counters are the goroutines that hold it or were granted it, its     *)
(* queue is the goroutines that wait and were not granted, each of them     *)
(* once.                                                                    *)
(***************************************************************************)
Held(P) == {g \in Goroutines : P[g] = "held"}
WaitingIn(P, G) == {g \in Goroutines : P[g] = "waiting"} \ G
InMode(A, M, m) == {g \in A : M[g] = m}

\* The counters of gate are right when the goroutines of A hold it.
Exact(gate, A, M) ==
    /\ gate.readers = Cardinality(InMode(A, M, "shared"))
    /\ gate.writer <=> InMode(A, M, "exclusive") # {}
    /\ \A g \in InMode(A, M, "exclusive") : A = {g}

\* The queue q consists of the goroutines of W, each of them once.
Orderly(q, W) ==
    /\ \A i \in 1..Len(q) : q[i] \in W
    /\ \A g \in W : \E i \in 1..Len(q) : q[i] = g
    /\ \A i, j \in 1..Len(q) : q[i] = q[j] => i = j

References(E, e) == {g \in Goroutines : E[g] = e}

RefInv ==
    /\ \A e \in Entries : refs[e] = Cardinality(References(entryOf, e))
    /\ \A g \in Goroutines : pc[g] = "idle" <=> entryOf[g] = None
    /\ OneGatePerPath
GrantInv == \A g \in granted : pc[g] = "waiting"
QuietInv == \A e \in Entries : e # entry => gates[e] = EmptyGate
CountInv == entry # None => Exact(gates[entry], Held(pc) \cup granted, mode)
QueueInv == entry # None => Orderly(gates[entry].waiters, WaitingIn(pc, granted))

IInv ==
    /\ TypeOK /\ RefInv /\ GrantInv /\ QuietInv /\ CountInv /\ QueueInv
    /\ NoStrandedWaiter

-----------------------------------------------------------------------------
(* Numbers and finite sets.                                                 *)

\* A set of natural numbers has a least element.
LEMMA LeastNat ==
    ASSUME NEW T \in SUBSET Nat, T # {}
    PROVE  \E x \in T : \A y \in T : x <= y
<1> DEFINE R == OpToRel(<, Nat)
<1>1. IsWellFoundedOn(R, Nat)
    BY NatLessThanWellFounded
<1>2. \A x, y \in T : <<y, x>> \in R <=> y < x
    BY DEF OpToRel
<1> HIDE DEF R
<1>3. PICK x \in T : \A y \in T : ~(<<y, x>> \in R)
    BY <1>1, WFMin
<1>4. \A y \in T : ~(y < x)
    BY <1>2, <1>3
<1>5. \A y \in T : y \in Nat /\ x \in Nat
    OBVIOUS
<1> QED
    BY <1>4, <1>5

\* Sets of goroutines are finite.
LEMMA FinitelyMany ==
    ASSUME NEW A \in SUBSET Goroutines
    PROVE  IsFiniteSet(A) /\ Cardinality(A) \in Nat
<1>1. IsFiniteSet(A)
    BY FiniteGoroutines, FS_Subset
<1> QED
    BY <1>1, FS_CardinalityType

\* The first n members of a queue without repetitions are n goroutines.
LEMMA PrefixCardinality ==
    ASSUME NEW q \in Seq(Goroutines), NEW n \in 0..Len(q),
           \A i, j \in 1..Len(q) : q[i] = q[j] => i = j
    PROVE  Cardinality({q[i] : i \in 1..n}) = n
<1> DEFINE T == {q[i] : i \in 1..n}
           f == [i \in 1..n |-> q[i]]
<1>1. Len(q) \in Nat /\ n \in Nat /\ 1..n \subseteq 1..Len(q)
    OBVIOUS
<1>2. f \in Bijection(1..n, T)
  <2>1. \A i, j \in 1..n : f[i] = f[j] => i = j
    BY <1>1
  <2>2. f \in [1..n -> T] /\ \A t \in T : \E i \in 1..n : f[i] = t
    OBVIOUS
  <2> HIDE DEF f, T
  <2> QED
    BY <2>1, <2>2 DEF Bijection, Injection, Surjection, IsInjective
<1>3. ExistsBijection(1..n, T)
    BY <1>2 DEF ExistsBijection
<1>4. IsFiniteSet(1..n) /\ Cardinality(1..n) = n
    BY <1>1, FS_Interval
<1> QED
    BY <1>3, <1>4, FS_Bijection

-----------------------------------------------------------------------------
(* What grantWaiters does to a gate.                                        *)

\* grantWaiters grants nobody when the first waiter has to wait; otherwise a
\* writer alone, or the readers up to the next writer.
LEMMA GrantCountFacts ==
    ASSUME mode \in [Goroutines -> Modes], NEW gate \in Gates
    PROVE  LET n == GrantCount(gate)
               q == gate.waiters IN
           /\ n \in 0..Len(q)
           /\ n = 0 => q = <<>> \/ ~CanGrant(gate, mode[q[1]])
           /\ n > 0 => Len(q) > 0 /\ CanGrant(gate, mode[q[1]])
           /\ n > 0 /\ mode[q[1]] = "exclusive" => n = 1
           /\ n > 0 /\ mode[q[1]] # "exclusive" =>
                 /\ \A i \in 1..n : mode[q[i]] = "shared"
                 /\ n = Len(q) \/ mode[q[n + 1]] = "exclusive"
<1> DEFINE q == gate.waiters
<1>1. q \in Seq(Goroutines) /\ Len(q) \in Nat /\ (q # <<>> => Len(q) > 0)
    BY EmptySeq DEF Gates
<1>2. \A i \in 1..Len(q) : mode[q[i]] \in {"shared", "exclusive"}
    BY <1>1 DEF Modes
<1>3. CASE q = <<>>
    BY <1>1, <1>3 DEF GrantCount
<1>4. CASE q # <<>> /\ ~CanGrant(gate, mode[q[1]])
    BY <1>1, <1>4 DEF GrantCount
<1>5. CASE q # <<>> /\ CanGrant(gate, mode[q[1]]) /\ mode[q[1]] = "exclusive"
    BY <1>1, <1>5 DEF GrantCount
<1>6. CASE q # <<>> /\ CanGrant(gate, mode[q[1]]) /\ mode[q[1]] # "exclusive"
  <2> DEFINE P(k) == /\ \A i \in 1..k : mode[q[i]] = "shared"
                     /\ k = Len(q) \/ mode[q[k + 1]] = "exclusive"
             T == {k \in 1..Len(q) : k = Len(q) \/ mode[q[k + 1]] = "exclusive"}
  <2>1. T \in SUBSET Nat /\ Len(q) \in T
    BY <1>1, <1>6
  <2>2. PICK k \in T : \A j \in T : k <= j
    BY <2>1, LeastNat
  <2>3. k \in 1..Len(q) /\ k \in Nat
    BY <1>1
  <2>4. ASSUME NEW i \in 1..k PROVE mode[q[i]] = "shared"
    <3>1. CASE i = 1
      BY <1>1, <1>2, <1>6, <3>1
    <3>2. CASE i # 1
      <4>1. i - 1 \in 1..Len(q) /\ i - 1 < k /\ i - 1 + 1 = i /\ i \in 1..Len(q)
        BY <1>1, <2>3, <3>2
      <4>2. i - 1 \notin T
        BY <2>2, <2>3, <4>1
      <4> QED
        BY <1>2, <4>1, <4>2
    <3> QED
      BY <3>1, <3>2
  <2>5. \E j \in 1..Len(q) : P(j)
    BY <2>3, <2>4
  <2>6. GrantCount(gate) = CHOOSE j \in 1..Len(q) : P(j)
    BY <1>6 DEF GrantCount
  <2>7. GrantCount(gate) \in 1..Len(q) /\ P(GrantCount(gate))
    BY <2>5, <2>6
  <2> QED
    BY <1>1, <1>6, <2>7
<1> QED
    BY <1>3, <1>4, <1>5, <1>6

\* The queue grantWaiters leaves: the waiters behind those it granted.
LEMMA ServedQueue ==
    ASSUME mode \in [Goroutines -> Modes], NEW gate \in Gates
    PROVE  LET n == GrantCount(gate)
               q == gate.waiters
               r == Served(gate).waiters IN
           /\ r \in Seq(Goroutines)
           /\ Len(r) = Len(q) - n
           /\ \A i \in 1..Len(r) : r[i] = q[n + i]
<1> DEFINE q == gate.waiters
           n == GrantCount(gate)
<1>1. q \in Seq(Goroutines) /\ Len(q) \in Nat /\ n \in 0..Len(q)
    BY GrantCountFacts DEF Gates
<1>2. \A i \in n + 1..Len(q) : q[i] \in Goroutines
    BY <1>1
<1>3. /\ SubSeq(q, n + 1, Len(q)) \in Seq(Goroutines)
      /\ Len(SubSeq(q, n + 1, Len(q))) = Len(q) - n
      /\ \A i \in 1..Len(q) - n : SubSeq(q, n + 1, Len(q))[i] = q[n + i]
  <2> HIDE DEF q, n
  <2>1. n + 1 \in Int /\ Len(q) \in Int
    BY <1>1
  <2>2. /\ SubSeq(q, n + 1, Len(q)) \in Seq(Goroutines)
        /\ Len(SubSeq(q, n + 1, Len(q))) = IF n + 1 <= Len(q) THEN Len(q) - (n + 1) + 1 ELSE 0
        /\ \A i \in 1..Len(q) - (n + 1) + 1 : SubSeq(q, n + 1, Len(q))[i] = q[n + 1 + i - 1]
    BY <1>2, <2>1, SubSeqProperties
  <2> QED
    BY <1>1, <2>2
<1>4. Served(gate).waiters = IF n = 0 THEN q ELSE SubSeq(q, n + 1, Len(q))
    BY DEF Served, MarkGranted, Gates
<1>5. CASE n = 0
    BY <1>1, <1>4, <1>5
<1>6. CASE n # 0
    BY <1>3, <1>4, <1>6
<1> QED
    BY <1>5, <1>6

\* grantWaiters keeps the counters and the queue right, and whoever is first in
\* the queue afterwards has to wait.
LEMMA ServedFacts ==
    ASSUME mode \in [Goroutines -> Modes], NEW gate \in Gates,
           NEW A \in SUBSET Goroutines, NEW W \in SUBSET Goroutines, A \cap W = {},
           Exact(gate, A, mode), Orderly(gate.waiters, W)
    PROVE  /\ Served(gate) \in Gates
           /\ Woken(gate) \subseteq W
           /\ Exact(Served(gate), A \cup Woken(gate), mode)
           /\ Orderly(Served(gate).waiters, W \ Woken(gate))
           /\ Served(gate).waiters # <<>> =>
                 ~CanGrant(Served(gate), mode[Head(Served(gate).waiters)])
<1> DEFINE q == gate.waiters
           n == GrantCount(gate)
           r == Served(gate).waiters
<1>1. q \in Seq(Goroutines) /\ Len(q) \in Nat /\ n \in 0..Len(q) /\ n \in Nat
    BY GrantCountFacts DEF Gates
<1>2. r \in Seq(Goroutines) /\ Len(r) = Len(q) - n /\ \A i \in 1..Len(r) : r[i] = q[n + i]
    BY ServedQueue
<1>3. \A i \in 1..Len(q) : q[i] \in W /\ q[i] \notin A
    BY DEF Orderly
<1>4. Woken(gate) = {q[i] : i \in 1..n} /\ Woken(gate) \subseteq W
    BY <1>1, <1>3 DEF Woken
<1>5. Orderly(r, W \ Woken(gate))
  <2> HIDE DEF q, n, r
  <2>1. Orderly(q, W)
    BY DEF q
  <2>2. \A i \in 1..Len(r) : n + i \in 1..Len(q) /\ n + i \notin 1..n
    BY <1>1, <1>2
  <2>3. \A i \in 1..Len(r) : r[i] \in W \ Woken(gate)
    BY <1>1, <1>2, <1>4, <2>1, <2>2 DEF Orderly
  <2>4. ASSUME NEW g \in W \ Woken(gate) PROVE \E i \in 1..Len(r) : r[i] = g
    <3>1. PICK j \in 1..Len(q) : q[j] = g
      BY <2>1 DEF Orderly
    <3>2. j > n
      BY <1>1, <1>4, <3>1
    <3>3. j - n \in 1..Len(r) /\ n + (j - n) = j
      BY <1>1, <1>2, <3>2
    <3> QED
      BY <1>2, <3>1, <3>3
  <2>5. ASSUME NEW i \in 1..Len(r), NEW j \in 1..Len(r), r[i] = r[j] PROVE i = j
    <3>1. n + i = n + j
      BY <1>2, <2>1, <2>2, <2>5 DEF Orderly
    <3> QED
      BY <1>1, <1>2, <3>1
  <2> QED
    BY <2>3, <2>4, <2>5 DEF Orderly
<1>6. IsFiniteSet(A) /\ Cardinality(InMode(A, mode, "shared")) \in Nat
    BY FinitelyMany DEF InMode
<1>7. CASE n = 0
  <2>1. Served(gate) = gate /\ Woken(gate) = {}
    BY <1>4, <1>7 DEF Served
  <2>2. q = <<>> \/ ~CanGrant(gate, mode[q[1]])
    BY <1>7, GrantCountFacts
  <2>3. q # <<>> => Head(q) = q[1]
    BY <1>1
  <2>4. Served(gate).waiters # <<>> => ~CanGrant(Served(gate), mode[Head(Served(gate).waiters)])
    BY <2>1, <2>2, <2>3
  <2>5. A \cup Woken(gate) = A
    BY <2>1
  <2> QED
    BY <1>4, <1>5, <2>1, <2>4, <2>5
<1>8. CASE n > 0 /\ mode[q[1]] = "exclusive"
  <2>1. n = 1 /\ CanGrant(gate, "exclusive") /\ Len(q) > 0
    BY <1>8, GrantCountFacts
  <2>2. Woken(gate) = {q[1]} /\ q[1] \notin A
    BY <1>1, <1>3, <1>4, <2>1
  <2>3. Served(gate).writer = TRUE /\ Served(gate).readers = gate.readers /\ Served(gate) \in Gates
    <3> DEFINE X == SubSeq(q, n + 1, Len(q))
    <3>1. Served(gate) = [[gate EXCEPT !.waiters = X] EXCEPT !.writer = TRUE]
      BY <1>8 DEF Served, MarkGranted
    <3>2. r = X
      BY <3>1 DEF Gates
    <3> HIDE DEF X
    <3> QED
      BY <1>2, <3>1, <3>2 DEF Gates
  <2>4. InMode(A, mode, "shared") = {} /\ InMode(A, mode, "exclusive") = {}
    BY <1>6, <2>1, FinitelyMany, FS_EmptySet DEF CanGrant, Exact, InMode
  <2>5. A = {}
    BY <2>4 DEF InMode, Modes
  <2>6. Exact(Served(gate), A \cup Woken(gate), mode)
    <3>1. InMode({q[1]}, mode, "shared") = {} /\ InMode({q[1]}, mode, "exclusive") = {q[1]}
      BY <1>8 DEF InMode
    <3>2. gate.readers = 0
      BY <2>1 DEF CanGrant
    <3> QED
      BY <2>2, <2>3, <2>5, <3>1, <3>2, FS_EmptySet DEF Exact
  <2> QED
    BY <1>4, <1>5, <2>3, <2>6 DEF CanGrant
<1>9. CASE n > 0 /\ mode[q[1]] # "exclusive"
  <2>1. /\ \A i \in 1..n : mode[q[i]] = "shared"
        /\ n = Len(q) \/ mode[q[n + 1]] = "exclusive"
        /\ CanGrant(gate, mode[q[1]]) /\ Len(q) > 0
    BY <1>9, GrantCountFacts
  <2>2. Served(gate).writer = gate.writer /\ Served(gate).readers = gate.readers + n
        /\ Served(gate) \in Gates
    <3> DEFINE X == SubSeq(q, n + 1, Len(q))
    <3>1. Served(gate) = [[gate EXCEPT !.waiters = X] EXCEPT !.readers = @ + n]
      BY <1>9 DEF Served
    <3>2. r = X
      BY <3>1 DEF Gates
    <3>3. X \in Seq(Goroutines)
      BY <1>2, <3>2
    <3> HIDE DEF X, n
    <3>4. gate.readers + n \in Nat
      BY <1>1 DEF Gates
    <3> QED
      BY <3>1, <3>3, <3>4 DEF Gates
  <2>3. InMode(A, mode, "exclusive") = {}
    BY <2>1 DEF CanGrant, Exact
  <2>4. InMode(A \cup Woken(gate), mode, "exclusive") = {}
    BY <1>4, <2>1, <2>3 DEF InMode
  <2>5. Cardinality(Woken(gate)) = n
    BY <1>1, <1>4, PrefixCardinality DEF Orderly
  <2>6. InMode(A \cup Woken(gate), mode, "shared") = InMode(A, mode, "shared") \cup Woken(gate)
        /\ InMode(A, mode, "shared") \cap Woken(gate) = {}
    BY <1>3, <1>4, <2>1 DEF InMode
  <2>7. Cardinality(InMode(A, mode, "shared") \cup Woken(gate))
           = Cardinality(InMode(A, mode, "shared")) + n
    <3>1. IsFiniteSet(InMode(A, mode, "shared")) /\ IsFiniteSet(Woken(gate))
      BY <1>4, FinitelyMany DEF InMode
    <3>2. Cardinality(InMode(A, mode, "shared") \cup Woken(gate))
             = Cardinality(InMode(A, mode, "shared")) + Cardinality(Woken(gate))
               - Cardinality(InMode(A, mode, "shared") \cap Woken(gate))
      BY <3>1, FS_Union
    <3>3. Cardinality(InMode(A, mode, "shared") \cap Woken(gate)) = 0
      BY <2>6, FS_EmptySet
    <3> HIDE DEF n
    <3> QED
      BY <1>1, <1>6, <2>5, <3>2, <3>3
  <2>8. Exact(Served(gate), A \cup Woken(gate), mode)
    BY <2>2, <2>3, <2>4, <2>6, <2>7 DEF Exact
  <2>9. ASSUME r # <<>> PROVE ~CanGrant(Served(gate), mode[Head(r)])
    <3>1. Len(r) > 0 /\ Head(r) = q[n + 1] /\ n # Len(q)
      <4>1. Len(r) > 0 /\ Head(r) = r[1]
        BY <1>2, <2>9, EmptySeq
      <4> HIDE DEF r, n
      <4> QED
        BY <1>1, <1>2, <4>1
    <3>2. gate.readers \in Nat
      BY DEF Gates
    <3> QED
      BY <1>1, <1>9, <2>1, <2>2, <3>1, <3>2 DEF CanGrant
  <2> QED
    BY <1>4, <1>5, <2>2, <2>8, <2>9
<1> QED
    BY <1>1, <1>7, <1>8, <1>9

-----------------------------------------------------------------------------
(* One grant and one release, and leaving the queue.                        *)

\* markGranted keeps the counters right when canGrant allowed it.
LEMMA MarkGrantedFacts ==
    ASSUME mode \in [Goroutines -> Modes], NEW gate \in Gates, NEW g \in Goroutines,
           NEW A \in SUBSET Goroutines, g \notin A, Exact(gate, A, mode), CanGrant(gate, mode[g])
    PROVE  /\ MarkGranted(gate, mode[g]) \in Gates
           /\ MarkGranted(gate, mode[g]).waiters = gate.waiters
           /\ Exact(MarkGranted(gate, mode[g]), A \cup {g}, mode)
<1>1. IsFiniteSet(InMode(A, mode, "shared"))
    BY FinitelyMany DEF InMode
<1>2. gate.readers \in Nat /\ InMode(A, mode, "exclusive") = {}
    BY DEF CanGrant, Exact, Gates
<1>3. CASE mode[g] = "shared"
  <2>1. /\ InMode(A \cup {g}, mode, "shared") = InMode(A, mode, "shared") \cup {g}
        /\ InMode(A \cup {g}, mode, "exclusive") = {}
        /\ g \notin InMode(A, mode, "shared")
    BY <1>2, <1>3 DEF InMode
  <2>2. Cardinality(InMode(A, mode, "shared") \cup {g}) = gate.readers + 1
    BY <1>1, <2>1, FS_AddElement DEF Exact
  <2>3. MarkGranted(gate, mode[g]) = [gate EXCEPT !.readers = @ + 1]
    BY <1>3 DEF MarkGranted
  <2>4. ~gate.writer
    BY DEF CanGrant
  <2> QED
    <3>1. MarkGranted(gate, mode[g]) \in Gates /\ MarkGranted(gate, mode[g]).waiters = gate.waiters
          /\ MarkGranted(gate, mode[g]).readers = gate.readers + 1
          /\ ~MarkGranted(gate, mode[g]).writer
      BY <1>2, <2>3, <2>4 DEF Gates
    <3> QED
      BY <2>1, <2>2, <3>1 DEF Exact
<1>4. CASE mode[g] # "shared"
  <2>1. mode[g] = "exclusive"
    BY <1>4 DEF Modes
  <2>2. gate.readers = 0
    BY <2>1 DEF CanGrant
  <2>3. A = {}
    BY <1>1, <1>2, <2>2, FS_EmptySet DEF Exact, InMode, Modes
  <2>4. InMode(A \cup {g}, mode, "shared") = {} /\ InMode(A \cup {g}, mode, "exclusive") = {g}
    BY <2>1, <2>3 DEF InMode
  <2>5. MarkGranted(gate, mode[g]) = [gate EXCEPT !.writer = TRUE]
    BY <1>4 DEF MarkGranted
  <2> QED
    <3>1. MarkGranted(gate, mode[g]) \in Gates /\ MarkGranted(gate, mode[g]).waiters = gate.waiters
          /\ MarkGranted(gate, mode[g]).readers = 0 /\ MarkGranted(gate, mode[g]).writer
      BY <2>2, <2>5 DEF Gates
    <3>2. A \cup {g} = {g}
      BY <2>3
    <3> QED
      BY <2>4, <3>1, <3>2, FS_EmptySet DEF Exact
<1> QED
    BY <1>3, <1>4

\* markReleased keeps the counters right when its caller had the gate.
LEMMA MarkReleasedFacts ==
    ASSUME mode \in [Goroutines -> Modes], NEW gate \in Gates, NEW g \in Goroutines,
           NEW A \in SUBSET Goroutines, g \in A, Exact(gate, A, mode)
    PROVE  /\ MarkReleased(gate, mode[g]) \in Gates
           /\ MarkReleased(gate, mode[g]).waiters = gate.waiters
           /\ Exact(MarkReleased(gate, mode[g]), A \ {g}, mode)
<1>1. IsFiniteSet(InMode(A, mode, "shared")) /\ Cardinality(InMode(A, mode, "shared")) \in Nat
    BY FinitelyMany DEF InMode
<1>2. gate.readers \in Nat
    BY DEF Gates
<1>3. CASE mode[g] = "shared"
  <2>1. /\ InMode(A \ {g}, mode, "shared") = InMode(A, mode, "shared") \ {g}
        /\ g \in InMode(A, mode, "shared")
    BY <1>3 DEF InMode
  <2>2. InMode(A, mode, "exclusive") = {} /\ InMode(A \ {g}, mode, "exclusive") = {}
    BY <1>3 DEF Exact, InMode
  <2>3. Cardinality(InMode(A, mode, "shared") \ {g}) = gate.readers - 1
        /\ IsFiniteSet(InMode(A, mode, "shared") \ {g})
    BY <1>1, <2>1, FS_RemoveElement DEF Exact
  <2>4. gate.readers - 1 \in Nat
    BY <2>3, FS_CardinalityType
  <2>5. MarkReleased(gate, mode[g]) = [gate EXCEPT !.readers = @ - 1]
    BY <1>3 DEF MarkReleased
  <2> QED
    BY <2>1, <2>2, <2>3, <2>4, <2>5 DEF Exact, Gates
<1>4. CASE mode[g] # "shared"
  <2>1. A = {g}
    BY <1>4 DEF Exact, InMode, Modes
  <2>2. /\ InMode(A \ {g}, mode, "shared") = {} /\ InMode(A, mode, "shared") = {}
        /\ InMode(A \ {g}, mode, "exclusive") = {}
    BY <1>4, <2>1 DEF InMode
  <2>3. MarkReleased(gate, mode[g]) = [gate EXCEPT !.writer = FALSE]
    BY <1>4 DEF MarkReleased
  <2> QED
    BY <2>2, <2>3 DEF Exact, Gates
<1> QED
    BY <1>3, <1>4

\* A waiter that leaves the queue moves those behind it up by one.
LEMMA LeaveFacts ==
    ASSUME NEW q \in Seq(Goroutines), NEW W \in SUBSET Goroutines, Orderly(q, W), NEW g \in W
    PROVE  \E k \in 1..Len(q) :
              /\ q[k] = g
              /\ Leave(q, g) \in Seq(Goroutines)
              /\ Len(Leave(q, g)) = Len(q) - 1
              /\ \A j \in 1..(Len(q) - 1) : Leave(q, g)[j] = IF j < k THEN q[j] ELSE q[j + 1]
<1> DEFINE k == CHOOSE i \in 1..Len(q) : q[i] = g
<1>1. Len(q) \in Nat /\ k \in 1..Len(q) /\ q[k] = g
    BY DEF Orderly
<1>2. Leave(q, g) = Without(q, k)
    BY <1>1 DEF Leave
<1> HIDE DEF k
<1>3. Len(q) - 1 \in Nat /\ \A j \in 1..(Len(q) - 1) : (IF j < k THEN q[j] ELSE q[j + 1]) \in Goroutines
    BY <1>1
<1>4. Without(q, k) \in Seq(Goroutines) /\ Len(Without(q, k)) = Len(q) - 1
    BY <1>3 DEF Without
<1>5. \A j \in 1..(Len(q) - 1) : Without(q, k)[j] = IF j < k THEN q[j] ELSE q[j + 1]
    BY DEF Without
<1> QED
    BY <1>1, <1>2, <1>4, <1>5

\* The queue without a waiter that leaves.
LEMMA LeaveIsOrderly ==
    ASSUME NEW q \in Seq(Goroutines), NEW W \in SUBSET Goroutines, Orderly(q, W), NEW g \in W
    PROVE  Leave(q, g) \in Seq(Goroutines) /\ Orderly(Leave(q, g), W \ {g})
<1> DEFINE r == Leave(q, g)
<1>1. PICK k \in 1..Len(q) :
         /\ q[k] = g /\ r \in Seq(Goroutines) /\ Len(r) = Len(q) - 1
         /\ \A j \in 1..(Len(q) - 1) : r[j] = IF j < k THEN q[j] ELSE q[j + 1]
    BY LeaveFacts
<1> HIDE DEF r
<1>2. Len(q) \in Nat
    OBVIOUS
<1>3. ASSUME NEW j \in 1..Len(r) PROVE r[j] \in W \ {g}
    BY <1>1, <1>2 DEF Orderly
<1>4. ASSUME NEW h \in W \ {g} PROVE \E j \in 1..Len(r) : r[j] = h
  <2>1. PICK i \in 1..Len(q) : q[i] = h /\ i # k
    BY <1>1 DEF Orderly
  <2>2. CASE i < k
    BY <1>1, <1>2, <2>1, <2>2
  <2>3. CASE i > k
    <3>1. i - 1 \in 1..Len(r) /\ ~(i - 1 < k) /\ i - 1 + 1 = i
      BY <1>1, <1>2, <2>3
    <3> QED
      BY <1>1, <2>1, <3>1
  <2> QED
    BY <1>1, <1>2, <2>1, <2>2, <2>3
<1>5. ASSUME NEW i \in 1..Len(r), NEW j \in 1..Len(r), r[i] = r[j] PROVE i = j
    BY <1>1, <1>2, <1>5 DEF Orderly
<1> QED
    BY <1>1, <1>3, <1>4, <1>5 DEF Orderly, r

\* The queue with a new waiter behind the others.
LEMMA AppendIsOrderly ==
    ASSUME NEW q \in Seq(Goroutines), NEW W \in SUBSET Goroutines, Orderly(q, W),
           NEW g \in Goroutines, g \notin W
    PROVE  Append(q, g) \in Seq(Goroutines) /\ Orderly(Append(q, g), W \cup {g})
<1>1. /\ Append(q, g) \in Seq(Goroutines) /\ Len(q) \in Nat /\ Len(Append(q, g)) = Len(q) + 1
      /\ \A i \in 1..Len(q) : Append(q, g)[i] = q[i]
      /\ Append(q, g)[Len(q) + 1] = g
    BY AppendProperties
<1>2. \A i \in 1..Len(q) + 1 : i \in 1..Len(q) \/ i = Len(q) + 1
    BY <1>1
<1> QED
    BY <1>1, <1>2 DEF Orderly

-----------------------------------------------------------------------------
(* The invariant: the initial states and the steps.                         *)

\* Every goroutine with a reference uses the registered entry.
LEMMA UsesEntry ==
    ASSUME IInv, NEW g \in Goroutines, pc[g] # "idle"
    PROVE  entryOf[g] = entry /\ entry \in Entries /\ entry # None
BY EntryAssumption DEF IInv, RefInv, OneGatePerPath, TypeOK

\* With no goroutine and no entry in use the invariant holds.
LEMMA InitIInv ==
    ASSUME Init
    PROVE  IInv
<1> USE DEF Init
<1>1. TypeOK
    BY EmptySeq DEF TypeOK, EmptyGate, Gates, Modes
<1>2. RefInv
  <2>1. ASSUME NEW e \in Entries PROVE refs[e] = Cardinality(References(entryOf, e))
    BY EntryAssumption, FS_EmptySet DEF References
  <2> QED
    BY <2>1 DEF RefInv, OneGatePerPath
<1>3. NoStrandedWaiter
    BY DEF NoStrandedWaiter, EmptyGate
<1>4. GrantInv /\ QuietInv /\ CountInv /\ QueueInv
    BY DEF GrantInv, QuietInv, CountInv, QueueInv
<1> QED
    BY <1>1, <1>2, <1>3, <1>4 DEF IInv

\* A step that ends in grantWaiters keeps the invariant if the gate it passes on
\* has the right counters and the right queue.
LEMMA GrantStep ==
    ASSUME IInv, entry \in Entries, entry # None, NEW gate \in Gates,
           NEW woken \in SUBSET Goroutines, GrantWaiters(entry, gate, woken),
           UNCHANGED <<mode, try, entryOf, entry, refs>>,
           pc' \in [Goroutines -> {"idle", "ref", "waiting", "held", "drop"}],
           \A h \in Goroutines : pc'[h] = "idle" <=> pc[h] = "idle",
           \A h \in woken : pc'[h] = "waiting",
           Exact(gate, Held(pc') \cup woken, mode),
           Orderly(gate.waiters, WaitingIn(pc', woken))
    PROVE  /\ IInv'
           /\ Woken(gate) \subseteq WaitingIn(pc', woken)
           /\ Orderly(gates'[entry].waiters, WaitingIn(pc', woken) \ Woken(gate))
<1> DEFINE A == Held(pc') \cup woken
           W == WaitingIn(pc', woken)
<1>1. mode \in [Goroutines -> Modes] /\ A \in SUBSET Goroutines /\ W \in SUBSET Goroutines
      /\ A \cap W = {}
    BY DEF IInv, TypeOK, Held, WaitingIn
<1>2. /\ Served(gate) \in Gates
      /\ Woken(gate) \subseteq W
      /\ Exact(Served(gate), A \cup Woken(gate), mode)
      /\ Orderly(Served(gate).waiters, W \ Woken(gate))
      /\ Served(gate).waiters # <<>> => ~CanGrant(Served(gate), mode[Head(Served(gate).waiters)])
    BY <1>1, ServedFacts
<1>3. /\ granted' = woken \cup Woken(gate)
      /\ Held(pc') \cup granted' = A \cup Woken(gate)
      /\ WaitingIn(pc', granted') = W \ Woken(gate)
    BY DEF GrantWaiters, WaitingIn
<1>4. gates \in [Entries -> Gates] /\ gates' = [gates EXCEPT ![entry] = Served(gate)]
    BY DEF IInv, TypeOK, GrantWaiters
<1>5. gates'[entry] = Served(gate) /\ \A e \in Entries : e # entry => gates'[e] = gates[e]
    BY <1>4
<1>6. TypeOK'
    BY <1>1, <1>2, <1>3, <1>4 DEF IInv, TypeOK
<1>7. RefInv'
    BY DEF IInv, RefInv, OneGatePerPath
<1>8. GrantInv'
    BY <1>2, <1>3 DEF GrantInv, WaitingIn
<1>9. QuietInv'
    BY <1>5 DEF IInv, QuietInv
<1>10. CountInv'
    BY <1>2, <1>3, <1>5 DEF CountInv
<1>11. QueueInv'
    BY <1>2, <1>3, <1>5 DEF QueueInv
<1>12. NoStrandedWaiter'
  <2> SUFFICES ASSUME NEW e \in Entries, gates'[e].waiters # <<>>
               PROVE  ~CanGrant(gates'[e], mode[Head(gates'[e].waiters)])
    BY DEF NoStrandedWaiter
  <2> QED
    BY <1>2, <1>5 DEF IInv, NoStrandedWaiter
<1> QED
    BY <1>2, <1>5, <1>6, <1>7, <1>8, <1>9, <1>10, <1>11, <1>12 DEF IInv

\* The gate a release passes on.
LEMMA ReleaseGate ==
    ASSUME IInv, NEW g \in Goroutines, g \in Held(pc) \cup granted
    PROVE  LET gate == MarkReleased(gates[entry], mode[g]) IN
           /\ gate \in Gates
           /\ gate.waiters = gates[entry].waiters
           /\ Exact(gate, (Held(pc) \cup granted) \ {g}, mode)
<1>1. pc[g] # "idle"
    BY DEF IInv, GrantInv, Held
<1>2. entry \in Entries /\ entry # None
    BY <1>1, UsesEntry
<1>3. /\ mode \in [Goroutines -> Modes] /\ gates[entry] \in Gates
      /\ Held(pc) \cup granted \in SUBSET Goroutines
    BY <1>2 DEF IInv, TypeOK, Held
<1>4. Exact(gates[entry], Held(pc) \cup granted, mode)
    BY <1>2 DEF IInv, CountInv
<1> QED
    BY <1>3, <1>4, MarkReleasedFacts

\* localLease.release keeps the invariant.
LEMMA ReleaseStep ==
    ASSUME IInv, NEW g \in Goroutines, Release(g)
    PROVE  IInv'
<1> DEFINE gate == MarkReleased(gates[entry], mode[g])
<1>1. pc[g] = "held" /\ pc' = [pc EXCEPT ![g] = "drop"]
    BY DEF Release, Goto
<1>2. entryOf[g] = entry /\ entry \in Entries /\ entry # None
    BY <1>1, UsesEntry
<1>3. gate \in Gates /\ gate.waiters = gates[entry].waiters
      /\ Exact(gate, (Held(pc) \cup granted) \ {g}, mode)
    BY <1>1, ReleaseGate DEF Held
<1>4. GrantWaiters(entry, gate, granted) /\ UNCHANGED <<mode, try, entryOf, entry, refs>>
    BY <1>2 DEF Release
<1>5. pc \in [Goroutines -> {"idle", "ref", "waiting", "held", "drop"}] /\ granted \in SUBSET Goroutines
      /\ g \notin granted
    BY <1>1 DEF IInv, TypeOK, GrantInv
<1>6. /\ pc' \in [Goroutines -> {"idle", "ref", "waiting", "held", "drop"}]
      /\ \A h \in Goroutines : pc'[h] = "idle" <=> pc[h] = "idle"
      /\ \A h \in granted : pc'[h] = "waiting"
    BY <1>1, <1>5 DEF IInv, GrantInv
<1>7. Held(pc') \cup granted = (Held(pc) \cup granted) \ {g}
      /\ WaitingIn(pc', granted) = WaitingIn(pc, granted)
    BY <1>1, <1>5 DEF Held, WaitingIn
<1>8. Orderly(gates[entry].waiters, WaitingIn(pc, granted))
    BY <1>2 DEF IInv, QueueInv
<1> HIDE DEF gate
<1> QED
    BY <1>2, <1>3, <1>4, <1>5, <1>6, <1>7, <1>8, GrantStep

\* The gate, the grants and the queue a cancelled waiter leaves behind.
LEMMA CancelGate ==
    ASSUME IInv, NEW g \in Goroutines, Cancel(g)
    PROVE  /\ entryOf[g] = entry /\ entry \in Entries /\ entry # None
           /\ GiveUpGate(g) \in Gates
           /\ Exact(GiveUpGate(g), Held(pc') \cup (granted \ {g}), mode)
           /\ Orderly(GiveUpGate(g).waiters, WaitingIn(pc', granted \ {g}))
<1>1. pc[g] = "waiting" /\ pc' = [pc EXCEPT ![g] = "drop"]
    BY DEF Cancel, Goto
<1>2. entryOf[g] = entry /\ entry \in Entries /\ entry # None
    BY <1>1, UsesEntry
<1>3. pc \in [Goroutines -> {"idle", "ref", "waiting", "held", "drop"}] /\ granted \in SUBSET Goroutines
      /\ gates[entry] \in Gates
    BY <1>2 DEF IInv, TypeOK
<1>4. Held(pc') \cup (granted \ {g}) = (Held(pc) \cup granted) \ {g}
      /\ WaitingIn(pc', granted \ {g}) = WaitingIn(pc, granted) \ {g}
    BY <1>1, <1>3 DEF Held, WaitingIn
<1>5. Orderly(gates[entry].waiters, WaitingIn(pc, granted)) /\ Exact(gates[entry], Held(pc) \cup granted, mode)
    BY <1>2 DEF IInv, QueueInv, CountInv
<1>6. CASE g \in granted
  <2>1. GiveUpGate(g) = MarkReleased(gates[entry], mode[g])
    BY <1>2, <1>6 DEF GiveUpGate
  <2>2. WaitingIn(pc, granted) \ {g} = WaitingIn(pc, granted)
    BY <1>6 DEF WaitingIn
  <2> QED
    BY <1>2, <1>4, <1>5, <1>6, <2>1, <2>2, ReleaseGate
<1>7. CASE g \notin granted
  <2>1. GiveUpGate(g) = [gates[entry] EXCEPT !.waiters = Leave(@, g)]
    BY <1>2, <1>7 DEF GiveUpGate
  <2>2. (Held(pc) \cup granted) \ {g} = Held(pc) \cup granted
    BY <1>1, <1>7 DEF Held
  <2>3. g \in WaitingIn(pc, granted) /\ WaitingIn(pc, granted) \in SUBSET Goroutines
        /\ gates[entry].waiters \in Seq(Goroutines)
    BY <1>1, <1>3, <1>7 DEF WaitingIn, Gates
  <2>4. /\ Leave(gates[entry].waiters, g) \in Seq(Goroutines)
        /\ Orderly(Leave(gates[entry].waiters, g), WaitingIn(pc, granted) \ {g})
    BY <1>5, <2>3, LeaveIsOrderly
  <2>5. /\ GiveUpGate(g) \in Gates /\ GiveUpGate(g).waiters = Leave(gates[entry].waiters, g)
        /\ GiveUpGate(g).readers = gates[entry].readers /\ GiveUpGate(g).writer = gates[entry].writer
    BY <1>3, <2>1, <2>4 DEF Gates
  <2> QED
    BY <1>2, <1>4, <1>5, <2>2, <2>4, <2>5 DEF Exact
<1> QED
    BY <1>6, <1>7

\* A cancelled waiter keeps the invariant, whether or not it was granted.
LEMMA CancelStep ==
    ASSUME IInv, NEW g \in Goroutines, Cancel(g)
    PROVE  IInv'
<1>1. pc[g] = "waiting" /\ pc' = [pc EXCEPT ![g] = "drop"]
    BY DEF Cancel, Goto
<1>2. /\ entryOf[g] = entry /\ entry \in Entries /\ entry # None
      /\ GiveUpGate(g) \in Gates
      /\ Exact(GiveUpGate(g), Held(pc') \cup (granted \ {g}), mode)
      /\ Orderly(GiveUpGate(g).waiters, WaitingIn(pc', granted \ {g}))
    BY CancelGate
<1>3. GrantWaiters(entry, GiveUpGate(g), granted \ {g}) /\ UNCHANGED <<mode, try, entryOf, entry, refs>>
    BY <1>2 DEF Cancel
<1>4. pc \in [Goroutines -> {"idle", "ref", "waiting", "held", "drop"}] /\ granted \ {g} \in SUBSET Goroutines
    BY DEF IInv, TypeOK
<1>5. /\ pc' \in [Goroutines -> {"idle", "ref", "waiting", "held", "drop"}]
      /\ \A h \in Goroutines : pc'[h] = "idle" <=> pc[h] = "idle"
      /\ \A h \in granted \ {g} : pc'[h] = "waiting"
    BY <1>1, <1>4 DEF IInv, GrantInv
<1> QED
    BY <1>2, <1>3, <1>4, <1>5, GrantStep

\* The gate a new waiter passes on.
LEMMA EnqueueGate ==
    ASSUME IInv, NEW g \in Goroutines, Enqueue(g)
    PROVE  LET gate == [gates[entry] EXCEPT !.waiters = Append(@, g)] IN
           /\ entryOf[g] = entry /\ entry \in Entries /\ entry # None
           /\ gate \in Gates
           /\ gate.waiters = Append(gates[entry].waiters, g)
           /\ Exact(gate, Held(pc') \cup granted, mode)
           /\ Orderly(gate.waiters, WaitingIn(pc', granted))
<1>1. pc[g] = "ref" /\ pc' = [pc EXCEPT ![g] = "waiting"]
    BY DEF Enqueue, Goto
<1>2. entryOf[g] = entry /\ entry \in Entries /\ entry # None
    BY <1>1, UsesEntry
<1>3. pc \in [Goroutines -> {"idle", "ref", "waiting", "held", "drop"}] /\ granted \in SUBSET Goroutines
      /\ gates[entry] \in Gates /\ gates[entry].waiters \in Seq(Goroutines)
    BY <1>2 DEF IInv, TypeOK, Gates
<1>4. g \notin granted /\ g \notin WaitingIn(pc, granted) /\ WaitingIn(pc, granted) \in SUBSET Goroutines
    BY <1>1 DEF IInv, GrantInv, WaitingIn
<1>5. Held(pc') = Held(pc) /\ WaitingIn(pc', granted) = WaitingIn(pc, granted) \cup {g}
    BY <1>1, <1>3, <1>4 DEF Held, WaitingIn
<1>6. Orderly(gates[entry].waiters, WaitingIn(pc, granted)) /\ Exact(gates[entry], Held(pc) \cup granted, mode)
    BY <1>2 DEF IInv, QueueInv, CountInv
<1>7. /\ Append(gates[entry].waiters, g) \in Seq(Goroutines)
      /\ Orderly(Append(gates[entry].waiters, g), WaitingIn(pc, granted) \cup {g})
    BY <1>3, <1>4, <1>6, AppendIsOrderly
<1> DEFINE gate == [gates[entry] EXCEPT !.waiters = Append(@, g)]
<1>8. /\ gate \in Gates /\ gate.waiters = Append(gates[entry].waiters, g)
      /\ gate.readers = gates[entry].readers /\ gate.writer = gates[entry].writer
    BY <1>3, <1>7 DEF Gates
<1> HIDE DEF gate
<1>9. Exact(gate, Held(pc') \cup granted, mode)
    BY <1>5, <1>6, <1>8 DEF Exact
<1> QED
    BY <1>2, <1>5, <1>7, <1>8, <1>9 DEF gate

\* acquire's enqueueing keeps the invariant.
LEMMA EnqueueStep ==
    ASSUME IInv, NEW g \in Goroutines, Enqueue(g)
    PROVE  IInv'
<1> DEFINE gate == [gates[entry] EXCEPT !.waiters = Append(@, g)]
<1>1. pc[g] = "ref" /\ pc' = [pc EXCEPT ![g] = "waiting"]
    BY DEF Enqueue, Goto
<1>2. /\ entryOf[g] = entry /\ entry \in Entries /\ entry # None
      /\ gate \in Gates
      /\ Exact(gate, Held(pc') \cup granted, mode)
      /\ Orderly(gate.waiters, WaitingIn(pc', granted))
    BY EnqueueGate
<1>3. GrantWaiters(entry, gate, granted) /\ UNCHANGED <<mode, try, entryOf, entry, refs>>
    BY <1>2 DEF Enqueue
<1>4. pc \in [Goroutines -> {"idle", "ref", "waiting", "held", "drop"}] /\ granted \in SUBSET Goroutines
    BY DEF IInv, TypeOK
<1>5. /\ pc' \in [Goroutines -> {"idle", "ref", "waiting", "held", "drop"}]
      /\ \A h \in Goroutines : pc'[h] = "idle" <=> pc[h] = "idle"
      /\ \A h \in granted : pc'[h] = "waiting"
    BY <1>1, <1>4 DEF IInv, GrantInv
<1> HIDE DEF gate
<1> QED
    BY <1>2, <1>3, <1>4, <1>5, GrantStep

\* Taking a free gate keeps the invariant.
LEMMA AcquireNowStep ==
    ASSUME IInv, NEW g \in Goroutines, AcquireNow(g)
    PROVE  IInv'
<1> DEFINE gate == gates[entry]
<1>1. pc[g] = "ref" /\ pc' = [pc EXCEPT ![g] = "held"]
      /\ UNCHANGED <<mode, try, entryOf, entry, refs, granted>>
    BY DEF AcquireNow, Goto
<1>2. entryOf[g] = entry /\ entry \in Entries /\ entry # None
    BY <1>1, UsesEntry
<1>3. /\ pc \in [Goroutines -> {"idle", "ref", "waiting", "held", "drop"}] /\ granted \in SUBSET Goroutines
      /\ mode \in [Goroutines -> Modes] /\ gates \in [Entries -> Gates] /\ gates[entry] \in Gates
      /\ Held(pc) \cup granted \in SUBSET Goroutines
    BY <1>2 DEF IInv, TypeOK, Held
<1>4. g \notin Held(pc) \cup granted
    BY <1>1 DEF IInv, GrantInv, Held
<1>5. gates[entry].waiters = <<>> /\ CanGrant(gates[entry], mode[g])
      /\ gates' = [gates EXCEPT ![entry] = MarkGranted(gates[entry], mode[g])]
    BY <1>2 DEF AcquireNow, Admits
<1>6. Exact(gates[entry], Held(pc) \cup granted, mode)
    BY <1>2 DEF IInv, CountInv
<1>7. /\ gates'[entry] \in Gates /\ gates'[entry].waiters = <<>>
      /\ Exact(gates'[entry], Held(pc) \cup granted \cup {g}, mode)
      /\ \A e \in Entries : e # entry => gates'[e] = gates[e]
      /\ gates' \in [Entries -> Gates]
    BY <1>2, <1>3, <1>4, <1>5, <1>6, MarkGrantedFacts
<1>8. Held(pc') \cup granted = Held(pc) \cup granted \cup {g}
      /\ WaitingIn(pc', granted) = WaitingIn(pc, granted)
    BY <1>1, <1>3 DEF Held, WaitingIn
<1>9. TypeOK' /\ RefInv' /\ GrantInv'
    BY <1>1, <1>3, <1>7 DEF IInv, TypeOK, RefInv, OneGatePerPath, GrantInv
<1>10. QuietInv' /\ CountInv'
    BY <1>1, <1>7, <1>8 DEF IInv, QuietInv, CountInv
<1>11. QueueInv'
    BY <1>1, <1>5, <1>7, <1>8 DEF IInv, QueueInv
<1>12. NoStrandedWaiter'
    BY <1>1, <1>7 DEF IInv, NoStrandedWaiter
<1> QED
    BY <1>9, <1>10, <1>11, <1>12 DEF IInv

\* A failed tryAcquire keeps the invariant.
LEMMA TryFailsStep ==
    ASSUME IInv, NEW g \in Goroutines, TryFails(g)
    PROVE  IInv'
<1>1. pc[g] = "ref" /\ pc' = [pc EXCEPT ![g] = "drop"]
      /\ UNCHANGED <<mode, try, entryOf, entry, refs, gates, granted>>
    BY DEF TryFails, Goto
<1>2. pc \in [Goroutines -> {"idle", "ref", "waiting", "held", "drop"}]
    BY DEF IInv, TypeOK
<1>3. Held(pc') = Held(pc) /\ WaitingIn(pc', granted') = WaitingIn(pc, granted)
    BY <1>1, <1>2 DEF Held, WaitingIn
<1>4. TypeOK' /\ RefInv' /\ GrantInv'
    BY <1>1, <1>2 DEF IInv, TypeOK, RefInv, OneGatePerPath, GrantInv
<1>5. QuietInv' /\ CountInv' /\ QueueInv'
    BY <1>1, <1>3 DEF IInv, QuietInv, CountInv, QueueInv
<1>6. NoStrandedWaiter'
    BY <1>1 DEF IInv, NoStrandedWaiter
<1> QED
    BY <1>4, <1>5, <1>6 DEF IInv

\* A granted waiter that takes its lease keeps the invariant.
LEMMA ReceiveStep ==
    ASSUME IInv, NEW g \in Goroutines, Receive(g)
    PROVE  IInv'
<1>1. pc[g] = "waiting" /\ pc' = [pc EXCEPT ![g] = "held"] /\ g \in granted /\ granted' = granted \ {g}
      /\ UNCHANGED <<mode, try, entryOf, entry, refs, gates>>
    BY DEF Receive, Goto
<1>2. pc \in [Goroutines -> {"idle", "ref", "waiting", "held", "drop"}] /\ granted \in SUBSET Goroutines
    BY DEF IInv, TypeOK
<1>3. Held(pc') \cup granted' = Held(pc) \cup granted
      /\ WaitingIn(pc', granted') = WaitingIn(pc, granted)
    BY <1>1, <1>2 DEF Held, WaitingIn
<1>4. TypeOK' /\ RefInv' /\ GrantInv'
    BY <1>1, <1>2 DEF IInv, TypeOK, RefInv, OneGatePerPath, GrantInv
<1>5. QuietInv' /\ CountInv' /\ QueueInv'
    BY <1>1, <1>3 DEF IInv, QuietInv, CountInv, QueueInv
<1>6. NoStrandedWaiter'
    BY <1>1 DEF IInv, NoStrandedWaiter
<1> QED
    BY <1>4, <1>5, <1>6 DEF IInv

\* A new reference keeps the invariant: the entry is the registered one, or a
\* new one that nobody else uses.
LEMMA ReferenceStep ==
    ASSUME IInv, NEW g \in Goroutines, Reference(g)
    PROVE  IInv'
<1>1. pc[g] = "idle" /\ pc' = [pc EXCEPT ![g] = "ref"] /\ granted' = granted
    BY DEF Reference, Goto
<1>2. PICK m \in Modes : mode' = [mode EXCEPT ![g] = m]
    BY DEF Reference
<1>3. PICK t \in BOOLEAN : try' = [try EXCEPT ![g] = t]
    BY DEF Reference
<1>4. entryOf[g] = None
    BY <1>1 DEF IInv, RefInv
<1>5. PICK e \in Entries :
         /\ entry' = e /\ entryOf' = [entryOf EXCEPT ![g] = e]
         /\ refs' = [refs EXCEPT ![e] = IF entry = None THEN 1 ELSE @ + 1]
         /\ gates' = [gates EXCEPT ![e] = IF entry = None THEN EmptyGate ELSE @]
         /\ entry # None => e = entry
         /\ entry = None => \A h \in Goroutines : entryOf[h] # e
  <2>1. CASE entry # None
    BY <2>1 DEF Reference, IInv, TypeOK
  <2>2. CASE entry = None
    BY <2>2 DEF Reference
  <2> QED
    BY <2>1, <2>2
<1>6. /\ pc \in [Goroutines -> {"idle", "ref", "waiting", "held", "drop"}] /\ granted \in SUBSET Goroutines
      /\ mode \in [Goroutines -> Modes] /\ try \in [Goroutines -> BOOLEAN]
      /\ entryOf \in [Goroutines -> Entries \cup {None}] /\ refs \in [Entries -> Nat]
      /\ gates \in [Entries -> Gates]
    BY DEF IInv, TypeOK
<1>7. g \notin granted /\ Held(pc') = Held(pc) /\ WaitingIn(pc', granted) = WaitingIn(pc, granted)
    BY <1>1, <1>6 DEF IInv, GrantInv, Held, WaitingIn
<1>8. EmptyGate \in Gates
    BY EmptySeq DEF EmptyGate, Gates
<1>9. TypeOK'
    BY <1>1, <1>2, <1>3, <1>5, <1>6, <1>8 DEF TypeOK
<1>10. RefInv'
  <2>1. ASSUME NEW f \in Entries PROVE refs'[f] = Cardinality(References(entryOf', f))
    <3>1. refs[f] = Cardinality(References(entryOf, f)) /\ References(entryOf, f) \in SUBSET Goroutines
      BY DEF IInv, RefInv, References
    <3>2. CASE f # e
      <4>1. References(entryOf', f) = References(entryOf, f)
        BY <1>4, <1>5, <1>6, <3>2, EntryAssumption DEF References
      <4> QED
        BY <1>5, <1>6, <3>1, <3>2, <4>1
    <3>3. CASE f = e
      <4>1. References(entryOf', e) = References(entryOf, e) \cup {g} /\ g \notin References(entryOf, e)
        BY <1>4, <1>5, <1>6, EntryAssumption DEF References
      <4>2. IsFiniteSet(References(entryOf, e))
        BY <3>1, <3>3, FinitelyMany
      <4>3. Cardinality(References(entryOf', e)) = refs[e] + 1
        <5>1. Cardinality(References(entryOf, e) \cup {g}) = Cardinality(References(entryOf, e)) + 1
          BY <4>1, <4>2, FS_AddElement
        <5> QED
          BY <3>1, <3>3, <4>1, <5>1
      <4>4. entry = None => refs[e] = 0
        BY <1>5, <3>1, <3>3, FS_EmptySet DEF References
      <4> QED
        BY <1>5, <1>6, <3>3, <4>3, <4>4
    <3> QED
      BY <3>2, <3>3
  <2>2. \A h \in Goroutines : pc'[h] = "idle" <=> entryOf'[h] = None
    BY <1>1, <1>5, <1>6, EntryAssumption DEF IInv, RefInv
  <2>3. OneGatePerPath'
    BY <1>5, <1>6, EntryAssumption DEF IInv, RefInv, OneGatePerPath
  <2> QED
    BY <2>1, <2>2, <2>3 DEF RefInv
<1>11. GrantInv'
    BY <1>1, <1>6, <1>7 DEF IInv, GrantInv
<1>12. \A f \in Entries : gates'[f] = gates[f]
  <2>1. entry = None => gates[e] = EmptyGate
    BY <1>5, EntryAssumption DEF IInv, QuietInv
  <2> QED
    BY <1>5, <1>6, <2>1
<1>13. QuietInv'
    BY <1>5, <1>12, EntryAssumption DEF IInv, QuietInv
<1>14. entry = None => Held(pc) \cup granted = {} /\ WaitingIn(pc, granted) = {}
  <2>1. ASSUME entry = None, NEW h \in Goroutines PROVE pc[h] = "idle"
    BY <2>1 DEF IInv, RefInv, OneGatePerPath
  <2> QED
    BY <1>6, <2>1 DEF IInv, GrantInv, Held, WaitingIn
<1>15. CountInv'
  <2> DEFINE A == Held(pc) \cup granted
  <2>1. \A M \in Modes : InMode(A, mode', M) = InMode(A, mode, M)
    BY <1>1, <1>2, <1>6, <1>7 DEF Held, InMode
  <2>2. Exact(gates[e], A, mode)
    <3>1. CASE entry # None
      BY <1>5, <3>1 DEF IInv, CountInv
    <3>2. CASE entry = None
      <4>1. gates[e] = EmptyGate /\ A = {}
        BY <1>5, <1>14, <3>2, EntryAssumption DEF IInv, QuietInv
      <4> QED
        <5>1. InMode(A, mode, "shared") = {} /\ InMode(A, mode, "exclusive") = {}
          BY <4>1 DEF InMode
        <5>2. EmptyGate.readers = 0 /\ ~EmptyGate.writer
          BY DEF EmptyGate
        <5> QED
          BY <4>1, <5>1, <5>2, FS_EmptySet DEF Exact
    <3> QED
      BY <3>1, <3>2
  <2>3. Exact(gates'[e], A, mode')
    BY <1>12, <2>1, <2>2 DEF Exact, Modes
  <2> QED
    BY <1>1, <1>5, <1>7, <2>3 DEF CountInv
<1>16. QueueInv'
  <2>1. Orderly(gates[e].waiters, WaitingIn(pc, granted))
    <3>1. CASE entry # None
      BY <1>5, <3>1 DEF IInv, QueueInv
    <3>2. CASE entry = None
      <4>1. gates[e].waiters = <<>> /\ WaitingIn(pc, granted) = {}
        BY <1>5, <1>14, <3>2, EntryAssumption DEF IInv, QuietInv, EmptyGate
      <4> QED
        BY <4>1 DEF Orderly
    <3> QED
      BY <3>1, <3>2
  <2> QED
    BY <1>1, <1>5, <1>7, <1>12, <2>1 DEF QueueInv
<1>17. NoStrandedWaiter'
  <2> SUFFICES ASSUME NEW f \in Entries, gates[f].waiters # <<>>
               PROVE  ~CanGrant(gates[f], mode'[Head(gates[f].waiters)])
    BY <1>12 DEF NoStrandedWaiter
  <2>1. ~CanGrant(gates[f], mode[Head(gates[f].waiters)])
    BY DEF IInv, NoStrandedWaiter
  <2>2. f = entry /\ entry # None
    BY EntryAssumption DEF IInv, QuietInv, EmptyGate
  <2>3. Head(gates[f].waiters) = gates[f].waiters[1] /\ 1 \in 1..Len(gates[f].waiters)
    BY <1>6, EmptySeq DEF Gates
  <2>4. Head(gates[f].waiters) \in WaitingIn(pc, granted)
    BY <2>2, <2>3 DEF IInv, QueueInv, Orderly
  <2>5. Head(gates[f].waiters) # g
    BY <1>1, <2>4 DEF WaitingIn
  <2> QED
    BY <1>2, <1>6, <2>1, <2>4, <2>5 DEF WaitingIn
<1> QED
    BY <1>9, <1>10, <1>11, <1>13, <1>15, <1>16, <1>17 DEF IInv

\* Giving a reference back keeps the invariant: the entry is unregistered only
\* when its gate is empty.
LEMMA DropReferenceStep ==
    ASSUME IInv, NEW g \in Goroutines, DropReference(g)
    PROVE  IInv'
<1> DEFINE e == entry
<1>1. pc[g] = "drop" /\ pc' = [pc EXCEPT ![g] = "idle"] /\ UNCHANGED <<mode, try, gates, granted>>
    BY DEF DropReference, Goto
<1>2. entryOf[g] = e /\ e \in Entries /\ e # None
    BY <1>1, UsesEntry
<1>3. /\ entryOf' = [entryOf EXCEPT ![g] = None]
      /\ refs' = [refs EXCEPT ![e] = @ - 1]
      /\ entry' = IF refs[e] = 1 THEN None ELSE e
    BY <1>2 DEF DropReference, Unused
<1>4. /\ pc \in [Goroutines -> {"idle", "ref", "waiting", "held", "drop"}] /\ granted \in SUBSET Goroutines
      /\ entryOf \in [Goroutines -> Entries \cup {None}] /\ refs \in [Entries -> Nat]
      /\ gates \in [Entries -> Gates]
    BY DEF IInv, TypeOK
<1>5. Held(pc') = Held(pc) /\ WaitingIn(pc', granted) = WaitingIn(pc, granted) /\ g \notin granted
    BY <1>1, <1>4 DEF IInv, GrantInv, Held, WaitingIn
<1>6. ASSUME NEW f \in Entries
      PROVE  refs[f] = Cardinality(References(entryOf, f)) /\ IsFiniteSet(References(entryOf, f))
    BY FinitelyMany DEF IInv, RefInv, References
<1>7. References(entryOf', e) = References(entryOf, e) \ {g} /\ g \in References(entryOf, e)
    BY <1>2, <1>3, <1>4 DEF References
<1>8. Cardinality(References(entryOf', e)) = refs[e] - 1
  <2>1. Cardinality(References(entryOf, e) \ {g}) = Cardinality(References(entryOf, e)) - 1
    BY <1>2, <1>6, <1>7, FS_RemoveElement
  <2> QED
    BY <1>2, <1>6, <1>7, <2>1
<1>9. refs[e] - 1 \in Nat
    BY <1>2, <1>6, <1>7, <1>8, FS_RemoveElement, FS_CardinalityType
<1>10. refs[e] = 1 => \A h \in Goroutines \ {g} : pc[h] = "idle"
  <2>1. ASSUME refs[e] = 1 PROVE References(entryOf, e) \ {g} = {}
    <3>1. Cardinality(References(entryOf, e) \ {g}) = 0 /\ IsFiniteSet(References(entryOf, e) \ {g})
      BY <1>2, <1>6, <1>7, <1>8, <2>1, FS_RemoveElement
    <3> QED
      BY <3>1, FS_EmptySet
  <2>2. ASSUME refs[e] = 1, NEW h \in Goroutines \ {g} PROVE pc[h] = "idle"
    BY <1>2, <2>1, <2>2, UsesEntry DEF References
  <2> QED
    BY <2>2
<1>11. TypeOK'
    BY <1>1, <1>2, <1>3, <1>4, <1>9 DEF IInv, TypeOK
<1>12. RefInv'
  <2>1. ASSUME NEW f \in Entries PROVE refs'[f] = Cardinality(References(entryOf', f))
    <3>1. CASE f = e
      BY <1>2, <1>3, <1>4, <1>8, <3>1
    <3>2. CASE f # e
      <4>1. References(entryOf', f) = References(entryOf, f)
        BY <1>2, <1>3, <1>4, <3>2, EntryAssumption DEF References
      <4> QED
        BY <1>3, <1>4, <1>6, <3>2, <4>1
    <3> QED
      BY <3>1, <3>2
  <2>2. \A h \in Goroutines : pc'[h] = "idle" <=> entryOf'[h] = None
    BY <1>1, <1>3, <1>4 DEF IInv, RefInv
  <2>3. OneGatePerPath'
    <3>1. CASE refs[e] = 1
      BY <1>1, <1>3, <1>4, <1>10, <2>2, <3>1 DEF OneGatePerPath
    <3>2. CASE refs[e] # 1
      BY <1>3, <1>4, <3>2 DEF IInv, RefInv, OneGatePerPath
    <3> QED
      BY <3>1, <3>2
  <2> QED
    BY <2>1, <2>2, <2>3 DEF RefInv
<1>13. GrantInv'
    BY <1>1, <1>4, <1>5 DEF IInv, GrantInv
<1>14. QuietInv'
  <2>1. CASE refs[e] = 1
    <3>1. Held(pc) \cup granted = {} /\ WaitingIn(pc, granted) = {}
      BY <1>1, <1>4, <1>10, <2>1 DEF IInv, GrantInv, Held, WaitingIn
    <3>2. Exact(gates[e], {}, mode) /\ Orderly(gates[e].waiters, {})
      BY <1>2, <3>1 DEF IInv, CountInv, QueueInv
    <3>3. InMode({}, mode, "shared") = {} /\ InMode({}, mode, "exclusive") = {}
      BY DEF InMode
    <3>4. gates[e].readers = 0 /\ ~gates[e].writer
      BY <3>2, <3>3, FS_EmptySet DEF Exact
    <3>5. gates[e] \in Gates /\ gates[e].waiters = <<>>
      BY <1>2, <1>4, <3>2, EmptySeq DEF Orderly, Gates
    <3>6. gates[e] = EmptyGate
      BY <3>4, <3>5 DEF Gates, EmptyGate
    <3> QED
      BY <1>1, <1>3, <3>6 DEF IInv, QuietInv
  <2>2. CASE refs[e] # 1
    BY <1>1, <1>3, <2>2 DEF IInv, QuietInv
  <2> QED
    BY <2>1, <2>2
<1>15. CountInv' /\ QueueInv'
    BY <1>1, <1>3, <1>5 DEF IInv, CountInv, QueueInv
<1>16. NoStrandedWaiter'
    BY <1>1 DEF IInv, NoStrandedWaiter
<1> QED
    BY <1>11, <1>12, <1>13, <1>14, <1>15, <1>16 DEF IInv

\* Stuttering keeps the invariant.
LEMMA StutterStep ==
    ASSUME IInv, UNCHANGED vars
    PROVE  IInv'
BY DEF IInv, vars, TypeOK, RefInv, OneGatePerPath, GrantInv, QuietInv, CountInv, QueueInv,
       NoStrandedWaiter

\* The gate, its counters and its queue stay right in every behaviour.
THEOREM GateInvariant == Spec => []IInv
<1>1. Init => IInv
    BY InitIInv
<1>2. IInv /\ [Next]_vars => IInv'
    BY ReferenceStep, AcquireNowStep, TryFailsStep, EnqueueStep, ReceiveStep, CancelStep,
       ReleaseStep, DropReferenceStep, StutterStep DEF Next
<1> QED
    BY <1>1, <1>2, PTL DEF Spec

\* A path has one gate, whose counters are exactly the leases it has given out:
\* whatever the order of grants, cancellations and dropped references, a writer
\* is alone on the path and no release is counted twice or lost.
THEOREM GateStaysExact == Spec => []GateIsExact
<1>1. IInv => GateIsExact
  <2> SUFFICES ASSUME IInv PROVE GateIsExact
    OBVIOUS
  <2>1. TypeOK /\ OneGatePerPath
    BY DEF IInv, RefInv
  <2>2. Active = Held(pc) \cup granted /\ Active \subseteq Goroutines
    BY DEF Active, Held, IInv, TypeOK
  <2>3. \A g \in Active : entryOf[g] = entry /\ entry # None
    BY <2>2, UsesEntry DEF IInv, GrantInv, Held
  <2>4. ASSUME NEW e \in Entries, NEW m, e = entry PROVE ActiveIn(e, m) = InMode(Active, mode, m)
    BY <2>3, <2>4 DEF ActiveIn, InMode
  <2>5. ASSUME NEW e \in Entries, NEW g \in ActiveIn(e, "exclusive") PROVE Active = {g}
    BY <2>2, <2>3, EntryAssumption DEF ActiveIn, IInv, CountInv, Exact, InMode
  <2>6. ASSUME NEW e \in Entries, e = entry
        PROVE  /\ gates[e].readers = Cardinality(ActiveIn(e, "shared"))
               /\ gates[e].writer <=> ActiveIn(e, "exclusive") # {}
    BY <2>2, <2>4, <2>6, EntryAssumption DEF IInv, CountInv, Exact
  <2>7. GateCountsLeases
    BY <2>5, <2>6 DEF GateCountsLeases
  <2> QED
    BY <2>1, <2>7 DEF GateIsExact
<1> QED
    BY <1>1, GateInvariant, PTL

\* grantWaiters leaves nobody behind: whenever the gate's mutex is free, the
\* first waiter really has to wait.
THEOREM NobodyIsStranded == Spec => []NoStrandedWaiter
<1>1. IInv => NoStrandedWaiter
    BY DEF IInv
<1> QED
    BY <1>1, GateInvariant, PTL

-----------------------------------------------------------------------------
(* Nobody overtakes the queue.                                              *)

\* In an orderly queue a waiter's position is its index.
LEMMA PositionIsIndex ==
    ASSUME NEW e \in Entries, NEW W, Orderly(gates[e].waiters, W),
           NEW i \in 1..Len(gates[e].waiters)
    PROVE  Position(e, gates[e].waiters[i]) = i
BY DEF Position, Orderly

\* Only the registered entry has waiters.
LEMMA OnlyEntryQueues ==
    ASSUME IInv, NEW e \in Entries, NEW h \in Queued(e)
    PROVE  e = entry /\ entry # None
<1>1. gates[e].waiters # <<>>
    BY DEF Queued
<1> QED
    BY <1>1, EntryAssumption DEF IInv, QuietInv, EmptyGate

\* grantWaiters grants from the front of the queue it is given.
LEMMA WokenFromFront ==
    ASSUME mode \in [Goroutines -> Modes], NEW gate \in Gates, NEW W,
           Orderly(gate.waiters, W), NEW i \in 1..Len(gate.waiters), NEW j \in 1..i,
           gate.waiters[i] \in Woken(gate)
    PROVE  gate.waiters[j] \in Woken(gate)
<1> DEFINE q == gate.waiters
           n == GrantCount(gate)
<1>1. q \in Seq(Goroutines) /\ Len(q) \in Nat /\ n \in 0..Len(q) /\ n \in Nat
    BY GrantCountFacts DEF Gates
<1>2. PICK k \in 1..n : q[i] = q[k]
    BY DEF Woken
<1>3. k \in 1..Len(q)
    BY <1>1
<1>4. i = k
    BY <1>2, <1>3 DEF Orderly
<1>5. j \in 1..n
    BY <1>1, <1>4
<1> QED
    BY <1>5 DEF Woken

\* What NoOvertaking asks of one step.
Overtakes(g, e, h) ==
    /\ g \in Queued(e) => Position(e, h) < Position(e, g)
    /\ h \in Queued(e)' /\ h # g

\* A step that ends in grantWaiters lets nobody overtake, if the queue passed to
\* it keeps the order of the goroutines that stay.
LEMMA GrantIsFair ==
    ASSUME IInv, entry \in Entries, entry # None, NEW gate \in Gates, NEW W,
           Orderly(gates[entry].waiters, WaitingIn(pc, granted)),
           Orderly(gate.waiters, W), W \subseteq WaitingIn(pc, granted),
           Orderly(gates'[entry].waiters, W \ Woken(gate)),
           \A i, j \in 1..Len(gate.waiters) : i < j =>
              \E k, l \in 1..Len(gates[entry].waiters) :
                 /\ k < l /\ gates[entry].waiters[k] = gate.waiters[i]
                 /\ gates[entry].waiters[l] = gate.waiters[j],
           NEW g \in Woken(gate) \cap W, NEW e \in Entries, NEW h \in Queued(e)
    PROVE  ~Overtakes(g, e, h)
<1> DEFINE q == gates[entry].waiters
           r == gate.waiters
<1> SUFFICES ASSUME Overtakes(g, e, h) PROVE FALSE
    OBVIOUS
<1>1. e = entry
    BY OnlyEntryQueues
<1>2. q \in Seq(Goroutines) /\ Len(q) \in Nat /\ r \in Seq(Goroutines) /\ Len(r) \in Nat
    BY DEF IInv, TypeOK, Gates
<1>3. h \in W \ Woken(gate) /\ h # g
    BY <1>1 DEF Overtakes, Queued, Orderly
<1>4. PICK a \in 1..Len(r) : r[a] = h
    BY <1>3 DEF Orderly
<1>5. PICK b \in 1..Len(r) : r[b] = g
    BY DEF Orderly
<1>6. mode \in [Goroutines -> Modes]
    BY DEF IInv, TypeOK
<1>7. ~(a \in 1..b)
    BY <1>3, <1>4, <1>5, <1>6, WokenFromFront
<1>8. b < a
    BY <1>2, <1>7
<1>9. PICK k, l \in 1..Len(q) : k < l /\ q[k] = g /\ q[l] = h
    BY <1>4, <1>5, <1>8
<1>10. Position(e, g) = k /\ Position(e, h) = l
    BY <1>1, <1>9, PositionIsIndex
<1>11. g \in Queued(e)
    BY <1>1, <1>9 DEF Queued
<1> QED
    BY <1>2, <1>9, <1>10, <1>11 DEF Overtakes

\* A release hands the gate to the front of the queue.
LEMMA ReleaseIsFair ==
    ASSUME IInv, NEW f \in Goroutines, Release(f),
           NEW g \in Active' \ Active, NEW e \in Entries, NEW h \in Queued(e)
    PROVE  ~Overtakes(g, e, h)
<1> DEFINE gate == MarkReleased(gates[entry], mode[f])
           W == WaitingIn(pc, granted)
<1>1. pc[f] = "held" /\ pc' = [pc EXCEPT ![f] = "drop"]
    BY DEF Release, Goto
<1>2. entryOf[f] = entry /\ entry \in Entries /\ entry # None
    BY <1>1, UsesEntry
<1>3. gate \in Gates /\ gate.waiters = gates[entry].waiters
      /\ Exact(gate, (Held(pc) \cup granted) \ {f}, mode)
    BY <1>1, ReleaseGate DEF Held
<1>4. GrantWaiters(entry, gate, granted) /\ UNCHANGED <<mode, try, entryOf, entry, refs>>
    BY <1>2 DEF Release
<1>5. pc \in [Goroutines -> {"idle", "ref", "waiting", "held", "drop"}] /\ granted \in SUBSET Goroutines
      /\ f \notin granted
    BY <1>1 DEF IInv, TypeOK, GrantInv
<1>6. /\ pc' \in [Goroutines -> {"idle", "ref", "waiting", "held", "drop"}]
      /\ \A x \in Goroutines : pc'[x] = "idle" <=> pc[x] = "idle"
      /\ \A x \in granted : pc'[x] = "waiting"
    BY <1>1, <1>5 DEF IInv, GrantInv
<1>7. Held(pc') \cup granted = (Held(pc) \cup granted) \ {f} /\ WaitingIn(pc', granted) = W
    BY <1>1, <1>5 DEF Held, WaitingIn
<1>8. Orderly(gates[entry].waiters, W)
    BY <1>2 DEF IInv, QueueInv
<1>9. g \in Woken(gate)
    BY <1>1, <1>4, <1>5 DEF Active, GrantWaiters
<1> HIDE DEF gate, W
<1>10. Woken(gate) \subseteq W /\ Orderly(gates'[entry].waiters, W \ Woken(gate))
    BY <1>2, <1>3, <1>4, <1>5, <1>6, <1>7, <1>8, GrantStep
<1>11. Orderly(gate.waiters, W) /\ g \in Woken(gate) \cap W
    BY <1>3, <1>8, <1>9, <1>10
<1>12. W \subseteq WaitingIn(pc, granted) /\ Orderly(gates[entry].waiters, WaitingIn(pc, granted))
    BY <1>8 DEF W
<1> QED
    BY <1>2, <1>3, <1>10, <1>11, <1>12, GrantIsFair

\* A cancelled waiter leaves the others in their order.
LEMMA CancelIsFair ==
    ASSUME IInv, NEW f \in Goroutines, Cancel(f),
           NEW g \in Active' \ Active, NEW e \in Entries, NEW h \in Queued(e)
    PROVE  ~Overtakes(g, e, h)
<1> DEFINE gate == GiveUpGate(f)
           W == WaitingIn(pc', granted \ {f})
           q == gates[entry].waiters
<1>1. pc[f] = "waiting" /\ pc' = [pc EXCEPT ![f] = "drop"]
    BY DEF Cancel, Goto
<1>2. /\ entryOf[f] = entry /\ entry \in Entries /\ entry # None
      /\ gate \in Gates
      /\ Exact(gate, Held(pc') \cup (granted \ {f}), mode)
      /\ Orderly(gate.waiters, W)
    BY CancelGate
<1>3. GrantWaiters(entry, gate, granted \ {f}) /\ UNCHANGED <<mode, try, entryOf, entry, refs>>
    BY <1>2 DEF Cancel
<1>4. pc \in [Goroutines -> {"idle", "ref", "waiting", "held", "drop"}] /\ granted \ {f} \in SUBSET Goroutines
      /\ granted \in SUBSET Goroutines
    BY DEF IInv, TypeOK
<1>5. /\ pc' \in [Goroutines -> {"idle", "ref", "waiting", "held", "drop"}]
      /\ \A x \in Goroutines : pc'[x] = "idle" <=> pc[x] = "idle"
      /\ \A x \in granted \ {f} : pc'[x] = "waiting"
    BY <1>1, <1>4 DEF IInv, GrantInv
<1>6. Orderly(q, WaitingIn(pc, granted)) /\ W \subseteq WaitingIn(pc, granted)
    BY <1>1, <1>2, <1>4 DEF IInv, QueueInv, WaitingIn
<1>7. g \in Woken(gate)
    BY <1>1, <1>3, <1>4 DEF Active, GrantWaiters
<1>8. q \in Seq(Goroutines) /\ Len(q) \in Nat
    BY <1>2 DEF IInv, TypeOK, Gates
<1>9. ASSUME NEW i \in 1..Len(gate.waiters), NEW j \in 1..Len(gate.waiters), i < j
      PROVE  \E k, l \in 1..Len(q) : k < l /\ q[k] = gate.waiters[i] /\ q[l] = gate.waiters[j]
  <2>1. CASE f \in granted
    <3>1. gate.waiters = q
      BY <1>2, <2>1, ReleaseGate DEF GiveUpGate
    <3> QED
      BY <1>9, <3>1
  <2>2. CASE f \notin granted
    <3>1. gate.waiters = Leave(q, f)
      BY <1>2, <2>2 DEF GiveUpGate, IInv, TypeOK, Gates
    <3>2. f \in WaitingIn(pc, granted) /\ WaitingIn(pc, granted) \in SUBSET Goroutines
      BY <1>1, <2>2 DEF WaitingIn
    <3>3. PICK p \in 1..Len(q) :
             /\ q[p] = f /\ Leave(q, f) \in Seq(Goroutines)
             /\ Len(Leave(q, f)) = Len(q) - 1
             /\ \A x \in 1..(Len(q) - 1) : Leave(q, f)[x] = IF x < p THEN q[x] ELSE q[x + 1]
      <4> HIDE DEF q
      <4> QED
        BY <1>6, <1>8, <3>2, LeaveFacts
    <3> DEFINE k == IF i < p THEN i ELSE i + 1
               l == IF j < p THEN j ELSE j + 1
    <3>4. k \in 1..Len(q) /\ l \in 1..Len(q) /\ k < l
      BY <1>8, <1>9, <3>1, <3>3
    <3>5. q[k] = gate.waiters[i] /\ q[l] = gate.waiters[j]
      BY <1>8, <3>1, <3>3
    <3> QED
      BY <3>4, <3>5
  <2> QED
    BY <2>1, <2>2
<1> HIDE DEF gate, W
<1>10. Woken(gate) \subseteq W /\ Orderly(gates'[entry].waiters, W \ Woken(gate))
    BY <1>2, <1>3, <1>4, <1>5, GrantStep DEF W
<1>11. g \in Woken(gate) \cap W
    BY <1>7, <1>10
<1> QED
    BY <1>2, <1>6, <1>9, <1>10, <1>11, GrantIsFair

\* A new waiter is not granted at once, nor is anybody else.
LEMMA EnqueueIsFair ==
    ASSUME IInv, NEW f \in Goroutines, Enqueue(f)
    PROVE  Active' \subseteq Active
<1> DEFINE gate == [gates[entry] EXCEPT !.waiters = Append(@, f)]
           q == gates[entry].waiters
<1>1. pc[f] = "ref" /\ pc' = [pc EXCEPT ![f] = "waiting"] /\ ~Admits(f)
    BY DEF Enqueue, Goto
<1>2. entryOf[f] = entry /\ entry \in Entries /\ entry # None
      /\ gate \in Gates /\ gate.waiters = Append(q, f)
    BY EnqueueGate
<1>3. q \in Seq(Goroutines) /\ gates[entry] \in Gates /\ mode \in [Goroutines -> Modes]
    BY <1>2 DEF IInv, TypeOK, Gates
<1>4. /\ q # <<>> => ~CanGrant(gates[entry], mode[q[1]])
      /\ q = <<>> => ~CanGrant(gates[entry], mode[f])
    BY <1>1, <1>2, <1>3 DEF IInv, NoStrandedWaiter, Admits
<1>5. Append(q, f) # <<>> /\ Append(q, f)[1] = IF q = <<>> THEN f ELSE q[1]
    BY <1>3, AppendProperties, EmptySeq
<1>6. \A m : CanGrant(gate, m) = CanGrant(gates[entry], m)
    BY <1>3 DEF CanGrant, Gates
<1>7. ~CanGrant(gate, mode[gate.waiters[1]])
    BY <1>2, <1>4, <1>5, <1>6
<1>8. GrantCount(gate) = 0
    BY <1>7 DEF GrantCount
<1>9. Woken(gate) = {}
    BY <1>8 DEF Woken
<1>10. granted' = granted
    BY <1>2, <1>9 DEF Enqueue, GrantWaiters
<1> QED
    BY <1>1, <1>10 DEF Active, IInv, TypeOK

\* Whoever takes a gate at once finds the queue empty.
LEMMA AcquireNowIsFair ==
    ASSUME IInv, NEW f \in Goroutines, AcquireNow(f)
    PROVE  \A e \in Entries : Queued(e) = {}
<1>1. pc[f] # "idle" /\ gates[entryOf[f]].waiters = <<>>
    BY DEF AcquireNow, Goto, Admits
<1>2. gates[entry].waiters = <<>>
    BY <1>1, UsesEntry
<1>3. ASSUME NEW e \in Entries, NEW h \in Queued(e) PROVE FALSE
  <2>1. e = entry
    BY OnlyEntryQueues
  <2>2. Queued(entry) = {}
    BY <1>2 DEF Queued
  <2> QED
    BY <2>1, <2>2
<1> QED
    BY <1>3

\* The gate is given out in the order of the queue: no waiter that came later
\* and no newcomer gets it before a goroutine that stays queued.
THEOREM QueueIsFair == Spec => NoOvertaking
<1> DEFINE P == \A g \in Active' \ Active, e \in Entries : \A h \in Queued(e) :
                   (g \in Queued(e) => Position(e, h) < Position(e, g)) => h \notin Queued(e)' \/ h = g
<1>1. IInv /\ [Next]_vars => P \/ UNCHANGED vars
  <2> SUFFICES ASSUME IInv, Next PROVE P
    OBVIOUS
  <2> SUFFICES ASSUME NEW g \in Active' \ Active, NEW e \in Entries, NEW h \in Queued(e)
               PROVE  ~Overtakes(g, e, h)
    BY DEF Overtakes
  <2>1. PICK f \in Goroutines :
           \/ Reference(f) \/ AcquireNow(f) \/ TryFails(f) \/ Enqueue(f) \/ Receive(f)
           \/ Cancel(f) \/ Release(f) \/ DropReference(f)
    BY DEF Next
  <2>2. CASE Reference(f) \/ TryFails(f) \/ Receive(f) \/ DropReference(f)
    <3>1. Active' \subseteq Active
      BY <2>2 DEF Reference, TryFails, Receive, DropReference, Goto, Active, IInv, TypeOK
    <3> QED
      BY <3>1
  <2>3. CASE AcquireNow(f)
    BY <2>3, AcquireNowIsFair
  <2>4. CASE Enqueue(f)
    BY <2>4, EnqueueIsFair
  <2>5. CASE Cancel(f)
    BY <2>5, CancelIsFair
  <2>6. CASE Release(f)
    BY <2>6, ReleaseIsFair
  <2> QED
    BY <2>1, <2>2, <2>3, <2>4, <2>5, <2>6
<1> QED
    BY <1>1, GateInvariant, PTL DEF Spec, NoOvertaking
=============================================================================
