----------------------------- MODULE NotifyProofs -----------------------------
(***************************************************************************)
(* Proofs about Notify for any failure catalogue, any providers, any size   *)
(* of the outbox, any window and any bounds on time, failures and faults.   *)
(*                                                                          *)
(* IInv holds with any clock: what is on disk passes ValidateState, every   *)
(* incident on disk was announced, a delivery in flight is one of the state *)
(* on disk, and a final status is an answer that was given.  ClockInv adds  *)
(* what needs a clock that is never set back (~ClockStepsBack): where the   *)
(* announcements of a type lie relative to the window of its incident, and  *)
(* which events can be in the outbox a second time (none).                  *)
(*                                                                          *)
(* The proofs go from the operators of NotifyState (an outcome is silent or *)
(* makes an event; an outbox follows another) to what the steps write       *)
(* (Writes, Recording), and every step is an Observed, a Recorded or a      *)
(* Quiet one.                                                               *)
(***************************************************************************)
EXTENDS Notify, FiniteSetTheorems, SequenceTheorems, NaturalsInduction, TLAPS
-----------------------------------------------------------------------------
(* The types the proofs use.                                               *)

Snapshots == [type : Failures, first : Times, lastSeen : Times, occurrences : Nat \ {0}]
EventSet == [kind : EventKinds, incidents : SUBSET Snapshots, createdAt : Times]
DeliverySet == UNION {[ps -> Statuses] : ps \in (SUBSET Providers) \ {{}}}
Envelopes == [event : EventSet, deliveries : DeliverySet]
Incidents ==
    [phase : {"open", "cooling"}, first : Times, lastSeen : Times, occurrences : Nat \ {0},
     enqueued : Times, needsRecovery : BOOLEAN, recoveryNotified : BOOLEAN]
IncidentMaps == [Failures -> {None} \cup Incidents]
States ==
    [incidents : IncidentMaps, outbox : Seq(Envelopes), last : [Providers -> Final \cup {"none"}]]
Flights ==
    [provider : Providers, index : Nat, event : EventSet, expected : Statuses, answer : Answers]

Types ==
    /\ disk \in States
    /\ configured \in (SUBSET Providers) \ {{}}
    /\ pc \in {"idle", "capacity", "final"}
    /\ outcome \in Failures \cup {None}
    /\ todo \in SUBSET configured
    /\ retry \in SUBSET (Failures \X Times)
    /\ inflight \in {None} \cup Flights
    /\ now \in Times
    /\ failures \in 0 .. MaxFailures
    /\ faults \in 0 .. MaxFaults
    /\ enqueued \in SUBSET EventSet
    /\ settled \in SUBSET (EventSet \X Providers)
    /\ recorded \in SUBSET (EventSet \X Providers)

-----------------------------------------------------------------------------
(* The inductive invariant.                                                *)

\* A failure that was counted but is not in the state yet.
Unobserved == IF pc = "capacity" /\ outcome # None THEN 1 ELSE 0

\* What is on disk passes ValidateState, and its suppression windows are open.
Sound ==
    /\ Len(disk.outbox) <= MaxEnvelopes
    /\ Events(disk) \subseteq enqueued
    /\ \A e \in enqueued : ValidEvent(e)
    /\ Unobserved <= failures
    /\ \A f \in Failures : disk.incidents[f] # None =>
        /\ ValidIncident(disk.incidents[f])
        /\ disk.incidents[f].lastSeen < Boundary(disk.incidents[f])
        /\ disk.incidents[f].occurrences + Unobserved <= failures

\* A delivery in flight is of an envelope of the state on disk, which nothing
\* else changes, and was not done when it was chosen.
Underway ==
    /\ pc = "idle" => todo = {} /\ retry = {}
    /\ inflight # None =>
        /\ inflight.provider \in todo
        /\ inflight.index \in 1 .. Len(disk.outbox)
        /\ disk.outbox[inflight.index].event = inflight.event
        /\ inflight.provider \in DOMAIN disk.outbox[inflight.index].deliveries
        /\ disk.outbox[inflight.index].deliveries[inflight.provider] = inflight.expected
        /\ inflight.expected \notin Final
        /\ inflight.expected = "ambiguous" => IncidentIds(inflight.event) \cap retry # {}

Sent == {"accepted", "permanent"}

\* Only what a provider published or refused is taken for it.
Answered ==
    /\ \A k \in 1 .. Len(disk.outbox) : \A p \in DOMAIN disk.outbox[k].deliveries :
        disk.outbox[k].deliveries[p] \in Sent => <<disk.outbox[k].event, p>> \in settled
    /\ inflight # None /\ inflight.answer \in Sent =>
        <<inflight.event, inflight.provider>> \in settled

IInv == Types /\ Sound /\ Underway /\ Answered /\ SuppressionIsAnnounced

\* With a clock that is never set back: every announcement of a failure type
\* lies in the window of its incident or before it, or a window ago.
Windows ==
    /\ \A e \in enqueued : e.createdAt <= now
    /\ \A f \in Failures :
        /\ disk.incidents[f] # None => disk.incidents[f].lastSeen <= now
        /\ \A e \in enqueued : Announces(e, f) =>
            IF disk.incidents[f] = None THEN e.createdAt + RepeatAfter <= now
            ELSE e.createdAt <= disk.incidents[f].enqueued

\* The recoveries of an open incident are older than its last failure, and
\* older than its last announcement as long as it waits for one.
Recoveries ==
    \A f \in Failures, q \in enqueued :
        /\ disk.incidents[f] # None /\ disk.incidents[f].phase = "open"
        /\ q.kind = "recovery" /\ <<f, disk.incidents[f].first>> \in IncidentIds(q)
        => /\ q.createdAt <= disk.incidents[f].lastSeen
           /\ disk.incidents[f].needsRecovery => q.createdAt < disk.incidents[f].enqueued

\* The outbox has no event twice, and what was recorded as final stays so.
Records ==
    /\ \A k, l \in 1 .. Len(disk.outbox) : disk.outbox[k].event = disk.outbox[l].event => k = l
    /\ recorded \in SUBSET (enqueued \X Providers)
    /\ \A k \in 1 .. Len(disk.outbox) : \A p \in DOMAIN disk.outbox[k].deliveries :
        <<disk.outbox[k].event, p>> \in recorded => disk.outbox[k].deliveries[p] \in Final
    /\ NoRepeatAfterRecord

\* A round that retries ambiguous deliveries is that of a due reminder.
Due ==
    retry # {} => \E f \in Failures :
        /\ disk.incidents[f] # None
        /\ retry = {<<f, disk.incidents[f].first>>}
        /\ disk.incidents[f].enqueued = now \/ now >= Boundary(disk.incidents[f])

ClockInv ==
    IInv /\ Windows /\ FlapsAreSuppressed /\ RecoveriesAreEarned /\ Recoveries /\ Records /\ Due
-----------------------------------------------------------------------------
(* Numbers and finite sets.                                                *)

\* A set of natural numbers has a least element.
LEMMA LeastNat ==
    ASSUME NEW T \in SUBSET Nat, T # {}
    PROVE  \E x \in T : \A y \in T : x <= y
<1> DEFINE R == OpToRel(<, Nat)
<1>1. IsWellFoundedOn(R, Nat)
    BY NatLessThanWellFounded
<1>2. \A x, y \in T : <<y, x>> \in R <=> y < x
    BY DEF OpToRel
<1> HIDE DEF R
<1>3. PICK x \in T : \A y \in T : ~(<<y, x>> \in R)
    BY <1>1, WFMin
<1>4. \A y \in T : ~(y < x)
    BY <1>2, <1>3
<1>5. \A y \in T : y \in Nat /\ x \in Nat
    OBVIOUS
<1> QED
    BY <1>4, <1>5

\* Induction, for a property given as the set of the numbers that have it.
LEMMA UpTo ==
    ASSUME NEW n \in Nat, NEW S, 0 \in S, \A k \in 0 .. n : k \in S /\ k < n => k + 1 \in S
    PROVE  n \in S
<1> DEFINE T == {k \in 0 .. n : k \notin S}
<1> SUFFICES ASSUME n \notin S PROVE FALSE
    OBVIOUS
<1>1. T \in SUBSET Nat /\ n \in T
    OBVIOUS
<1>2. PICK k \in T : \A j \in T : k <= j
    BY <1>1, LeastNat
<1>3. k \in 1 .. n /\ k \in Nat /\ k \notin S
    OBVIOUS
<1>4. k - 1 \in 0 .. n /\ k - 1 < n /\ k - 1 + 1 = k /\ ~(k <= k - 1)
    BY <1>3
<1>5. k - 1 \in S
    BY <1>2, <1>4
<1> QED
    BY <1>3, <1>4, <1>5

\* The least and the greatest of a set of numbers.
LEMMA MinFacts ==
    ASSUME NEW T \in SUBSET Nat, T # {}
    PROVE  Min(T) \in T /\ \A y \in T : Min(T) <= y
BY LeastNat DEF Min

\* The greatest number of a set that has an upper bound.
LEMMA MaxFacts ==
    ASSUME NEW T \in SUBSET Nat, T # {}, NEW b \in Nat, \A x \in T : x <= b
    PROVE  Max(T) \in T /\ \A y \in T : Max(T) >= y
<1> DEFINE B == {m \in Nat : \A x \in T : x <= m}
<1>1. B \in SUBSET Nat /\ B # {}
    OBVIOUS
<1>2. PICK m \in B : \A k \in B : m <= k
    BY <1>1, LeastNat
<1>3. m \in T
  <2> SUFFICES ASSUME m \notin T PROVE FALSE
      OBVIOUS
  <2>1. PICK x \in T : TRUE
      OBVIOUS
  <2>2. m \in Nat /\ m - 1 \in Nat /\ \A y \in T : y <= m - 1
      BY <2>1
  <2> QED
      BY <1>2, <2>2
<1> QED
    BY <1>2, <1>3 DEF Max

-----------------------------------------------------------------------------
(* The loop of pruneTerminalEnvelopes.                                     *)

\* g keeps, for every k, those of the first k envelopes that are not terminal.
Keeps(g, s, n) ==
    g = [k \in 0 .. n |->
            IF k = 0 THEN <<>>
            ELSE IF Terminal(s[k]) THEN g[k - 1]
            ELSE Append(g[k - 1], s[k])]

\* The loop has a result: the recursion defines a function.
LEMMA LoopDefined ==
    ASSUME NEW s, NEW n \in Nat
    PROVE  \E g : Keeps(g, s, n)
<1> DEFINE S == {k \in Nat : \E g : Keeps(g, s, k)}
<1>1. 0 \in S
  <2> DEFINE g == [k \in 0 .. 0 |-> <<>>]
  <2>1. Keeps(g, s, 0)
      BY DEF Keeps
  <2> QED
      BY <2>1
<1>2. ASSUME NEW k \in 0 .. n, k \in S, k < n PROVE k + 1 \in S
  <2>1. PICK g : Keeps(g, s, k)
      BY <1>2
  <2> DEFINE h == [j \in 0 .. (k + 1) |->
                     IF j <= k THEN g[j]
                     ELSE IF Terminal(s[j]) THEN g[k] ELSE Append(g[k], s[j])]
  <2>2. ASSUME NEW j \in 0 .. (k + 1)
        PROVE  h[j] = IF j = 0 THEN <<>>
                      ELSE IF Terminal(s[j]) THEN h[j - 1] ELSE Append(h[j - 1], s[j])
    <3>1. CASE j = 0
        BY <2>1, <3>1 DEF Keeps
    <3>2. CASE j # 0 /\ j <= k
      <4>1. j - 1 \in 0 .. (k + 1) /\ j - 1 <= k /\ j \in 0 .. k
          BY <3>2
      <4>2. h[j] = g[j] /\ h[j - 1] = g[j - 1]
          BY <3>2, <4>1
      <4>3. g[j] = IF j = 0 THEN <<>>
                   ELSE IF Terminal(s[j]) THEN g[j - 1] ELSE Append(g[j - 1], s[j])
          BY <2>1, <4>1 DEF Keeps
      <4> QED
          BY <4>2, <4>3
    <3>3. CASE j = k + 1
      <4>1. j - 1 = k /\ k \in 0 .. (k + 1) /\ ~(j <= k) /\ k <= k /\ j # 0
          BY <3>3
      <4>2. h[k] = g[k]
          BY <4>1
      <4>3. h[j] = IF Terminal(s[j]) THEN g[k] ELSE Append(g[k], s[j])
          BY <4>1
      <4> QED
          BY <4>1, <4>2, <4>3
    <3> QED
        BY <3>1, <3>2, <3>3
  <2>3. h = [j \in 0 .. (k + 1) |->
                IF j = 0 THEN <<>>
                ELSE IF Terminal(s[j]) THEN h[j - 1] ELSE Append(h[j - 1], s[j])]
      BY <2>2
  <2>4. Keeps(h, s, k + 1)
      BY <2>3 DEF Keeps
  <2> HIDE DEF h
  <2> QED
      BY <2>4
<1> HIDE DEF S
<1>3. n \in S
    BY <1>1, <1>2, UpTo
<1> QED
    BY <1>3 DEF S

\* The envelopes t are those of s that are not terminal, in their order: h
\* says where each of them was.
Sifts(h, t, s) ==
    /\ h \in [1 .. Len(t) -> 1 .. Len(s)]
    /\ \A i, j \in 1 .. Len(t) : i < j => h[i] < h[j]
    /\ \A i \in 1 .. Len(t) : t[i] = s[h[i]] /\ ~Terminal(s[h[i]])
    /\ \A k \in 1 .. Len(s) : ~Terminal(s[k]) => \E i \in 1 .. Len(t) : h[i] = k

\* What pruneTerminalEnvelopes keeps of an outbox.
LEMMA KeptFacts ==
    ASSUME NEW E, NEW s \in Seq(E)
    PROVE  /\ keptEnvelopes(s) \in Seq(E)
           /\ \E h : Sifts(h, keptEnvelopes(s), s)
<1>0. Len(s) \in Nat /\ \A k \in 1 .. Len(s) : s[k] \in E
    BY ElementOfSeq, LenProperties
<1> DEFINE n == Len(s)
           kept == CHOOSE g : Keeps(g, s, n)
<1>1. Keeps(kept, s, n)
    BY <1>0, LoopDefined
<1>2. keptEnvelopes(s) = kept[n]
    BY DEF keptEnvelopes, Keeps
<1>r. \A j \in 0 .. n : kept[j] = IF j = 0 THEN <<>>
                                  ELSE IF Terminal(s[j]) THEN kept[j - 1]
                                  ELSE Append(kept[j - 1], s[j])
  <2> HIDE DEF kept, n
  <2> QED
      BY <1>1 DEF Keeps
<1> HIDE DEF kept
\* After k steps the envelopes kept are those of the first k.
<1> DEFINE P(t, h, k) ==
              /\ h \in [1 .. Len(t) -> 1 .. k]
              /\ \A i, j \in 1 .. Len(t) : i < j => h[i] < h[j]
              /\ \A i \in 1 .. Len(t) : t[i] = s[h[i]] /\ ~Terminal(s[h[i]])
              /\ \A j \in 1 .. k : ~Terminal(s[j]) => \E i \in 1 .. Len(t) : h[i] = j
           S == {k \in 0 .. n : kept[k] \in Seq(E) /\ \E h : P(kept[k], h, k)}
<1>3. 0 \in S
  <2>1. kept[0] = <<>>
      BY <1>0, <1>1 DEF Keeps
  <2>2. kept[0] \in Seq(E) /\ Len(kept[0]) = 0
      BY <2>1, EmptySeq
  <2>3. P(kept[0], [i \in 1 .. 0 |-> 0], 0)
      BY <2>2
  <2> HIDE DEF P
  <2> QED
      BY <1>0, <2>2, <2>3
<1>4. ASSUME NEW k \in 0 .. n, k \in S, k < n PROVE k + 1 \in S
  <2> DEFINE t == kept[k]
             u == kept[k + 1]
  <2>1. k + 1 \in 1 .. n /\ k + 1 \in 0 .. n /\ k + 1 - 1 = k /\ k \in Nat
      BY <1>0, <1>4
  <2>2. u = IF Terminal(s[k + 1]) THEN t ELSE Append(t, s[k + 1])
    <3>1. kept[k + 1] = IF k + 1 = 0 THEN <<>>
                        ELSE IF Terminal(s[k + 1]) THEN kept[k + 1 - 1]
                        ELSE Append(kept[k + 1 - 1], s[k + 1])
      <4> HIDE DEF n
      <4> QED
          BY <1>r, <2>1
    <3> QED
        BY <2>1, <3>1
  <2>3. t \in Seq(E) /\ Len(t) \in Nat /\ \E h : P(t, h, k)
      BY <1>4, LenProperties
  <2>4. PICK h : P(t, h, k)
      BY <2>3
  <2> HIDE DEF t, u
  <2>5. CASE Terminal(s[k + 1])
    <3>1. u = t
        BY <2>2, <2>5
    <3>2. h \in [1 .. Len(t) -> 1 .. (k + 1)]
        BY <2>1, <2>3, <2>4
    <3>3. \A j \in 1 .. (k + 1) : ~Terminal(s[j]) => j \in 1 .. k
        BY <2>1, <2>5
    <3>4. P(u, h, k + 1)
        BY <2>4, <3>1, <3>2, <3>3
    <3> HIDE DEF P
    <3> QED
        BY <2>1, <2>3, <3>1, <3>4 DEF u
  <2>6. CASE ~Terminal(s[k + 1])
    <3>1. u = Append(t, s[k + 1]) /\ s[k + 1] \in E
        BY <1>0, <2>1, <2>2, <2>6
    <3>2. /\ u \in Seq(E) /\ Len(u) = Len(t) + 1 /\ u[Len(u)] = s[k + 1]
          /\ \A i \in 1 .. Len(t) : u[i] = t[i]
        BY <2>3, <3>1, AppendProperties
    <3> DEFINE g == [i \in 1 .. (Len(t) + 1) |-> IF i <= Len(t) THEN h[i] ELSE k + 1]
    <3>3. \A i \in 1 .. Len(t) : h[i] \in 1 .. k /\ g[i] = h[i]
        BY <2>3, <2>4
    <3>4. g[Len(t) + 1] = k + 1
        BY <2>3
    <3>5. g \in [1 .. Len(u) -> 1 .. (k + 1)]
      <4>1. \A i \in 1 .. (Len(t) + 1) : i \in 1 .. Len(t) \/ i = Len(t) + 1
          BY <2>3
      <4>2. \A i \in 1 .. (Len(t) + 1) : g[i] \in 1 .. (k + 1)
        <5> HIDE DEF g
        <5>1. ASSUME NEW i \in 1 .. (Len(t) + 1) PROVE g[i] \in 1 .. (k + 1)
          <6>1. CASE i \in 1 .. Len(t)
              BY <2>1, <3>3, <6>1
          <6>2. CASE i = Len(t) + 1
              BY <2>1, <3>4, <6>2
          <6> QED
              BY <4>1, <6>1, <6>2
        <5> QED
            BY <5>1
      <4>3. DOMAIN g = 1 .. (Len(t) + 1) /\ g = [i \in DOMAIN g |-> g[i]]
          OBVIOUS
      <4> HIDE DEF g
      <4> QED
          BY <3>2, <4>2, <4>3
    <3>6. \A i \in 1 .. Len(u) : i \in 1 .. Len(t) \/ i = Len(t) + 1
        BY <2>3, <3>2
    <3> HIDE DEF g
    <3>7. \A i, j \in 1 .. Len(u) : i < j => g[i] < g[j]
      <4> SUFFICES ASSUME NEW i \in 1 .. Len(u), NEW j \in 1 .. Len(u), i < j PROVE g[i] < g[j]
          OBVIOUS
      <4>1. i \in 1 .. Len(t)
          BY <2>3, <3>2
      <4> QED
          BY <2>1, <2>3, <2>4, <3>3, <3>4, <3>6, <4>1
    <3>8. \A i \in 1 .. Len(u) : u[i] = s[g[i]] /\ ~Terminal(s[g[i]])
        BY <2>4, <2>6, <3>2, <3>3, <3>4, <3>6
    <3>9. \A j \in 1 .. (k + 1) : ~Terminal(s[j]) => \E i \in 1 .. Len(u) : g[i] = j
      <4> SUFFICES ASSUME NEW j \in 1 .. (k + 1), ~Terminal(s[j]) PROVE \E i \in 1 .. Len(u) : g[i] = j
          OBVIOUS
      <4>1. CASE j \in 1 .. k
        <5>1. PICK i \in 1 .. Len(t) : h[i] = j
            BY <2>4, <4>1
        <5>2. i \in 1 .. Len(u) /\ g[i] = j
            BY <2>3, <3>2, <3>3, <5>1
        <5> QED
            BY <5>2
      <4>2. CASE j = k + 1
        <5>1. Len(t) + 1 \in 1 .. Len(u)
            BY <2>3, <3>2
        <5> QED
            BY <3>4, <4>2, <5>1
      <4> QED
          BY <2>1, <4>1, <4>2
    <3>10. P(u, g, k + 1)
        BY <3>5, <3>7, <3>8, <3>9
    <3> HIDE DEF P
    <3> QED
        BY <2>1, <3>2, <3>10 DEF u
  <2> QED
      BY <2>5, <2>6
<1> HIDE DEF S
<1>5. n \in S
    BY <1>0, <1>3, <1>4, UpTo
<1>6. kept[n] \in Seq(E) /\ \E h : P(kept[n], h, n)
    BY <1>5 DEF S
<1> QED
    BY <1>2, <1>6 DEF Sifts

\* What is left of an outbox is no longer than it was, its envelopes come from
\* there, and every envelope that is not terminal is left.
LEMMA KeptElements ==
    ASSUME NEW E, NEW s \in Seq(E)
    PROVE  LET t == keptEnvelopes(s)
           IN  /\ Len(t) \in Nat /\ Len(t) <= Len(s)
               /\ \A i \in 1 .. Len(t) : \E k \in 1 .. Len(s) : t[i] = s[k] /\ ~Terminal(s[k])
               /\ \A k \in 1 .. Len(s) : ~Terminal(s[k]) => \E i \in 1 .. Len(t) : t[i] = s[k]
<1> DEFINE t == keptEnvelopes(s)
<1>1. t \in Seq(E) /\ Len(t) \in Nat /\ Len(s) \in Nat
    BY KeptFacts, LenProperties
<1>2. PICK h : Sifts(h, t, s)
    BY KeptFacts
<1> HIDE DEF t
<1> DEFINE S == {k \in 0 .. Len(t) : k = 0 \/ h[k] >= k}
<1>3. \A k \in 1 .. Len(t) : h[k] \in 1 .. Len(s)
    BY <1>2 DEF Sifts
<1>4. ASSUME NEW k \in 0 .. Len(t), k \in S, k < Len(t) PROVE k + 1 \in S
  <2>1. k + 1 \in 1 .. Len(t) /\ k \in Nat
      BY <1>1, <1>4
  <2>2. k # 0 => h[k] < h[k + 1]
      BY <1>1, <1>2, <2>1 DEF Sifts
  <2>3. k # 0 => h[k] >= k /\ h[k] \in Nat
      BY <1>1, <1>3, <1>4
  <2> QED
      BY <1>1, <1>3, <2>1, <2>2, <2>3
<1>5. Len(t) \in S
  <2>1. 0 \in S
      BY <1>1
  <2> HIDE DEF S
  <2> QED
      BY <1>1, <1>4, <2>1, UpTo
<1>6. Len(t) <= Len(s)
    BY <1>1, <1>3, <1>5
<1>7. \A i \in 1 .. Len(t) : \E k \in 1 .. Len(s) : t[i] = s[k] /\ ~Terminal(s[k])
    BY <1>2, <1>3 DEF Sifts
<1>8. \A k \in 1 .. Len(s) : ~Terminal(s[k]) => \E i \in 1 .. Len(t) : t[i] = s[k]
    BY <1>2 DEF Sifts
<1> QED
    BY <1>1, <1>6, <1>7, <1>8 DEF t

-----------------------------------------------------------------------------
(* What an outcome does to the incidents, and the event it makes of it.    *)

\* The incidents without those pruneExpiredCoolingIncidents removes.
Unexpired(m, at) == [f \in Failures |-> IF Expired(m[f], at) THEN None ELSE m[f]]

CoolAll(m) ==
    [f \in Failures |-> IF m[f] # None /\ m[f].phase = "open" THEN Cooled(m[f]) ELSE m[f]]

Unrecovered(m) == {f \in Failures : m[f] # None /\ m[f].phase = "open" /\ m[f].needsRecovery}

Seen(incident, at) ==
    IF incident # None /\ at < incident.lastSeen THEN incident.lastSeen ELSE at

RecoveryEvent(m, at) ==
    [kind |-> "recovery",
     createdAt |-> Max({at} \cup {m[f].lastSeen : f \in {g \in Failures : m[g] # None /\ m[g].phase = "open"}}),
     incidents |-> {Snapshot(f, m[f]) : f \in Unrecovered(m)}]

EventOf(kind, f, incident) ==
    [kind |-> kind, incidents |-> {Snapshot(f, incident)}, createdAt |-> incident.lastSeen]

Reminded(incident, seen) ==
    [SeenAgain(incident, seen) EXCEPT !.enqueued = seen, !.needsRecovery = TRUE]

\* An outcome that makes no event: n is what becomes of the incidents m.
Silent(m, n, o, at) ==
    \/ o = None /\ Unrecovered(m) = {} /\ n = CoolAll(m)
    \/ /\ o \in Failures /\ o # None /\ m[o] # None
       /\ Seen(m[o], at) < Boundary(m[o])
       /\ n = [m EXCEPT ![o] = SeenAgain(m[o], Seen(m[o], at))]

\* An outcome that makes the event e.
Told(m, n, e, o, at) ==
    \/ o = None /\ Unrecovered(m) # {} /\ n = CoolAll(m) /\ e = RecoveryEvent(m, at)
    \/ /\ o \in Failures /\ o # None
       /\ m[o] = None \/ Expired(m[o], Seen(m[o], at))
       /\ n = [m EXCEPT ![o] = newIncident(Seen(m[o], at))]
       /\ e = EventOf("failure", o, newIncident(Seen(m[o], at)))
    \/ /\ o \in Failures /\ o # None /\ m[o] # None /\ ~Expired(m[o], Seen(m[o], at))
       /\ Seen(m[o], at) >= Boundary(m[o])
       /\ n = [m EXCEPT ![o] = Reminded(m[o], Seen(m[o], at))]
       /\ e = EventOf("reminder", o, Reminded(m[o], Seen(m[o], at)))

\* The outcome before Observe validates it.
Applied(st, o, at, ps) ==
    IF o = None THEN observeSuccess(pruneExpiredCoolingIncidents(st, at), at, ps)
    ELSE observeFailure(pruneExpiredCoolingIncidents(st, at), o, at, ps)

With(st, n) == [st EXCEPT !.incidents = n]

\* The clock shows natural numbers.
LEMMA TimesAreNatural == \A t \in Times : t \in Nat /\ t > 0 /\ t <= MaxTime
BY BoundsAssumption DEF Times

\* What is left of the incidents are incidents that were there.
LEMMA UnexpiredTyped ==
    ASSUME NEW m \in IncidentMaps, NEW at
    PROVE  /\ Unexpired(m, at) \in IncidentMaps
           /\ \A f \in Failures : Unexpired(m, at)[f] # None =>
                Unexpired(m, at)[f] = m[f] /\ m[f] # None /\ ~Expired(m[f], at)
BY DEF IncidentMaps, Unexpired

\* Every outcome is silent or makes an event, which enqueueEvent puts in the outbox.
LEMMA AppliedCases ==
    ASSUME NEW st \in States, NEW o \in Failures \cup {None}, NEW at \in Times, NEW ps
    PROVE  LET m == Unexpired(st.incidents, at) IN
           \E n :
             \/ Silent(m, n, o, at) /\ Applied(st, o, at, ps) = Result(With(st, n), "", None)
             \/ \E e : Told(m, n, e, o, at)
                       /\ Applied(st, o, at, ps) = enqueueEvent(With(st, n), e, ps)
<1> DEFINE m == Unexpired(st.incidents, at)
           b == pruneExpiredCoolingIncidents(st, at)
<1>1. b = With(st, m) /\ st.incidents \in IncidentMaps
    BY DEF pruneExpiredCoolingIncidents, With, Unexpired, States
<1>2. m \in IncidentMaps
    BY <1>1, UnexpiredTyped
<1>3. b.incidents = m /\ \A n : [b EXCEPT !.incidents = n] = With(st, n)
    BY <1>1 DEF With, States
<1> HIDE DEF m, b
<1>4. CASE o = None
  <2>1. Open(b) = {f \in Failures : m[f] # None /\ m[f].phase = "open"}
      BY <1>3 DEF Open
  <2>2. {f \in Open(b) : b.incidents[f].needsRecovery} = Unrecovered(m)
      BY <1>3, <2>1 DEF Unrecovered
  <2>3. [b EXCEPT !.incidents = [f \in Failures |-> IF f \in Open(b) THEN Cooled(@[f]) ELSE @[f]]]
            = With(st, CoolAll(m))
      BY <1>3, <2>1 DEF CoolAll
  <2>4. [kind |-> "recovery",
         createdAt |-> Max({at} \cup {b.incidents[f].lastSeen : f \in Open(b)}),
         incidents |-> {Snapshot(f, b.incidents[f]) : f \in Unrecovered(m)}] = RecoveryEvent(m, at)
      BY <1>3, <2>1 DEF RecoveryEvent
  <2>5. observeSuccess(b, at, ps) =
            IF Unrecovered(m) = {} THEN Result(With(st, CoolAll(m)), "", None)
            ELSE enqueueEvent(With(st, CoolAll(m)), RecoveryEvent(m, at), ps)
      BY <2>2, <2>3, <2>4 DEF observeSuccess
  <2>6. Applied(st, o, at, ps) = observeSuccess(b, at, ps)
      BY <1>4 DEF Applied, b
  <2> QED
      BY <1>4, <2>5, <2>6 DEF Silent, Told, m
<1>5. CASE o # None
  <2>1. o \in Failures /\ o # None
      BY <1>5
  <2> DEFINE i == m[o]
             s == Seen(i, at)
  <2>2. i \in {None} \cup Incidents
      BY <1>2, <2>1 DEF IncidentMaps
  <2>3. s \in Times
      BY <2>2 DEF Seen, Incidents
  <2>4. \A j, kind : enqueueIncident(b, o, j, kind, ps)
                       = enqueueEvent(With(st, [m EXCEPT ![o] = j]), EventOf(kind, o, j), ps)
      BY <1>3 DEF enqueueIncident, EventOf
  <2>5. \A j : [b EXCEPT !.incidents[o] = j] = With(st, [m EXCEPT ![o] = j])
      BY <1>3
  <2>6. Applied(st, o, at, ps) = observeFailure(b, o, at, ps)
      BY <1>5 DEF Applied, b
  <2>7. i # None => i.lastSeen \in Nat /\ Boundary(i) \in Nat
    <3> HIDE DEF i
    <3>1. i # None => i.lastSeen \in Times /\ i.enqueued \in Times
        BY <2>2 DEF Incidents
    <3> QED
        BY <3>1, TimesAreNatural, RepeatAssumption DEF Boundary
  <2>8. b.incidents[o] = i
      BY <1>3
  <2>9. observeFailure(b, o, at, ps) =
          CASE i = None -> enqueueIncident(b, o, newIncident(at), "failure", ps)
            [] Expired(i, s) -> enqueueIncident(b, o, newIncident(s), "failure", ps)
            [] i # None /\ ~Expired(i, s) /\ s >= Boundary(i) ->
                  enqueueIncident(b, o, Reminded(i, s), "reminder", ps)
            [] OTHER -> Result([b EXCEPT !.incidents[o] = SeenAgain(i, s)], "", None)
      BY <2>8 DEF observeFailure, Seen, Reminded
  <2> HIDE DEF i
  <2>10. CASE i = None
    <3>1. s = at
        BY <2>10 DEF Seen
    <3>2. observeFailure(b, o, at, ps) = enqueueIncident(b, o, newIncident(s), "failure", ps)
        BY <2>9, <2>10, <3>1 DEF Expired
    <3> HIDE DEF s
    <3> QED
        BY <2>1, <2>4, <2>6, <2>10, <3>2 DEF Told, s, i, m
  <2>11. CASE i # None /\ Expired(i, s)
    <3>2. observeFailure(b, o, at, ps) = enqueueIncident(b, o, newIncident(s), "failure", ps)
        BY <2>9, <2>11
    <3> HIDE DEF s
    <3> QED
        BY <2>1, <2>4, <2>6, <2>11, <3>2 DEF Told, s, i, m
  <2>12. CASE i # None /\ ~Expired(i, s) /\ s >= Boundary(i)
    <3>2. observeFailure(b, o, at, ps) = enqueueIncident(b, o, Reminded(i, s), "reminder", ps)
        BY <2>9, <2>12
    <3> HIDE DEF s
    <3> QED
        BY <2>1, <2>4, <2>6, <2>12, <3>2 DEF Told, s, i, m
  <2>13. CASE i # None /\ ~Expired(i, s) /\ ~(s >= Boundary(i))
    <3>1. s < Boundary(i)
      <4> HIDE DEF s
      <4> QED
        BY <2>3, <2>7, <2>13, TimesAreNatural
    <3>2. observeFailure(b, o, at, ps) = Result([b EXCEPT !.incidents[o] = SeenAgain(i, s)], "", None)
        BY <2>9, <2>13
    <3>3. Applied(st, o, at, ps) = Result(With(st, [m EXCEPT ![o] = SeenAgain(i, s)]), "", None)
        BY <2>5, <2>6, <3>2
    <3> HIDE DEF s
    <3>4. Silent(m, [m EXCEPT ![o] = SeenAgain(i, s)], o, at)
        BY <2>1, <2>13, <3>1 DEF Silent, s, i
    <3> QED
        BY <3>3, <3>4 DEF m
  <2> QED
      BY <2>10, <2>11, <2>12, <2>13
<1> QED
    BY <1>4, <1>5

-----------------------------------------------------------------------------
(* Single incidents.                                                       *)

SoundIncident(i) == ValidIncident(i) /\ i.lastSeen < Boundary(i)
SoundMap(m) == \A f \in Failures : m[f] # None => SoundIncident(m[f])

\* An incident is seen at the time of the outcome, or when it was seen last if
\* the clock went back.
LEMMA SeenFacts ==
    ASSUME NEW i \in {None} \cup Incidents, NEW at \in Times
    PROVE  /\ Seen(i, at) \in Times /\ Seen(i, at) >= at
           /\ i # None => Seen(i, at) >= i.lastSeen
           /\ (i # None => i.lastSeen <= at) => Seen(i, at) = at
BY TimesAreNatural DEF Seen, Incidents

\* The end of a window is a time.
LEMMA BoundaryNatural ==
    ASSUME NEW i \in Incidents
    PROVE  Boundary(i) \in Nat /\ Boundary(i) = i.enqueued + RepeatAfter /\ RepeatAfter > 0
<1>1. i.enqueued \in Nat
    BY TimesAreNatural DEF Incidents
<1> QED
    BY <1>1, RepeatAssumption DEF Boundary

\* What becomes of an incident that a success cools.
LEMMA CooledFacts ==
    ASSUME NEW i \in Incidents, SoundIncident(i)
    PROVE  /\ Cooled(i) \in Incidents /\ SoundIncident(Cooled(i))
           /\ Cooled(i).phase = "cooling" /\ Cooled(i).first = i.first
           /\ Cooled(i).enqueued = i.enqueued /\ Cooled(i).lastSeen = i.lastSeen
           /\ Cooled(i).occurrences = i.occurrences
<1> DEFINE c == Cooled(i)
<1>1. /\ c \in Incidents
      /\ c.phase = "cooling" /\ c.first = i.first /\ c.enqueued = i.enqueued
      /\ c.lastSeen = i.lastSeen /\ c.occurrences = i.occurrences
      /\ c.needsRecovery = FALSE
      /\ c.recoveryNotified = (i.recoveryNotified \/ i.needsRecovery)
    BY DEF Cooled, Incidents
<1>2. i.recoveryNotified \/ i.needsRecovery
    BY DEF SoundIncident, ValidIncident, Incidents
<1> HIDE DEF c
<1>3. c.recoveryNotified
    BY <1>1, <1>2
<1>4. Boundary(c) = Boundary(i)
    BY <1>1 DEF Boundary
<1> QED
    BY <1>1, <1>3, <1>4 DEF SoundIncident, ValidIncident, c

\* What becomes of one that is seen again inside its window.
LEMMA SeenAgainFacts ==
    ASSUME NEW i \in Incidents, SoundIncident(i), NEW s \in Times, s >= i.lastSeen,
           s < Boundary(i)
    PROVE  LET a == SeenAgain(i, s) IN
           /\ a \in Incidents /\ SoundIncident(a)
           /\ a.phase = "open" /\ a.first = i.first /\ a.enqueued = i.enqueued
           /\ a.lastSeen = s /\ a.occurrences = i.occurrences + 1
           /\ a.needsRecovery = i.needsRecovery
<1> DEFINE a == SeenAgain(i, s)
<1>1. i.occurrences \in Nat \ {0} /\ i.occurrences + 1 \in Nat \ {0}
    BY DEF Incidents
<1>2. /\ a \in Incidents
      /\ a.phase = "open" /\ a.first = i.first /\ a.enqueued = i.enqueued
      /\ a.lastSeen = s /\ a.occurrences = i.occurrences + 1
      /\ a.needsRecovery = i.needsRecovery /\ a.recoveryNotified = i.recoveryNotified
    BY <1>1 DEF SeenAgain, Incidents
<1>3. i.needsRecovery \/ i.recoveryNotified
    BY DEF SoundIncident, ValidIncident, Incidents
<1>4. i.first \in Nat /\ i.enqueued \in Nat /\ i.lastSeen \in Nat /\ s \in Nat
    BY TimesAreNatural DEF Incidents
<1>5. i.first > 0 /\ i.first <= i.enqueued /\ i.enqueued <= i.lastSeen
    BY DEF SoundIncident, ValidIncident
<1> HIDE DEF a
<1>6. a.first > 0 /\ a.first <= a.enqueued /\ a.enqueued <= a.lastSeen /\ a.occurrences >= 1
    BY <1>1, <1>2, <1>4, <1>5
<1>7. a.lastSeen < Boundary(a)
    BY <1>2 DEF Boundary
<1>8. a.phase # "cooling" /\ (a.needsRecovery \/ a.recoveryNotified)
    BY <1>2, <1>3
<1> QED
    BY <1>2, <1>6, <1>7, <1>8 DEF SoundIncident, ValidIncident, a

\* What becomes of one that is seen again after its window.
LEMMA RemindedFacts ==
    ASSUME NEW i \in Incidents, SoundIncident(i), NEW s \in Times, s >= i.lastSeen,
           s >= Boundary(i)
    PROVE  LET a == Reminded(i, s) IN
           /\ a \in Incidents /\ SoundIncident(a)
           /\ a.phase = "open" /\ a.first = i.first /\ a.enqueued = s /\ a.lastSeen = s
           /\ a.occurrences = i.occurrences + 1 /\ a.needsRecovery
           /\ a.first < a.lastSeen
<1> DEFINE a == Reminded(i, s)
<1>1. i.occurrences \in Nat \ {0} /\ i.occurrences + 1 \in Nat \ {0}
    BY DEF Incidents
<1>2. /\ a \in Incidents
      /\ a.phase = "open" /\ a.first = i.first /\ a.enqueued = s
      /\ a.lastSeen = s /\ a.occurrences = i.occurrences + 1 /\ a.needsRecovery = TRUE
    BY <1>1 DEF Reminded, SeenAgain, Incidents
<1>4. i.first \in Nat /\ i.enqueued \in Nat /\ i.lastSeen \in Nat /\ s \in Nat
    BY TimesAreNatural DEF Incidents
<1>5. i.first > 0 /\ i.first <= i.enqueued /\ i.enqueued <= i.lastSeen
    BY DEF SoundIncident, ValidIncident
<1>b. Boundary(i) = i.enqueued + RepeatAfter /\ RepeatAfter \in Nat /\ RepeatAfter > 0
    BY BoundaryNatural, RepeatAssumption
<1> HIDE DEF a
<1>6. /\ a.first > 0 /\ a.first < a.lastSeen /\ a.first <= a.enqueued
      /\ a.enqueued <= a.lastSeen /\ a.occurrences >= 1
    BY <1>1, <1>2, <1>4, <1>5, <1>b
<1>7. a.lastSeen < Boundary(a)
    BY <1>2, <1>4, <1>b DEF Boundary
<1>8. a.phase # "cooling" /\ (a.needsRecovery \/ a.recoveryNotified)
    BY <1>2
<1> QED
    BY <1>2, <1>6, <1>7, <1>8 DEF SoundIncident, ValidIncident, a

\* A new incident.
LEMMA NewIncidentFacts ==
    ASSUME NEW s \in Times
    PROVE  LET a == newIncident(s) IN
           /\ a \in Incidents /\ SoundIncident(a)
           /\ a.phase = "open" /\ a.first = s /\ a.enqueued = s /\ a.lastSeen = s
           /\ a.occurrences = 1 /\ a.needsRecovery
<1> DEFINE a == newIncident(s)
<1>1. /\ a \in Incidents
      /\ a.phase = "open" /\ a.first = s /\ a.enqueued = s /\ a.lastSeen = s
      /\ a.occurrences = 1 /\ a.needsRecovery = TRUE
    BY DEF newIncident, Incidents
<1>2. s \in Nat /\ s > 0
    BY TimesAreNatural
<1> HIDE DEF a
<1>3. a.lastSeen < Boundary(a)
    BY <1>1, <1>2, RepeatAssumption DEF Boundary
<1>4. a.first > 0 /\ a.first <= a.enqueued /\ a.enqueued <= a.lastSeen /\ a.occurrences >= 1
    BY <1>1, <1>2
<1>5. a.phase # "cooling" /\ (a.needsRecovery \/ a.recoveryNotified)
    BY <1>1
<1> QED
    BY <1>1, <1>3, <1>4, <1>5 DEF SoundIncident, ValidIncident, a

-----------------------------------------------------------------------------
(* The incidents after an outcome.                                         *)

\* What can become of one incident: i before, j after.
Becomes(i, j, o, at) ==
    \/ j = i
    \/ o = None /\ i # None /\ i.phase = "open" /\ j = Cooled(i)
    \/ o # None /\ i # None /\ Seen(i, at) < Boundary(i) /\ j = SeenAgain(i, Seen(i, at))
    \/ o # None /\ (i = None \/ Expired(i, Seen(i, at))) /\ j = newIncident(Seen(i, at))
    \/ /\ o # None /\ i # None /\ ~Expired(i, Seen(i, at)) /\ Seen(i, at) >= Boundary(i)
       /\ j = Reminded(i, Seen(i, at))

\* What an outcome makes of each incident.
LEMMA OutcomeBecomes ==
    ASSUME NEW m \in IncidentMaps, NEW o \in Failures \cup {None}, NEW at \in Times, NEW n, NEW e,
           Silent(m, n, o, at) \/ (Told(m, n, e, o, at) /\ (o # None \/ e.kind = "recovery"))
    PROVE  \A f \in Failures : Becomes(m[f], n[f], o, at)
<1> SUFFICES ASSUME NEW f \in Failures PROVE Becomes(m[f], n[f], o, at)
    OBVIOUS
<1>1. CASE o = None /\ n = CoolAll(m)
    BY <1>1 DEF CoolAll, Becomes
<1>2. CASE o # None /\ o \in Failures
  <2>1. \A j : [m EXCEPT ![o] = j][f] = IF f = o THEN j ELSE m[f]
      BY DEF IncidentMaps
  <2> QED
      BY <1>2, <2>1 DEF Silent, Told, Becomes
<1>3. CASE o = None /\ n # CoolAll(m)
    BY <1>3 DEF Silent, Told
<1> QED
    BY <1>1, <1>2, <1>3

\* It is a sound incident, which has been seen at most once more.
LEMMA BecomesSound ==
    ASSUME NEW i \in {None} \cup Incidents, i # None => SoundIncident(i),
           NEW o \in Failures \cup {None}, NEW at \in Times, NEW j, Becomes(i, j, o, at)
    PROVE  /\ j \in {None} \cup Incidents
           /\ j # None => /\ SoundIncident(j)
                          /\ j.occurrences <= (IF i # None THEN i.occurrences ELSE 0)
                                                + (IF o = None THEN 0 ELSE 1)
<1> DEFINE s == Seen(i, at)
           Few(k) == k.occurrences <= (IF i # None THEN i.occurrences ELSE 0)
                                        + (IF o = None THEN 0 ELSE 1)
<1>1. s \in Times /\ (i # None => s >= i.lastSeen)
    BY SeenFacts
<1>2. i # None => i \in Incidents /\ i.occurrences \in Nat /\ i.occurrences >= 1
    BY DEF Incidents
<1> HIDE DEF s
<1>3. CASE j = i
    BY <1>2, <1>3
<1>4. CASE o = None /\ i # None /\ i.phase = "open" /\ j = Cooled(i)
    BY <1>2, <1>4, CooledFacts
<1>5. CASE o # None /\ i # None /\ s < Boundary(i) /\ j = SeenAgain(i, s)
    BY <1>1, <1>2, <1>5, SeenAgainFacts
<1>6. CASE o # None /\ j = newIncident(s)
    BY <1>1, <1>2, <1>6, NewIncidentFacts
<1>7. CASE o # None /\ i # None /\ s >= Boundary(i) /\ j = Reminded(i, s)
    BY <1>1, <1>2, <1>7, RemindedFacts
<1> QED
    BY <1>3, <1>4, <1>5, <1>6, <1>7 DEF Becomes, s

\* The events an outcome can make are typed, and ValidateState accepts them.
LEMMA ToldEvent ==
    ASSUME NEW m \in IncidentMaps, SoundMap(m), NEW o \in Failures \cup {None},
           NEW at \in Times, NEW n, NEW e, Told(m, n, e, o, at)
    PROVE  e \in EventSet /\ ValidEvent(e) /\ (o # None \/ e.kind = "recovery")
<1>1. \A f \in Failures : m[f] # None =>
        /\ m[f] \in Incidents /\ SoundIncident(m[f])
        /\ m[f].first \in Times /\ m[f].lastSeen \in Times /\ m[f].occurrences \in Nat \ {0}
        /\ m[f].first > 0 /\ m[f].first <= m[f].lastSeen
  <2> TAKE f \in Failures
  <2> HAVE m[f] # None
  <2>1. m[f] \in Incidents /\ SoundIncident(m[f])
      BY DEF SoundMap, IncidentMaps
  <2>2. m[f].first \in Times /\ m[f].lastSeen \in Times /\ m[f].enqueued \in Times /\ m[f].occurrences \in Nat \ {0}
      BY <2>1 DEF Incidents
  <2>3. m[f].first > 0 /\ m[f].first <= m[f].enqueued /\ m[f].enqueued <= m[f].lastSeen
      BY <2>1 DEF SoundIncident, ValidIncident
  <2> QED
      BY <2>1, <2>2, <2>3, TimesAreNatural
<1>2. CASE Unrecovered(m) # {} /\ e = RecoveryEvent(m, at)
  <2> DEFINE G == {g \in Failures : m[g] # None /\ m[g].phase = "open"}
             T == {at} \cup {m[f].lastSeen : f \in G}
             I == {Snapshot(f, m[f]) : f \in Unrecovered(m)}
  <2>1. T \in SUBSET Times /\ T \in SUBSET Nat /\ T # {} /\ (\A x \in T : x <= MaxTime)
      BY <1>1, TimesAreNatural
  <2>2. Max(T) \in T /\ \A y \in T : Max(T) >= y
    <3>1. MaxTime \in Nat
        BY BoundsAssumption
    <3> HIDE DEF T
    <3> QED
        BY <2>1, <3>1, MaxFacts
  <2>3. e.kind = "recovery" /\ e.createdAt = Max(T) /\ e.incidents = I
        /\ e = [kind |-> "recovery", createdAt |-> Max(T), incidents |-> I]
      BY <1>2 DEF RecoveryEvent
  <2>4. \A f \in Unrecovered(m) : f \in G /\ f \in Failures /\ m[f] # None /\ m[f].lastSeen \in T
      BY DEF Unrecovered
  <2>5. Max(T) \in Times
      BY <2>1, <2>2
  <2> HIDE DEF T, G
  <2>6. ASSUME NEW f \in Unrecovered(m)
        PROVE  /\ Snapshot(f, m[f]) \in Snapshots /\ Snapshot(f, m[f]).type = f
               /\ Snapshot(f, m[f]).first > 0
               /\ Snapshot(f, m[f]).lastSeen >= Snapshot(f, m[f]).first
               /\ Max(T) >= Snapshot(f, m[f]).lastSeen /\ Snapshot(f, m[f]).occurrences >= 1
    <3>1. /\ Snapshot(f, m[f]).type = f /\ Snapshot(f, m[f]).first = m[f].first
          /\ Snapshot(f, m[f]).lastSeen = m[f].lastSeen
          /\ Snapshot(f, m[f]).occurrences = m[f].occurrences
        BY DEF Snapshot
    <3>2. Snapshot(f, m[f]) \in Snapshots
        BY <1>1, <2>4 DEF Snapshot, Snapshots
    <3>3. m[f].lastSeen >= m[f].first /\ m[f].first > 0 /\ Max(T) >= m[f].lastSeen /\ m[f].occurrences >= 1
        BY <1>1, <2>2, <2>4, TimesAreNatural
    <3> QED
        BY <3>1, <3>2, <3>3
  <2>7. I # {} /\ I \in SUBSET Snapshots
      BY <1>2, <2>6
  <2>8. \A s, t \in I : s.type = t.type => s = t
      BY <2>6
  <2>9. \A s \in I : s.first > 0 /\ s.lastSeen >= s.first /\ Max(T) >= s.lastSeen /\ s.occurrences >= 1
      BY <2>6
  <2> HIDE DEF I
  <2>10. e \in EventSet
      BY <2>3, <2>5, <2>7 DEF EventSet, EventKinds
  <2>11. e.kind # "failure" /\ e.kind # "reminder"
      BY <2>3
  <2> QED
      BY <2>3, <2>7, <2>8, <2>9, <2>10, <2>11 DEF ValidEvent
<1>0. o # None \/ e.kind = "recovery"
    BY DEF Told, RecoveryEvent
<1> DEFINE s == Seen(m[o], at)
<1>3. ASSUME o \in Failures
      PROVE  s \in Times /\ (m[o] # None => s >= m[o].lastSeen)
    BY <1>3, SeenFacts DEF IncidentMaps
<1>4. ASSUME NEW j \in Incidents, NEW kind \in {"failure", "reminder"}, o \in Failures,
             e = EventOf(kind, o, j), j.first > 0, j.lastSeen >= j.first,
             kind = "failure" => j.occurrences = 1 /\ j.first = j.lastSeen,
             kind = "reminder" => j.occurrences >= 2 /\ j.lastSeen > j.first
      PROVE  e \in EventSet /\ ValidEvent(e)
  <2> DEFINE t == Snapshot(o, j)
  <2>1. /\ t.type = o /\ t.first = j.first /\ t.lastSeen = j.lastSeen
        /\ t.occurrences = j.occurrences /\ t \in Snapshots
      BY <1>4 DEF Snapshot, Snapshots, Incidents
  <2>2. e.kind = kind /\ e.incidents = {t} /\ e.createdAt = j.lastSeen
        /\ e = [kind |-> kind, incidents |-> {t}, createdAt |-> j.lastSeen]
      BY <1>4 DEF EventOf
  <2>3. j.lastSeen \in Times /\ j.lastSeen \in Nat /\ j.occurrences \in Nat /\ j.occurrences >= 1
      BY TimesAreNatural DEF Incidents
  <2> HIDE DEF t
  <2>4. e \in EventSet
      BY <2>1, <2>2, <2>3 DEF EventSet, EventKinds
  <2>5. Cardinality({t}) = 1
      BY FS_Singleton
  <2>6. /\ t.first > 0 /\ t.lastSeen >= t.first /\ e.createdAt >= t.lastSeen /\ t.occurrences >= 1
        /\ t.lastSeen = e.createdAt
      BY <1>4, <2>1, <2>2, <2>3
  <2>7. e.kind = "failure" => t.occurrences = 1 /\ t.first = t.lastSeen
      BY <1>4, <2>1, <2>2
  <2>8. e.kind = "reminder" => t.occurrences >= 2 /\ t.lastSeen > t.first
      BY <1>4, <2>1, <2>2
  <2> QED
      BY <2>2, <2>4, <2>5, <2>6, <2>7, <2>8 DEF ValidEvent
<1>5. CASE o \in Failures /\ e = EventOf("failure", o, newIncident(s))
  <2>1. s \in Times /\ s \in Nat /\ s > 0
      BY <1>3, <1>5, TimesAreNatural
  <2> HIDE DEF s
  <2>2. /\ newIncident(s) \in Incidents /\ newIncident(s).first = s /\ newIncident(s).lastSeen = s
        /\ newIncident(s).occurrences = 1
      BY <2>1, NewIncidentFacts
  <2> DEFINE j == newIncident(s)
  <2>3. /\ j.first > 0 /\ j.lastSeen >= j.first /\ j.occurrences = 1 /\ j.first = j.lastSeen
        /\ j \in Incidents /\ e = EventOf("failure", o, j)
      BY <1>5, <2>1, <2>2
  <2> HIDE DEF j
  <2> QED
      BY <1>0, <1>4, <1>5, <2>3
<1>6. CASE o \in Failures /\ m[o] # None /\ s >= Boundary(m[o])
           /\ e = EventOf("reminder", o, Reminded(m[o], s))
  <2>1. s \in Times /\ s >= m[o].lastSeen /\ m[o] \in Incidents /\ SoundIncident(m[o])
      BY <1>1, <1>3, <1>6
  <2>2. m[o].occurrences \in Nat \ {0}
      BY <1>1, <1>6
  <2> HIDE DEF s
  <2>3. LET a == Reminded(m[o], s) IN
           /\ a \in Incidents /\ SoundIncident(a) /\ a.first < a.lastSeen
           /\ a.occurrences = m[o].occurrences + 1
      BY <1>6, <2>1, RemindedFacts
  <2>4. Reminded(m[o], s).first > 0 /\ Reminded(m[o], s).first \in Nat /\ Reminded(m[o], s).lastSeen \in Nat
      BY <2>3, TimesAreNatural DEF SoundIncident, ValidIncident, Incidents
  <2>5. Reminded(m[o], s).occurrences >= 2
      BY <2>2, <2>3
  <2>6. Reminded(m[o], s).lastSeen >= Reminded(m[o], s).first
      BY <2>3, <2>4
  <2> DEFINE j == Reminded(m[o], s)
  <2>7. /\ j.first > 0 /\ j.lastSeen >= j.first /\ j.occurrences >= 2 /\ j.lastSeen > j.first
        /\ j \in Incidents /\ e = EventOf("reminder", o, j)
      BY <1>6, <2>3, <2>4, <2>5, <2>6
  <2> HIDE DEF j
  <2> QED
      BY <1>0, <1>4, <1>6, <2>7
<1> QED
    BY <1>2, <1>5, <1>6 DEF Told

\* The incidents after an outcome are typed and sound, whatever its clock shows.
LEMMA NextIncidents ==
    ASSUME NEW m \in IncidentMaps, SoundMap(m), NEW o \in Failures \cup {None},
           NEW at \in Times, NEW n, NEW e, Silent(m, n, o, at) \/ Told(m, n, e, o, at)
    PROVE  /\ n \in IncidentMaps /\ SoundMap(n)
           /\ \A f \in Failures : Becomes(m[f], n[f], o, at)
           /\ \A f \in Failures : n[f] # None =>
                n[f].occurrences <= (IF m[f] # None THEN m[f].occurrences ELSE 0)
                                      + (IF o = None THEN 0 ELSE 1)
<1>1. \A f \in Failures : Becomes(m[f], n[f], o, at)
    BY OutcomeBecomes, ToldEvent
<1>2. \A f \in Failures : m[f] \in {None} \cup Incidents /\ (m[f] # None => SoundIncident(m[f]))
    BY DEF IncidentMaps, SoundMap
<1>3. \A f \in Failures :
        /\ n[f] \in {None} \cup Incidents
        /\ n[f] # None => /\ SoundIncident(n[f])
                          /\ n[f].occurrences <= (IF m[f] # None THEN m[f].occurrences ELSE 0)
                                                   + (IF o = None THEN 0 ELSE 1)
    BY <1>1, <1>2, BecomesSound
<1>4. n = [f \in Failures |-> n[f]]
  <2>1. m = [f \in Failures |-> m[f]]
      BY DEF IncidentMaps
  <2> QED
      BY <2>1 DEF Silent, Told, CoolAll
<1> QED
    BY <1>1, <1>3, <1>4 DEF IncidentMaps, SoundMap

-----------------------------------------------------------------------------
(* The outbox from one state to the next.                                  *)

\* A state is a record of its parts.
LEMMA StateParts ==
    ASSUME NEW st \in States
    PROVE  /\ st.incidents \in IncidentMaps /\ st.outbox \in Seq(Envelopes)
           /\ st.last \in [Providers -> Final \cup {"none"}]
           /\ Len(st.outbox) \in Nat /\ \A k \in 1 .. Len(st.outbox) : st.outbox[k] \in Envelopes
           /\ \A q \in Seq(Envelopes) :
                /\ [st EXCEPT !.outbox = q] \in States
                /\ [st EXCEPT !.outbox = q].incidents = st.incidents
                /\ [st EXCEPT !.outbox = q].outbox = q
                /\ [st EXCEPT !.outbox = q].last = st.last
           /\ \A n \in IncidentMaps :
                With(st, n) \in States /\ With(st, n).incidents = n /\ With(st, n).outbox = st.outbox
<1>1. /\ st.incidents \in IncidentMaps /\ st.outbox \in Seq(Envelopes)
      /\ st.last \in [Providers -> Final \cup {"none"}]
    BY DEF States
<1>2. Len(st.outbox) \in Nat /\ \A k \in 1 .. Len(st.outbox) : st.outbox[k] \in Envelopes
    BY <1>1, LenProperties, ElementOfSeq
<1>3. \A q \in Seq(Envelopes) :
        /\ [st EXCEPT !.outbox = q] \in States
        /\ [st EXCEPT !.outbox = q].incidents = st.incidents
        /\ [st EXCEPT !.outbox = q].outbox = q
        /\ [st EXCEPT !.outbox = q].last = st.last
    BY DEF States
<1>4. \A n \in IncidentMaps :
        With(st, n) \in States /\ With(st, n).incidents = n /\ With(st, n).outbox = st.outbox
    BY DEF States, With
<1> QED
    BY <1>1, <1>2, <1>3, <1>4

\* An envelope has a delivery for some providers, each with a status.
LEMMA EnvelopeParts ==
    ASSUME NEW d \in Envelopes
    PROVE  /\ d.event \in EventSet
           /\ DOMAIN d.deliveries \subseteq Providers /\ DOMAIN d.deliveries # {}
           /\ \A p \in DOMAIN d.deliveries : d.deliveries[p] \in Statuses
<1>1. d.event \in EventSet /\ d.deliveries \in DeliverySet
    BY DEF Envelopes
<1>2. PICK ps \in (SUBSET Providers) \ {{}} : d.deliveries \in [ps -> Statuses]
    BY <1>1 DEF DeliverySet
<1> QED
    BY <1>1, <1>2

\* An envelope as it was, except that some of its deliveries have been given up.
Later(d, e) ==
    /\ d.event = e.event /\ DOMAIN d.deliveries = DOMAIN e.deliveries
    /\ \A p \in DOMAIN e.deliveries :
        \/ d.deliveries[p] = e.deliveries[p]
        \/ d.deliveries[p] = "retired" /\ e.deliveries[p] \notin Final

\* The envelopes t are some of the envelopes s, or new ones of N: h says where
\* each of them was, 0 for a new one.
Origins(h, t, s, N) ==
    /\ h \in [1 .. Len(t) -> 0 .. Len(s)]
    /\ \A i, j \in 1 .. Len(t) : h[i] = h[j] => i = j
    /\ \A i \in 1 .. Len(t) : IF h[i] = 0 THEN t[i] \in N ELSE Later(t[i], s[h[i]])

Follows(t, s, N) == \E h : Origins(h, t, s, N)

\* pruneTerminalEnvelopes keeps the order of the envelopes and adds none.
LEMMA FollowsKept ==
    ASSUME NEW s, NEW N, NEW t \in Seq(Envelopes), Len(s) \in Nat, Follows(t, s, N)
    PROVE  Follows(keptEnvelopes(t), s, N)
<1> DEFINE u == keptEnvelopes(t)
<1>1. PICK h : Origins(h, t, s, N)
    BY DEF Follows
<1>2. PICK g : Sifts(g, u, t)
    BY KeptFacts
<1>3. Len(u) \in Nat /\ Len(t) \in Nat
    BY KeptFacts, LenProperties
<1> HIDE DEF u
<1> DEFINE c == [i \in 1 .. Len(u) |-> h[g[i]]]
<1>4. \A i \in 1 .. Len(u) : g[i] \in 1 .. Len(t) /\ u[i] = t[g[i]] /\ c[i] = h[g[i]]
    BY <1>2 DEF Sifts
<1>5. \A i \in 1 .. Len(t) : h[i] \in 0 .. Len(s)
    BY <1>1 DEF Origins
<1>6. c \in [1 .. Len(u) -> 0 .. Len(s)]
    BY <1>4, <1>5
<1> HIDE DEF c
<1>7. \A i, j \in 1 .. Len(u) : g[i] = g[j] => i = j
  <2> SUFFICES ASSUME NEW i \in 1 .. Len(u), NEW j \in 1 .. Len(u), g[i] = g[j], i # j
               PROVE  FALSE
      OBVIOUS
  <2>1. i < j \/ j < i
      BY <1>3
  <2>2. g[i] < g[j] \/ g[j] < g[i]
      BY <1>2, <2>1 DEF Sifts
  <2>3. g[i] \in Nat
      BY <1>3, <1>4
  <2> QED
      BY <2>2, <2>3
<1>8. \A i, j \in 1 .. Len(u) : c[i] = c[j] => i = j
    BY <1>1, <1>4, <1>7 DEF Origins
<1>9. \A i \in 1 .. Len(u) : IF c[i] = 0 THEN u[i] \in N ELSE Later(u[i], s[c[i]])
    BY <1>1, <1>4 DEF Origins
<1>10. Origins(c, u, s, N)
    BY <1>6, <1>8, <1>9 DEF Origins
<1> QED
    BY <1>10 DEF Follows, u

\* enqueueEvent adds one envelope.
LEMMA FollowsAppend ==
    ASSUME NEW s, NEW t \in Seq(Envelopes), NEW d \in Envelopes, Len(s) \in Nat,
           Follows(t, s, {})
    PROVE  Follows(Append(t, d), s, {d})
<1> DEFINE u == Append(t, d)
<1>1. PICK h : Origins(h, t, s, {})
    BY DEF Follows
<1>2. /\ Len(t) \in Nat /\ Len(u) = Len(t) + 1 /\ u[Len(t) + 1] = d
      /\ \A i \in 1 .. Len(t) : u[i] = t[i]
    BY AppendProperties, LenProperties
<1> HIDE DEF u
<1> DEFINE g == [i \in 1 .. Len(u) |-> IF i <= Len(t) THEN h[i] ELSE 0]
<1>3. \A i \in 1 .. Len(t) : h[i] \in 0 .. Len(s) /\ h[i] # 0 /\ Later(t[i], s[h[i]])
    BY <1>1 DEF Origins
<1>4. \A i \in 1 .. Len(u) : (i \in 1 .. Len(t) /\ g[i] = h[i]) \/ (i = Len(t) + 1 /\ g[i] = 0)
    BY <1>2
<1>5. g \in [1 .. Len(u) -> 0 .. Len(s)]
    BY <1>3, <1>4
<1> HIDE DEF g
<1>6. \A i, j \in 1 .. Len(u) : g[i] = g[j] => i = j
    BY <1>1, <1>3, <1>4 DEF Origins
<1>7. \A i \in 1 .. Len(u) : IF g[i] = 0 THEN u[i] \in {d} ELSE Later(u[i], s[g[i]])
  <2> TAKE i \in 1 .. Len(u)
  <2>1. CASE i \in 1 .. Len(t) /\ g[i] = h[i]
      BY <1>2, <1>3, <2>1
  <2>2. CASE i = Len(t) + 1 /\ g[i] = 0
      BY <1>2, <2>2
  <2> QED
      BY <1>4, <2>1, <2>2
<1>8. Origins(g, u, s, {d})
    BY <1>5, <1>6, <1>7 DEF Origins
<1> QED
    BY <1>8 DEF Follows, u

\* retireRemovedProviders changes statuses in place.
LEMMA RetireFacts ==
    ASSUME NEW st \in States, NEW ps
    PROVE  LET w == retireRemovedProviders(st, ps) IN
           /\ w \in States /\ w.incidents = st.incidents
           /\ Len(w.outbox) = Len(st.outbox)
           /\ \A k \in 1 .. Len(st.outbox) :
                /\ Later(w.outbox[k], st.outbox[k])
                /\ Terminal(w.outbox[k]) =>
                    \A p \in DOMAIN st.outbox[k].deliveries :
                        st.outbox[k].deliveries[p] \in Final \/ p \notin ps
           /\ Follows(w.outbox, st.outbox, {})
<1> DEFINE w == retireRemovedProviders(st, ps)
           s == st.outbox
           t == w.outbox
           D(k) == [p \in DOMAIN s[k].deliveries |->
                      IF Retires(s[k], p, ps) THEN "retired" ELSE s[k].deliveries[p]]
<1>1. s \in Seq(Envelopes) /\ Len(s) \in Nat /\ (\A k \in 1 .. Len(s) : s[k] \in Envelopes)
      /\ st.last \in [Providers -> Final \cup {"none"}] /\ st.incidents \in IncidentMaps
    BY StateParts
<1> DEFINE T == [k \in 1 .. Len(s) |-> Retired(s[k], ps)]
           L == [p \in Providers |-> IF \E k \in 1 .. Len(s) : Retires(s[k], p, ps)
                                     THEN "retired" ELSE st.last[p]]
<1>w. w = [incidents |-> st.incidents, outbox |-> T, last |-> L]
  <2>1. w = [st EXCEPT !.outbox = T, !.last = L]
      BY DEF retireRemovedProviders
  <2>2. st = [incidents |-> st.incidents, outbox |-> st.outbox, last |-> st.last]
      BY DEF States
  <2> HIDE DEF w, T, L
  <2> QED
      BY <2>1, <2>2
<1> HIDE DEF w
<1>2. t = [k \in 1 .. Len(s) |-> Retired(s[k], ps)]
    BY <1>w
<1>3. ASSUME NEW k \in 1 .. Len(s)
      PROVE  t[k].event = s[k].event /\ t[k].deliveries = D(k) /\ t[k] \in Envelopes
  <2>1. s[k] \in Envelopes
      BY <1>1
  <2>2. PICK qs \in (SUBSET Providers) \ {{}} : s[k].deliveries \in [qs -> Statuses]
      BY <2>1 DEF Envelopes, DeliverySet
  <2>3. t[k] = [s[k] EXCEPT !.deliveries = D(k)]
    <3> HIDE DEF t
    <3>1. t[k] = Retired(s[k], ps)
        BY <1>2
    <3> QED
        BY <3>1 DEF Retired
  <2>4. D(k) \in [qs -> Statuses]
      BY <2>2 DEF Statuses, Final
  <2> HIDE DEF t
  <2>5. D(k) \in DeliverySet
    <3> HIDE DEF D
    <3> QED
      BY <2>4 DEF DeliverySet
  <2>6. \A x, d : x \in Envelopes /\ d \in DeliverySet =>
          LET y == [x EXCEPT !.deliveries = d] IN y.event = x.event /\ y.deliveries = d /\ y \in Envelopes
      BY DEF Envelopes
  <2> HIDE DEF D
  <2> QED
      BY <2>1, <2>3, <2>5, <2>6
<1>4. t \in Seq(Envelopes) /\ Len(t) = Len(s)
  <2>1. t = [k \in 1 .. Len(s) |-> t[k]]
    <3> HIDE DEF t
    <3> QED
      BY <1>2
  <2> HIDE DEF t, D
  <2>2. \A k \in 1 .. Len(s) : t[k] \in Envelopes
      BY <1>3
  <2>3. t \in [1 .. Len(s) -> Envelopes]
      BY <2>1, <2>2
  <2>4. t \in Seq(Envelopes)
      BY <1>1, <2>3, SeqDef
  <2>5. DOMAIN t = 1 .. Len(s) /\ DOMAIN t = 1 .. Len(t) /\ Len(t) \in Nat
      BY <2>3, <2>4, LenProperties
  <2> QED
      BY <1>1, <2>4, <2>5
<1>5. w \in States /\ w.incidents = st.incidents
  <2>2. L \in [Providers -> Final \cup {"none"}]
      BY <1>1 DEF Final
  <2> HIDE DEF T, L
  <2>1. w = [incidents |-> st.incidents, outbox |-> t, last |-> L] /\ w.incidents = st.incidents
      BY <1>w
  <2>3. \A a \in IncidentMaps, b \in Seq(Envelopes), c \in [Providers -> Final \cup {"none"}] :
          [incidents |-> a, outbox |-> b, last |-> c] \in States
      BY DEF States
  <2> HIDE DEF t
  <2> QED
      BY <1>1, <1>4, <2>1, <2>2, <2>3
<1> HIDE DEF t, T, L
<1>6. ASSUME NEW k \in 1 .. Len(s)
      PROVE  /\ Later(t[k], s[k])
             /\ Terminal(t[k]) => \A p \in DOMAIN s[k].deliveries :
                                     s[k].deliveries[p] \in Final \/ p \notin ps
  <2>1. t[k].event = s[k].event /\ t[k].deliveries = D(k)
      BY <1>3
  <2>2. \A p \in DOMAIN s[k].deliveries :
          D(k)[p] = IF Retires(s[k], p, ps) THEN "retired" ELSE s[k].deliveries[p]
      OBVIOUS
  <2>3. DOMAIN D(k) = DOMAIN s[k].deliveries
      OBVIOUS
  <2> HIDE DEF D
  <2> QED
      BY <2>1, <2>2, <2>3 DEF Later, Terminal, Retires
<1>7. Origins([k \in 1 .. Len(t) |-> k], t, s, {})
    BY <1>1, <1>4, <1>6 DEF Origins
<1> QED
    BY <1>4, <1>5, <1>6, <1>7 DEF Follows, w, t

\* An envelope that leaves the outbox has no delivery left to make.
GivesUp(q, s, ps) ==
    \A k \in 1 .. Len(s) :
        \/ \E i \in 1 .. Len(q) : q[i].event = s[k].event
        \/ \A p \in DOMAIN s[k].deliveries : s[k].deliveries[p] \in Final \/ p \notin ps

\* What Observe of the manager works on.
LEMMA PreparedFacts ==
    ASSUME NEW st \in States, NEW ps
    PROVE  LET w == Prepared(st, ps) IN
           /\ w \in States /\ w.incidents = st.incidents
           /\ Len(w.outbox) <= Len(st.outbox)
           /\ Follows(w.outbox, st.outbox, {})
           /\ GivesUp(w.outbox, st.outbox, ps)
           /\ \A i \in 1 .. Len(w.outbox) : ~Terminal(w.outbox[i])
<1> DEFINE v == retireRemovedProviders(st, ps)
           t == v.outbox
           u == keptEnvelopes(t)
<1>1. /\ v \in States /\ v.incidents = st.incidents /\ Len(t) = Len(st.outbox)
      /\ \A k \in 1 .. Len(st.outbox) :
            /\ Later(t[k], st.outbox[k])
            /\ Terminal(t[k]) => \A p \in DOMAIN st.outbox[k].deliveries :
                                     st.outbox[k].deliveries[p] \in Final \/ p \notin ps
      /\ Follows(t, st.outbox, {})
    BY RetireFacts
<1> HIDE DEF v
<1>2. t \in Seq(Envelopes) /\ Len(st.outbox) \in Nat
    BY <1>1, StateParts
<1>3. u \in Seq(Envelopes) /\ Follows(u, st.outbox, {})
    BY <1>1, <1>2, KeptFacts, FollowsKept
<1>4. /\ Len(u) \in Nat /\ Len(u) <= Len(t)
      /\ \A i \in 1 .. Len(u) : \E k \in 1 .. Len(t) : u[i] = t[k] /\ ~Terminal(t[k])
      /\ \A k \in 1 .. Len(t) : ~Terminal(t[k]) => \E i \in 1 .. Len(u) : u[i] = t[k]
    BY <1>2, KeptElements
<1>5. Prepared(st, ps) = [v EXCEPT !.outbox = u]
    BY DEF Prepared, pruneTerminalEnvelopes, v
<1>6. Prepared(st, ps) \in States /\ Prepared(st, ps).incidents = st.incidents /\ Prepared(st, ps).outbox = u
  <2> HIDE DEF u
  <2> QED
      BY <1>1, <1>3, <1>5, StateParts
<1> HIDE DEF u, t
<1>7. GivesUp(u, st.outbox, ps)
  <2> SUFFICES ASSUME NEW k \in 1 .. Len(st.outbox)
               PROVE  \/ \E i \in 1 .. Len(u) : u[i].event = st.outbox[k].event
                      \/ \A p \in DOMAIN st.outbox[k].deliveries :
                             st.outbox[k].deliveries[p] \in Final \/ p \notin ps
      BY DEF GivesUp
  <2>1. CASE Terminal(t[k])
      BY <1>1, <2>1
  <2>2. CASE ~Terminal(t[k])
    <3>1. t[k].event = st.outbox[k].event
        BY <1>1 DEF Later
    <3>2. k \in 1 .. Len(t)
        BY <1>1
    <3>3. \E i \in 1 .. Len(u) : u[i] = t[k]
        BY <1>4, <2>2, <3>2
    <3> QED
        BY <3>1, <3>3
  <2> QED
      BY <2>1, <2>2
<1> QED
    BY <1>1, <1>3, <1>4, <1>6, <1>7

-----------------------------------------------------------------------------
(* Observe, validation included.                                           *)

NewEnvelope(event, ps) == [event |-> event, deliveries |-> [p \in ps |-> "pending"]]

\* The envelope of a new event is pending for every configured provider.
LEMMA NewEnvelopeFacts ==
    ASSUME NEW e \in EventSet, NEW ps \in (SUBSET Providers) \ {{}}
    PROVE  /\ NewEnvelope(e, ps) \in Envelopes /\ NewEnvelope(e, ps).event = e
           /\ DOMAIN NewEnvelope(e, ps).deliveries = ps
           /\ \A p \in ps : NewEnvelope(e, ps).deliveries[p] = "pending"
           /\ ~Terminal(NewEnvelope(e, ps))
<1> DEFINE x == NewEnvelope(e, ps)
           d == [p \in ps |-> "pending"]
<1>1. x = [event |-> e, deliveries |-> d]
    BY DEF NewEnvelope
<1>2. d \in [ps -> Statuses] /\ DOMAIN d = ps /\ \A p \in ps : d[p] = "pending"
    BY DEF Statuses
<1> HIDE DEF x, d
<1>3. d \in DeliverySet
    BY <1>2 DEF DeliverySet
<1>4. x \in Envelopes /\ x.event = e /\ x.deliveries = d
    BY <1>1, <1>3 DEF Envelopes
<1>5. \E p \in ps : TRUE
    OBVIOUS
<1>6. ~Terminal(x)
    BY <1>2, <1>4, <1>5 DEF Terminal, Final
<1> QED
    BY <1>2, <1>4, <1>6 DEF x

\* A state with the incidents n and the event e in its outbox.
Enqueued(st, n, e, ps) ==
    [With(st, n) EXCEPT !.outbox = Append(st.outbox, NewEnvelope(e, ps))]

EnqueueResult(st, n, e, ps) ==
    IF Len(st.outbox) >= MaxEnvelopes THEN Result(With(st, n), "capacity", e)
    ELSE Result(Enqueued(st, n, e, ps), "", e)

\* The state with the new envelope.
LEMMA EnqueueFacts ==
    ASSUME NEW st \in States, NEW n \in IncidentMaps, NEW e \in EventSet,
           NEW ps \in (SUBSET Providers) \ {{}}
    PROVE  /\ enqueueEvent(With(st, n), e, ps) = EnqueueResult(st, n, e, ps)
           /\ Enqueued(st, n, e, ps) \in States
           /\ Enqueued(st, n, e, ps).incidents = n
           /\ Enqueued(st, n, e, ps).outbox = Append(st.outbox, NewEnvelope(e, ps))
           /\ Len(Enqueued(st, n, e, ps).outbox) = Len(st.outbox) + 1
           /\ Enqueued(st, n, e, ps).outbox[Len(st.outbox) + 1] = NewEnvelope(e, ps)
           /\ \A k \in 1 .. Len(st.outbox) : Enqueued(st, n, e, ps).outbox[k] = st.outbox[k]
<1> DEFINE d == NewEnvelope(e, ps)
           q == Append(st.outbox, d)
           b == With(st, n)
           x == Enqueued(st, n, e, ps)
<1>1. b \in States /\ b.incidents = n /\ b.outbox = st.outbox /\ st.outbox \in Seq(Envelopes)
    BY StateParts
<1>2. d \in Envelopes
    BY NewEnvelopeFacts
<1> HIDE DEF d
<1>3. /\ q \in Seq(Envelopes) /\ Len(q) = Len(st.outbox) + 1 /\ q[Len(st.outbox) + 1] = d
      /\ \A k \in 1 .. Len(st.outbox) : q[k] = st.outbox[k]
    BY <1>1, <1>2, AppendProperties
<1> HIDE DEF b
<1>4. enqueueEvent(b, e, ps) = IF Len(st.outbox) >= MaxEnvelopes THEN Result(b, "capacity", e)
                               ELSE Result(x, "", e)
    BY <1>1 DEF enqueueEvent, Enqueued, d, b, NewEnvelope
<1> HIDE DEF q
<1>5. x = [b EXCEPT !.outbox = q]
    BY DEF Enqueued, q, b, d
<1> HIDE DEF x
<1>6. x \in States /\ x.incidents = n /\ x.outbox = q
    BY <1>1, <1>3, <1>5, StateParts
<1> QED
    BY <1>3, <1>4, <1>6 DEF EnqueueResult, x, q, d, b

\* Observe refuses no state that is sound: it applies the outcome, or finds
\* the outbox full and returns the state as it was with the event it has no
\* room for.
LEMMA ObserveCases ==
    ASSUME NEW v \in States, SoundMap(v.incidents), ValidateState(v),
           NEW o \in Failures \cup {None}, NEW at \in Times, NEW ps \in (SUBSET Providers) \ {{}}
    PROVE  LET r == Observe(v, o, at, ps)
               m == Unexpired(v.incidents, at)
           IN  /\ r.error # "invalid"
               /\ \/ /\ r.error = "capacity" /\ r.state = v
                     /\ \E n : Told(m, n, r.event, o, at)
                  \/ /\ r.error = "" /\ r.event = None
                     /\ \E n : Silent(m, n, o, at) /\ r.state = With(v, n)
                  \/ /\ r.error = "" /\ Len(v.outbox) < MaxEnvelopes
                     /\ \E n : /\ Told(m, n, r.event, o, at)
                               /\ r.state = Enqueued(v, n, r.event, ps)
<1> DEFINE r == Observe(v, o, at, ps)
           a == Applied(v, o, at, ps)
           m == Unexpired(v.incidents, at)
           Goal == /\ r.error # "invalid"
                   /\ \/ /\ r.error = "capacity" /\ r.state = v
                         /\ \E n : Told(m, n, r.event, o, at)
                      \/ /\ r.error = "" /\ r.event = None
                         /\ \E n : Silent(m, n, o, at) /\ r.state = With(v, n)
                      \/ /\ r.error = "" /\ Len(v.outbox) < MaxEnvelopes
                         /\ \E n : /\ Told(m, n, r.event, o, at)
                                   /\ r.state = Enqueued(v, n, r.event, ps)
<1>1. /\ a.error = "" /\ ValidateState(a.state) => r = a
      /\ a.error = "capacity" => r = Result(v, "capacity", a.event)
    BY DEF Observe, Applied
<1>2. v.incidents \in IncidentMaps /\ Len(v.outbox) \in Nat /\ v.outbox \in Seq(Envelopes)
      /\ \A k \in 1 .. Len(v.outbox) : v.outbox[k] \in Envelopes
    BY StateParts
<1>3. m \in IncidentMaps /\ SoundMap(m)
    BY <1>2, UnexpiredTyped DEF SoundMap
<1>4. /\ Len(v.outbox) <= MaxEnvelopes
      /\ \A k \in 1 .. Len(v.outbox) :
            ValidEvent(v.outbox[k].event) /\ DOMAIN v.outbox[k].deliveries # {}
    BY DEF ValidateState
<1>5. \E n : \/ Silent(m, n, o, at) /\ a = Result(With(v, n), "", None)
             \/ \E e : Told(m, n, e, o, at) /\ a = enqueueEvent(With(v, n), e, ps)
    BY AppliedCases
<1> HIDE DEF a, m, r
<1>6. ASSUME NEW n, Silent(m, n, o, at), a = Result(With(v, n), "", None)
      PROVE  Goal
  <2>1. n \in IncidentMaps /\ SoundMap(n)
      BY <1>3, <1>6, NextIncidents
  <2>2. With(v, n).incidents = n /\ With(v, n).outbox = v.outbox
      BY <2>1, StateParts
  <2>3. ValidateState(With(v, n))
      BY <1>4, <2>1, <2>2 DEF ValidateState, SoundMap, SoundIncident
  <2>4. a.error = "" /\ a.state = With(v, n) /\ a.event = None
      BY <1>6 DEF Result
  <2>5. r = a
      BY <1>1, <2>3, <2>4
  <2> QED
      BY <1>6, <2>4, <2>5
<1>7. ASSUME NEW n, NEW e, Told(m, n, e, o, at), a = enqueueEvent(With(v, n), e, ps)
      PROVE  Goal
  <2>1. n \in IncidentMaps /\ SoundMap(n) /\ e \in EventSet /\ ValidEvent(e)
      BY <1>3, <1>7, NextIncidents, ToldEvent
  <2> DEFINE x == Enqueued(v, n, e, ps)
             q == x.outbox
  <2>2. /\ a = IF Len(v.outbox) >= MaxEnvelopes THEN Result(With(v, n), "capacity", e)
               ELSE Result(x, "", e)
        /\ x \in States /\ x.incidents = n
        /\ Len(q) = Len(v.outbox) + 1 /\ q[Len(v.outbox) + 1] = NewEnvelope(e, ps)
        /\ \A k \in 1 .. Len(v.outbox) : q[k] = v.outbox[k]
    <3>1. /\ enqueueEvent(With(v, n), e, ps) = EnqueueResult(v, n, e, ps)
          /\ Enqueued(v, n, e, ps) \in States
          /\ Enqueued(v, n, e, ps).incidents = n
          /\ Len(Enqueued(v, n, e, ps).outbox) = Len(v.outbox) + 1
          /\ Enqueued(v, n, e, ps).outbox[Len(v.outbox) + 1] = NewEnvelope(e, ps)
          /\ \A k \in 1 .. Len(v.outbox) : Enqueued(v, n, e, ps).outbox[k] = v.outbox[k]
        BY <2>1, EnqueueFacts
    <3> QED
        BY <1>7, <3>1 DEF EnqueueResult
  <2> HIDE DEF x
  <2>5. Len(v.outbox) \in Nat /\ MaxEnvelopes \in Nat /\ Len(q) = Len(v.outbox) + 1
      BY <1>2, <2>2, EnvelopesAssumption
  <2>3. CASE Len(v.outbox) >= MaxEnvelopes
    <3>1. a = Result(With(v, n), "capacity", e)
        BY <2>2, <2>3
    <3>2. r = Result(v, "capacity", e)
        BY <1>1, <3>1 DEF Result
    <3>3. r.error = "capacity" /\ r.state = v /\ r.event = e
        BY <3>2 DEF Result
    <3> QED
        BY <1>7, <3>3
  <2>4. CASE ~(Len(v.outbox) >= MaxEnvelopes)
    <3>0. a = Result(x, "", e)
        BY <2>2, <2>4
    <3>1. Len(v.outbox) < MaxEnvelopes /\ Len(q) <= MaxEnvelopes
        BY <2>4, <2>5
    <3>2. NewEnvelope(e, ps).event = e /\ DOMAIN NewEnvelope(e, ps).deliveries # {}
        BY <2>1, NewEnvelopeFacts
    <3>3. \A k \in 1 .. Len(q) : ValidEvent(q[k].event) /\ DOMAIN q[k].deliveries # {}
      <4> SUFFICES ASSUME NEW k \in 1 .. Len(q)
                   PROVE  ValidEvent(q[k].event) /\ DOMAIN q[k].deliveries # {}
          OBVIOUS
      <4>1. k \in 1 .. Len(v.outbox) \/ k = Len(v.outbox) + 1
          BY <2>5
      <4>2. CASE k \in 1 .. Len(v.outbox)
          BY <1>4, <2>2, <4>2
      <4>3. CASE k = Len(v.outbox) + 1
          BY <2>1, <2>2, <3>2, <4>3
      <4> QED
          BY <4>1, <4>2, <4>3
    <3>4. ValidateState(x)
        BY <2>1, <2>2, <3>1, <3>3 DEF ValidateState, SoundMap, SoundIncident
    <3>5. a.error = "" /\ a.state = x /\ a.event = e
        BY <3>0 DEF Result
    <3>6. r = a
        BY <1>1, <3>4, <3>5
    <3> QED
        BY <1>7, <3>1, <3>5, <3>6 DEF x
  <2> QED
      BY <2>3, <2>4
<1>8. Goal
    BY <1>5, <1>6, <1>7
<1> QED
    BY <1>8 DEF r, m

\* The outbox that pruneTerminalEnvelopes leaves of one whose first envelopes
\* are not terminal.
LEMMA PrunedFacts ==
    ASSUME NEW x \in States, NEW s, Len(s) \in Nat, NEW N, NEW ps,
           NEW v \in Seq(Envelopes), Len(v) <= Len(x.outbox),
           \A k \in 1 .. Len(v) : x.outbox[k] = v[k] /\ ~Terminal(v[k]),
           Follows(x.outbox, s, N), GivesUp(v, s, ps)
    PROVE  LET w == pruneTerminalEnvelopes(x) IN
           /\ w \in States /\ w.incidents = x.incidents /\ Len(w.outbox) <= Len(x.outbox)
           /\ Follows(w.outbox, s, N) /\ GivesUp(w.outbox, s, ps)
           /\ \A k \in 1 .. Len(x.outbox) : ~Terminal(x.outbox[k]) =>
                x.outbox[k].event \in Events(w)
<1> DEFINE t == x.outbox
           u == keptEnvelopes(t)
           w == pruneTerminalEnvelopes(x)
<1>1. t \in Seq(Envelopes) /\ Len(t) \in Nat /\ Len(v) \in Nat
    BY StateParts, LenProperties
<1>2. /\ u \in Seq(Envelopes) /\ Len(u) \in Nat /\ Len(u) <= Len(t)
      /\ \A k \in 1 .. Len(t) : ~Terminal(t[k]) => \E i \in 1 .. Len(u) : u[i] = t[k]
    BY <1>1, KeptFacts, KeptElements
<1>3. Follows(u, s, N)
    BY <1>1, FollowsKept
<1> HIDE DEF u
<1>4. w \in States /\ w.incidents = x.incidents /\ w.outbox = u
    BY <1>2, StateParts DEF pruneTerminalEnvelopes, u
<1> HIDE DEF w
<1>5. ASSUME NEW k \in 1 .. Len(t), ~Terminal(t[k])
      PROVE  t[k].event \in Events(w)
  <2>1. PICK i \in 1 .. Len(u) : u[i] = t[k]
      BY <1>2, <1>5
  <2> QED
      BY <1>4, <2>1 DEF Events
<1>6. GivesUp(u, s, ps)
  <2> SUFFICES ASSUME NEW k \in 1 .. Len(s), NEW i \in 1 .. Len(v), v[i].event = s[k].event
               PROVE  \E j \in 1 .. Len(u) : u[j].event = s[k].event
      BY DEF GivesUp
  <2>1. i \in 1 .. Len(t) /\ t[i] = v[i] /\ ~Terminal(t[i])
      BY <1>1
  <2>2. \E j \in 1 .. Len(u) : u[j] = t[i]
      BY <1>2, <2>1
  <2> QED
      BY <2>1, <2>2
<1> QED
    BY <1>2, <1>3, <1>4, <1>5, <1>6 DEF w

-----------------------------------------------------------------------------
(* What an observation does to the state on disk.                          *)

NewEvents(N) == {d.event : d \in N}

\* The incidents n and the new envelopes N come from the outcome o at time at,
\* or are as they were.
Explained(n, N, o, at) ==
    LET m == Unexpired(disk.incidents, at) IN
    \/ n = disk.incidents /\ N = {}
    \/ Silent(m, n, o, at) /\ N = {}
    \/ \E e : Told(m, n, e, o, at) /\ N = {NewEnvelope(e, configured)}

\* A state w that an observation may write.
Writes(w, N, o, at) ==
    /\ w \in States /\ Len(w.outbox) <= MaxEnvelopes
    /\ Follows(w.outbox, disk.outbox, N)
    /\ GivesUp(w.outbox, disk.outbox, configured)
    /\ NewEvents(N) \subseteq Events(w)
    /\ Explained(w.incidents, N, o, at)

\* The events of an outbox that follows another are old ones or new ones.
LEMMA FollowedEvents ==
    ASSUME NEW w \in States, NEW v \in States, NEW N, Follows(w.outbox, v.outbox, N)
    PROVE  Events(w) \subseteq Events(v) \cup NewEvents(N)
<1> DEFINE t == w.outbox
           s == v.outbox
<1>1. Len(s) \in Nat
    BY StateParts
<1>2. PICK h : Origins(h, t, s, N)
    BY DEF Follows
<1>3. ASSUME NEW i \in 1 .. Len(t)
      PROVE  t[i].event \in Events(v) \cup NewEvents(N)
  <2>1. CASE h[i] = 0
      BY <1>2, <2>1 DEF Origins, NewEvents
  <2>2. CASE h[i] # 0
    <3>1. h[i] \in 0 .. Len(s)
        BY <1>2 DEF Origins
    <3>2. h[i] \in 1 .. Len(s)
        BY <1>1, <2>2, <3>1
    <3>3. t[i].event = s[h[i]].event
        BY <1>2, <2>2 DEF Origins, Later
    <3> QED
        BY <3>2, <3>3 DEF Events
  <2> QED
      BY <2>1, <2>2
<1> QED
    BY <1>3 DEF Events

\* The state on disk and its preparation pass ValidateState.
LEMMA SoundState ==
    ASSUME Types, Sound
    PROVE  /\ disk \in States /\ configured \in (SUBSET Providers) \ {{}}
           /\ SoundMap(disk.incidents)
           /\ ValidateState(Prepared(disk, configured))
<1> DEFINE v == Prepared(disk, configured)
<1>1. disk \in States /\ configured \in (SUBSET Providers) \ {{}}
    BY DEF Types
<1>2. SoundMap(disk.incidents)
    BY DEF Sound, SoundMap, SoundIncident
<1>3. /\ v \in States /\ v.incidents = disk.incidents /\ Len(v.outbox) <= Len(disk.outbox)
      /\ Follows(v.outbox, disk.outbox, {})
    BY <1>1, PreparedFacts
<1> HIDE DEF v
<1>4. Len(v.outbox) \in Nat /\ Len(disk.outbox) \in Nat /\ Len(disk.outbox) <= MaxEnvelopes
    BY <1>1, <1>3, StateParts DEF Sound
<1>5. Len(v.outbox) <= MaxEnvelopes
    BY <1>3, <1>4, EnvelopesAssumption
<1>6. ASSUME NEW k \in 1 .. Len(v.outbox)
      PROVE  ValidEvent(v.outbox[k].event) /\ DOMAIN v.outbox[k].deliveries # {}
  <2>1. v.outbox[k] \in Envelopes
      BY <1>3, StateParts
  <2>2. v.outbox[k].event \in Events(v)
      BY DEF Events
  <2>3. Events(v) \subseteq Events(disk)
    <3>1. Events(v) \subseteq Events(disk) \cup NewEvents({})
        BY <1>1, <1>3, FollowedEvents
    <3> QED
        BY <3>1 DEF NewEvents
  <2>4. ValidEvent(v.outbox[k].event)
      BY <2>2, <2>3 DEF Sound
  <2> QED
      BY <2>1, <2>4, EnvelopeParts
<1> QED
    BY <1>1, <1>2, <1>3, <1>5, <1>6 DEF ValidateState, SoundMap, SoundIncident, v

\* Whatever Observe returns or writes is a state that follows the one on disk;
\* it never refuses that state.
LEMMA ObserveWrites ==
    ASSUME Types, Sound, NEW o \in Failures \cup {None}, NEW at \in Times
    PROVE  LET v == Prepared(disk, configured)
               r == Observe(v, o, at, configured)
               m == Unexpired(disk.incidents, at)
               w == pruneTerminalEnvelopes(r.state)
           IN  /\ Writes(disk, {}, o, at) /\ Writes(v, {}, o, at)
               /\ r.error # "invalid"
               /\ r.error # "" => r.error = "capacity" /\ \E n : Told(m, n, r.event, o, at)
               /\ r.error = "" =>
                    \E N : /\ Writes(w, N, o, at)
                           /\ r.event = None \/ Told(m, w.incidents, r.event, o, at)
<1> DEFINE v == Prepared(disk, configured)
           r == Observe(v, o, at, configured)
           m == Unexpired(disk.incidents, at)
           w == pruneTerminalEnvelopes(r.state)
           s == disk.outbox
<1>1. /\ disk \in States /\ configured \in (SUBSET Providers) \ {{}}
      /\ SoundMap(disk.incidents) /\ ValidateState(v)
    BY SoundState
<1>2. /\ v \in States /\ v.incidents = disk.incidents
      /\ Len(v.outbox) <= Len(s)
      /\ Follows(v.outbox, s, {}) /\ GivesUp(v.outbox, s, configured)
      /\ \A i \in 1 .. Len(v.outbox) : ~Terminal(v.outbox[i])
    BY <1>1, PreparedFacts
<1> HIDE DEF v
<1>3. /\ r.error # "invalid"
      /\ \/ /\ r.error = "capacity" /\ r.state = v
            /\ \E n : Told(m, n, r.event, o, at)
         \/ /\ r.error = "" /\ r.event = None
            /\ \E n : Silent(m, n, o, at) /\ r.state = With(v, n)
         \/ /\ r.error = "" /\ Len(v.outbox) < MaxEnvelopes
            /\ \E n : /\ Told(m, n, r.event, o, at)
                      /\ r.state = Enqueued(v, n, r.event, configured)
  <2> DEFINE u == Unexpired(v.incidents, at)
  <2>1. /\ r.error # "invalid"
        /\ \/ /\ r.error = "capacity" /\ r.state = v
              /\ \E n : Told(u, n, r.event, o, at)
           \/ /\ r.error = "" /\ r.event = None
              /\ \E n : Silent(u, n, o, at) /\ r.state = With(v, n)
           \/ /\ r.error = "" /\ Len(v.outbox) < MaxEnvelopes
              /\ \E n : /\ Told(u, n, r.event, o, at)
                        /\ r.state = Enqueued(v, n, r.event, configured)
    <3>1. SoundMap(v.incidents)
        BY <1>1, <1>2
    <3> QED
        BY <1>1, <1>2, <3>1, ObserveCases
  <2>2. u = m
      BY <1>2
  <2> QED
      BY <2>1, <2>2
<1>4. /\ Len(s) \in Nat /\ Len(s) <= MaxEnvelopes /\ Len(v.outbox) \in Nat
      /\ Len(v.outbox) <= MaxEnvelopes /\ MaxEnvelopes \in Nat
      /\ v.outbox \in Seq(Envelopes) /\ disk.incidents \in IncidentMaps
      /\ \A k \in 1 .. Len(s) : s[k] \in Envelopes
    BY <1>1, <1>2, StateParts, EnvelopesAssumption DEF ValidateState, Sound
<1>5. m \in IncidentMaps /\ SoundMap(m)
    BY <1>1, <1>4, UnexpiredTyped DEF SoundMap
<1>6. Writes(disk, {}, o, at)
  <2>1. Origins([k \in 1 .. Len(s) |-> k], s, s, {})
      BY <1>4 DEF Origins, Later
  <2>2. GivesUp(s, s, configured)
      BY DEF GivesUp
  <2> QED
      BY <1>1, <1>4, <2>1, <2>2 DEF Writes, Follows, NewEvents, Explained
<1>7. Writes(v, {}, o, at)
    BY <1>2, <1>4 DEF Writes, NewEvents, Explained
<1> HIDE DEF r, m
<1>8. ASSUME NEW n, Silent(m, n, o, at), r.state = With(v, n), r.event = None
      PROVE  \E N : /\ Writes(w, N, o, at)
                    /\ r.event = None \/ Told(m, w.incidents, r.event, o, at)
  <2>1. n \in IncidentMaps
      BY <1>5, <1>8, NextIncidents
  <2> DEFINE x == With(v, n)
  <2>2. x \in States /\ x.incidents = n /\ x.outbox = v.outbox
      BY <1>2, <2>1, StateParts
  <2> HIDE DEF x
  <2>3. LET y == pruneTerminalEnvelopes(x) IN
        /\ y \in States /\ y.incidents = x.incidents /\ Len(y.outbox) <= Len(x.outbox)
        /\ Follows(y.outbox, s, {}) /\ GivesUp(y.outbox, s, configured)
    <3>1. /\ \A k \in 1 .. Len(v.outbox) : x.outbox[k] = v.outbox[k] /\ ~Terminal(v.outbox[k])
          /\ Follows(x.outbox, s, {}) /\ Len(v.outbox) <= Len(x.outbox)
        BY <1>2, <1>4, <2>2
    <3> QED
        BY <1>2, <1>4, <2>2, <3>1, PrunedFacts
  <2>4. w = pruneTerminalEnvelopes(x)
      BY <1>8 DEF x
  <2> HIDE DEF w
  <2>5. Len(w.outbox) \in Nat
      BY <2>3, <2>4, StateParts
  <2>6. Len(w.outbox) <= MaxEnvelopes
      BY <1>4, <2>2, <2>3, <2>4, <2>5
  <2>7. Writes(w, {}, o, at)
      BY <1>8, <2>2, <2>3, <2>4, <2>6 DEF Writes, NewEvents, Explained, m
  <2> QED
      BY <1>8, <2>7
<1>9. ASSUME NEW n, Told(m, n, r.event, o, at), Len(v.outbox) < MaxEnvelopes,
             r.state = Enqueued(v, n, r.event, configured)
      PROVE  \E N : /\ Writes(w, N, o, at)
                    /\ r.event = None \/ Told(m, w.incidents, r.event, o, at)
  <2> DEFINE e == r.event
             x == Enqueued(v, n, e, configured)
             d == NewEnvelope(e, configured)
  <2>1. n \in IncidentMaps /\ e \in EventSet
      BY <1>5, <1>9, NextIncidents, ToldEvent
  <2> HIDE DEF e
  <2>2. /\ x \in States /\ x.incidents = n /\ x.outbox = Append(v.outbox, d)
        /\ Len(x.outbox) = Len(v.outbox) + 1 /\ x.outbox[Len(v.outbox) + 1] = d
        /\ \A k \in 1 .. Len(v.outbox) : x.outbox[k] = v.outbox[k]
      BY <1>1, <1>2, <2>1, EnqueueFacts
  <2>3. d \in Envelopes /\ d.event = e /\ ~Terminal(d)
      BY <1>1, <2>1, NewEnvelopeFacts
  <2> HIDE DEF x, d
  <2>4. Follows(x.outbox, s, {d})
      BY <1>2, <1>4, <2>2, <2>3, FollowsAppend
  <2>5. Len(v.outbox) <= Len(x.outbox) /\ Len(x.outbox) <= MaxEnvelopes
        /\ Len(v.outbox) + 1 \in 1 .. Len(x.outbox) /\ Len(x.outbox) \in Nat
      BY <1>4, <1>9, <2>2
  <2>6. LET y == pruneTerminalEnvelopes(x) IN
        /\ y \in States /\ y.incidents = x.incidents /\ Len(y.outbox) <= Len(x.outbox)
        /\ Follows(y.outbox, s, {d}) /\ GivesUp(y.outbox, s, configured)
        /\ \A k \in 1 .. Len(x.outbox) : ~Terminal(x.outbox[k]) => x.outbox[k].event \in Events(y)
    <3>1. \A k \in 1 .. Len(v.outbox) : x.outbox[k] = v.outbox[k] /\ ~Terminal(v.outbox[k])
        BY <1>2, <2>2
    <3> QED
        BY <1>2, <1>4, <2>2, <2>4, <2>5, <3>1, PrunedFacts
  <2>7. w = pruneTerminalEnvelopes(x)
      BY <1>9 DEF x, e
  <2> HIDE DEF w
  <2>8. Len(w.outbox) \in Nat
      BY <2>6, <2>7, StateParts
  <2>9. Len(w.outbox) <= MaxEnvelopes
      BY <1>4, <2>5, <2>6, <2>7, <2>8
  <2>10. NewEvents({d}) \subseteq Events(w)
      BY <2>2, <2>3, <2>5, <2>6, <2>7 DEF NewEvents
  <2>11. Told(m, w.incidents, e, o, at)
      BY <1>9, <2>2, <2>6, <2>7 DEF e
  <2>12. Explained(w.incidents, {d}, o, at)
      BY <2>11 DEF Explained, d, m
  <2>13. Writes(w, {d}, o, at)
      BY <2>6, <2>7, <2>9, <2>10, <2>12 DEF Writes
  <2> QED
      BY <2>11, <2>13 DEF e
<1>10. r.error = "" => \E N : /\ Writes(w, N, o, at)
                              /\ r.event = None \/ Told(m, w.incidents, r.event, o, at)
    BY <1>3, <1>8, <1>9
<1>11. r.error # "" => r.error = "capacity" /\ \E n : Told(m, n, r.event, o, at)
    BY <1>3
<1> QED
    BY <1>3, <1>6, <1>7, <1>10, <1>11 DEF v, r, m, w

-----------------------------------------------------------------------------
(* Observations keep the invariant.                                        *)

\* The events an observation adds are valid, and pending for every provider.
LEMMA WritesEvents ==
    ASSUME Types, Sound, NEW w, NEW N, NEW o \in Failures \cup {None}, NEW at \in Times,
           Writes(w, N, o, at)
    PROVE  /\ enqueued \cup Events(w) = enqueued \cup NewEvents(N)
           /\ \A d \in N : d \in Envelopes /\ d.event \in EventSet /\ ValidEvent(d.event)
                           /\ DOMAIN d.deliveries = configured
                           /\ \A p \in configured : d.deliveries[p] = "pending"
<1> DEFINE m == Unexpired(disk.incidents, at)
<1>1. disk \in States /\ w \in States /\ configured \in (SUBSET Providers) \ {{}}
    BY SoundState DEF Writes
<1>2. Events(w) \subseteq Events(disk) \cup NewEvents(N)
    BY <1>1, FollowedEvents DEF Writes
<1>3. Events(disk) \subseteq enqueued /\ NewEvents(N) \subseteq Events(w)
    BY DEF Sound, Writes
<1>4. m \in IncidentMaps /\ SoundMap(m)
  <2>1. disk.incidents \in IncidentMaps /\ SoundMap(disk.incidents)
      BY <1>1, SoundState, StateParts
  <2> QED
      BY <2>1, UnexpiredTyped DEF SoundMap
<1> HIDE DEF m
<1>5. ASSUME NEW e, Told(m, w.incidents, e, o, at), N = {NewEnvelope(e, configured)}, NEW d \in N
      PROVE  d \in Envelopes /\ d.event \in EventSet /\ ValidEvent(d.event)
             /\ DOMAIN d.deliveries = configured
             /\ \A p \in configured : d.deliveries[p] = "pending"
  <2>1. e \in EventSet /\ ValidEvent(e)
      BY <1>4, <1>5, ToldEvent
  <2>2. d = NewEnvelope(e, configured)
      BY <1>5
  <2> QED
      BY <1>1, <2>1, <2>2, NewEnvelopeFacts
<1>6. N = {} \/ \E e : Told(m, w.incidents, e, o, at) /\ N = {NewEnvelope(e, configured)}
    BY DEF Writes, Explained, m
<1>7. \A d \in N : d \in Envelopes /\ d.event \in EventSet /\ ValidEvent(d.event)
                   /\ DOMAIN d.deliveries = configured
                   /\ \A p \in configured : d.deliveries[p] = "pending"
    BY <1>5, <1>6
<1> QED
    BY <1>2, <1>3, <1>7

\* The incidents an observation leaves are sound, and none has been seen more
\* often than failures were counted.
LEMMA WritesIncidents ==
    ASSUME Types, Sound, NEW w, NEW N, NEW o \in Failures \cup {None}, NEW at \in Times,
           Writes(w, N, o, at)
    PROVE  /\ SoundMap(w.incidents)
           /\ \A f \in Failures : w.incidents[f] # None =>
                w.incidents[f].occurrences \in Nat
                /\ w.incidents[f].occurrences + Unobserved
                      <= failures + (IF o = None THEN 0 ELSE 1)
<1> DEFINE i == disk.incidents
           m == Unexpired(i, at)
           n == w.incidents
           c == IF o = None THEN 0 ELSE 1
<1>1. /\ i \in IncidentMaps /\ SoundMap(i) /\ n \in IncidentMaps
      /\ Unobserved \in {0, 1} /\ failures \in Nat /\ c \in {0, 1} /\ Unobserved <= failures
  <2>1. i \in IncidentMaps /\ SoundMap(i) /\ n \in IncidentMaps
      BY SoundState, StateParts DEF Writes
  <2> QED
      BY <2>1, BoundsAssumption DEF Types, Unobserved, Sound
<1>2. m \in IncidentMaps /\ SoundMap(m)
      /\ \A f \in Failures : m[f] # None => m[f] = i[f] /\ i[f] # None
    BY <1>1, UnexpiredTyped DEF SoundMap
<1>3. n = i \/ Silent(m, n, o, at) \/ \E e : Told(m, n, e, o, at)
    BY DEF Writes, Explained
<1>a. \A f \in Failures : i[f] # None =>
        i[f].occurrences \in Nat /\ i[f].occurrences + Unobserved <= failures
    BY <1>1 DEF Sound, IncidentMaps, Incidents
<1>b. \A f \in Failures : n[f] # None => n[f].occurrences \in Nat
    BY <1>1 DEF IncidentMaps, Incidents
<1> HIDE DEF m, n, i, c
<1>4. CASE n = i
    BY <1>1, <1>4, <1>a DEF n
<1>5. CASE n # i
  <2>1. /\ SoundMap(n)
        /\ \A f \in Failures : n[f] # None =>
             n[f].occurrences <= (IF m[f] # None THEN m[f].occurrences ELSE 0) + c
      BY <1>2, <1>3, <1>5, NextIncidents DEF c
  <2>2. ASSUME NEW f \in Failures, n[f] # None
        PROVE  n[f].occurrences + Unobserved <= failures + c
    <3>1. CASE m[f] # None
      <4>1. n[f].occurrences <= m[f].occurrences + c /\ m[f].occurrences = i[f].occurrences
            /\ i[f].occurrences \in Nat /\ i[f].occurrences + Unobserved <= failures
          BY <1>2, <1>a, <2>1, <2>2, <3>1
      <4> QED
          BY <1>1, <1>b, <2>2, <4>1
    <3>2. CASE m[f] = None
      <4>1. n[f].occurrences <= 0 + c
          BY <2>1, <2>2, <3>2
      <4>2. n[f].occurrences >= 1
          BY <1>1, <2>2 DEF IncidentMaps, Incidents
      <4> QED
          BY <1>1, <1>b, <2>2, <4>1, <4>2
    <3> QED
        BY <3>1, <3>2
  <2> QED
      BY <1>b, <2>1, <2>2 DEF n, c
<1> QED
    BY <1>4, <1>5

\* What was answered stays answered, in whatever state an observation writes.
LEMMA WritesAnswered ==
    ASSUME Types, Sound, Answered, NEW w, NEW N, NEW o \in Failures \cup {None},
           NEW at \in Times, Writes(w, N, o, at)
    PROVE  \A k \in 1 .. Len(w.outbox) : \A p \in DOMAIN w.outbox[k].deliveries :
              w.outbox[k].deliveries[p] \in Sent => <<w.outbox[k].event, p>> \in settled
<1> DEFINE s == disk.outbox
           t == w.outbox
<1>1. Len(s) \in Nat
    BY SoundState, StateParts
<1>2. PICK h : Origins(h, t, s, N)
    BY DEF Writes, Follows
<1>3. ASSUME NEW k \in 1 .. Len(t), NEW p \in DOMAIN t[k].deliveries, t[k].deliveries[p] \in Sent
      PROVE  <<t[k].event, p>> \in settled
  <2>1. CASE h[k] = 0
    <3>1. t[k] \in N
        BY <1>2, <2>1 DEF Origins
    <3>2. t[k].deliveries[p] = "pending"
        BY <1>3, <3>1, WritesEvents
    <3> QED
        BY <1>3, <3>2 DEF Sent
  <2>2. CASE h[k] # 0
    <3>1. h[k] \in 1 .. Len(s) /\ Later(t[k], s[h[k]])
        BY <1>1, <1>2, <2>2 DEF Origins
    <3>2. p \in DOMAIN s[h[k]].deliveries /\ t[k].event = s[h[k]].event
          /\ s[h[k]].deliveries[p] = t[k].deliveries[p]
        BY <1>3, <3>1 DEF Later, Sent
    <3> QED
        BY <1>3, <3>1, <3>2 DEF Answered
  <2> QED
      BY <2>1, <2>2
<1> QED
    BY <1>3

\* An incident after an observation has the announcement it had or the new one.
LEMMA WritesAnnounced ==
    ASSUME Types, Sound, SuppressionIsAnnounced, NEW w, NEW N,
           NEW o \in Failures \cup {None}, NEW at \in Times, Writes(w, N, o, at)
    PROVE  \A f \in Failures : w.incidents[f] # None =>
              \E e \in enqueued \cup NewEvents(N) :
                  /\ e.kind # "recovery"
                  /\ e.createdAt = w.incidents[f].enqueued
                  /\ <<f, w.incidents[f].first>> \in IncidentIds(e)
<1> DEFINE i == disk.incidents
           m == Unexpired(i, at)
           n == w.incidents
           Announced(j, f) == \E e \in enqueued \cup NewEvents(N) :
                  /\ e.kind # "recovery"
                  /\ e.createdAt = j.enqueued
                  /\ <<f, j.first>> \in IncidentIds(e)
<1>1. i \in IncidentMaps /\ SoundMap(i)
    BY SoundState, StateParts
<1>2. m \in IncidentMaps /\ SoundMap(m)
      /\ \A f \in Failures : m[f] # None => m[f] = i[f] /\ i[f] # None
    BY <1>1, UnexpiredTyped DEF SoundMap
<1>3. \A f \in Failures : i[f] # None => Announced(i[f], f)
    BY DEF SuppressionIsAnnounced
<1>a. \A f \in Failures : m[f] # None => Announced(m[f], f) /\ m[f] \in Incidents /\ SoundIncident(m[f])
    BY <1>2, <1>3 DEF IncidentMaps, SoundMap
<1> HIDE DEF Announced, m
<1>4. ASSUME NEW f \in Failures, n[f] # None
      PROVE  Announced(n[f], f)
  <2>1. CASE n = i
      BY <1>3, <1>4, <2>1
  <2>2. ASSUME NEW e, Silent(m, n, o, at) \/ (Told(m, n, e, o, at) /\ N = {NewEnvelope(e, configured)})
        PROVE  Announced(n[f], f)
    <3>1. Becomes(m[f], n[f], o, at)
        BY <1>2, <2>2, NextIncidents
    <3> DEFINE s == Seen(m[f], at)
    <3>2. s \in Times /\ (m[f] # None => s >= m[f].lastSeen)
        BY <1>2, SeenFacts DEF IncidentMaps
    <3> HIDE DEF s
    <3>3. ASSUME m[f] # None, n[f].enqueued = m[f].enqueued, n[f].first = m[f].first
          PROVE  Announced(n[f], f)
        BY <1>a, <3>3 DEF Announced
    <3>4. CASE m[f] # None /\ n[f] = Cooled(m[f])
        BY <1>a, <3>3, <3>4, CooledFacts
    <3>5. CASE m[f] # None /\ s < Boundary(m[f]) /\ n[f] = SeenAgain(m[f], s)
        BY <1>a, <3>2, <3>3, <3>5, SeenAgainFacts
    <3>6. CASE n[f] = m[f]
        BY <1>4, <3>3, <3>6
    <3>7. ASSUME n[f] # m[f], o # None, NEW j, NEW kind \in {"failure", "reminder"},
                 n = [m EXCEPT ![o] = j], e = EventOf(kind, o, j), j.lastSeen = j.enqueued,
                 N = {NewEnvelope(e, configured)}
          PROVE  Announced(n[f], f)
      <4>1. f = o /\ n[f] = j
          BY <1>2, <3>7 DEF IncidentMaps
      <4>2. e \in NewEvents(N)
          BY <3>7 DEF NewEvents, NewEnvelope
      <4>3. e.kind # "recovery" /\ e.createdAt = j.enqueued /\ <<f, j.first>> \in IncidentIds(e)
        <5>1. e.kind = kind /\ e.createdAt = j.lastSeen /\ e.incidents = {Snapshot(o, j)}
            BY <3>7 DEF EventOf
        <5>2. IdOf(Snapshot(o, j)) = <<o, j.first>>
            BY DEF IdOf, Snapshot
        <5> QED
            BY <3>7, <4>1, <5>1, <5>2 DEF IncidentIds
      <4> QED
          BY <4>1, <4>2, <4>3 DEF Announced
    <3>8. CASE /\ n[f] # m[f]
               /\ Told(m, n, e, o, at) /\ N = {NewEnvelope(e, configured)} /\ o # None
      <4> DEFINE r == Seen(m[o], at)
      <4>1. o \in Failures /\ r \in Times /\ (m[o] # None => r >= m[o].lastSeen)
          BY <1>2, <3>8, SeenFacts DEF IncidentMaps
      <4>2. CASE n = [m EXCEPT ![o] = newIncident(r)] /\ e = EventOf("failure", o, newIncident(r))
        <5>1. newIncident(r).lastSeen = newIncident(r).enqueued
            BY DEF newIncident
        <5> HIDE DEF r
        <5> QED
            BY <3>7, <3>8, <4>2, <5>1
      <4>3. CASE n = [m EXCEPT ![o] = Reminded(m[o], r)] /\ e = EventOf("reminder", o, Reminded(m[o], r))
                 /\ m[o] # None /\ r >= Boundary(m[o])
        <5>1. Reminded(m[o], r).lastSeen = Reminded(m[o], r).enqueued
          <6> HIDE DEF r
          <6> QED
            BY <1>a, <4>1, <4>3, RemindedFacts
        <5> HIDE DEF r
        <5> QED
            BY <3>7, <3>8, <4>3, <5>1
      <4> QED
          BY <3>8, <4>2, <4>3 DEF Told
    <3>9. CASE Silent(m, n, o, at) \/ o = None
      <4>1. n[f] = m[f] \/ (m[f] # None /\ n[f] = Cooled(m[f]))
            \/ (m[f] # None /\ s < Boundary(m[f]) /\ n[f] = SeenAgain(m[f], s))
        <5>1. CASE n = CoolAll(m)
            BY <5>1 DEF CoolAll
        <5>2. CASE n # CoolAll(m)
          <6>1. o \in Failures /\ m[o] # None /\ Seen(m[o], at) < Boundary(m[o])
                /\ n = [m EXCEPT ![o] = SeenAgain(m[o], Seen(m[o], at))]
              BY <2>2, <3>9, <5>2 DEF Silent, Told
          <6> QED
              BY <1>2, <6>1 DEF s, IncidentMaps
        <5> QED
            BY <5>1, <5>2
      <4> QED
          BY <3>4, <3>5, <3>6, <4>1
    <3> QED
        BY <2>2, <3>6, <3>8, <3>9
  <2>3. n = i \/ \E e : Silent(m, n, o, at) \/ (Told(m, n, e, o, at) /\ N = {NewEnvelope(e, configured)})
      BY DEF Writes, Explained, m
  <2> QED
      BY <2>1, <2>2, <2>3
<1> QED
    BY <1>4 DEF Announced

\* The part of the invariant that is about the state on disk, after an observation.
LEMMA ObservedState ==
    ASSUME IInv, NEW N, NEW o \in Failures \cup {None}, NEW at \in Times,
           Writes(disk', N, o, at), enqueued' = enqueued \cup Events(disk'), settled' = settled,
           inflight' = None, failures' \in Nat, Unobserved' \in {0, 1}, Unobserved' <= failures',
           failures + (IF o = None THEN 0 ELSE 1) + Unobserved' <= failures' + Unobserved
    PROVE  /\ disk' \in States /\ enqueued' \in SUBSET EventSet
           /\ Sound' /\ Answered' /\ SuppressionIsAnnounced'
<1> USE DEF IInv
<1>1. disk' \in States /\ Len(disk'.outbox) <= MaxEnvelopes
    BY DEF Writes
<1>2. /\ enqueued' = enqueued \cup NewEvents(N)
      /\ \A e \in NewEvents(N) : e \in EventSet /\ ValidEvent(e)
  <2>1. /\ enqueued \cup Events(disk') = enqueued \cup NewEvents(N)
        /\ \A d \in N : d.event \in EventSet /\ ValidEvent(d.event)
      BY WritesEvents
  <2>2. Events(disk)' = Events(disk')
      OBVIOUS
  <2> QED
      BY <2>1 DEF NewEvents
<1>3. enqueued' \in SUBSET EventSet
    BY <1>2 DEF Types
<1>4. Sound'
  <2>1. Events(disk') \subseteq enqueued' /\ \A e \in enqueued' : ValidEvent(e)
      BY <1>2 DEF Sound
  <2>2. SoundMap(disk'.incidents)
      BY WritesIncidents
  <2>3. ASSUME NEW f \in Failures, disk'.incidents[f] # None
        PROVE  disk'.incidents[f].occurrences + Unobserved' <= failures'
    <3>1. /\ disk'.incidents[f].occurrences \in Nat
          /\ disk'.incidents[f].occurrences + Unobserved <= failures + (IF o = None THEN 0 ELSE 1)
        BY <2>3, WritesIncidents
    <3>2. failures \in Nat /\ Unobserved \in {0, 1}
        BY BoundsAssumption DEF Types, Unobserved
    <3> DEFINE c == IF o = None THEN 0 ELSE 1
    <3>3. c \in {0, 1} /\ failures + c + Unobserved' <= failures' + Unobserved
          /\ disk'.incidents[f].occurrences + Unobserved <= failures + c
        BY <3>1
    <3> HIDE DEF c
    <3>4. \A x, a, b, u, v, d \in Nat : x + u <= a + d /\ a + d + v <= b + u => x + v <= b
        OBVIOUS
    <3>5. Unobserved \in Nat /\ Unobserved' \in Nat /\ c \in Nat
        BY <3>2, <3>3
    <3> QED
        BY <3>1, <3>2, <3>3, <3>4, <3>5
  <2> QED
      BY <1>1, <2>1, <2>2, <2>3 DEF Sound, SoundMap, SoundIncident
<1>5. Answered'
    BY WritesAnswered DEF Answered
<1>6. SuppressionIsAnnounced'
    BY <1>2, WritesAnnounced DEF SuppressionIsAnnounced
<1> QED
    BY <1>1, <1>3, <1>4, <1>5, <1>6

-----------------------------------------------------------------------------
(* What recording a delivery does to the state on disk.                    *)

\* An envelope with the answer of the delivery in flight.
Delivered(d) == [d EXCEPT !.deliveries[inflight.provider] = inflight.answer]

Updated == [disk.outbox EXCEPT ![inflight.index] = Delivered(disk.outbox[inflight.index])]

\* The delivery in flight is that of the envelope at its index: nothing has
\* been written since it was chosen.
LEMMA InFlight ==
    ASSUME Types, Underway, inflight # None
    PROVE  /\ inflight \in Flights /\ inflight.provider \in todo
           /\ inflight.index \in 1 .. Len(disk.outbox)
           /\ disk.outbox[inflight.index] \in Envelopes
           /\ disk.outbox[inflight.index].event = inflight.event
           /\ inflight.provider \in DOMAIN disk.outbox[inflight.index].deliveries
           /\ disk.outbox[inflight.index].deliveries[inflight.provider] = inflight.expected
           /\ inflight.expected \notin Final
           /\ MatchingEnvelope = inflight.index /\ Matched
<1>1. /\ inflight \in Flights /\ disk \in States /\ inflight.provider \in todo
      /\ inflight.index \in 1 .. Len(disk.outbox)
      /\ disk.outbox[inflight.index].event = inflight.event
      /\ inflight.provider \in DOMAIN disk.outbox[inflight.index].deliveries
      /\ disk.outbox[inflight.index].deliveries[inflight.provider] = inflight.expected
      /\ inflight.expected \notin Final
    BY DEF Types, Underway
<1>2. disk.outbox[inflight.index] \in Envelopes /\ Len(disk.outbox) \in Nat
    BY <1>1, StateParts
<1>3. MatchingEnvelope = inflight.index
    BY <1>1 DEF MatchingEnvelope
<1>4. MatchingEnvelope # 0
    BY <1>1, <1>2, <1>3
<1>5. Matched
    BY <1>1, <1>3, <1>4 DEF Matched, StatusFor
<1> QED
    BY <1>1, <1>2, <1>3, <1>5

\* updateMatchingDelivery puts the answer into its envelope and changes no other.
LEMMA UpdatedFacts ==
    ASSUME Types, Underway, inflight # None
    PROVE  LET d == Delivered(disk.outbox[inflight.index]) IN
           /\ d \in Envelopes /\ d.event = inflight.event
           /\ DOMAIN d.deliveries = DOMAIN disk.outbox[inflight.index].deliveries
           /\ \A p \in DOMAIN d.deliveries :
                d.deliveries[p] = IF p = inflight.provider THEN inflight.answer
                                  ELSE disk.outbox[inflight.index].deliveries[p]
           /\ Updated \in Seq(Envelopes) /\ Len(Updated) = Len(disk.outbox)
           /\ \A k \in 1 .. Len(disk.outbox) :
                Updated[k] = IF k = inflight.index THEN d ELSE disk.outbox[k]
           /\ updateMatchingDelivery \in States
           /\ updateMatchingDelivery.outbox = Updated
           /\ updateMatchingDelivery.incidents = disk.incidents
<1> DEFINE x == disk.outbox[inflight.index]
           d == Delivered(x)
           p == inflight.provider
<1>1. /\ inflight \in Flights /\ inflight.index \in 1 .. Len(disk.outbox) /\ x \in Envelopes
      /\ x.event = inflight.event /\ p \in DOMAIN x.deliveries
      /\ MatchingEnvelope = inflight.index
    BY InFlight
<1>2. /\ disk \in States /\ disk.outbox \in Seq(Envelopes) /\ disk.incidents \in IncidentMaps
      /\ disk.last \in [Providers -> Final \cup {"none"}] /\ Len(disk.outbox) \in Nat
    BY StateParts DEF Types
<1>3. inflight.answer \in Statuses /\ p \in Providers
    BY <1>1 DEF Flights, Answers, Statuses, Final
<1>4. PICK ps \in (SUBSET Providers) \ {{}} : x.deliveries \in [ps -> Statuses]
    BY <1>1 DEF Envelopes, DeliverySet
<1> DEFINE ds == [x.deliveries EXCEPT ![p] = inflight.answer]
<1>5. /\ ds \in [ps -> Statuses] /\ DOMAIN ds = DOMAIN x.deliveries
      /\ \A q \in DOMAIN ds : ds[q] = IF q = p THEN inflight.answer ELSE x.deliveries[q]
    BY <1>1, <1>3, <1>4
<1>6. d = [x EXCEPT !.deliveries = ds]
    BY DEF Delivered
<1>7. ds \in DeliverySet
  <2> HIDE DEF ds
  <2> QED
      BY <1>5 DEF DeliverySet
<1>8. d \in Envelopes /\ d.event = x.event /\ d.deliveries = ds
  <2> HIDE DEF ds, d, x
  <2> QED
      BY <1>1, <1>6, <1>7 DEF Envelopes
<1> HIDE DEF ds
<1>9. Updated = [disk.outbox EXCEPT ![inflight.index] = d]
    BY DEF Updated
<1>10. /\ Updated \in Seq(Envelopes) /\ Len(Updated) = Len(disk.outbox)
       /\ \A k \in 1 .. Len(disk.outbox) :
            Updated[k] = IF k = inflight.index THEN d ELSE disk.outbox[k]
  <2> HIDE DEF d
  <2> QED
      BY <1>1, <1>2, <1>8, <1>9, ExceptSeq
<1> DEFINE L == [disk.last EXCEPT ![p] = IF inflight.answer \in Final THEN inflight.answer ELSE @]
<1>11. L \in [Providers -> Final \cup {"none"}]
    BY <1>2, <1>3
<1>12. updateMatchingDelivery = [[disk EXCEPT !.outbox = Updated] EXCEPT !.last = L]
  <2>1. updateMatchingDelivery =
          [disk EXCEPT !.outbox[inflight.index].deliveries[p] = inflight.answer,
                       !.last[p] = IF inflight.answer \in Final THEN inflight.answer ELSE @]
      BY <1>1 DEF updateMatchingDelivery
  <2> QED
      BY <2>1 DEF Updated, Delivered, States, Types
<1> HIDE DEF L
<1>13. /\ updateMatchingDelivery \in States /\ updateMatchingDelivery.outbox = Updated
       /\ updateMatchingDelivery.incidents = disk.incidents
    BY <1>2, <1>10, <1>11, <1>12 DEF States
<1> QED
    BY <1>1, <1>5, <1>8, <1>10, <1>13

\* The states a recorded delivery may leave: the incidents are as they were;
\* the envelopes are some of those there were, with the answer in its place.
Recording(w) ==
    /\ w \in States /\ w.incidents = disk.incidents /\ Len(w.outbox) <= Len(disk.outbox)
    /\ \E h : Sifts(h, w.outbox, Updated)
    /\ \A k \in 1 .. Len(disk.outbox) : ~Terminal(Updated[k]) => disk.outbox[k].event \in Events(w)
    /\ Events(w) \subseteq Events(disk)

\* The state that recordDelivery writes.
LEMMA RecordingFacts ==
    ASSUME Types, Underway, inflight # None
    PROVE  Recording(pruneTerminalEnvelopes(updateMatchingDelivery))
<1> DEFINE x == updateMatchingDelivery
           t == keptEnvelopes(Updated)
           w == pruneTerminalEnvelopes(x)
<1>1. /\ x \in States /\ x.outbox = Updated /\ x.incidents = disk.incidents
      /\ Updated \in Seq(Envelopes) /\ Len(Updated) = Len(disk.outbox) /\ Len(Updated) \in Nat
      /\ \A k \in 1 .. Len(disk.outbox) : Updated[k].event = disk.outbox[k].event
  <2>1. disk.outbox[inflight.index].event = inflight.event
      BY InFlight
  <2>2. Updated \in Seq(Envelopes)
      BY UpdatedFacts
  <2> QED
      BY <2>1, <2>2, UpdatedFacts, LenProperties
<1>2. /\ t \in Seq(Envelopes) /\ \E h : Sifts(h, t, Updated)
      /\ Len(t) \in Nat /\ Len(t) <= Len(Updated)
      /\ \A i \in 1 .. Len(t) : \E k \in 1 .. Len(Updated) : t[i] = Updated[k]
      /\ \A k \in 1 .. Len(Updated) : ~Terminal(Updated[k]) => \E i \in 1 .. Len(t) : t[i] = Updated[k]
    BY <1>1, KeptFacts, KeptElements
<1> HIDE DEF t, x
<1>3. w \in States /\ w.incidents = disk.incidents /\ w.outbox = t
    BY <1>1, <1>2, StateParts DEF pruneTerminalEnvelopes, t
<1> HIDE DEF w
<1>4. \A k \in 1 .. Len(disk.outbox) : ~Terminal(Updated[k]) => disk.outbox[k].event \in Events(w)
  <2> SUFFICES ASSUME NEW k \in 1 .. Len(disk.outbox), ~Terminal(Updated[k])
               PROVE  disk.outbox[k].event \in Events(w)
      OBVIOUS
  <2>1. PICK i \in 1 .. Len(t) : t[i] = Updated[k]
      BY <1>1, <1>2
  <2> QED
      BY <1>1, <1>3, <2>1 DEF Events
<1>5. Events(w) \subseteq Events(disk)
  <2> SUFFICES ASSUME NEW i \in 1 .. Len(t) PROVE t[i].event \in Events(disk)
      BY <1>3 DEF Events
  <2>1. PICK k \in 1 .. Len(Updated) : t[i] = Updated[k]
      BY <1>2
  <2> QED
      BY <1>1, <2>1 DEF Events
<1> QED
    BY <1>1, <1>2, <1>3, <1>4, <1>5 DEF Recording, w, x

-----------------------------------------------------------------------------
(* Every step keeps the invariant.                                         *)

\* The part of the invariant about the state on disk, when a delivery is recorded.
LEMMA RecordedState ==
    ASSUME IInv, inflight # None, Recording(disk'), enqueued' = enqueued \cup Events(disk'),
           settled' = settled, inflight' = None, failures' = failures, pc' = pc \/ pc' = "idle",
           outcome' = outcome \/ outcome' = None
    PROVE  /\ disk' \in States /\ enqueued' = enqueued
           /\ Sound' /\ Answered' /\ SuppressionIsAnnounced'
<1> USE DEF IInv
<1>1. disk' \in States /\ disk'.incidents = disk.incidents /\ enqueued' = enqueued
      /\ Events(disk') \subseteq enqueued
    BY DEF Recording, Sound
<1>2. Len(disk'.outbox) <= MaxEnvelopes
  <2>1. disk \in States /\ Len(disk'.outbox) <= Len(disk.outbox)
      BY DEF Recording, Types
  <2>2. Len(disk'.outbox) \in Nat /\ Len(disk.outbox) \in Nat
      BY <1>1, <2>1, StateParts
  <2> QED
      BY <2>1, <2>2, EnvelopesAssumption DEF Sound
<1>3. Sound'
  <2>1. Unobserved \in {0, 1} /\ Unobserved' \in {0, Unobserved} /\ failures \in Nat
      BY BoundsAssumption DEF Unobserved, Types
  <2>2. \A f \in Failures : disk'.incidents[f] # None =>
          /\ ValidIncident(disk'.incidents[f])
          /\ disk'.incidents[f].lastSeen < Boundary(disk'.incidents[f])
          /\ disk'.incidents[f].occurrences + Unobserved <= failures
          /\ disk'.incidents[f].occurrences \in Nat
    <3>1. disk.incidents \in IncidentMaps
        BY StateParts DEF Types
    <3> QED
        BY <1>1, <3>1 DEF Sound, IncidentMaps, Incidents
  <2>3. \A f \in Failures : disk'.incidents[f] # None =>
          disk'.incidents[f].occurrences + Unobserved' <= failures'
      BY <2>1, <2>2
  <2>4. Unobserved' <= failures'
      BY <2>1 DEF Sound
  <2> QED
      BY <1>1, <1>2, <2>2, <2>3, <2>4 DEF Sound
<1>4. Answered'
  <2> DEFINE t == disk'.outbox
  <2>1. PICK h : Sifts(h, t, Updated)
      BY DEF Recording
  <2>2. ASSUME NEW k \in 1 .. Len(t), NEW p \in DOMAIN t[k].deliveries, t[k].deliveries[p] \in Sent
        PROVE  <<t[k].event, p>> \in settled
    <3> DEFINE j == h[k]
    <3>1. j \in 1 .. Len(disk.outbox) /\ t[k] = Updated[j]
        BY <2>1, UpdatedFacts DEF Sifts
    <3>2. CASE j # inflight.index
      <4>1. t[k] = disk.outbox[j]
          BY <3>1, <3>2, UpdatedFacts
      <4> HIDE DEF j
      <4> QED
          BY <2>2, <3>1, <4>1 DEF Answered
    <3>3. CASE j = inflight.index
      <4> DEFINE x == disk.outbox[inflight.index]
                 d == Delivered(x)
      <4>1. /\ t[k] = d /\ d.event = inflight.event /\ x.event = inflight.event
            /\ DOMAIN d.deliveries = DOMAIN x.deliveries
            /\ \A q \in DOMAIN d.deliveries :
                 d.deliveries[q] = IF q = inflight.provider THEN inflight.answer ELSE x.deliveries[q]
            /\ inflight.index \in 1 .. Len(disk.outbox)
          BY <3>1, <3>3, UpdatedFacts, InFlight
      <4> HIDE DEF d
      <4>2. CASE p = inflight.provider
          BY <2>2, <4>1, <4>2 DEF Answered
      <4>3. CASE p # inflight.provider
          BY <2>2, <4>1, <4>3 DEF Answered
      <4> QED
          BY <4>2, <4>3
    <3> QED
        BY <3>2, <3>3
  <2> QED
      BY <2>2 DEF Answered
<1>5. SuppressionIsAnnounced'
    BY <1>1 DEF SuppressionIsAnnounced
<1> QED
    BY <1>1, <1>3, <1>4, <1>5

\* The same when nothing is written.
LEMMA SameState ==
    ASSUME IInv, disk' = disk, enqueued' = enqueued, failures' = failures,
           Unobserved' \in {0, Unobserved}, settled \subseteq settled',
           inflight' # None /\ inflight'.answer \in Sent =>
                <<inflight'.event, inflight'.provider>> \in settled'
    PROVE  Sound' /\ Answered' /\ SuppressionIsAnnounced'
<1> USE DEF IInv
<1>1. Unobserved \in {0, 1} /\ failures \in Nat
    BY BoundsAssumption DEF Unobserved, Types
<1>2. Sound'
  <2>1. disk.incidents \in IncidentMaps
      BY StateParts DEF Types
  <2>2. \A f \in Failures : disk.incidents[f] # None =>
          disk.incidents[f].occurrences \in Nat
          /\ disk.incidents[f].occurrences + Unobserved' <= failures
      BY <1>1, <2>1 DEF Sound, IncidentMaps, Incidents
  <2>3. Unobserved' <= failures
      BY <1>1 DEF Sound
  <2>4. Events(disk)' = Events(disk)
      BY DEF Events
  <2> QED
      BY <2>2, <2>3, <2>4 DEF Sound
<1>3. Answered'
    BY DEF Answered
<1>4. SuppressionIsAnnounced'
    BY DEF SuppressionIsAnnounced
<1> QED
    BY <1>2, <1>3, <1>4

\* The first state satisfies the invariant.
LEMMA InitIInv == ASSUME Init PROVE IInv
<1> DEFINE st == EmptyState
<1>1. /\ disk = st /\ st.incidents = [f \in Failures |-> None] /\ st.outbox = <<>>
      /\ st.last = [p \in Providers |-> "none"]
      /\ st = [incidents |-> st.incidents, outbox |-> st.outbox, last |-> st.last]
    BY DEF Init, EmptyState
<1> HIDE DEF st
<1>2. st.outbox \in Seq(Envelopes) /\ Len(st.outbox) = 0
    BY <1>1, EmptySeq
<1>3. disk \in States
    BY <1>1, <1>2 DEF States, IncidentMaps
<1>4. 1 \in Times /\ MaxFailures \in Nat /\ MaxFaults \in Nat
    BY BoundsAssumption DEF Times
<1>5. Types
    BY <1>3, <1>4 DEF Init, Types
<1>6. Sound
  <2>1. Events(disk) = {}
      BY <1>1, <1>2 DEF Events
  <2>2. Unobserved = 0
      BY DEF Init, Unobserved
  <2> QED
      BY <1>1, <1>2, <2>1, <2>2, EnvelopesAssumption DEF Init, Sound
<1>7. Underway /\ Answered /\ SuppressionIsAnnounced
    BY <1>1, <1>2 DEF Init, Underway, Answered, SuppressionIsAnnounced
<1> QED
    BY <1>5, <1>6, <1>7 DEF IInv

\* What Retryable says of an event.
LEMMA RetryableFacts ==
    ASSUME NEW m \in IncidentMaps, SoundMap(m), NEW o \in Failures \cup {None},
           NEW at \in Times, NEW n, NEW e, e = None \/ Told(m, n, e, o, at)
    PROVE  Retryable(e) \in SUBSET (Failures \X Times)
<1>1. CASE e = None
    BY <1>1 DEF Retryable
<1>2. CASE Told(m, n, e, o, at)
  <2>1. e \in EventSet
      BY <1>2, ToldEvent
  <2>2. \A s \in e.incidents : IdOf(s) \in Failures \X Times
      BY <2>1 DEF EventSet, Snapshots, IdOf
  <2> QED
      BY <2>2 DEF Retryable, IncidentIds
<1> QED
    BY <1>1, <1>2

\* An envelope that can be delivered has a delivery that is not done.
LEMMA NextDeliveryFacts ==
    ASSUME Types, NEW p \in Providers, nextDelivery(p) # 0
    PROVE  LET k == nextDelivery(p) IN
           /\ k \in 1 .. Len(disk.outbox) /\ disk.outbox[k] \in Envelopes
           /\ p \in DOMAIN disk.outbox[k].deliveries
           /\ disk.outbox[k].deliveries[p] \in {"pending", "ambiguous"}
           /\ disk.outbox[k].deliveries[p] = "ambiguous" =>
                IncidentIds(disk.outbox[k].event) \cap retry # {}
<1> DEFINE C == {k \in 1 .. Len(disk.outbox) : Deliverable(disk.outbox[k], p)}
           k == nextDelivery(p)
<1>1. Len(disk.outbox) \in Nat /\ \A j \in 1 .. Len(disk.outbox) : disk.outbox[j] \in Envelopes
    BY StateParts DEF Types
<1>2. C # {} /\ k = Min(C)
    BY DEF nextDelivery
<1>3. C \in SUBSET Nat
    BY <1>1
<1>4. k \in C
  <2> HIDE DEF C
  <2> QED
      BY <1>2, <1>3, MinFacts
<1> HIDE DEF k
<1>5. k \in 1 .. Len(disk.outbox) /\ Deliverable(disk.outbox[k], p)
    BY <1>4
<1> QED
    BY <1>1, <1>5 DEF Deliverable, StatusFor, k

\* A step of Observe: what it does to the state on disk and to the round.
Observed(N, o) ==
    /\ Writes(disk', N, o, now')
    /\ enqueued' = enqueued \cup Events(disk')
    /\ inflight = None /\ inflight' = None
    /\ UNCHANGED <<configured, settled, recorded>>
    /\ now' \in Times /\ (now' >= now \/ ClockStepsBack)
    /\ failures' \in 0 .. MaxFailures /\ faults' \in 0 .. MaxFaults
    /\ pc' \in {"idle", "capacity", "final"}
    /\ outcome' \in Failures \cup {None}
    /\ todo' \in SUBSET configured
    /\ pc' = "idle" => todo' = {} /\ retry' = {}
    /\ Unobserved' <= failures'
    /\ failures + (IF o = None THEN 0 ELSE 1) + Unobserved' <= failures' + Unobserved
    /\ \/ retry' = {}
       \/ \E e, n : \E u \in Failures \cup {None} :
            /\ Told(Unexpired(disk.incidents, now'), n, e, u, now')
            /\ retry' = Retryable(e)
            /\ disk'.incidents = n \/ disk'.incidents = disk.incidents

\* An Observe that starts: there is no delivery in flight.
LEMMA IdleFacts ==
    ASSUME Types, Underway, pc = "idle"
    PROVE  todo = {} /\ retry = {} /\ inflight = None /\ Unobserved = 0
BY DEF Underway, Unobserved

\* The budget of I/O errors.
LEMMA FaultsBounded ==
    ASSUME Types, faults' = faults \/ (faults < MaxFaults /\ faults' = faults + 1)
    PROVE  faults' \in 0 .. MaxFaults
<1>1. faults \in 0 .. MaxFaults
    BY DEF Types
<1>2. MaxFaults \in Nat
    BY BoundsAssumption
<1> QED
    BY <1>1, <1>2

\* What arrives leaves the clock and the budget in their bounds.
LEMMA ArrivesFacts ==
    ASSUME Types, NEW o \in Failures \cup {None}, NEW at \in Times, Arrives(o, at)
    PROVE  /\ now' = at /\ (now' >= now \/ ClockStepsBack)
           /\ failures' = failures + (IF o = None THEN 0 ELSE 1)
           /\ failures \in Nat /\ failures' \in 0 .. MaxFailures
BY BoundsAssumption DEF Types, Arrives

\* The first attempt at an outcome.
LEMMA OutcomeObserved ==
    ASSUME IInv, NEW o \in Failures \cup {None}, NEW at \in Times, ObserveOutcome(o, at)
    PROVE  \E N : \E u \in Failures \cup {None} : Observed(N, u)
<1> USE DEF IInv
<1> DEFINE v == Prepared(disk, configured)
           r == Observe(v, o, at, configured)
           m == Unexpired(disk.incidents, at)
           w == pruneTerminalEnvelopes(r.state)
<1>1. /\ now' = at /\ (now' >= now \/ ClockStepsBack)
      /\ failures' = failures + (IF o = None THEN 0 ELSE 1)
      /\ failures \in Nat /\ failures' \in 0 .. MaxFailures
    BY ArrivesFacts DEF ObserveOutcome
<1>2. todo = {} /\ retry = {} /\ inflight = None /\ Unobserved = 0
    BY IdleFacts DEF ObserveOutcome, Arrives
<1>3. /\ Writes(v, {}, None, at)
      /\ r.error # "invalid"
      /\ r.error # "" => r.error = "capacity" /\ \E n : Told(m, n, r.event, o, at)
      /\ r.error = "" => \E N : /\ Writes(w, N, o, at)
                                /\ r.event = None \/ Told(m, w.incidents, r.event, o, at)
    BY ObserveWrites
<1>4. /\ outcome' = o
      /\ \/ r.error = "" /\ Replace(w) /\ BeginRound("final", r.event)
         \/ r.error = "capacity" /\ Replace(v) /\ BeginRound("capacity", r.event)
         \/ r.error # "" /\ r.error # "capacity"
      /\ UNCHANGED <<configured, inflight, faults, settled, recorded>>
    BY DEF ObserveOutcome
<1>5. faults' \in 0 .. MaxFaults /\ outcome' \in Failures \cup {None}
    BY <1>4 DEF Types
<1> HIDE DEF r, w, v, m
<1>6. CASE r.error = "" /\ Replace(w) /\ BeginRound("final", r.event)
  <2>1. PICK N : /\ Writes(w, N, o, at)
                 /\ r.event = None \/ Told(m, w.incidents, r.event, o, at)
      BY <1>3, <1>6
  <2>2. /\ disk' = w /\ enqueued' = enqueued \cup Events(disk') /\ pc' = "final"
        /\ todo' = configured /\ retry' = Retryable(r.event)
      BY <1>6 DEF Replace, BeginRound, Events
  <2>3. Unobserved' = 0
      BY <2>2 DEF Unobserved
  <2>4. retry' = {} \/ Told(m, disk'.incidents, r.event, o, at)
      BY <2>1, <2>2 DEF Retryable
  <2>9. /\ Unobserved' <= failures'
        /\ failures + (IF o = None THEN 0 ELSE 1) + Unobserved' <= failures' + Unobserved
      BY <1>1, <1>2, <2>3
  <2>5. Observed(N, o)
      BY <2>9, <1>1, <1>2, <1>4, <1>5, <2>1, <2>2, <2>3, <2>4 DEF Observed, m
  <2> QED
      BY <2>5
<1>7. CASE r.error = "capacity" /\ Replace(v) /\ BeginRound("capacity", r.event)
  <2>1. PICK n : Told(m, n, r.event, o, at)
      BY <1>3, <1>7
  <2>2. /\ disk' = v /\ enqueued' = enqueued \cup Events(disk') /\ pc' = "capacity"
        /\ todo' = configured /\ retry' = Retryable(r.event)
      BY <1>7 DEF Replace, BeginRound, Events
  <2>3. Unobserved' = (IF o = None THEN 0 ELSE 1)
      BY <1>4, <2>2 DEF Unobserved
  <2>4. disk'.incidents = disk.incidents
      BY <2>2, PreparedFacts DEF v, Types
  <2>9. /\ Unobserved' <= failures'
        /\ failures + (IF None = None THEN 0 ELSE 1) + Unobserved' <= failures' + Unobserved
      BY <1>1, <1>2, <2>3
  <2>5. Observed({}, None)
      BY <2>9, <1>1, <1>2, <1>3, <1>4, <1>5, <2>1, <2>2, <2>3, <2>4 DEF Observed, m
  <2> QED
      BY <2>5
<1> QED
    BY <1>3, <1>4, <1>6, <1>7

\* An attempt that fails with an I/O error.
LEMMA FailureObserved ==
    ASSUME IInv, NEW o \in Failures \cup {None}, NEW at \in Times, ObserveFails(o, at)
    PROVE  \E N : \E u \in Failures \cup {None} : Observed(N, u)
<1> USE DEF IInv
<1> DEFINE v == Prepared(disk, configured)
           r == Observe(v, o, at, configured)
           w == pruneTerminalEnvelopes(r.state)
<1>1. /\ now' = at /\ (now' >= now \/ ClockStepsBack)
      /\ failures' = failures + (IF o = None THEN 0 ELSE 1)
      /\ failures \in Nat /\ failures' \in 0 .. MaxFailures
    BY ArrivesFacts DEF ObserveFails
<1>2. todo = {} /\ retry = {} /\ inflight = None /\ Unobserved = 0 /\ pc = "idle"
    BY IdleFacts DEF ObserveFails, Arrives
<1>3. /\ Writes(disk, {}, o, at) /\ Writes(v, {}, o, at)
      /\ r.error = "" => \E N : Writes(w, N, o, at)
    BY ObserveWrites
<1>4. /\ faults < MaxFaults /\ faults' = faults + 1
      /\ disk' = disk \/ (r.error = "" /\ disk' = w) \/ disk' = v
      /\ enqueued' = enqueued \cup Events(disk')
      /\ UNCHANGED <<managerVars, settled, recorded>>
    BY DEF ObserveFails, FaultyReplace, Events
<1>5. faults' \in 0 .. MaxFaults
    BY <1>4, FaultsBounded
<1> HIDE DEF r, w, v
<1>6. PICK N : Writes(disk', N, o, at)
    BY <1>3, <1>4
<1>7. /\ pc' = pc /\ outcome' = outcome /\ todo' = todo /\ retry' = retry
      /\ inflight' = inflight /\ configured' = configured
    BY <1>4 DEF managerVars
<1>8. Unobserved' = 0
    BY <1>2, <1>7 DEF Unobserved
<1>10. /\ Unobserved' <= failures'
       /\ failures + (IF o = None THEN 0 ELSE 1) + Unobserved' <= failures' + Unobserved
    BY <1>1, <1>2, <1>8
<1>9. Observed(N, o)
    BY <1>10, <1>1, <1>2, <1>4, <1>5, <1>6, <1>7, <1>8 DEF Observed, Types
<1> QED
    BY <1>9

\* The end of the round that made room: the outcome is tried again, with or
\* without an I/O error.
LEMMA AgainObserved ==
    ASSUME IInv, ObserveAgain \/ ObserveAgainFails
    PROVE  \E N : \E u \in Failures \cup {None} : Observed(N, u)
<1> USE DEF IInv
<1> DEFINE v == Prepared(disk, configured)
           r == Observe(v, outcome, now, configured)
           m == Unexpired(disk.incidents, now)
           w == pruneTerminalEnvelopes(r.state)
<1>1. /\ outcome \in Failures \cup {None} /\ now \in Times /\ now \in Nat
      /\ failures \in 0 .. MaxFailures /\ failures \in Nat /\ faults \in 0 .. MaxFaults
    BY TimesAreNatural, BoundsAssumption DEF Types
<1>2. pc = "capacity" /\ todo = {} /\ inflight = None
      /\ Unobserved = (IF outcome = None THEN 0 ELSE 1)
    BY DEF ObserveAgain, ObserveAgainFails, Unobserved
<1>3. /\ Writes(disk, {}, outcome, now)
      /\ r.error = "" => \E N : /\ Writes(w, N, outcome, now)
                                /\ r.event = None \/ Told(m, w.incidents, r.event, outcome, now)
    BY <1>1, ObserveWrites
<1>4. /\ now' = now /\ (now' >= now \/ ClockStepsBack) /\ failures' = failures
      /\ inflight' = None /\ UNCHANGED <<configured, settled, recorded>>
  <2>1. now' = now /\ failures' = failures /\ UNCHANGED <<configured, inflight, settled, recorded>>
      BY DEF ObserveAgain, ObserveAgainFails, bounds
  <2> QED
      BY <1>1, <1>2, <2>1
<1>5. enqueued \cup Events(disk) = enqueued
    BY DEF Sound
<1>6. \/ /\ r.error = "" /\ Replace(w) /\ BeginRound("final", r.event)
         /\ outcome' = outcome /\ faults' = faults
      \/ /\ disk' = disk \/ (r.error = "" /\ disk' = w)
         /\ enqueued' = enqueued \cup Events(disk') /\ Return
         /\ faults' = faults \/ (faults < MaxFaults /\ faults' = faults + 1)
  <2>1. CASE ObserveAgain
      BY <1>5, <2>1 DEF ObserveAgain, bounds, Events
  <2>2. CASE ObserveAgainFails
      BY <2>2 DEF ObserveAgainFails, FaultyReplace, Events
  <2> QED
      BY <2>1, <2>2
<1>7. faults' \in 0 .. MaxFaults
    BY <1>6, FaultsBounded
<1> HIDE DEF r, w, v, m
<1>8. CASE /\ r.error = "" /\ Replace(w) /\ BeginRound("final", r.event)
           /\ outcome' = outcome /\ faults' = faults
  <2>1. PICK N : /\ Writes(w, N, outcome, now)
                 /\ r.event = None \/ Told(m, w.incidents, r.event, outcome, now)
      BY <1>3, <1>8
  <2>2. /\ disk' = w /\ enqueued' = enqueued \cup Events(disk') /\ pc' = "final"
        /\ todo' = configured /\ retry' = Retryable(r.event)
      BY <1>8 DEF Replace, BeginRound, Events
  <2>3. Unobserved' = 0
      BY <2>2 DEF Unobserved
  <2>4. retry' = {} \/ Told(m, disk'.incidents, r.event, outcome, now)
      BY <2>1, <2>2 DEF Retryable
  <2>9. /\ Unobserved' <= failures'
        /\ failures + (IF outcome = None THEN 0 ELSE 1) + Unobserved' <= failures' + Unobserved
      BY <1>1, <1>2, <1>4, <2>3
  <2>5. Observed(N, outcome)
      BY <2>9, <1>1, <1>2, <1>4, <1>7, <1>8, <2>1, <2>2, <2>3, <2>4 DEF Observed, m
  <2> QED
      BY <1>1, <2>5
<1>9. CASE /\ disk' = disk \/ (r.error = "" /\ disk' = w)
           /\ enqueued' = enqueued \cup Events(disk') /\ Return
  <2>1. PICK N : Writes(disk', N, outcome, now)
      BY <1>3, <1>9
  <2>2. pc' = "idle" /\ outcome' = None /\ todo' = {} /\ retry' = {}
      BY <1>9 DEF Return
  <2>3. Unobserved' = 0
      BY <2>2 DEF Unobserved
  <2>9. /\ Unobserved' <= failures'
        /\ failures + (IF outcome = None THEN 0 ELSE 1) + Unobserved' <= failures' + Unobserved
      BY <1>1, <1>2, <1>4, <2>3
  <2>4. Observed(N, outcome)
      BY <2>9, <1>1, <1>2, <1>4, <1>7, <1>9, <2>1, <2>2, <2>3 DEF Observed
  <2> QED
      BY <1>1, <2>4
<1> QED
    BY <1>6, <1>8, <1>9

\* The end of the last round.
LEMMA ReturnObserved ==
    ASSUME IInv, ObserveReturns
    PROVE  \E N : \E u \in Failures \cup {None} : Observed(N, u)
<1> USE DEF IInv
<1>1. /\ now \in Times /\ now \in Nat
      /\ failures \in 0 .. MaxFailures /\ failures \in Nat /\ faults \in 0 .. MaxFaults
    BY TimesAreNatural, BoundsAssumption DEF Types
<1>2. /\ pc = "final" /\ todo = {} /\ inflight = None
      /\ pc' = "idle" /\ outcome' = None /\ todo' = {} /\ retry' = {}
      /\ UNCHANGED <<disk, configured, inflight, now, failures, faults, enqueued, settled, recorded>>
    BY DEF ObserveReturns, Return, bounds, history
<1>3. Unobserved = 0 /\ Unobserved' = 0
    BY <1>2 DEF Unobserved
<1>4. Writes(disk, {}, None, now) /\ enqueued = enqueued \cup Events(disk)
    BY <1>1, ObserveWrites DEF Sound
<1>5. Observed({}, None)
    BY <1>1, <1>2, <1>3, <1>4 DEF Observed, Events
<1> QED
    BY <1>5

\* A step of Observe keeps the invariant.
LEMMA ObservedIInv ==
    ASSUME IInv, NEW N, NEW o \in Failures \cup {None}, Observed(N, o)
    PROVE  IInv'
<1> USE DEF IInv
<1>1. /\ Writes(disk', N, o, now') /\ now' \in Times
      /\ enqueued' = enqueued \cup Events(disk')
      /\ inflight' = None /\ UNCHANGED <<configured, settled, recorded>>
      /\ failures' \in 0 .. MaxFailures /\ Unobserved' <= failures'
      /\ failures + (IF o = None THEN 0 ELSE 1) + Unobserved' <= failures' + Unobserved
    BY DEF Observed
<1>2. failures' \in Nat /\ Unobserved' \in {0, 1}
    BY <1>1, BoundsAssumption DEF Unobserved
<1>3. /\ disk' \in States /\ enqueued' \in SUBSET EventSet
      /\ Sound' /\ Answered' /\ SuppressionIsAnnounced'
    BY <1>1, <1>2, ObservedState
<1>4. disk.incidents \in IncidentMaps /\ SoundMap(disk.incidents)
    BY SoundState, StateParts
<1>5. retry' \in SUBSET (Failures \X Times)
  <2>1. ASSUME NEW e, NEW n, NEW u \in Failures \cup {None},
               Told(Unexpired(disk.incidents, now'), n, e, u, now'), retry' = Retryable(e)
        PROVE  retry' \in SUBSET (Failures \X Times)
    <3> DEFINE m == Unexpired(disk.incidents, now')
    <3>1. m \in IncidentMaps /\ SoundMap(m)
        BY <1>4, UnexpiredTyped DEF SoundMap
    <3> HIDE DEF m
    <3>2. Told(m, n, e, u, now')
        BY <2>1 DEF m
    <3> QED
        BY <1>1, <2>1, <3>1, <3>2, RetryableFacts
  <2> QED
      BY <2>1 DEF Observed
<1>6. Types'
    BY <1>1, <1>3, <1>5 DEF Types, Observed
<1>7. Underway'
    BY <1>1 DEF Underway, Observed
<1> QED
    BY <1>3, <1>6, <1>7

\* A step that records the result of the delivery in flight, or loses it.
Recorded ==
    /\ inflight # None /\ inflight' = None
    /\ UNCHANGED <<configured, pc, outcome, retry, now, failures, settled>>
    /\ faults' \in 0 .. MaxFaults
    /\ todo' \in SUBSET todo
    /\ enqueued' = enqueued \cup Events(disk')
    /\ \/ disk' = disk /\ recorded' = recorded
       \/ /\ Recording(disk')
          /\ recorded' = IF inflight.answer \in Final
                         THEN recorded \cup {<<inflight.event, inflight.provider>>} ELSE recorded

\* RecordDelivery and RecordFails record the delivery in flight or lose its result.
LEMMA DeliveryRecorded ==
    ASSUME IInv, RecordDelivery \/ RecordFails
    PROVE  Recorded
<1> USE DEF IInv
<1> DEFINE w == pruneTerminalEnvelopes(updateMatchingDelivery)
<1>1. inflight # None
    BY DEF RecordDelivery, RecordFails
<1>2. Matched /\ Recording(w)
    BY <1>1, InFlight, RecordingFacts
<1> HIDE DEF w
<1>3. CASE RecordDelivery
  <2>1. /\ disk' = w /\ enqueued' = enqueued \cup Events(disk')
        /\ recorded' = IF inflight.answer \in Final
                       THEN recorded \cup {<<inflight.event, inflight.provider>>} ELSE recorded
        /\ todo' \in SUBSET todo /\ inflight' = None
        /\ UNCHANGED <<configured, pc, outcome, retry, now, failures, settled>> /\ faults' = faults
      BY <1>2, <1>3 DEF RecordDelivery, Replace, Events, bounds, w
  <2>2. faults' \in 0 .. MaxFaults
      BY <2>1, FaultsBounded
  <2> QED
      BY <1>1, <1>2, <2>1, <2>2 DEF Recorded
<1>4. CASE RecordFails
  <2>1. /\ disk' \in {disk, w} /\ enqueued' = enqueued \cup Events(disk')
        /\ recorded' = IF disk' # disk /\ inflight.answer \in Final
                       THEN recorded \cup {<<inflight.event, inflight.provider>>} ELSE recorded
        /\ todo' \in SUBSET todo /\ inflight' = None
        /\ UNCHANGED <<configured, pc, outcome, retry, now, failures, settled>>
        /\ faults < MaxFaults /\ faults' = faults + 1
      BY <1>4 DEF RecordFails, FaultyReplace, Events, w
  <2>2. faults' \in 0 .. MaxFaults
      BY <2>1, FaultsBounded
  <2>3. CASE disk' = disk
      BY <1>1, <2>1, <2>2, <2>3 DEF Recorded
  <2>4. CASE disk' # disk
      BY <1>1, <1>2, <2>1, <2>2, <2>4 DEF Recorded
  <2> QED
      BY <2>3, <2>4
<1> QED
    BY <1>3, <1>4

\* Such a step keeps the invariant.
LEMMA RecordedIInv ==
    ASSUME IInv, Recorded
    PROVE  IInv'
<1> USE DEF IInv
<1>1. /\ inflight # None /\ inflight' = None
      /\ UNCHANGED <<configured, pc, outcome, retry, now, failures, settled>>
      /\ todo' \in SUBSET todo /\ enqueued' = enqueued \cup Events(disk')
    BY DEF Recorded
<1>2. Unobserved' = Unobserved
    BY <1>1 DEF Unobserved
<1>3. /\ disk' \in States /\ enqueued' = enqueued
      /\ Sound' /\ Answered' /\ SuppressionIsAnnounced'
  <2>1. CASE Recording(disk')
      BY <1>1, <2>1, RecordedState
  <2>2. CASE disk' = disk
    <3>1. enqueued' = enqueued
        BY <1>1, <2>2 DEF Sound, Events
    <3>2. Unobserved' \in {0, Unobserved} /\ settled \subseteq settled'
        BY <1>1, <1>2
    <3>3. Sound' /\ Answered' /\ SuppressionIsAnnounced'
        BY <1>1, <2>2, <3>1, <3>2, SameState
    <3> QED
        BY <2>2, <3>1, <3>3 DEF Types
  <2> QED
      BY <2>1, <2>2 DEF Recorded
<1>4. recorded' \in SUBSET (EventSet \X Providers)
    BY <1>1, InFlight DEF Recorded, Types, Flights
<1>5. Types'
    BY <1>1, <1>3, <1>4 DEF Types, Recorded
<1>6. Underway'
    BY <1>1 DEF Underway
<1> QED
    BY <1>3, <1>5, <1>6

\* A step that writes nothing: a delivery that starts or cannot be made, or a
\* restart.
Quiet ==
    /\ UNCHANGED <<disk, now, failures, enqueued, recorded>>
    /\ faults' \in 0 .. MaxFaults
    /\ \/ /\ inflight' = None
          /\ \/ inflight = None /\ todo' \in SUBSET todo /\ UNCHANGED <<configured, pc, outcome, retry>>
             \/ configured' \in (SUBSET Providers) \ {{}} /\ Return
          /\ settled' = settled
       \/ /\ inflight' \in Flights
          /\ UNCHANGED <<configured, pc, outcome, todo, retry>>
          /\ inflight'.provider \in todo
          /\ inflight'.index \in 1 .. Len(disk.outbox)
          /\ disk.outbox[inflight'.index].event = inflight'.event
          /\ inflight'.provider \in DOMAIN disk.outbox[inflight'.index].deliveries
          /\ disk.outbox[inflight'.index].deliveries[inflight'.provider] = inflight'.expected
          /\ inflight'.expected \notin Final
          /\ inflight'.expected = "ambiguous" => IncidentIds(inflight'.event) \cap retry # {}
          /\ settled \subseteq settled' /\ settled' \in SUBSET (EventSet \X Providers)
          /\ inflight'.answer \in Sent => <<inflight'.event, inflight'.provider>> \in settled'

\* A delivery that starts is one of the state on disk.
LEMMA DeliverQuiet ==
    ASSUME IInv, NEW p \in Providers, NEW answer \in Answers, NEW published \in BOOLEAN,
           Deliver(p, answer, published)
    PROVE  Quiet
<1> USE DEF IInv
<1> DEFINE k == nextDelivery(p)
<1>1. /\ k \in 1 .. Len(disk.outbox) /\ disk.outbox[k] \in Envelopes
      /\ p \in DOMAIN disk.outbox[k].deliveries
      /\ disk.outbox[k].deliveries[p] \in {"pending", "ambiguous"}
      /\ disk.outbox[k].deliveries[p] = "ambiguous" =>
            IncidentIds(disk.outbox[k].event) \cap retry # {}
  <2>1. k # 0
      BY DEF Deliver
  <2> QED
      BY <2>1, NextDeliveryFacts
<1>2. /\ p \in todo
      /\ published \in Published(answer)
      /\ inflight' = [provider |-> p, index |-> k, event |-> disk.outbox[k].event,
                      expected |-> disk.outbox[k].deliveries[p], answer |-> answer]
      /\ settled' = IF published \/ answer = "permanent"
                    THEN settled \cup {<<disk.outbox[k].event, p>>} ELSE settled
      /\ UNCHANGED <<disk, configured, pc, outcome, todo, retry, now, failures, faults, enqueued, recorded>>
    BY DEF Deliver, bounds
<1> HIDE DEF k
<1>3. disk.outbox[k].event \in EventSet /\ k \in Nat
    BY <1>1, EnvelopeParts
<1>4. inflight' \in Flights
    BY <1>1, <1>2, <1>3 DEF Flights, Statuses
<1>5. settled \subseteq settled' /\ settled' \in SUBSET (EventSet \X Providers)
    BY <1>2, <1>3 DEF Types
<1>6. answer \in Sent => <<disk.outbox[k].event, p>> \in settled'
  <2>1. answer = "accepted" => published = TRUE
      BY <1>2 DEF Published
  <2> QED
      BY <1>2, <2>1 DEF Sent
<1>7. faults' \in 0 .. MaxFaults
    BY <1>2, FaultsBounded
<1> QED
    BY <1>1, <1>2, <1>4, <1>5, <1>6, <1>7 DEF Quiet, Final

\* A provider that is done, a Load that fails and a restart write nothing.
LEMMA OthersQuiet ==
    ASSUME IInv, Restart \/ \E p \in Providers : NothingToDeliver(p) \/ DeliverLoadFails(p)
    PROVE  Quiet
<1> USE DEF IInv
<1>1. CASE Restart
  <2>1. faults' \in 0 .. MaxFaults
      BY <1>1, FaultsBounded DEF Restart
  <2> QED
      BY <1>1, <2>1 DEF Restart, Quiet, history
<1>2. ASSUME NEW p \in Providers, NothingToDeliver(p) \/ DeliverLoadFails(p)
      PROVE  Quiet
  <2>1. faults' \in 0 .. MaxFaults
      BY <1>2, FaultsBounded DEF NothingToDeliver, DeliverLoadFails, bounds
  <2> QED
      BY <1>2, <2>1 DEF NothingToDeliver, DeliverLoadFails, Quiet, history, bounds
<1> QED
    BY <1>1, <1>2

\* Such a step keeps the invariant.
LEMMA QuietIInv ==
    ASSUME IInv, Quiet
    PROVE  IInv'
<1> USE DEF IInv
<1>1. /\ UNCHANGED <<disk, now, failures, enqueued, recorded>>
      /\ settled \subseteq settled' /\ settled' \in SUBSET (EventSet \X Providers)
    BY DEF Quiet, Types
<1>2. Unobserved' \in {0, Unobserved}
    BY DEF Quiet, Return, Unobserved
<1>3. inflight' # None /\ inflight'.answer \in Sent =>
        <<inflight'.event, inflight'.provider>> \in settled'
    BY DEF Quiet
<1>4. Sound' /\ Answered' /\ SuppressionIsAnnounced'
    BY <1>1, <1>2, <1>3, SameState
<1>5. Types'
    BY <1>1 DEF Types, Quiet, Return
<1>6. Underway'
    BY <1>1 DEF Underway, Quiet, Return, Types
<1> QED
    BY <1>4, <1>5, <1>6

-----------------------------------------------------------------------------
(* What holds with any clock.                                              *)

\* Every step is one of Observe, the record of a delivery, or one that writes
\* nothing.
LEMMA StepCases ==
    ASSUME IInv, [Next]_vars
    PROVE  \/ \E N : \E o \in Failures \cup {None} : Observed(N, o)
           \/ Recorded \/ Quiet \/ UNCHANGED vars
<1>1. CASE UNCHANGED vars
    BY <1>1
<1>2. CASE \E o \in Failures \cup {None}, at \in Times : ObserveOutcome(o, at) \/ ObserveFails(o, at)
    BY <1>2, OutcomeObserved, FailureObserved
<1>3. CASE ObserveAgain \/ ObserveAgainFails \/ ObserveReturns
    BY <1>3, AgainObserved, ReturnObserved
<1>4. CASE RecordDelivery \/ RecordFails
    BY <1>4, DeliveryRecorded
<1>5. CASE Restart \/ \E p \in Providers : NothingToDeliver(p) \/ DeliverLoadFails(p)
    BY <1>5, OthersQuiet
<1>6. CASE \E p \in Providers, answer \in Answers, published \in BOOLEAN : Deliver(p, answer, published)
    BY <1>6, DeliverQuiet
<1> QED
    BY <1>1, <1>2, <1>3, <1>4, <1>5, <1>6 DEF Next, Steps

\* A step that changes nothing keeps the invariant.
LEMMA StutterIInv ==
    ASSUME IInv, UNCHANGED vars
    PROVE  IInv'
<1>1. Types' /\ Underway' /\ Answered' /\ SuppressionIsAnnounced'
    BY DEF vars, managerVars, bounds, history, IInv, Types, Underway,
       Answered, SuppressionIsAnnounced
<1>2. Sound'
    BY DEF vars, managerVars, bounds, history, IInv, Sound, Unobserved, Events
<1> QED
    BY <1>1, <1>2 DEF IInv

\* The inductive invariant: the state on disk is sound and announced, and a
\* delivery in flight is one of its own.
THEOREM Invariant == Spec => []IInv
<1>1. ASSUME IInv, [Next]_vars PROVE IInv'
  <2>1. CASE \E N : \E o \in Failures \cup {None} : Observed(N, o)
      BY <1>1, <2>1, ObservedIInv
  <2>2. CASE Recorded
      BY <1>1, <2>2, RecordedIInv
  <2>3. CASE Quiet
      BY <1>1, <2>3, QuietIInv
  <2>4. CASE UNCHANGED vars
      BY <1>1, <2>4, StutterIInv
  <2> QED
      BY <1>1, <2>1, <2>2, <2>3, <2>4, StepCases
<1> QED
    BY <1>1, InitIInv, PTL DEF Spec

\* The types of the invariant, with an incident seen as often as failures were
\* counted at most, are those the runs check.
LEMMA TypesTyped ==
    ASSUME IInv
    PROVE  TypeOK
<1> USE DEF IInv
<1>1. /\ disk \in States /\ disk.incidents \in IncidentMaps
      /\ disk.last \in [Providers -> Final \cup {"none"}]
      /\ \A k \in 1 .. Len(disk.outbox) : disk.outbox[k] \in Envelopes
    BY StateParts DEF Types
<1>2. MaxFailures \in Nat /\ failures \in Nat /\ failures <= MaxFailures /\ Unobserved \in {0, 1}
    BY BoundsAssumption DEF Types, Unobserved
<1> DEFINE R == [phase : {"open", "cooling"}, first : Times, lastSeen : Times, enqueued : Times,
                 occurrences : 1 .. MaxFailures, needsRecovery : BOOLEAN, recoveryNotified : BOOLEAN]
<1>3. ASSUME NEW f \in Failures, disk.incidents[f] # None
      PROVE  disk.incidents[f] \in R
  <2>1. disk.incidents[f] \in Incidents
      BY <1>1, <1>3 DEF IncidentMaps
  <2>2. disk.incidents[f].occurrences \in Nat \ {0}
      BY <2>1 DEF Incidents
  <2>3. disk.incidents[f].occurrences + Unobserved <= failures
      BY <1>3 DEF Sound
  <2>4. disk.incidents[f].occurrences \in 1 .. MaxFailures
      BY <1>2, <2>2, <2>3
  <2> QED
      BY <2>1, <2>4 DEF Incidents
<1>4. disk.incidents \in [Failures -> {None} \cup R]
  <2> HIDE DEF R
  <2> QED
      BY <1>1, <1>3 DEF IncidentMaps
<1>5. ASSUME NEW k \in 1 .. Len(disk.outbox)
      PROVE  /\ disk.outbox[k].event.kind \in EventKinds
             /\ \E ps \in SUBSET Providers : disk.outbox[k].deliveries \in [ps -> Statuses]
  <2>1. disk.outbox[k].event \in EventSet /\ disk.outbox[k].deliveries \in DeliverySet
      BY <1>1 DEF Envelopes
  <2>2. PICK ps \in (SUBSET Providers) \ {{}} : disk.outbox[k].deliveries \in [ps -> Statuses]
      BY <2>1 DEF DeliverySet
  <2> QED
      BY <2>1, <2>2 DEF EventSet
<1>6. Len(disk.outbox) <= MaxEnvelopes
    BY DEF Sound
<1>7. inflight # None => inflight.provider \in todo /\ inflight.answer \in Answers
    BY DEF Underway, Types, Flights
<1> HIDE DEF R
<1>8. /\ configured \in (SUBSET Providers) \ {{}}
      /\ pc \in {"idle", "capacity", "final"} /\ todo \subseteq configured
      /\ now \in Times /\ failures \in 0 .. MaxFailures /\ faults \in 0 .. MaxFaults
    BY DEF Types
<1> QED
    BY <1>1, <1>4, <1>5, <1>6, <1>7, <1>8 DEF TypeOK, R

\* Every variable has its type; an incident has been seen as often as failures
\* were counted, at most.
THEOREM TypeCorrect == Spec => []TypeOK
BY TypesTyped, Invariant, PTL

\* No history of outcomes, I/O errors, crashes and clock changes leads Observe
\* to refuse the state it wrote itself, or to write one that it refuses.
THEOREM StateIsNeverRefused == Spec => []NeverRefused
<1>1. ASSUME IInv, TypeOK PROVE NeverRefused
  <2>1. ASSUME NEW o \in Failures \cup {None}, NEW at \in Times
        PROVE  Observe(Prepared(disk, configured), o, at, configured).error # "invalid"
      BY <1>1, ObserveWrites DEF IInv
  <2> QED
      BY <1>1, <2>1 DEF NeverRefused
<1> QED
    BY <1>1, Invariant, TypeCorrect, PTL

\* An incident that keeps users from being notified was announced in the
\* outbox, with any clock: the state that suppresses and the envelope that
\* announces are written together.
THEOREM SilenceFollowsAnnouncement == Spec => []SuppressionIsAnnounced
<1>1. IInv => SuppressionIsAnnounced
    BY DEF IInv
<1> QED
    BY <1>1, Invariant, PTL

\* What a step takes out of the outbox is done, for each of its providers.
LEMMA DroppedByStep ==
    ASSUME IInv, [Next]_vars, NEW k \in 1 .. Len(disk.outbox),
           disk.outbox[k].event \notin Events(disk'), NEW p \in DOMAIN disk.outbox[k].deliveries
    PROVE  \/ <<disk.outbox[k].event, p>> \in settled \/ p \notin configured
           \/ disk.outbox[k].deliveries[p] = "retired"
<1> USE DEF IInv
<1> DEFINE e == disk.outbox[k]
<1>1. ASSUME e.deliveries[p] \in Final
      PROVE  <<e.event, p>> \in settled \/ e.deliveries[p] = "retired"
    BY <1>1 DEF Answered, Sent, Final
<1>2. CASE \E N : \E o \in Failures \cup {None} : Observed(N, o)
  <2>1. GivesUp(disk'.outbox, disk.outbox, configured)
      BY <1>2 DEF Observed, Writes
  <2>2. e.deliveries[p] \in Final \/ p \notin configured
      BY <2>1 DEF GivesUp, Events
  <2> QED
      BY <1>1, <2>2
<1>3. CASE Recorded
  <2>1. disk' # disk
      BY DEF Events
  <2>2. Recording(disk')
      BY <1>3, <2>1 DEF Recorded
  <2>3. Terminal(Updated[k])
      BY <2>2 DEF Recording
  <2>4. inflight # None
      BY <1>3 DEF Recorded
  <2>5. CASE k # inflight.index
    <3>1. Updated[k] = e
        BY <2>4, <2>5, UpdatedFacts
    <3> QED
        BY <1>1, <2>3, <3>1 DEF Terminal
  <2>6. CASE k = inflight.index
    <3> DEFINE d == Delivered(e)
    <3>1. /\ Updated[k] = d /\ DOMAIN d.deliveries = DOMAIN e.deliveries
          /\ \A q \in DOMAIN d.deliveries :
               d.deliveries[q] = IF q = inflight.provider THEN inflight.answer ELSE e.deliveries[q]
        BY <2>4, <2>6, UpdatedFacts
    <3>2. e.event = inflight.event /\ inflight \in Flights
        BY <2>4, <2>6, InFlight
    <3> HIDE DEF d
    <3>3. d.deliveries[p] \in Final
        BY <2>3, <3>1 DEF Terminal
    <3>4. CASE p # inflight.provider
        BY <1>1, <3>1, <3>3, <3>4
    <3>5. CASE p = inflight.provider
      <4>1. inflight.answer \in Final
          BY <3>1, <3>3, <3>5
      <4>2. inflight.answer \in Sent
          BY <3>2, <4>1 DEF Flights, Answers, Final, Sent
      <4> QED
          BY <2>4, <3>2, <3>5, <4>2 DEF Answered
    <3> QED
        BY <3>4, <3>5
  <2> QED
      BY <2>5, <2>6
<1>4. CASE Quiet \/ UNCHANGED vars
  <2>1. disk' = disk
      BY <1>4 DEF Quiet, vars
  <2> QED
      BY <2>1 DEF Events
<1> QED
    BY <1>2, <1>3, <1>4, StepCases

\* An event leaves the outbox only when each of its providers has published or
\* refused it, or is no longer configured: no envelope is lost in a full
\* outbox, an I/O error, a crash or a change of the providers.
THEOREM NothingIsDropped == Spec => DroppedWhenDone
<1> DEFINE A == \A k \in 1 .. Len(disk.outbox) :
                    LET e == disk.outbox[k] IN
                    e.event \notin Events(disk') =>
                        \A p \in DOMAIN e.deliveries :
                            <<e.event, p>> \in settled \/ p \notin configured
                                \/ e.deliveries[p] = "retired"
<1>1. IInv /\ [Next]_vars => [A]_vars
    BY DroppedByStep
<1> HIDE DEF A
<1>2. Spec => [][A]_vars
    BY <1>1, Invariant, PTL DEF Spec
<1> QED
    BY <1>2 DEF DroppedWhenDone, A

-----------------------------------------------------------------------------
(* What holds with a clock that is never set back.                         *)

\* What becomes of the incident i of the type f at a time that is not before
\* any that was seen: j is the incident after it.
Moves(f, i, j, N, at) ==
    \/ j = i
    \/ j = None /\ Expired(i, at)
    \/ i # None /\ i.phase = "open" /\ j = Cooled(i)
    \/ i # None /\ at < Boundary(i) /\ j = SeenAgain(i, at) /\ N = {}
    \/ /\ i = None \/ Expired(i, at)
       /\ j = newIncident(at) /\ NewEvents(N) = {EventOf("failure", f, j)}
    \/ /\ i # None /\ ~Expired(i, at) /\ at >= Boundary(i)
       /\ j = Reminded(i, at) /\ NewEvents(N) = {EventOf("reminder", f, j)}

\* The event that is made: of the incident that began or is still there, or of
\* all that are resolved.
Makes(n, N, at) ==
    \/ N = {}
    \/ \E f \in Failures :
        /\ n[f] = newIncident(at) \/ (disk.incidents[f] # None /\ n[f] = Reminded(disk.incidents[f], at))
        /\ disk.incidents[f] # None => at >= Boundary(disk.incidents[f])
        /\ \E kind \in {"failure", "reminder"} : NewEvents(N) = {EventOf(kind, f, n[f])}
    \/ /\ n = CoolAll(Unexpired(disk.incidents, at))
       /\ Unrecovered(Unexpired(disk.incidents, at)) # {}
       /\ NewEvents(N) = {RecoveryEvent(Unexpired(disk.incidents, at), at)}

\* The absence of an incident is none of the incidents.
LEMMA NoIncident == None \notin Incidents
<1>1. Incidents \subseteq Incident
    BY TimesAreNatural DEF Incidents, Incident
<1> QED
    BY <1>1, NoneAssumption

\* The kinds of the events.
LEMMA KindsOfEvents ==
    /\ \A m, at : RecoveryEvent(m, at).kind = "recovery"
    /\ \A kind, f, i : EventOf(kind, f, i).kind = kind
<1>1. \A m, at : RecoveryEvent(m, at).kind = "recovery"
    BY DEF RecoveryEvent
<1>2. \A kind, f, i : EventOf(kind, f, i).kind = kind
    BY DEF EventOf
<1> QED
    BY <1>1, <1>2

\* The incidents at a time that is not before any that was seen.
LEMMA ClockIncidents ==
    ASSUME Types, Sound, Windows, NEW at \in Times, at >= now
    PROVE  /\ disk.incidents \in IncidentMaps /\ SoundMap(disk.incidents)
           /\ \A f \in Failures : disk.incidents[f] # None =>
                /\ disk.incidents[f] \in Incidents /\ SoundIncident(disk.incidents[f])
                /\ disk.incidents[f].lastSeen <= at /\ disk.incidents[f].lastSeen <= now
                /\ disk.incidents[f].enqueued <= disk.incidents[f].lastSeen
           /\ \A f \in Failures :
                /\ Unexpired(disk.incidents, at)[f] = disk.incidents[f] \/
                     (Unexpired(disk.incidents, at)[f] = None /\ Expired(disk.incidents[f], at))
                /\ Seen(Unexpired(disk.incidents, at)[f], at) = at
<1> DEFINE i == disk.incidents
<1>1. i \in IncidentMaps /\ SoundMap(i)
    BY SoundState, StateParts
<1>2. at \in Nat /\ now \in Nat /\ at >= now
    BY TimesAreNatural DEF Types
<1>3. ASSUME NEW f \in Failures, i[f] # None
      PROVE  i[f] \in Incidents /\ SoundIncident(i[f]) /\ i[f].lastSeen <= at
             /\ i[f].enqueued <= i[f].lastSeen /\ i[f].lastSeen <= now
  <2>1. i[f] \in Incidents /\ SoundIncident(i[f])
      BY <1>1, <1>3 DEF IncidentMaps, SoundMap
  <2>2. i[f].lastSeen \in Nat
      BY <2>1, TimesAreNatural DEF Incidents
  <2>3. i[f].lastSeen <= now
      BY <1>3 DEF Windows
  <2> QED
      BY <1>2, <2>1, <2>2, <2>3 DEF SoundIncident, ValidIncident
<1>4. ASSUME NEW f \in Failures
      PROVE  /\ Unexpired(i, at)[f] = i[f] \/ (Unexpired(i, at)[f] = None /\ Expired(i[f], at))
             /\ Seen(Unexpired(i, at)[f], at) = at
  <2>1. Unexpired(i, at)[f] = i[f] \/ (Unexpired(i, at)[f] = None /\ Expired(i[f], at))
      BY DEF Unexpired
  <2>2. Unexpired(i, at)[f] # None =>
          Unexpired(i, at)[f] \in Incidents /\ Unexpired(i, at)[f].lastSeen <= at
      BY <1>3, <2>1
  <2>3. Seen(Unexpired(i, at)[f], at) = at
      BY <2>2, SeenFacts
  <2> QED
      BY <2>1, <2>3
<1> QED
    BY <1>1, <1>3, <1>4

\* The moves of all incidents, and the event that is made.
LEMMA ClockMoves ==
    ASSUME Types, Sound, Windows, NEW w, NEW N, NEW o \in Failures \cup {None},
           NEW at \in Times, at >= now, Writes(w, N, o, at)
    PROVE  /\ w.incidents \in IncidentMaps
           /\ \A f \in Failures : Moves(f, disk.incidents[f], w.incidents[f], N, at)
           /\ Makes(w.incidents, N, at)
<1> DEFINE i == disk.incidents
           n == w.incidents
           m == Unexpired(i, at)
<1>1. /\ i \in IncidentMaps
      /\ \A f \in Failures : /\ m[f] = i[f] \/ (m[f] = None /\ Expired(i[f], at))
                             /\ Seen(m[f], at) = at
    BY ClockIncidents
<1>2. m \in IncidentMaps /\ SoundMap(m)
    BY <1>1, ClockIncidents, UnexpiredTyped DEF SoundMap
<1>3. n \in IncidentMaps
    BY StateParts DEF Writes
<1>4. \/ n = i /\ N = {}
      \/ Silent(m, n, o, at) /\ N = {}
      \/ \E e : Told(m, n, e, o, at) /\ N = {NewEnvelope(e, configured)}
    BY DEF Writes, Explained
<1> HIDE DEF m, i, n
<1> DEFINE Goal == (\A f \in Failures : Moves(f, i[f], n[f], N, at)) /\ Makes(n, N, at)
<1>m. \A f \in Failures : n[f] = m[f] => Moves(f, i[f], n[f], N, at)
    BY <1>1 DEF Moves
<1>5. ASSUME n = i, N = {} PROVE Goal
    BY <1>5 DEF Moves, Makes
<1>c. ASSUME n = CoolAll(m) PROVE \A f \in Failures : Moves(f, i[f], n[f], N, at)
  <2>1. ASSUME NEW f \in Failures PROVE Moves(f, i[f], n[f], N, at)
    <3>1. n[f] = IF m[f] # None /\ m[f].phase = "open" THEN Cooled(m[f]) ELSE m[f]
        BY <1>c DEF CoolAll
    <3>2. CASE m[f] # None /\ m[f].phase = "open"
        BY <1>1, <3>1, <3>2 DEF Moves
    <3>3. CASE ~(m[f] # None /\ m[f].phase = "open")
        BY <1>m, <3>1, <3>3
    <3> QED
        BY <3>2, <3>3
  <2> QED
      BY <2>1
<1>6. ASSUME Silent(m, n, o, at), N = {} PROVE Goal
  <2>1. CASE n = CoolAll(m)
      BY <1>6, <1>c, <2>1 DEF Makes
  <2>2. CASE n # CoolAll(m)
    <3>1. /\ o \in Failures /\ m[o] # None /\ Seen(m[o], at) < Boundary(m[o])
          /\ n = [m EXCEPT ![o] = SeenAgain(m[o], Seen(m[o], at))]
        BY <1>6, <2>2 DEF Silent
    <3>2. m[o] = i[o] /\ Seen(m[o], at) = at
        BY <1>1, <3>1
    <3>3. n[o] = SeenAgain(i[o], at) /\ \A f \in Failures \ {o} : n[f] = m[f]
        BY <1>2, <3>1, <3>2 DEF IncidentMaps
    <3>4. Moves(o, i[o], n[o], N, at)
        BY <1>6, <3>1, <3>2, <3>3 DEF Moves
    <3> QED
        BY <1>6, <1>m, <3>3, <3>4 DEF Makes
  <2> QED
      BY <2>1, <2>2
<1>7. ASSUME NEW e, Told(m, n, e, o, at), N = {NewEnvelope(e, configured)}
      PROVE  Goal
  <2>1. NewEvents(N) = {e}
      BY <1>7 DEF NewEvents, NewEnvelope
  <2>2. CASE o = None
    <3>1. Unrecovered(m) # {} /\ n = CoolAll(m) /\ e = RecoveryEvent(m, at)
        BY <1>7, <2>2 DEF Told
    <3> QED
        BY <1>c, <2>1, <3>1 DEF Makes, m, i
  <2>3. CASE o # None
    <3> DEFINE s == Seen(m[o], at)
    <3>0. o \in Failures /\ s = at
        BY <1>1, <2>3
    <3> HIDE DEF s
    <3>1. CASE /\ m[o] = None \/ Expired(m[o], s)
               /\ n = [m EXCEPT ![o] = newIncident(s)] /\ e = EventOf("failure", o, newIncident(s))
      <4>1. n[o] = newIncident(at) /\ \A f \in Failures \ {o} : n[f] = m[f]
          BY <1>2, <3>0, <3>1 DEF IncidentMaps
      <4>2. NewEvents(N) = {EventOf("failure", o, n[o])}
          BY <2>1, <3>0, <3>1, <4>1
      <4>3. i[o] = None \/ Expired(i[o], at)
          BY <1>1, <3>0, <3>1
      <4>4. Moves(o, i[o], n[o], N, at)
          BY <4>1, <4>2, <4>3 DEF Moves
      <4>5. Makes(n, N, at)
          BY <3>0, <4>1, <4>2, <4>3 DEF Makes, Expired, i
      <4> QED
          BY <1>m, <4>1, <4>4, <4>5
    <3>2. CASE /\ m[o] # None /\ ~Expired(m[o], s) /\ s >= Boundary(m[o])
               /\ n = [m EXCEPT ![o] = Reminded(m[o], s)]
               /\ e = EventOf("reminder", o, Reminded(m[o], s))
      <4>0. m[o] = i[o]
          BY <1>1, <3>0, <3>2
      <4>1. n[o] = Reminded(i[o], at) /\ \A f \in Failures \ {o} : n[f] = m[f]
          BY <1>2, <3>0, <3>2, <4>0 DEF IncidentMaps
      <4>2. NewEvents(N) = {EventOf("reminder", o, n[o])}
          BY <2>1, <3>0, <3>2, <4>0, <4>1
      <4>3. i[o] # None /\ ~Expired(i[o], at) /\ at >= Boundary(i[o])
          BY <3>0, <3>2, <4>0
      <4>4. Moves(o, i[o], n[o], N, at)
          BY <4>1, <4>2, <4>3 DEF Moves
      <4>5. Makes(n, N, at)
          BY <3>0, <4>1, <4>2, <4>3 DEF Makes, i
      <4> QED
          BY <1>m, <4>1, <4>4, <4>5
    <3> QED
        BY <1>7, <2>3, <3>1, <3>2 DEF Told, s
  <2> QED
      BY <2>2, <2>3
<1>8. Goal
    BY <1>4, <1>5, <1>6, <1>7
<1> QED
    BY <1>3, <1>8 DEF n, i

\* The state w is written, with the new envelopes N, by a clock that does not
\* go back.
Forward(w, N, at) ==
    at \in Times /\ at >= now /\ \E o \in Failures \cup {None} : Writes(w, N, o, at)

\* What is known of a state that is written by such a clock.
LEMMA ForwardFacts ==
    ASSUME Types, Sound, Windows, NEW w, NEW N, NEW at, Forward(w, N, at)
    PROVE  /\ at \in Times /\ at >= now /\ at \in Nat /\ now \in Nat
           /\ \A f \in Failures :
                /\ disk.incidents[f] \in {None} \cup Incidents
                /\ w.incidents[f] \in {None} \cup Incidents
                /\ disk.incidents[f] # None =>
                    /\ disk.incidents[f] \in Incidents /\ SoundIncident(disk.incidents[f])
                    /\ disk.incidents[f].lastSeen \in Nat /\ disk.incidents[f].enqueued \in Nat
                    /\ disk.incidents[f].lastSeen <= at /\ disk.incidents[f].lastSeen <= now
                    /\ disk.incidents[f].enqueued <= disk.incidents[f].lastSeen
                /\ Unexpired(disk.incidents, at)[f] # None =>
                    Unexpired(disk.incidents, at)[f] = disk.incidents[f]
                /\ Moves(f, disk.incidents[f], w.incidents[f], N, at)
           /\ Makes(w.incidents, N, at)
           /\ enqueued \cup Events(w) = enqueued \cup NewEvents(N)
           /\ \A e \in NewEvents(N) : e \in EventSet /\ ValidEvent(e)
<1>1. /\ at \in Times /\ at >= now /\ at \in Nat /\ now \in Nat
    BY TimesAreNatural DEF Types, Forward
<1>2. PICK o \in Failures \cup {None} : Writes(w, N, o, at)
    BY DEF Forward
<1>3. /\ w.incidents \in IncidentMaps
      /\ \A f \in Failures : Moves(f, disk.incidents[f], w.incidents[f], N, at)
      /\ Makes(w.incidents, N, at)
    BY <1>1, <1>2, ClockMoves
<1>4. /\ disk.incidents \in IncidentMaps
      /\ \A f \in Failures : disk.incidents[f] # None =>
            /\ disk.incidents[f] \in Incidents /\ SoundIncident(disk.incidents[f])
            /\ disk.incidents[f].lastSeen <= at /\ disk.incidents[f].lastSeen <= now
            /\ disk.incidents[f].enqueued <= disk.incidents[f].lastSeen
      /\ \A f \in Failures : Unexpired(disk.incidents, at)[f] # None =>
            Unexpired(disk.incidents, at)[f] = disk.incidents[f]
    BY <1>1, ClockIncidents
<1>5. \A j \in Incidents : j.lastSeen \in Nat /\ j.enqueued \in Nat
    BY TimesAreNatural DEF Incidents
<1>6. /\ enqueued \cup Events(w) = enqueued \cup NewEvents(N)
      /\ \A d \in N : d.event \in EventSet /\ ValidEvent(d.event)
    BY <1>1, <1>2, WritesEvents
<1>7. \A e \in NewEvents(N) : e \in EventSet /\ ValidEvent(e)
    BY <1>6 DEF NewEvents
<1>8. \A f \in Failures : /\ disk.incidents[f] \in {None} \cup Incidents
                          /\ w.incidents[f] \in {None} \cup Incidents
    BY <1>3, <1>4 DEF IncidentMaps
<1> QED
    BY <1>1, <1>3, <1>4, <1>5, <1>6, <1>7, <1>8

\* An incident after a move keeps its window, or begins one now, which it does
\* only after the last one.
LEMMA MovedFacts ==
    ASSUME NEW f \in Failures, NEW at \in Times,
           NEW i \in {None} \cup Incidents, i # None => SoundIncident(i) /\ i.lastSeen <= at,
           NEW j \in {None} \cup Incidents, j # None, NEW N, Moves(f, i, j, N, at)
    PROVE  /\ j.lastSeen <= at
           /\ \/ /\ i # None /\ j.first = i.first /\ j.enqueued = i.enqueued
                 /\ j.lastSeen >= i.lastSeen
                 /\ j.phase = "open" /\ j.needsRecovery => i.phase = "open" /\ i.needsRecovery
                 /\ j.phase = "open" => i.phase = "open" \/ j.lastSeen = at
              \/ /\ j.enqueued = at /\ j.lastSeen = at
                 /\ i # None => at >= Boundary(i)
                 /\ j.first = at \/ (i # None /\ i.phase = "open" /\ j.first = i.first)
<1>1. i # None => i \in Incidents /\ i.lastSeen \in Nat /\ at \in Nat
    BY TimesAreNatural DEF Incidents
<1>2. CASE j = i
    BY <1>1, <1>2
<1>3. CASE i # None /\ i.phase = "open" /\ j = Cooled(i)
  <2>1. j.phase = "cooling" /\ j.first = i.first /\ j.enqueued = i.enqueued /\ j.lastSeen = i.lastSeen
      BY <1>1, <1>3, CooledFacts
  <2> QED
      BY <1>1, <1>3, <2>1
<1>4. CASE i # None /\ at < Boundary(i) /\ j = SeenAgain(i, at)
  <2>0. at >= i.lastSeen
      BY <1>1, <1>4
  <2>1. /\ j.first = i.first /\ j.enqueued = i.enqueued /\ j.lastSeen = at
        /\ j.needsRecovery = i.needsRecovery
      BY <1>1, <1>4, <2>0, SeenAgainFacts
  <2>2. i.needsRecovery => i.phase = "open"
      BY <1>1, <1>4 DEF SoundIncident, ValidIncident, Incidents
  <2> QED
      BY <1>1, <1>4, <2>0, <2>1, <2>2
<1>5. CASE (i = None \/ Expired(i, at)) /\ j = newIncident(at)
  <2>1. j.enqueued = at /\ j.lastSeen = at /\ j.first = at
      BY <1>5, NewIncidentFacts
  <2> QED
      BY <1>1, <1>5, <2>1, TimesAreNatural DEF Expired
<1>6. CASE i # None /\ ~Expired(i, at) /\ at >= Boundary(i) /\ j = Reminded(i, at)
  <2>0. at >= i.lastSeen
      BY <1>1, <1>6
  <2>1. j.enqueued = at /\ j.lastSeen = at /\ j.first = i.first
      BY <1>1, <1>6, <2>0, RemindedFacts
  <2>2. i.phase = "open"
      BY <1>1, <1>6 DEF Expired, Incidents
  <2> QED
      BY <1>1, <1>6, <2>1, <2>2
<1> QED
    BY <1>2, <1>3, <1>4, <1>5, <1>6 DEF Moves

\* A new announcement is made now, for an incident whose window begins now, and
\* a window after every earlier one of its type.
LEMMA NewAnnouncement ==
    ASSUME Types, Sound, Windows, NEW w, NEW N, NEW at, Forward(w, N, at),
           NEW e \in NewEvents(N), NEW f \in Failures, Announces(e, f)
    PROVE  /\ e.createdAt = at
           /\ w.incidents[f] # None /\ w.incidents[f].enqueued = at
           /\ \A d \in enqueued : Announces(d, f) => d.createdAt + RepeatAfter <= at
<1> DEFINE i == disk.incidents
           n == w.incidents
<1>1. at \in Nat /\ now \in Nat /\ RepeatAfter \in Nat /\ at >= now
    BY ForwardFacts, RepeatAssumption
<1>2. \A g \in Failures : i[g] # None => i[g] \in Incidents /\ SoundIncident(i[g]) /\ i[g].lastSeen <= at
    BY ForwardFacts
<1>3. Makes(n, N, at) /\ at \in Times
    BY ForwardFacts
<1>4. e.kind # "recovery" /\ \E s \in e.incidents : s.type = f
    BY DEF Announces
<1>5. PICK g \in Failures :
        /\ n[g] = newIncident(at) \/ (i[g] # None /\ n[g] = Reminded(i[g], at))
        /\ i[g] # None => at >= Boundary(i[g])
        /\ \E kind \in {"failure", "reminder"} : NewEvents(N) = {EventOf(kind, g, n[g])}
  <2>1. NewEvents(N) # {RecoveryEvent(Unexpired(disk.incidents, at), at)}
      BY <1>4, KindsOfEvents
  <2>2. N # {}
      BY DEF NewEvents
  <2> QED
      BY <1>3, <2>1, <2>2 DEF Makes
<1>6. e.incidents = {Snapshot(g, n[g])} /\ e.createdAt = n[g].lastSeen
    BY <1>5 DEF EventOf
<1>7. f = g
    BY <1>4, <1>6 DEF Snapshot
<1>8. n[f] # None /\ n[f].lastSeen = at /\ n[f].enqueued = at
  <2>1. CASE n[f] = newIncident(at)
    <3>1. n[f].phase = "open" /\ n[f].lastSeen = at /\ n[f].enqueued = at
        BY <1>3, <2>1, NewIncidentFacts
    <3>2. n[f] \in Incidents
        BY <1>3, <2>1, NewIncidentFacts
    <3> QED
        BY <3>1, <3>2, NoIncident
  <2>2. CASE i[f] # None /\ n[f] = Reminded(i[f], at)
    <3>1. at >= Boundary(i[f]) /\ at >= i[f].lastSeen
      <4>1. i[f].lastSeen \in Nat
          BY <1>2, <2>2, TimesAreNatural DEF Incidents
      <4> QED
          BY <1>1, <1>2, <1>5, <1>7, <2>2, <4>1
    <3>2. n[f] \in Incidents /\ n[f].lastSeen = at /\ n[f].enqueued = at
        BY <1>2, <1>3, <2>2, <3>1, RemindedFacts
    <3> QED
        BY <3>2, NoIncident
  <2> QED
      BY <1>5, <1>7, <2>1, <2>2
<1>9. ASSUME NEW d \in enqueued, Announces(d, f)
      PROVE  d.createdAt + RepeatAfter <= at
  <2>1. d.createdAt \in Nat
      BY TimesAreNatural DEF Types, EventSet
  <2>2. CASE i[f] = None
    <3>1. d.createdAt + RepeatAfter <= now
        BY <1>9, <2>2 DEF Windows
    <3> QED
        BY <1>1, <2>1, <3>1
  <2>3. CASE i[f] # None
    <3>1. d.createdAt <= i[f].enqueued
        BY <1>9, <2>3 DEF Windows
    <3>2. i[f].enqueued \in Nat /\ at >= Boundary(i[f])
        BY <1>2, <1>5, <1>7, <2>3, TimesAreNatural DEF Incidents
    <3> QED
        BY <1>1, <2>1, <3>1, <3>2 DEF Boundary
  <2> QED
      BY <2>2, <2>3
<1> QED
    BY <1>6, <1>7, <1>8, <1>9

\* A new recovery is made now, for open incidents that wait for it, and leaves
\* none open.
LEMMA NewRecovery ==
    ASSUME Types, Sound, Windows, NEW w, NEW N, NEW at, Forward(w, N, at),
           NEW e \in NewEvents(N), e.kind = "recovery"
    PROVE  /\ e.createdAt = at
           /\ IncidentIds(e) # {}
           /\ \A id \in IncidentIds(e) : \E f \in Failures :
                /\ disk.incidents[f] # None /\ disk.incidents[f].phase = "open"
                /\ disk.incidents[f].needsRecovery /\ id = <<f, disk.incidents[f].first>>
           /\ \A f \in Failures : w.incidents[f] # None => w.incidents[f].phase # "open"
<1> DEFINE i == disk.incidents
           n == w.incidents
           m == Unexpired(i, at)
<1>1. at \in Nat
    BY ForwardFacts
<1>2. /\ \A f \in Failures : i[f] # None =>
            i[f] \in Incidents /\ SoundIncident(i[f]) /\ i[f].lastSeen <= at
      /\ \A f \in Failures : m[f] # None => m[f] = i[f]
    BY ForwardFacts
<1>3. n = CoolAll(m) /\ Unrecovered(m) # {} /\ e = RecoveryEvent(m, at)
  <2>1. Makes(n, N, at)
      BY ForwardFacts
  <2>2. \A f \in Failures : \A kind \in {"failure", "reminder"} :
          NewEvents(N) # {EventOf(kind, f, n[f])}
      BY KindsOfEvents
  <2>3. N # {}
      BY DEF NewEvents
  <2> QED
      BY <2>1, <2>2, <2>3 DEF Makes
<1>4. e.createdAt = at
  <2> DEFINE T == {at} \cup {m[f].lastSeen : f \in {g \in Failures : m[g] # None /\ m[g].phase = "open"}}
  <2>1. \A x \in T : x \in Nat /\ x <= at
    <3>1. \A f \in Failures : m[f] # None => m[f].lastSeen \in Nat /\ m[f].lastSeen <= at
      <4>1. \A f \in Failures : i[f] # None => i[f].lastSeen \in Nat /\ i[f].lastSeen <= at
          BY <1>2, TimesAreNatural DEF Incidents
      <4> HIDE DEF m
      <4> QED
          BY <1>2, <4>1
    <3> HIDE DEF m
    <3> QED
        BY <1>1, <3>1
  <2>2. at \in T /\ T \in SUBSET Nat
      BY <2>1
  <2>3. e.createdAt = Max(T)
      BY <1>3 DEF RecoveryEvent
  <2> HIDE DEF T
  <2>4. Max(T) \in T /\ \A y \in T : Max(T) >= y
      BY <1>1, <2>1, <2>2, MaxFacts
  <2>5. Max(T) >= at /\ Max(T) <= at /\ Max(T) \in Nat
      BY <2>1, <2>2, <2>4
  <2> QED
      BY <1>1, <2>3, <2>5
<1>5. IncidentIds(e) = {<<f, m[f].first>> : f \in Unrecovered(m)}
  <2> HIDE DEF m
  <2>1. \A f \in Unrecovered(m) : IdOf(Snapshot(f, m[f])) = <<f, m[f].first>>
      BY DEF IdOf, Snapshot
  <2>2. e.incidents = {Snapshot(f, m[f]) : f \in Unrecovered(m)}
      BY <1>3 DEF RecoveryEvent
  <2> QED
      BY <2>1, <2>2 DEF IncidentIds
<1>6. \A f \in Unrecovered(m) : f \in Failures /\ i[f] # None /\ m[f] = i[f]
                                /\ i[f].phase = "open" /\ i[f].needsRecovery
    BY <1>2 DEF Unrecovered
<1>7. ASSUME NEW f \in Failures, n[f] # None PROVE n[f].phase # "open"
  <2> HIDE DEF m
  <2>1. n[f] = IF m[f] # None /\ m[f].phase = "open" THEN Cooled(m[f]) ELSE m[f]
      BY <1>3 DEF CoolAll
  <2>2. CASE m[f] # None /\ m[f].phase = "open"
    <3>1. n[f] = Cooled(m[f]) /\ m[f] \in Incidents /\ SoundIncident(m[f])
        BY <1>2, <2>1, <2>2
    <3> QED
        BY <3>1, CooledFacts
  <2>3. CASE ~(m[f] # None /\ m[f].phase = "open")
      BY <1>7, <2>1, <2>3
  <2> QED
      BY <2>2, <2>3
<1> HIDE DEF m
<1>8. \A id \in IncidentIds(e) : \E f \in Failures :
        /\ i[f] # None /\ i[f].phase = "open" /\ i[f].needsRecovery /\ id = <<f, i[f].first>>
    BY <1>5, <1>6
<1>9. IncidentIds(e) # {}
    BY <1>3, <1>5
<1> QED
    BY <1>4, <1>7, <1>8, <1>9

-----------------------------------------------------------------------------
(* The steps of Observe, with such a clock.                                *)

\* The windows after an observation.
LEMMA ObservedWindows ==
    ASSUME Types, Sound, Windows, NEW w, NEW N, NEW at, Forward(w, N, at)
    PROVE  /\ \A e \in enqueued \cup NewEvents(N) : e.createdAt <= at
           /\ \A f \in Failures :
                /\ w.incidents[f] # None => w.incidents[f].lastSeen <= at
                /\ \A e \in enqueued \cup NewEvents(N) : Announces(e, f) =>
                    IF w.incidents[f] = None THEN e.createdAt + RepeatAfter <= at
                    ELSE e.createdAt <= w.incidents[f].enqueued
<1> DEFINE i == disk.incidents
           n == w.incidents
<1>1. at \in Nat /\ now \in Nat /\ RepeatAfter \in Nat /\ at >= now /\ at \in Times
      /\ \A e \in enqueued : e.createdAt \in Nat /\ e.createdAt <= now
    BY ForwardFacts, TimesAreNatural, RepeatAssumption DEF Types, Windows, EventSet
<1>2. \A f \in Failures : /\ i[f] \in {None} \cup Incidents /\ n[f] \in {None} \cup Incidents
                          /\ i[f] # None => SoundIncident(i[f]) /\ i[f].lastSeen <= at
                          /\ Moves(f, i[f], n[f], N, at)
    BY ForwardFacts
<1>3. ASSUME NEW e \in NewEvents(N)
      PROVE  e.createdAt = at
  <2>1. CASE e.kind = "recovery"
      BY <2>1, NewRecovery
  <2>2. CASE e.kind # "recovery"
    <3>2. ValidEvent(e) /\ e \in EventSet
        BY ForwardFacts
    <3>3. PICK s \in e.incidents : s.type \in Failures
        BY <3>2 DEF ValidEvent, EventSet, Snapshots
    <3>4. Announces(e, s.type)
        BY <2>2, <3>3 DEF Announces
    <3> QED
        BY <3>3, <3>4, NewAnnouncement
  <2> QED
      BY <2>1, <2>2
<1>4. \A e \in enqueued \cup NewEvents(N) : e.createdAt <= at
    BY <1>1, <1>3
<1>5. ASSUME NEW f \in Failures, n[f] # None
      PROVE  n[f].lastSeen <= at
    BY <1>1, <1>2, <1>5, MovedFacts
<1>6. ASSUME NEW f \in Failures, NEW e \in NewEvents(N), Announces(e, f)
      PROVE  n[f] # None /\ e.createdAt <= n[f].enqueued
    BY <1>1, <1>6, NewAnnouncement
<1>7. ASSUME NEW f \in Failures, NEW e \in enqueued, Announces(e, f)
      PROVE  IF n[f] = None THEN e.createdAt + RepeatAfter <= at
             ELSE e.createdAt <= n[f].enqueued
  <2>0. e.createdAt \in Nat /\ e.createdAt <= at
      BY <1>1
  <2>1. CASE n[f] = None
    <3>1. CASE i[f] = None
      <4>1. e.createdAt + RepeatAfter <= now
          BY <1>7, <3>1 DEF Windows
      <4> QED
          BY <1>1, <2>0, <2>1, <4>1
    <3>2. CASE i[f] # None
      <4>1. Expired(i[f], at)
        <5>1. i[f] \in Incidents /\ SoundIncident(i[f]) /\ i[f].lastSeen <= at
            BY <1>2, <3>2
        <5>2. i[f].lastSeen \in Nat /\ None \notin Incidents
            BY <5>1, TimesAreNatural, NoIncident DEF Incidents
        <5>3. Cooled(i[f]) # None /\ newIncident(at) # None
            BY <1>1, <5>1, <5>2, CooledFacts, NewIncidentFacts
        <5>4. at < Boundary(i[f]) => SeenAgain(i[f], at) # None
            BY <1>1, <5>1, <5>2, SeenAgainFacts
        <5>5. at >= Boundary(i[f]) => Reminded(i[f], at) # None
            BY <1>1, <5>1, <5>2, RemindedFacts
        <5> QED
            BY <1>2, <2>1, <3>2, <5>3, <5>4, <5>5 DEF Moves
      <4>2. e.createdAt <= i[f].enqueued /\ i[f].enqueued \in Nat
          BY <1>2, <1>7, <3>2, TimesAreNatural DEF Windows, Incidents
      <4> QED
          BY <1>1, <2>0, <2>1, <4>1, <4>2 DEF Expired, Boundary
    <3> QED
        BY <3>1, <3>2
  <2>2. CASE n[f] # None
    <3>1. CASE i[f] # None /\ n[f].enqueued = i[f].enqueued
        BY <1>7, <2>2, <3>1 DEF Windows
    <3>2. CASE n[f].enqueued = at
        BY <2>0, <2>2, <3>2
    <3> QED
        BY <1>1, <1>2, <2>2, <3>1, <3>2, MovedFacts
  <2> QED
      BY <2>1, <2>2
<1> QED
    BY <1>4, <1>5, <1>6, <1>7

\* Two announcements of one type, an old one and a new one, are a window apart.
LEMMA ObservedFlaps ==
    ASSUME Types, Sound, Windows, FlapsAreSuppressed, NEW w, NEW N, NEW at, Forward(w, N, at)
    PROVE  \A f \in Failures, e1, e2 \in enqueued \cup NewEvents(N) :
              Announces(e1, f) /\ Announces(e2, f) /\ e1 # e2 =>
                \/ e1.createdAt + RepeatAfter <= e2.createdAt
                \/ e2.createdAt + RepeatAfter <= e1.createdAt
<1> SUFFICES ASSUME NEW f \in Failures, NEW e1 \in enqueued \cup NewEvents(N),
                    NEW e2 \in enqueued \cup NewEvents(N),
                    Announces(e1, f), Announces(e2, f), e1 # e2
             PROVE  \/ e1.createdAt + RepeatAfter <= e2.createdAt
                    \/ e2.createdAt + RepeatAfter <= e1.createdAt
    OBVIOUS
<1>1. CASE e1 \in enqueued /\ e2 \in enqueued
    BY <1>1 DEF FlapsAreSuppressed
<1>2. ASSUME NEW e \in NewEvents(N), NEW d \in enqueued, Announces(e, f), Announces(d, f)
      PROVE  d.createdAt + RepeatAfter <= e.createdAt
  <2>1. e.createdAt = at /\ d.createdAt + RepeatAfter <= at
      BY <1>2, NewAnnouncement
  <2> QED
      BY <2>1
<1>3. \A x, y \in NewEvents(N) : x = y
  <2>1. Makes(w.incidents, N, at)
      BY ForwardFacts
  <2> QED
      BY <2>1 DEF Makes, NewEvents
<1> QED
    BY <1>1, <1>2, <1>3

\* An event that is made is a new one.
LEMMA NewIsNew ==
    ASSUME Types, Sound, Windows, Recoveries, NEW w, NEW N, NEW at, Forward(w, N, at),
           NEW e \in NewEvents(N)
    PROVE  e \notin enqueued
<1>1. /\ RepeatAfter \in Nat /\ RepeatAfter > 0 /\ at \in Nat /\ now \in Nat /\ at >= now
      /\ ValidEvent(e) /\ e \in EventSet
    BY ForwardFacts, RepeatAssumption
<1> SUFFICES ASSUME e \in enqueued PROVE FALSE
    OBVIOUS
<1>2. CASE e.kind # "recovery"
  <2>1. PICK s \in e.incidents : s.type \in Failures
      BY <1>1 DEF ValidEvent, EventSet, Snapshots
  <2>2. Announces(e, s.type)
      BY <1>2, <2>1 DEF Announces
  <2>3. e.createdAt = at /\ e.createdAt + RepeatAfter <= at
      BY <2>1, <2>2, NewAnnouncement
  <2> QED
      BY <1>1, <2>3
<1>3. CASE e.kind = "recovery"
  <2>1. /\ e.createdAt = at /\ IncidentIds(e) # {}
        /\ \A id \in IncidentIds(e) : \E f \in Failures :
             /\ disk.incidents[f] # None /\ disk.incidents[f].phase = "open"
             /\ disk.incidents[f].needsRecovery /\ id = <<f, disk.incidents[f].first>>
      BY <1>3, NewRecovery
  <2>2. PICK f \in Failures :
          /\ disk.incidents[f] # None /\ disk.incidents[f].phase = "open"
          /\ disk.incidents[f].needsRecovery
          /\ <<f, disk.incidents[f].first>> \in IncidentIds(e)
      BY <2>1
  <2>3. e.createdAt < disk.incidents[f].enqueued
      BY <1>3, <2>2 DEF Recoveries
  <2>4. /\ disk.incidents[f].enqueued \in Nat /\ disk.incidents[f].lastSeen \in Nat
        /\ disk.incidents[f].enqueued <= disk.incidents[f].lastSeen
        /\ disk.incidents[f].lastSeen <= at
      BY <2>2, ForwardFacts
  <2> QED
      BY <1>1, <2>1, <2>3, <2>4
<1> QED
    BY <1>2, <1>3

\* A new recovery answers the announcement its incident has.
LEMMA ObservedEarned ==
    ASSUME Types, Sound, Windows, SuppressionIsAnnounced, RecoveriesAreEarned, Recoveries,
           NEW w, NEW N, NEW at, Forward(w, N, at)
    PROVE  \A r \in {e \in enqueued \cup NewEvents(N) : e.kind = "recovery"} :
              \A id \in IncidentIds(r) : \E a \in enqueued \cup NewEvents(N) :
                /\ a.kind # "recovery" /\ id \in IncidentIds(a) /\ a.createdAt <= r.createdAt
                /\ \A q \in enqueued \cup NewEvents(N) :
                     q.kind = "recovery" /\ id \in IncidentIds(q) /\ q # r =>
                        q.createdAt < a.createdAt \/ q.createdAt >= r.createdAt
<1>1. /\ at \in Nat /\ now \in Nat /\ at >= now
      /\ \A e \in enqueued : e.createdAt \in Nat /\ e.createdAt <= now
    BY ForwardFacts, TimesAreNatural DEF Types, Windows, EventSet
<1>2. \A x, y \in NewEvents(N) : x = y
  <2>1. Makes(w.incidents, N, at)
      BY ForwardFacts
  <2> QED
      BY <2>1 DEF Makes, NewEvents
<1> SUFFICES ASSUME NEW r \in enqueued \cup NewEvents(N), r.kind = "recovery",
                    NEW id \in IncidentIds(r)
             PROVE  \E a \in enqueued :
                      /\ a.kind # "recovery" /\ id \in IncidentIds(a) /\ a.createdAt <= r.createdAt
                      /\ \A q \in enqueued \cup NewEvents(N) :
                           q.kind = "recovery" /\ id \in IncidentIds(q) /\ q # r =>
                              q.createdAt < a.createdAt \/ q.createdAt >= r.createdAt
    OBVIOUS
<1>3. CASE r \in enqueued
  <2>1. PICK a \in enqueued :
          /\ a.kind # "recovery" /\ id \in IncidentIds(a) /\ a.createdAt <= r.createdAt
          /\ \A q \in enqueued : q.kind = "recovery" /\ id \in IncidentIds(q) /\ q # r =>
               q.createdAt < a.createdAt \/ q.createdAt >= r.createdAt
      BY <1>3 DEF RecoveriesAreEarned
  <2>2. ASSUME NEW q \in NewEvents(N), q.kind = "recovery" PROVE q.createdAt >= r.createdAt
    <3>1. q.createdAt = at
        BY <2>2, NewRecovery
    <3> QED
        BY <1>1, <1>3, <3>1
  <2> QED
      BY <2>1, <2>2
<1>4. CASE r \in NewEvents(N)
  <2>1. /\ r.createdAt = at
        /\ \A x \in IncidentIds(r) : \E f \in Failures :
             /\ disk.incidents[f] # None /\ disk.incidents[f].phase = "open"
             /\ disk.incidents[f].needsRecovery /\ x = <<f, disk.incidents[f].first>>
      BY <1>4, NewRecovery
  <2>2. PICK f \in Failures :
          /\ disk.incidents[f] # None /\ disk.incidents[f].phase = "open"
          /\ disk.incidents[f].needsRecovery /\ id = <<f, disk.incidents[f].first>>
      BY <2>1
  <2>3. PICK a \in enqueued :
          /\ a.kind # "recovery" /\ a.createdAt = disk.incidents[f].enqueued
          /\ id \in IncidentIds(a)
      BY <2>2 DEF SuppressionIsAnnounced
  <2>4. a.createdAt <= r.createdAt
      BY <1>1, <2>1, <2>3
  <2>5. ASSUME NEW q \in enqueued, q.kind = "recovery", id \in IncidentIds(q)
        PROVE  q.createdAt < a.createdAt
      BY <2>2, <2>3, <2>5 DEF Recoveries
  <2> QED
      BY <1>2, <1>4, <2>3, <2>4, <2>5
<1> QED
    BY <1>3, <1>4

\* The identity of an incident that begins now has no recovery yet.
LEMMA NewIdentity ==
    ASSUME Types, Sound, Windows, RecoveriesAreEarned, NEW w, NEW N, NEW at, Forward(w, N, at),
           NEW f \in Failures, NEW e \in NewEvents(N), Announces(e, f),
           NEW q \in enqueued, q.kind = "recovery"
    PROVE  <<f, at>> \notin IncidentIds(q)
<1>1. RepeatAfter \in Nat /\ RepeatAfter > 0 /\ at \in Nat
    BY ForwardFacts, RepeatAssumption
<1> SUFFICES ASSUME <<f, at>> \in IncidentIds(q) PROVE FALSE
    OBVIOUS
<1>2. PICK a \in enqueued : a.kind # "recovery" /\ <<f, at>> \in IncidentIds(a)
    BY DEF RecoveriesAreEarned
<1>3. PICK s \in a.incidents : IdOf(s) = <<f, at>>
    BY <1>2 DEF IncidentIds
<1>4. s.type = f /\ s.first = at
    BY <1>3 DEF IdOf
<1>5. Announces(a, f)
    BY <1>2, <1>3, <1>4 DEF Announces
<1>6. a.createdAt + RepeatAfter <= at
    BY <1>5, NewAnnouncement
<1>7. a.createdAt \in Nat /\ s.lastSeen \in Nat /\ a.createdAt >= s.lastSeen /\ s.lastSeen >= s.first
    BY <1>3, TimesAreNatural DEF Types, Sound, ValidEvent, EventSet, Snapshots
<1> QED
    BY <1>1, <1>4, <1>6, <1>7

\* The recoveries after an observation.
LEMMA ObservedRecoveries ==
    ASSUME Types, Sound, Windows, RecoveriesAreEarned, Recoveries,
           NEW w, NEW N, NEW at, Forward(w, N, at)
    PROVE  \A f \in Failures, q \in enqueued \cup NewEvents(N) :
             /\ w.incidents[f] # None /\ w.incidents[f].phase = "open"
             /\ q.kind = "recovery" /\ <<f, w.incidents[f].first>> \in IncidentIds(q)
             => /\ q.createdAt <= w.incidents[f].lastSeen
                /\ w.incidents[f].needsRecovery => q.createdAt < w.incidents[f].enqueued
<1> SUFFICES ASSUME NEW f \in Failures, NEW q \in enqueued \cup NewEvents(N),
                    w.incidents[f] # None, w.incidents[f].phase = "open",
                    q.kind = "recovery", <<f, w.incidents[f].first>> \in IncidentIds(q)
             PROVE  /\ q.createdAt <= w.incidents[f].lastSeen
                    /\ w.incidents[f].needsRecovery => q.createdAt < w.incidents[f].enqueued
    OBVIOUS
<1> DEFINE i == disk.incidents[f]
           j == w.incidents[f]
<1>1. q \in enqueued
    BY NewRecovery
<1>2. /\ at \in Nat /\ now \in Nat /\ at >= now /\ at \in Times
      /\ i \in {None} \cup Incidents /\ j \in {None} \cup Incidents
      /\ i # None => /\ SoundIncident(i) /\ i.lastSeen \in Nat /\ i.enqueued \in Nat
                     /\ i.lastSeen <= at
      /\ Moves(f, i, j, N, at)
    BY ForwardFacts
<1>3. q.createdAt \in Nat /\ q.createdAt <= now
    BY <1>1, TimesAreNatural DEF Types, Windows, EventSet
<1>4. i # None /\ i.phase = "open" /\ j.first = i.first =>
        q.createdAt <= i.lastSeen /\ (i.needsRecovery => q.createdAt < i.enqueued)
    BY <1>1 DEF Recoveries
<1>j. j # None /\ j.phase = "open" /\ j.lastSeen \in Nat
    BY <1>2, TimesAreNatural DEF Incidents
<1> HIDE DEF i
<1>m. /\ j.lastSeen <= at
      /\ \/ /\ i # None /\ j.first = i.first /\ j.enqueued = i.enqueued
            /\ j.lastSeen >= i.lastSeen
            /\ j.phase = "open" /\ j.needsRecovery => i.phase = "open" /\ i.needsRecovery
            /\ j.phase = "open" => i.phase = "open" \/ j.lastSeen = at
         \/ /\ j.enqueued = at /\ j.lastSeen = at
            /\ i # None => at >= Boundary(i)
            /\ j.first = at \/ (i # None /\ i.phase = "open" /\ j.first = i.first)
  <2> HIDE DEF j
  <2> QED
      BY <1>2, <1>j, MovedFacts
<1>5. CASE /\ i # None /\ j.first = i.first /\ j.enqueued = i.enqueued
           /\ j.lastSeen >= i.lastSeen
           /\ j.phase = "open" /\ j.needsRecovery => i.phase = "open" /\ i.needsRecovery
           /\ j.phase = "open" => i.phase = "open" \/ j.lastSeen = at
    BY <1>2, <1>3, <1>4, <1>5, <1>j
<1>6. CASE /\ j.enqueued = at /\ j.lastSeen = at /\ i # None /\ i.phase = "open"
           /\ at >= Boundary(i) /\ j.first = i.first
  <2>1. Boundary(i) \in Nat /\ i.lastSeen < Boundary(i)
      BY <1>2, <1>6, BoundaryNatural DEF SoundIncident
  <2> QED
      BY <1>2, <1>3, <1>4, <1>6, <2>1
<1>7. CASE j.first = at /\ ~(i # None /\ i.phase = "open" /\ j.first = i.first)
  <2>1. ASSUME NEW kind \in {"failure", "reminder"}, NewEvents(N) = {EventOf(kind, f, j)}
        PROVE  FALSE
    <3> DEFINE e == EventOf(kind, f, j)
    <3>1. e \in NewEvents(N) /\ e.kind # "recovery" /\ e.incidents = {Snapshot(f, j)}
        BY <2>1 DEF EventOf
    <3>2. Announces(e, f)
        BY <3>1 DEF Announces, Snapshot
    <3> HIDE DEF e
    <3>3. <<f, at>> \notin IncidentIds(q)
        BY <1>1, <3>1, <3>2, NewIdentity
    <3> QED
        BY <1>7, <3>3
  <2>2. \/ \E kind \in {"failure", "reminder"} : NewEvents(N) = {EventOf(kind, f, j)}
        \/ j = i \/ (i # None /\ i.phase = "open" /\ j = Cooled(i))
        \/ (i # None /\ at < Boundary(i) /\ j = SeenAgain(i, at))
        \/ j = None
      BY <1>2 DEF Moves
  <2>3. ASSUME i # None, at < Boundary(i), j = SeenAgain(i, at)
        PROVE  /\ q.createdAt <= j.lastSeen
               /\ j.needsRecovery => q.createdAt < j.enqueued
    <3>1. /\ j.first = i.first /\ j.enqueued = i.enqueued /\ j.lastSeen = at
          /\ j.needsRecovery = i.needsRecovery
      <4> HIDE DEF j
      <4> QED
        BY <1>2, <2>3, SeenAgainFacts
    <3>2. i.needsRecovery => i.phase = "open"
        BY <1>2, <2>3 DEF SoundIncident, ValidIncident, Incidents
    <3> HIDE DEF j
    <3>3. j.needsRecovery => q.createdAt < j.enqueued
        BY <1>4, <2>3, <3>1, <3>2, Zenon
    <3>4. q.createdAt <= j.lastSeen
        BY <1>2, <1>3, <3>1
    <3> QED
        BY <3>3, <3>4
  <2>4. ASSUME i # None, i.phase = "open", j = Cooled(i) PROVE FALSE
      BY <1>2, <1>j, <2>4, CooledFacts
  <2> QED
      BY <1>4, <1>7, <1>j, <2>1, <2>2, <2>3, <2>4
<1> QED
    BY <1>m, <1>5, <1>6, <1>7

\* The outbox after an observation has no event twice and keeps what was recorded.
LEMMA ObservedRecords ==
    ASSUME Types, Sound, Windows, Recoveries, Records,
           NEW w, NEW N, NEW at, Forward(w, N, at)
    PROVE  /\ \A k, l \in 1 .. Len(w.outbox) : w.outbox[k].event = w.outbox[l].event => k = l
           /\ \A k \in 1 .. Len(w.outbox) : \A p \in DOMAIN w.outbox[k].deliveries :
                <<w.outbox[k].event, p>> \in recorded => w.outbox[k].deliveries[p] \in Final
<1> DEFINE s == disk.outbox
           t == w.outbox
<1>1. PICK h : Origins(h, t, s, N)
    BY DEF Forward, Writes, Follows
<1>2. Len(s) \in Nat
    BY StateParts DEF Types
<1>3. ASSUME NEW k \in 1 .. Len(t)
      PROVE  \/ h[k] = 0 /\ t[k].event \in NewEvents(N)
             \/ h[k] \in 1 .. Len(s) /\ Later(t[k], s[h[k]]) /\ t[k].event = s[h[k]].event
                /\ t[k].event \in enqueued
  <2>1. CASE h[k] = 0
      BY <1>1, <2>1 DEF Origins, NewEvents
  <2>2. CASE h[k] # 0
    <3>1. h[k] \in 1 .. Len(s) /\ Later(t[k], s[h[k]])
        BY <1>1, <1>2, <2>2 DEF Origins
    <3>2. s[h[k]].event \in enqueued
        BY <3>1 DEF Sound, Events
    <3> QED
        BY <3>1, <3>2 DEF Later
  <2> QED
      BY <2>1, <2>2
<1>4. \A e \in NewEvents(N) : e \notin enqueued
    BY NewIsNew
<1>5. \A k, l \in 1 .. Len(t) : h[k] = h[l] => k = l
    BY <1>1 DEF Origins
<1> HIDE DEF s, t
<1>6. ASSUME NEW k \in 1 .. Len(t), NEW l \in 1 .. Len(t), t[k].event = t[l].event
      PROVE  k = l
  <2>1. CASE h[k] = 0 /\ h[l] = 0
      BY <1>5, <2>1
  <2>2. CASE h[k] # 0 /\ h[l] # 0
    <3>1. /\ h[k] \in 1 .. Len(s) /\ t[k].event = s[h[k]].event
          /\ h[l] \in 1 .. Len(s) /\ t[l].event = s[h[l]].event
        BY <1>3, <2>2
    <3>2. h[k] = h[l]
        BY <1>6, <3>1 DEF Records, s
    <3> QED
        BY <1>5, <3>2
  <2>3. CASE h[k] = 0 /\ h[l] # 0
      BY <1>3, <1>4, <1>6, <2>3
  <2>4. CASE h[k] # 0 /\ h[l] = 0
      BY <1>3, <1>4, <1>6, <2>4
  <2> QED
      BY <2>1, <2>2, <2>3, <2>4
<1>7. ASSUME NEW k \in 1 .. Len(t), NEW p \in DOMAIN t[k].deliveries,
             <<t[k].event, p>> \in recorded
      PROVE  t[k].deliveries[p] \in Final
  <2>1. t[k].event \in enqueued
      BY <1>7 DEF Records
  <2>2. h[k] \in 1 .. Len(s) /\ Later(t[k], s[h[k]])
      BY <1>3, <1>4, <2>1
  <2>3. p \in DOMAIN s[h[k]].deliveries /\ s[h[k]].event = t[k].event
      BY <2>2 DEF Later
  <2>4. s[h[k]].deliveries[p] \in Final
      BY <1>7, <2>2, <2>3 DEF Records, s
  <2> QED
      BY <2>2, <2>3, <2>4 DEF Later, Final
<1> QED
    BY <1>6, <1>7 DEF t

\* The round that an observation begins retries for a reminder that is due.
LEMMA ObservedDue ==
    ASSUME Types, Sound, Windows, NEW at \in Times, at >= now, NEW e, NEW n,
           NEW o \in Failures \cup {None}, NEW i,
           Told(Unexpired(disk.incidents, at), n, e, o, at),
           i = n \/ i = disk.incidents, Retryable(e) # {}
    PROVE  \E f \in Failures :
              /\ i[f] # None /\ Retryable(e) = {<<f, i[f].first>>}
              /\ i[f].enqueued = at \/ at >= Boundary(i[f])
<1> DEFINE d == disk.incidents
           m == Unexpired(d, at)
<1>1. /\ d \in IncidentMaps
      /\ \A f \in Failures : m[f] = d[f] \/ (m[f] = None /\ Expired(d[f], at))
      /\ \A f \in Failures : Seen(m[f], at) = at
      /\ \A f \in Failures : d[f] # None =>
            d[f] \in Incidents /\ SoundIncident(d[f]) /\ d[f].lastSeen <= at
    BY ClockIncidents
<1>2. m \in IncidentMaps
    BY <1>1, UnexpiredTyped
<1>3. e.kind = "reminder" /\ Retryable(e) = IncidentIds(e)
    BY DEF Retryable
<1> HIDE DEF m
<1>4. /\ o \in Failures /\ m[o] # None /\ Seen(m[o], at) >= Boundary(m[o])
      /\ n = [m EXCEPT ![o] = Reminded(m[o], Seen(m[o], at))]
      /\ e = EventOf("reminder", o, Reminded(m[o], Seen(m[o], at)))
  <2>1. Told(m, n, e, o, at)
      BY DEF m
  <2>2. e # RecoveryEvent(m, at) /\ \A j : e # EventOf("failure", o, j)
      BY <1>3, KindsOfEvents
  <2> QED
      BY <2>1, <2>2 DEF Told
<1>5. m[o] = d[o] /\ d[o] # None /\ at >= Boundary(d[o]) /\ Seen(m[o], at) = at
    BY <1>1, <1>4
<1>6. n[o] = Reminded(d[o], at) /\ e = EventOf("reminder", o, Reminded(d[o], at))
    BY <1>2, <1>4, <1>5 DEF IncidentMaps
<1> DEFINE j == Reminded(d[o], at)
<1>7. j \in Incidents /\ j.enqueued = at /\ j.first = d[o].first
  <2>1. at >= d[o].lastSeen
    <3>1. d[o].lastSeen \in Nat /\ at \in Nat
        BY <1>1, <1>4, <1>5, TimesAreNatural DEF Incidents
    <3> QED
        BY <1>1, <1>4, <1>5, <3>1
  <2> QED
      BY <1>1, <1>4, <1>5, <2>1, RemindedFacts
<1> HIDE DEF j
<1>8. IncidentIds(e) = {<<o, d[o].first>>}
  <2>1. e.incidents = {Snapshot(o, j)}
      BY <1>6 DEF EventOf, j
  <2>2. IdOf(Snapshot(o, j)) = <<o, j.first>>
      BY DEF IdOf, Snapshot
  <2> QED
      BY <1>7, <2>1, <2>2 DEF IncidentIds
<1>9. CASE i = n
  <2>1. i[o] = j /\ i[o] # None
      BY <1>6, <1>7, <1>9, NoIncident DEF j
  <2> QED
      BY <1>3, <1>4, <1>7, <1>8, <2>1
<1>10. CASE i = d
    BY <1>3, <1>4, <1>5, <1>8, <1>10
<1> QED
    BY <1>9, <1>10

\* A step of Observe keeps the invariant.
LEMMA ObservedClockInv ==
    ASSUME ClockInv, ~ClockStepsBack, NEW N, NEW o \in Failures \cup {None}, Observed(N, o)
    PROVE  ClockInv'
<1> USE DEF ClockInv
<1> DEFINE at == now'
           w == disk'
<1>1. Types /\ Sound /\ SuppressionIsAnnounced
    BY DEF IInv
<1>2. /\ at \in Times /\ at >= now /\ Writes(w, N, o, at)
      /\ enqueued' = enqueued \cup Events(w)
      /\ recorded' = recorded /\ inflight' = None
    BY DEF Observed
<1>3. Forward(w, N, at)
    BY <1>2 DEF Forward
<1>4. enqueued' = enqueued \cup NewEvents(N)
    BY <1>1, <1>2, <1>3, ForwardFacts
<1>5. IInv'
    BY ObservedIInv
<1>6. Windows'
  <2>1. /\ \A e \in enqueued \cup NewEvents(N) : e.createdAt <= at
        /\ \A f \in Failures :
             /\ w.incidents[f] # None => w.incidents[f].lastSeen <= at
             /\ \A e \in enqueued \cup NewEvents(N) : Announces(e, f) =>
                  IF w.incidents[f] = None THEN e.createdAt + RepeatAfter <= at
                  ELSE e.createdAt <= w.incidents[f].enqueued
      BY <1>1, <1>3, ObservedWindows
  <2> QED
      BY <1>4, <2>1 DEF Windows
<1>7. FlapsAreSuppressed'
  <2>1. \A f \in Failures, e1, e2 \in enqueued \cup NewEvents(N) :
          Announces(e1, f) /\ Announces(e2, f) /\ e1 # e2 =>
            \/ e1.createdAt + RepeatAfter <= e2.createdAt
            \/ e2.createdAt + RepeatAfter <= e1.createdAt
      BY <1>1, <1>3, ObservedFlaps
  <2> QED
      BY <1>4, <2>1 DEF FlapsAreSuppressed
<1>8. RecoveriesAreEarned'
  <2>1. \A r \in {e \in enqueued \cup NewEvents(N) : e.kind = "recovery"} :
          \A id \in IncidentIds(r) : \E a \in enqueued \cup NewEvents(N) :
            /\ a.kind # "recovery" /\ id \in IncidentIds(a) /\ a.createdAt <= r.createdAt
            /\ \A q \in enqueued \cup NewEvents(N) :
                 q.kind = "recovery" /\ id \in IncidentIds(q) /\ q # r =>
                    q.createdAt < a.createdAt \/ q.createdAt >= r.createdAt
      BY <1>1, <1>3, ObservedEarned
  <2> QED
      BY <1>4, <2>1 DEF RecoveriesAreEarned
<1>9. Recoveries'
  <2>1. \A f \in Failures, q \in enqueued \cup NewEvents(N) :
          /\ w.incidents[f] # None /\ w.incidents[f].phase = "open"
          /\ q.kind = "recovery" /\ <<f, w.incidents[f].first>> \in IncidentIds(q)
          => /\ q.createdAt <= w.incidents[f].lastSeen
             /\ w.incidents[f].needsRecovery => q.createdAt < w.incidents[f].enqueued
      BY <1>1, <1>3, ObservedRecoveries
  <2> QED
      BY <1>4, <2>1 DEF Recoveries
<1>10. Records'
  <2>1. /\ \A k, l \in 1 .. Len(w.outbox) : w.outbox[k].event = w.outbox[l].event => k = l
        /\ \A k \in 1 .. Len(w.outbox) : \A p \in DOMAIN w.outbox[k].deliveries :
             <<w.outbox[k].event, p>> \in recorded => w.outbox[k].deliveries[p] \in Final
      BY <1>1, <1>3, ObservedRecords
  <2>2. recorded' \in SUBSET (enqueued' \X Providers)
      BY <1>2, <1>4 DEF Records
  <2> QED
      BY <1>2, <2>1, <2>2 DEF Records, NoRepeatAfterRecord
<1>11. Due'
  <2>1. CASE retry' = {}
      BY <2>1 DEF Due
  <2>2. ASSUME NEW e, NEW n, NEW u \in Failures \cup {None},
               Told(Unexpired(disk.incidents, at), n, e, u, at), retry' = Retryable(e),
               w.incidents = n \/ w.incidents = disk.incidents, retry' # {}
        PROVE  Due'
    <3>1. \E f \in Failures :
            /\ w.incidents[f] # None /\ Retryable(e) = {<<f, w.incidents[f].first>>}
            /\ w.incidents[f].enqueued = at \/ at >= Boundary(w.incidents[f])
        BY <1>1, <1>2, <2>2, ObservedDue
    <3> QED
        BY <2>2, <3>1 DEF Due
  <2> QED
      BY <2>1, <2>2 DEF Observed
<1> QED
    BY <1>5, <1>6, <1>7, <1>8, <1>9, <1>10, <1>11

-----------------------------------------------------------------------------
(* The other steps, and the theorems.                                      *)

\* What does not depend on the outbox stays when the incidents, the clock and
\* the events do.
LEMMA SameIncidents ==
    ASSUME ClockInv, disk'.incidents = disk.incidents, now' = now, enqueued' = enqueued,
           retry' = retry \/ retry' = {}
    PROVE  Windows' /\ FlapsAreSuppressed' /\ RecoveriesAreEarned' /\ Recoveries' /\ Due'
<1> USE DEF ClockInv
<1>1. Windows' /\ Recoveries'
    BY DEF Windows, Recoveries
<1>2. FlapsAreSuppressed' /\ RecoveriesAreEarned'
    BY DEF FlapsAreSuppressed, RecoveriesAreEarned
<1>3. Due'
    BY DEF Due
<1> QED
    BY <1>1, <1>2, <1>3

\* The record of a delivery keeps the other deliveries and adds its own.
LEMMA RecordedRecords ==
    ASSUME ClockInv, Recorded
    PROVE  Records'
<1> USE DEF ClockInv
<1>1. IInv /\ Types /\ Sound /\ Underway
    BY DEF IInv
<1>2. inflight # None /\ inflight' = None /\ enqueued' = enqueued
  <2>1. CASE disk' = disk
      BY <1>1, <2>1 DEF Recorded, Sound, Events
  <2>2. CASE Recording(disk')
      BY <1>1, <2>2 DEF Recorded, Recording, Sound
  <2> QED
      BY <2>1, <2>2 DEF Recorded
<1>3. CASE disk' = disk /\ recorded' = recorded
    BY <1>2, <1>3 DEF Records, NoRepeatAfterRecord
<1>4. ASSUME Recording(disk'),
             recorded' = IF inflight.answer \in Final
                         THEN recorded \cup {<<inflight.event, inflight.provider>>} ELSE recorded
      PROVE  Records'
  <2> DEFINE s == disk.outbox
             t == disk'.outbox
             x == inflight.index
             p == inflight.provider
  <2>1. PICK h : Sifts(h, t, Updated)
      BY <1>4 DEF Recording
  <2>2. /\ inflight \in Flights /\ x \in 1 .. Len(s) /\ s[x] \in Envelopes
        /\ s[x].event = inflight.event /\ p \in DOMAIN s[x].deliveries /\ p \in Providers
      BY <1>1, <1>2, InFlight DEF Flights
  <2>3. /\ Len(Updated) = Len(s)
        /\ Delivered(s[x]).event = inflight.event
        /\ DOMAIN Delivered(s[x]).deliveries = DOMAIN s[x].deliveries
        /\ \A q \in DOMAIN Delivered(s[x]).deliveries :
             Delivered(s[x]).deliveries[q] = IF q = p THEN inflight.answer ELSE s[x].deliveries[q]
        /\ \A k \in 1 .. Len(s) : Updated[k] = IF k = x THEN Delivered(s[x]) ELSE s[k]
      BY <1>1, <1>2, UpdatedFacts
  <2>4. /\ \A k \in 1 .. Len(t) : h[k] \in 1 .. Len(s) /\ t[k] = Updated[h[k]]
        /\ \A k, l \in 1 .. Len(t) : h[k] = h[l] => k = l
    <3>1. \A k \in 1 .. Len(t) : h[k] \in 1 .. Len(s) /\ t[k] = Updated[h[k]]
        BY <2>1, <2>3 DEF Sifts
    <3>2. \A k, l \in 1 .. Len(t) : k < l => h[k] < h[l]
        BY <2>1 DEF Sifts
    <3>3. Len(t) \in Nat /\ Len(s) \in Nat
        BY <1>1, <1>4, StateParts DEF Recording, Types
    <3> HIDE DEF t, s
    <3>4. ASSUME NEW k \in 1 .. Len(t), NEW l \in 1 .. Len(t), h[k] = h[l]
          PROVE  k = l
      <4>1. k \in Nat /\ l \in Nat /\ h[k] \in Nat /\ h[l] \in Nat
          BY <3>1, <3>3
      <4>2. ~(k < l) /\ ~(l < k)
          BY <3>2, <3>4, <4>1
      <4> QED
          BY <4>1, <4>2
    <3> QED
        BY <3>1, <3>4
  <2> HIDE DEF t
  <2>5. \A k \in 1 .. Len(t) : t[k].event = s[h[k]].event
      BY <2>2, <2>3, <2>4
  <2>6. ASSUME NEW k \in 1 .. Len(t), NEW l \in 1 .. Len(t), t[k].event = t[l].event
        PROVE  k = l
    <3>0. h[k] \in 1 .. Len(s) /\ h[l] \in 1 .. Len(s) /\ s[h[k]].event = s[h[l]].event
      <4> HIDE DEF s
      <4> QED
          BY <2>4, <2>5, <2>6
    <3>1. h[k] = h[l]
        BY <3>0 DEF Records
    <3> QED
        BY <2>4, <3>1
  <2>7. recorded' \in SUBSET (enqueued \X Providers)
    <3>1. inflight.event \in enqueued
        BY <1>1, <2>2 DEF Sound, Events
    <3> QED
        BY <1>4, <2>2, <3>1 DEF Records
  <2>8. ASSUME NEW k \in 1 .. Len(t), NEW q \in DOMAIN t[k].deliveries,
               <<t[k].event, q>> \in recorded'
        PROVE  t[k].deliveries[q] \in Final
    <3>1. CASE h[k] # x
      <4>1. t[k] = s[h[k]] /\ h[k] \in 1 .. Len(s)
          BY <2>3, <2>4, <3>1
      <4>2. t[k].event # inflight.event
          BY <2>2, <3>1, <4>1 DEF Records
      <4>3. <<t[k].event, q>> \in recorded
          BY <1>4, <2>8, <4>2
      <4> QED
          BY <2>8, <4>1, <4>3 DEF Records
    <3>2. CASE h[k] = x
      <4> DEFINE d == Delivered(s[x])
      <4>1. /\ t[k] = d /\ d.event = inflight.event /\ DOMAIN d.deliveries = DOMAIN s[x].deliveries
            /\ \A r \in DOMAIN d.deliveries :
                 d.deliveries[r] = IF r = p THEN inflight.answer ELSE s[x].deliveries[r]
          BY <2>2, <2>3, <2>4, <3>2
      <4> HIDE DEF d
      <4>2. CASE q = p
        <5>1. <<inflight.event, p>> \notin recorded
            BY <1>2 DEF Records, NoRepeatAfterRecord
        <5>2. inflight.answer \in Final
            BY <1>4, <2>8, <4>1, <4>2, <5>1
        <5> QED
            BY <2>8, <4>1, <4>2, <5>2
      <4>3. CASE q # p
        <5>1. <<s[x].event, q>> \in recorded
            BY <1>4, <2>2, <2>8, <4>1, <4>3
        <5>2. s[x].deliveries[q] \in Final
            BY <2>2, <2>8, <4>1, <5>1 DEF Records
        <5> QED
            BY <2>8, <4>1, <4>3, <5>2
      <4> QED
          BY <4>2, <4>3
    <3> QED
        BY <3>1, <3>2
  <2> QED
      BY <1>2, <2>6, <2>7, <2>8 DEF Records, NoRepeatAfterRecord, t
<1> QED
    BY <1>3, <1>4 DEF Recorded

\* A delivery that starts is not recorded: its status is not final.
LEMMA QuietRecords ==
    ASSUME ClockInv, Quiet
    PROVE  Records'
<1> USE DEF ClockInv
<1>1. UNCHANGED <<disk, enqueued, recorded>>
    BY DEF Quiet
<1>2. NoRepeatAfterRecord'
  <2>1. CASE inflight' = None
      BY <2>1 DEF NoRepeatAfterRecord
  <2>2. CASE inflight' # None
    <3>1. /\ inflight'.index \in 1 .. Len(disk.outbox)
          /\ disk.outbox[inflight'.index].event = inflight'.event
          /\ inflight'.provider \in DOMAIN disk.outbox[inflight'.index].deliveries
          /\ disk.outbox[inflight'.index].deliveries[inflight'.provider] = inflight'.expected
          /\ inflight'.expected \notin Final
        BY <2>2 DEF Quiet
    <3>2. <<inflight'.event, inflight'.provider>> \notin recorded
        BY <3>1 DEF Records
    <3> QED
        BY <1>1, <3>2 DEF NoRepeatAfterRecord
  <2> QED
      BY <2>1, <2>2
<1> QED
    BY <1>1, <1>2 DEF Records

\* The first state satisfies the invariant.
LEMMA InitClockInv == ASSUME Init PROVE ClockInv
<1>1. disk = EmptyState /\ enqueued = {} /\ recorded = {} /\ retry = {} /\ inflight = None
    BY DEF Init
<1>2. disk.outbox = <<>> /\ \A f \in Failures : disk.incidents[f] = None
    BY <1>1 DEF EmptyState
<1>3. Windows /\ Recoveries /\ FlapsAreSuppressed /\ RecoveriesAreEarned
    BY <1>1, <1>2 DEF Windows, Recoveries, FlapsAreSuppressed, RecoveriesAreEarned
<1>4. Len(disk.outbox) = 0
    BY <1>2, EmptySeq
<1>5. Records /\ Due
    BY <1>1, <1>4 DEF Records, NoRepeatAfterRecord, Due
<1> QED
    BY <1>3, <1>5, InitIInv DEF ClockInv

\* The invariant of a service whose clock is never set back: what was announced
\* lies in the window of its incident or before it.
THEOREM ClockInvariant == ASSUME ~ClockStepsBack PROVE Spec => []ClockInv
<1>1. ASSUME ClockInv, [Next]_vars PROVE ClockInv'
  <2>0. IInv
      BY <1>1 DEF ClockInv
  <2>1. CASE \E N : \E o \in Failures \cup {None} : Observed(N, o)
      BY <1>1, <2>1, ObservedClockInv
  <2>2. CASE Recorded
    <3>1. disk'.incidents = disk.incidents /\ enqueued' = enqueued
      <4>1. CASE disk' = disk
          BY <2>0, <2>2, <4>1 DEF Recorded, IInv, Sound, Events
      <4>2. CASE Recording(disk')
          BY <2>0, <2>2, <4>2 DEF Recorded, Recording, IInv, Sound
      <4> QED
          BY <2>2, <4>1, <4>2 DEF Recorded
    <3>2. now' = now /\ retry' = retry
        BY <2>2 DEF Recorded
    <3>3. Windows' /\ FlapsAreSuppressed' /\ RecoveriesAreEarned' /\ Recoveries' /\ Due'
        BY <1>1, <3>1, <3>2, SameIncidents
    <3>4. IInv' /\ Records'
        BY <1>1, <2>0, <2>2, RecordedIInv, RecordedRecords
    <3> QED
        BY <3>3, <3>4 DEF ClockInv
  <2>3. CASE Quiet
    <3>1. /\ disk' = disk /\ now' = now /\ enqueued' = enqueued
          /\ retry' = retry \/ retry' = {}
        BY <2>3 DEF Quiet, Return
    <3>2. Windows' /\ FlapsAreSuppressed' /\ RecoveriesAreEarned' /\ Recoveries' /\ Due'
        BY <1>1, <3>1, SameIncidents
    <3>3. IInv' /\ Records'
        BY <1>1, <2>0, <2>3, QuietIInv, QuietRecords
    <3> QED
        BY <3>2, <3>3 DEF ClockInv
  <2>4. CASE UNCHANGED vars
    <3>1. UNCHANGED <<disk, now, enqueued, recorded, inflight, retry>>
        BY <2>4 DEF vars, managerVars, bounds, history
    <3>2. Windows' /\ FlapsAreSuppressed' /\ RecoveriesAreEarned' /\ Recoveries' /\ Due'
        BY <1>1, <3>1, SameIncidents
    <3>3. Records'
        BY <1>1, <3>1 DEF ClockInv, Records, NoRepeatAfterRecord
    <3>4. IInv'
        BY <2>0, <2>4, StutterIInv
    <3> QED
        BY <3>2, <3>3, <3>4 DEF ClockInv
  <2> QED
      BY <2>0, <1>1, <2>1, <2>2, <2>3, <2>4, StepCases
<1> QED
    BY <1>1, InitClockInv, PTL DEF Spec

\* Two announcements of one failure type are at least RepeatAfter apart, over
\* flapping, full outboxes, I/O errors, crashes and changes of the providers.
THEOREM NotificationsAreSuppressed == ASSUME ~ClockStepsBack PROVE Spec => []FlapsAreSuppressed
<1>1. ClockInv => FlapsAreSuppressed
    BY DEF ClockInv
<1> QED
    BY <1>1, ClockInvariant, PTL

\* Silence follows an announcement, and every recovery answers an announcement
\* of its incident that no other recovery has answered.
THEOREM UsersAreToldTheTruth == ASSUME ~ClockStepsBack PROVE Spec => []AnnouncementsAreHonest
<1>1. ClockInv => AnnouncementsAreHonest
    BY DEF ClockInv, IInv, AnnouncementsAreHonest
<1> QED
    BY <1>1, ClockInvariant, PTL

\* What is on disk as published, refused or given up is not sent again.
THEOREM NoSecondDelivery == ASSUME ~ClockStepsBack PROVE Spec => []NoRepeatAfterRecord
<1>1. ClockInv => NoRepeatAfterRecord
    BY DEF ClockInv, Records
<1> QED
    BY <1>1, ClockInvariant, PTL

\* A delivery that may have been published is repeated only for a reminder of
\* one of its incidents that is due.
THEOREM AmbiguousIsRetriedWhenDue == ASSUME ~ClockStepsBack PROVE Spec => []AmbiguousRetryIsDue
<1>1. ASSUME ClockInv PROVE AmbiguousRetryIsDue
  <2> SUFFICES ASSUME inflight # None, inflight.expected = "ambiguous"
               PROVE  \E f \in Failures :
                        /\ disk.incidents[f] # None
                        /\ <<f, disk.incidents[f].first>> \in IncidentIds(inflight.event)
                        /\ disk.incidents[f].enqueued = now \/ now >= Boundary(disk.incidents[f])
      BY DEF AmbiguousRetryIsDue
  <2>1. IncidentIds(inflight.event) \cap retry # {}
      BY <1>1 DEF ClockInv, IInv, Underway
  <2>2. PICK f \in Failures :
          /\ disk.incidents[f] # None
          /\ retry = {<<f, disk.incidents[f].first>>}
          /\ disk.incidents[f].enqueued = now \/ now >= Boundary(disk.incidents[f])
      BY <1>1, <2>1 DEF ClockInv, Due
  <2> QED
      BY <2>1, <2>2
<1> QED
    BY <1>1, ClockInvariant, PTL
=============================================================================
