------------------------- MODULE SemanticRefreshProofs -------------------------
(***************************************************************************)
(* Proofs about SemanticRefresh: no run advances or completes over work     *)
(* that is not done, none is left marked running, and no batch takes the    *)
(* exact-search tail over its limit, for any number of parents, profiles,   *)
(* runners, source writes and disturbances.                                 *)
(***************************************************************************)
EXTENDS SemanticRefresh, FunctionTheorems, FiniteSetTheorems, SequenceTheorems,
        NaturalsInduction, TLAPS

(***************************************************************************)
(* The inductive invariant.  A fresh copy agrees with its row, there is one *)
(* of a row, and what its outcome claims stays true until it is recorded:   *)
(* later writes lie above every watermark in use.                           *)
(***************************************************************************)
Clean(w) == \A p \in Parents : dirty[p] \notin 1 .. w

Outcomes == [next : Stages \cup {None}, gen : Nat, failed : BOOLEAN, complete : BOOLEAN,
             successor : 0 .. MaxRevision]
Copies == [pc : {"idle", "start", "emit", "stage", "record", "complete", "successor",
                 "cancel", "fail"},
           profile : Profiles \cup {None}, watermark : 0 .. MaxRevision,
           stage : Stages \cup {None}, gen : Nat, attached : BOOLEAN, fresh : BOOLEAN,
           cancelled : BOOLEAN, out : Outcomes]

DataInv ==
    /\ workRevision \in 0 .. MaxRevision
    /\ dirty \in [Parents -> 0 .. MaxRevision]
    /\ embedding \in [Profiles -> [Parents -> {"none", "due", "ready", "cooling"}]]
    /\ revision \in [Profiles -> [Parents -> Nat]]
    /\ generation \in [Profiles -> Nat] /\ snapshot \in [Profiles -> Nat]
    /\ \A f \in Profiles, p \in Parents : revision[f][p] > 0 <=> embedding[f][p] = "ready"
SegmentInv ==
    /\ segments \in [Profiles -> Seq(Segment)]
    /\ \A f \in Profiles : \A i, j \in DOMAIN segments[f] :
         i # j => segments[f][i].held \cap segments[f][j].held = {}
WorldInv ==
    /\ profile \in Profiles /\ provider \in {"up", "down"}
    /\ used \in 0 .. MaxDisturbances /\ lost \in BOOLEAN
RowInv ==
    /\ run \in [Profiles -> Row \cup {None}]
    /\ \A f \in Profiles : run[f] # None =>
         /\ run[f].watermark <= workRevision
         /\ run[f].stage # "projection" => Clean(run[f].watermark)
CopyInv ==
    /\ runner \in [Runners -> Copies]
    /\ \A r \in Runners :
         /\ runner[r].watermark <= workRevision
         /\ runner[r].out.successor <= workRevision
         /\ runner[r].pc # "idle" => runner[r].profile \in Profiles
         /\ runner[r].pc \notin {"idle", "start"} => runner[r].stage \in Stages
LedgerInv ==
    /\ \A r \in Runners :
         /\ runner[r].fresh => runner[r].attached /\ runner[r].stage = run[runner[r].profile].stage
         /\ runner[r].attached =>
              /\ runner[r].pc \notin {"idle", "start", "successor"}
              /\ run[runner[r].profile] # None
              /\ run[runner[r].profile].watermark = runner[r].watermark
    /\ \A r, s \in Runners :
         runner[r].fresh /\ runner[s].fresh /\ runner[r].profile = runner[s].profile => r = s

\* Nothing that is done is undone before a new run starts: what is dirty was
\* written after every watermark in use, and what is clean is embedded.
Settled(f) ==
    \A p \in Parents :
        /\ dirty[p] = 0 => embedding[f][p] \in {"none", "ready"}
        /\ \A s \in Runners :
             runner[s].pc \notin {"idle", "start"} => dirty[p] \notin 1 .. runner[s].watermark
Honest(r, o) ==
    /\ o.next \notin {None, "projection"} => Clean(runner[r].watermark)
    /\ o.complete =>
         /\ o.next = "readiness" /\ ~o.failed
         /\ o.successor = 0 => Settled(runner[r].profile)
         /\ o.successor # 0 => o.successor > runner[r].watermark
OutcomeInv ==
    \A r \in Runners : runner[r].fresh =>
        /\ runner[r].pc = "record" => Honest(r, runner[r].out)
        /\ runner[r].pc = "complete" => runner[r].out.complete /\ Honest(r, runner[r].out)

IInv ==
    /\ DataInv /\ SegmentInv /\ WorldInv /\ RowInv /\ CopyInv /\ LedgerInv /\ OutcomeInv
    /\ RunningHasARunner

-----------------------------------------------------------------------------
(* Numbers and sequences. *)

LEMMA LeastNat ==
    ASSUME NEW T \in SUBSET Nat, T # {}
    PROVE  \E x \in T : \A y \in T : x <= y
<1> DEFINE R == OpToRel(<, Nat)
<1>1. IsWellFoundedOn(R, Nat)
    BY NatLessThanWellFounded
<1>2. \A x, y \in T : <<y, x>> \in R <=> y < x
    BY DEF OpToRel
<1> HIDE DEF R
<1>3. PICK x \in T : \A y \in T : ~(<<y, x>> \in R)
    BY <1>1, WFMin
<1>4. \A y \in T : ~(y < x)
    BY <1>2, <1>3
<1>5. \A y \in T : y \in Nat /\ x \in Nat
    OBVIOUS
<1> QED
    BY <1>4, <1>5

LEMMA MinFacts ==
    ASSUME NEW T \in SUBSET Nat, T # {}
    PROVE  Min(T) \in T /\ \A y \in T : Min(T) <= y
BY LeastNat DEF Min

\* The numbers of a finite set have an upper bound.
LEMMA FiniteIsBounded ==
    ASSUME NEW T \in SUBSET Nat, IsFiniteSet(T)
    PROVE  \E m \in Nat : \A x \in T : x <= m
<1> DEFINE n == Cardinality(T)
<1>1. n \in Nat /\ ExistsBijection(1 .. n, T)
    BY FS_CardinalityType
<1> HIDE DEF n
<1>2. PICK b : b \in Bijection(1 .. n, T)
    BY <1>1 DEF ExistsBijection
<1>3. b \in [1 .. n -> T] /\ \A x \in T : \E i \in 1 .. n : b[i] = x
    BY <1>2 DEF Bijection, Injection, Surjection
<1> DEFINE Bounded(k) == \E m \in Nat : \A i \in 1 .. k : b[i] <= m
           U == {k \in 1 .. n : ~Bounded(k)}
<1>a. ASSUME NEW i \in 1 .. n PROVE b[i] \in Nat /\ i \in Nat
  <2>1. b[i] \in T
    BY <1>3
  <2>2. b[i] \in Nat
    BY <2>1
  <2>3. i \in Nat
    BY <1>1
  <2> QED
    BY <2>2, <2>3
<1>4. U = {}
  <2> SUFFICES ASSUME U # {} PROVE FALSE
    OBVIOUS
  <2>1. U \in SUBSET Nat
    BY <1>1
  <2>2. PICK k \in U : \A j \in U : k <= j
    BY <2>1, LeastNat
  <2>3. k \in 1 .. n /\ b[k] \in Nat /\ k \in Nat /\ ~Bounded(k)
    BY <1>a
  <2>4. Bounded(k - 1)
    <3>1. CASE k = 1
      <4>1. \A i \in 1 .. (k - 1) : b[i] <= 0
        BY <3>1
      <4> QED
        BY <4>1
    <3>2. CASE k # 1
      <4>1. k - 1 \in 1 .. n /\ ~(k <= k - 1)
        BY <1>1, <2>3, <3>2
      <4>2. k - 1 \notin U
        BY <2>2, <4>1
      <4> QED
        BY <4>1, <4>2
    <3> QED
      BY <3>1, <3>2
  <2>5. PICK m \in Nat : \A i \in 1 .. (k - 1) : b[i] <= m
    BY <2>4
  <2>6. \A i \in 1 .. k : b[i] \in Nat /\ b[i] <= m + b[k]
    <3> SUFFICES ASSUME NEW i \in 1 .. k PROVE b[i] \in Nat /\ b[i] <= m + b[k]
      OBVIOUS
    <3>1. i \in 1 .. n
      BY <1>1, <2>3
    <3>3. b[i] \in Nat
      BY <1>a, <3>1
    <3>2. i \in 1 .. (k - 1) \/ i = k
      BY <2>3
    <3>4. b[i] <= m \/ b[i] = b[k]
      BY <2>5, <3>2
    <3>5. b[k] \in Nat /\ m \in Nat
      BY <2>3
    <3> QED
      BY <3>3, <3>4, <3>5
  <2>7. m + b[k] \in Nat
    BY <2>3
  <2> QED
    BY <2>3, <2>6, <2>7
<1>5. CASE n = 0
    BY <1>3, <1>5
<1>6. CASE n # 0
  <2>1. n \in 1 .. n
    BY <1>1, <1>6
  <2>2. Bounded(n)
    BY <1>4, <2>1
  <2>3. PICK m \in Nat : \A i \in 1 .. n : b[i] <= m
    BY <2>2
  <2> QED
    BY <1>3, <2>3
<1> QED
    BY <1>5, <1>6

LEMMA MaxFacts ==
    ASSUME NEW T \in SUBSET Nat, IsFiniteSet(T), T # {}
    PROVE  Max(T) \in T /\ \A y \in T : Max(T) >= y
<1> DEFINE B == {m \in Nat : \A x \in T : x <= m}
<1>1. B \in SUBSET Nat /\ B # {}
    BY FiniteIsBounded
<1>2. PICK m \in B : \A k \in B : m <= k
    BY <1>1, LeastNat
<1>3. m \in T
  <2> SUFFICES ASSUME m \notin T PROVE FALSE
    OBVIOUS
  <2>1. PICK x \in T : TRUE
    OBVIOUS
  <2>2. m \in Nat /\ m - 1 \in Nat /\ \A y \in T : y <= m - 1
    BY <2>1
  <2> QED
    BY <1>2, <2>2
<1> QED
    BY <1>2, <1>3 DEF Max

\* The revisions of some vectors.
LEMMA RevisionsFinite ==
    ASSUME NEW w \in SUBSET Parents, NEW g \in [Parents -> Nat]
    PROVE  IsFiniteSet({g[p] : p \in w}) /\ {g[p] : p \in w} \in SUBSET Nat
<1> DEFINE h == [p \in w |-> g[p]]
           T == {g[p] : p \in w}
<1>1. IsFiniteSet(w)
    BY RefreshAssumption, FS_Subset
<1>2. h \in Surjection(w, T)
    BY DEF Surjection
<1> QED
    BY <1>1, <1>2, FS_Surjection

\* A sequence without its i-th element.
LEMMA RemoveAtFacts ==
    ASSUME NEW S, NEW s \in Seq(S), NEW i \in 1 .. Len(s)
    PROVE  /\ RemoveAt(s, i) \in Seq(S) /\ Len(RemoveAt(s, i)) = Len(s) - 1
           /\ \A j \in 1 .. (Len(s) - 1) : RemoveAt(s, i)[j] = s[IF j < i THEN j ELSE j + 1]
<1> DEFINE n == Len(s)
           u == SubSeq(s, 1, i - 1)
           v == SubSeq(s, i + 1, n)
<1>1. n \in Nat /\ i \in Nat /\ i \in 1 .. n /\ \A k \in 1 .. n : s[k] \in S
    BY LenProperties, ElementOfSeq
<1>2. /\ u \in Seq(S) /\ Len(u) = i - 1
      /\ \A j \in 1 .. (i - 1) : u[j] = s[j]
  <2>1. \A k \in 1 .. (i - 1) : s[k] \in S
    BY <1>1
  <2>2. /\ u \in Seq(S) /\ Len(u) = IF 1 <= i - 1 THEN (i - 1) - 1 + 1 ELSE 0
        /\ \A j \in 1 .. ((i - 1) - 1 + 1) : u[j] = s[1 + j - 1]
    BY <1>1, <2>1, SubSeqProperties
  <2> QED
    BY <1>1, <2>2
<1>3. /\ v \in Seq(S) /\ Len(v) = n - i
      /\ \A j \in 1 .. (n - i) : v[j] = s[i + j]
  <2>1. \A k \in (i + 1) .. n : s[k] \in S
    BY <1>1
  <2>2. /\ v \in Seq(S) /\ Len(v) = IF i + 1 <= n THEN n - (i + 1) + 1 ELSE 0
        /\ \A j \in 1 .. (n - (i + 1) + 1) : v[j] = s[(i + 1) + j - 1]
    BY <1>1, <2>1, SubSeqProperties
  <2> QED
    BY <1>1, <2>2
<1> HIDE DEF u, v, n
<1>4. /\ u \o v \in Seq(S) /\ Len(u \o v) = Len(u) + Len(v)
      /\ \A j \in 1 .. Len(u) + Len(v) : (u \o v)[j] = IF j <= Len(u) THEN u[j] ELSE v[j - Len(u)]
    BY <1>2, <1>3, ConcatProperties
<1>5. RemoveAt(s, i) = u \o v
    BY DEF RemoveAt, u, v, n
<1>6. ASSUME NEW j \in 1 .. (n - 1) PROVE (u \o v)[j] = s[IF j < i THEN j ELSE j + 1]
  <2>1. CASE j < i
    BY <1>1, <1>2, <1>3, <1>4, <2>1
  <2>2. CASE ~(j < i)
    <3>1. j - (i - 1) \in 1 .. (n - i) /\ i + (j - (i - 1)) = j + 1 /\ ~(j <= i - 1)
      BY <1>1, <2>2
    <3>2. j \in 1 .. Len(u) + Len(v)
      BY <1>1, <1>2, <1>3
    <3>3. (u \o v)[j] = v[j - (i - 1)] /\ v[j - (i - 1)] = s[i + (j - (i - 1))]
      BY <1>2, <1>3, <1>4, <3>1, <3>2
    <3> QED
      BY <2>2, <3>1, <3>3
  <2> QED
    BY <2>1, <2>2
<1>7. Len(u) + Len(v) = n - 1
    BY <1>1, <1>2, <1>3
<1> QED
    BY <1>4, <1>5, <1>6, <1>7 DEF n

-----------------------------------------------------------------------------
(* Segments. *)

Disjoint(s) == \A i, j \in DOMAIN s : i # j => s[i].held \cap s[j].held = {}

\* A segment that shares nothing with the others may be appended.
LEMMA AppendDisjoint ==
    ASSUME NEW s \in Seq(Segment), Disjoint(s), NEW held, [held |-> held, gone |-> 0] \in Segment,
           \A i \in 1 .. Len(s) : s[i].held \cap held = {}
    PROVE  /\ Append(s, [held |-> held, gone |-> 0]) \in Seq(Segment)
           /\ Disjoint(Append(s, [held |-> held, gone |-> 0]))
           /\ DOMAIN Append(s, [held |-> held, gone |-> 0]) = 1 .. Len(s) + 1
           /\ \A i \in 1 .. Len(s) : Append(s, [held |-> held, gone |-> 0])[i] = s[i]
           /\ Append(s, [held |-> held, gone |-> 0])[Len(s) + 1] = [held |-> held, gone |-> 0]
<1> DEFINE e == [held |-> held, gone |-> 0]
           t == Append(s, e)
           n == Len(s)
<1>0. e.held = held
    OBVIOUS
<1> HIDE DEF e
<1>1. /\ t \in Seq(Segment) /\ Len(t) = n + 1
      /\ \A i \in 1 .. n : t[i] = s[i]
      /\ t[n + 1] = e
    BY AppendProperties DEF e
<1>2. n \in Nat /\ DOMAIN s = 1 .. n /\ DOMAIN t = 1 .. n + 1
    BY <1>1, LenProperties
<1> HIDE DEF t, n
<1>3. \A i \in 1 .. n + 1 : i \in 1 .. n \/ i = n + 1
    BY <1>2
<1>4. \A i \in 1 .. n : t[i].held \cap e.held = {}
    BY <1>0, <1>1 DEF n
<1>5. Disjoint(t)
    BY <1>1, <1>2, <1>3, <1>4 DEF Disjoint
<1> QED
    BY <1>1, <1>2, <1>5 DEF t, n, e

\* A plan names one segment or two of the active generation.
LEMMA PlanFacts ==
    ASSUME SegmentInv, NEW f \in Profiles, CompactionPlan(f) # {}
    PROVE  \E a, b \in 1 .. Len(segments[f]) : a <= b /\ CompactionPlan(f) = {a, b}
<1> DEFINE sorted == segments[f]
           n == Len(segments[f])
           over == {i \in DOMAIN sorted : OverOnePercent(sorted[i])}
           InClass(k) == {i \in DOMAIN sorted : Class(Cardinality(Live(sorted[i]))) = k}
           pairs == {k \in 1 .. 5 : Cardinality(InClass(k)) >= 2}
           C == InClass(Min(pairs))
           oldest == Min(C)
           second == Min(C \ {oldest})
<1>1. CompactionPlan(f) = IF over # {} THEN {Min(over)}
                          ELSE IF pairs # {} THEN {oldest, second} ELSE {}
    BY DEF CompactionPlan
<1>2. n \in Nat /\ DOMAIN sorted = 1 .. n
    BY LenProperties DEF SegmentInv
<1>3. over \in SUBSET (1 .. n) /\ over \in SUBSET Nat /\ C \in SUBSET (1 .. n) /\ C \in SUBSET Nat
    BY <1>2
<1>4. pairs \in SUBSET Nat /\ (pairs # {} => Min(pairs) \in pairs)
  <2>1. pairs \in SUBSET Nat
    OBVIOUS
  <2> QED
    BY <2>1, MinFacts
<1>5. pairs # {} => Cardinality(C) >= 2
    BY <1>4
<1>6. CASE over # {}
  <2>1. Min(over) \in over
    BY <1>3, <1>6, MinFacts
  <2> HIDE DEF over, pairs, oldest, second, n
  <2>2. Min(over) \in 1 .. n /\ Min(over) \in Nat
    BY <1>3, <2>1
  <2>3. CompactionPlan(f) = {Min(over), Min(over)}
    BY <1>1, <1>6
  <2> QED
    BY <2>2, <2>3 DEF n
<1>7. CASE over = {}
  <2> HIDE DEF over, pairs, C, n
  <2>1. pairs # {} /\ CompactionPlan(f) = {oldest, second}
    BY <1>1, <1>7
  <2>2. IsFiniteSet(1 .. n)
    BY <1>2, FS_Interval
  <2>3. IsFiniteSet(C) /\ Cardinality(C) \in Nat
    BY <1>3, <2>2, FS_Subset, FS_CardinalityType
  <2>4. C # {}
    BY <1>5, <2>1, <2>3, FS_EmptySet
  <2>5. oldest \in C /\ \A y \in C : oldest <= y
    BY <1>3, <2>4, MinFacts
  <2> HIDE DEF oldest
  <2>6. IsFiniteSet(C \ {oldest}) /\ Cardinality(C \ {oldest}) = Cardinality(C) - 1
    BY <2>3, <2>5, FS_RemoveElement
  <2>7. C \ {oldest} # {}
    BY <1>5, <2>1, <2>3, <2>6, FS_EmptySet
  <2>8. second \in C
    BY <1>3, <2>7, MinFacts
  <2> HIDE DEF second
  <2>9. oldest \in 1 .. n /\ second \in 1 .. n /\ oldest <= second
    BY <1>3, <2>5, <2>8
  <2> QED
    BY <2>1, <2>9 DEF n
<1> QED
    BY <1>6, <1>7

\* A sequence with some of its places left out.
Kept(s, t, a, b) ==
    \E k \in [1 .. Len(t) -> (1 .. Len(s)) \ {a, b}] :
        /\ \A j \in 1 .. Len(t) : t[j] = s[k[j]]
        /\ \A i, j \in 1 .. Len(t) : k[i] = k[j] => i = j

LEMMA RetainedFacts ==
    ASSUME NEW S, NEW s \in Seq(S), NEW a \in 1 .. Len(s), NEW b \in 1 .. Len(s), a <= b
    PROVE  LET others == RemoveAt(s, b)
               t == IF a = b THEN others ELSE RemoveAt(others, a)
           IN  t \in Seq(S) /\ Kept(s, t, a, b)
<1> DEFINE n == Len(s)
           others == RemoveAt(s, b)
           t == IF a = b THEN others ELSE RemoveAt(others, a)
           skip(j) == IF j < b THEN j ELSE j + 1
<1>1. n \in Nat /\ a \in Nat /\ b \in Nat /\ a \in 1 .. n /\ b \in 1 .. n
    BY LenProperties
<1>2. /\ others \in Seq(S) /\ Len(others) = n - 1
      /\ \A j \in 1 .. (n - 1) : others[j] = s[skip(j)]
    BY RemoveAtFacts
<1> HIDE DEF n, others
<1>3. CASE a = b
  <2> DEFINE k == [j \in 1 .. (n - 1) |-> skip(j)]
  <2>1. k \in [1 .. (n - 1) -> (1 .. n) \ {a, b}]
    BY <1>1, <1>3
  <2>2. \A i, j \in 1 .. (n - 1) : k[i] = k[j] => i = j
    BY <1>1
  <2>3. \A j \in 1 .. (n - 1) : others[j] = s[k[j]]
    BY <1>2
  <2> HIDE DEF k
  <2>4. Len(others) = n - 1
    BY <1>2
  <2>5. Kept(s, others, a, b)
    BY <2>1, <2>2, <2>3, <2>4 DEF Kept, n
  <2> QED
    BY <1>2, <1>3, <2>5 DEF others
<1>4. CASE a # b
  <2> DEFINE u == RemoveAt(others, a)
             k == [j \in 1 .. (n - 2) |-> skip(IF j < a THEN j ELSE j + 1)]
  <2>1. a \in 1 .. (n - 1) /\ a < b /\ (n - 1) - 1 = n - 2
    BY <1>1, <1>4
  <2>a. others \in Seq(S) /\ Len(others) = n - 1 /\ a \in 1 .. Len(others)
    BY <1>2, <2>1
  <2>b. /\ u \in Seq(S) /\ Len(u) = Len(others) - 1
        /\ \A j \in 1 .. (Len(others) - 1) : u[j] = others[IF j < a THEN j ELSE j + 1]
    BY <2>a, RemoveAtFacts
  <2>2. /\ u \in Seq(S) /\ Len(u) = (n - 1) - 1
        /\ \A j \in 1 .. ((n - 1) - 1) : u[j] = others[IF j < a THEN j ELSE j + 1]
    BY <2>a, <2>b
  <2> HIDE DEF u
  <2>3. \A j \in 1 .. (n - 2) : (IF j < a THEN j ELSE j + 1) \in 1 .. (n - 1)
    BY <1>1, <2>1
  <2>4. k \in [1 .. (n - 2) -> (1 .. n) \ {a, b}]
    BY <1>1, <2>1
  <2>5. \A i, j \in 1 .. (n - 2) : k[i] = k[j] => i = j
    BY <1>1, <2>1
  <2>6. \A j \in 1 .. (n - 2) : u[j] = s[k[j]]
    BY <1>2, <2>1, <2>2, <2>3
  <2> HIDE DEF k
  <2>7. Len(u) = n - 2
    BY <2>1, <2>2
  <2>8. Kept(s, u, a, b)
    BY <2>4, <2>5, <2>6, <2>7 DEF Kept, n
  <2> QED
    BY <1>4, <2>2, <2>8 DEF u, others
<1> QED
    BY <1>3, <1>4

\* A compaction leaves disjoint segments.
LEMMA CompactedFacts ==
    ASSUME SegmentInv, NEW f \in Profiles, CompactionPlan(f) # {}
    PROVE  Compacted(f) \in Seq(Segment) /\ Disjoint(Compacted(f))
<1> DEFINE s == segments[f]
           plan == CompactionPlan(f)
           live == UNION {Live(s[i]) : i \in plan}
           others == RemoveAt(s, Max(plan))
           t == IF Cardinality(plan) = 1 THEN others ELSE RemoveAt(others, Min(plan))
<1>1. s \in Seq(Segment) /\ Disjoint(s)
    BY DEF SegmentInv, Disjoint
<1>2. PICK a \in 1 .. Len(s), b \in 1 .. Len(s) : a <= b /\ plan = {a, b}
    BY PlanFacts
<1>3. Compacted(f) = IF Class(Cardinality(live)) = 0 THEN t ELSE Append(t, [held |-> live, gone |-> 0])
    BY DEF Compacted
<1>4. live = UNION {Live(s[i]) : i \in {a, b}}
    BY <1>2
<1> HIDE DEF s, plan
<1>5. Len(s) \in Nat /\ DOMAIN s = 1 .. Len(s) /\ a \in Nat /\ b \in Nat
      /\ \A i \in 1 .. Len(s) : s[i] \in Segment
    BY <1>1, LenProperties, ElementOfSeq
<1>6. plan \in SUBSET Nat /\ IsFiniteSet(plan) /\ plan # {}
  <2>1. IsFiniteSet({a})
    BY FS_Singleton
  <2>2. IsFiniteSet({a} \cup {b}) /\ {a} \cup {b} = {a, b}
    BY <2>1, FS_AddElement
  <2> QED
    BY <1>2, <1>5, <2>2
<1>7. Max(plan) = b /\ Min(plan) = a
  <2>1. Max(plan) \in plan /\ \A y \in plan : Max(plan) >= y
    BY <1>6, MaxFacts
  <2>2. Min(plan) \in plan /\ \A y \in plan : Min(plan) <= y
    BY <1>6, MinFacts
  <2> HIDE DEF plan
  <2>3. Max(plan) \in {a, b} /\ Max(plan) >= a /\ Max(plan) >= b
    BY <1>2, <2>1
  <2>4. Min(plan) \in {a, b} /\ Min(plan) <= a /\ Min(plan) <= b
    BY <1>2, <2>2
  <2> QED
    BY <1>2, <1>5, <2>3, <2>4
<1>8. Cardinality(plan) = 1 <=> a = b
  <2>1. Cardinality(plan) = 1 <=> \E x : plan = {x}
    BY <1>6, FS_Singleton
  <2>2. a = b => plan = {a}
    BY <1>2
  <2>3. ASSUME NEW x, plan = {x} PROVE a = b
    BY <1>2, <2>3
  <2> QED
    BY <2>1, <2>2, <2>3
<1>9. t = IF a = b THEN RemoveAt(s, b) ELSE RemoveAt(RemoveAt(s, b), a)
    BY <1>7, <1>8
<1>10. t \in Seq(Segment) /\ Kept(s, t, a, b)
    BY <1>1, <1>2, <1>9, RetainedFacts
<1> HIDE DEF t
<1>11. PICK k \in [1 .. Len(t) -> (1 .. Len(s)) \ {a, b}] :
          /\ \A j \in 1 .. Len(t) : t[j] = s[k[j]]
          /\ \A i, j \in 1 .. Len(t) : k[i] = k[j] => i = j
    BY <1>10 DEF Kept
<1>12. Len(t) \in Nat /\ DOMAIN t = 1 .. Len(t)
    BY <1>10, LenProperties
<1>13. \A j \in 1 .. Len(t) : k[j] \in 1 .. Len(s) /\ k[j] # a /\ k[j] # b
    BY <1>11
<1>14. Disjoint(t)
    BY <1>1, <1>5, <1>11, <1>12, <1>13 DEF Disjoint
<1>15. live \subseteq s[a].held \cup s[b].held
    BY <1>4 DEF Live
<1>16. [held |-> live, gone |-> 0] \in Segment
  <2>1. s[a].held \subseteq Parents /\ s[b].held \subseteq Parents
    BY <1>2, <1>5 DEF Segment
  <2> HIDE DEF live
  <2> QED
    BY <1>15, <2>1 DEF Segment
<1> HIDE DEF live
<1>17. \A j \in 1 .. Len(t) : t[j].held \cap live = {}
  <2> TAKE j \in 1 .. Len(t)
  <2>1. s[k[j]].held \cap s[a].held = {} /\ s[k[j]].held \cap s[b].held = {}
    BY <1>1, <1>2, <1>5, <1>13 DEF Disjoint
  <2> QED
    BY <1>11, <1>15, <2>1
<1>18. /\ Append(t, [held |-> live, gone |-> 0]) \in Seq(Segment)
       /\ Disjoint(Append(t, [held |-> live, gone |-> 0]))
    BY <1>10, <1>14, <1>16, <1>17, AppendDisjoint
<1> QED
    BY <1>3, <1>10, <1>14, <1>18

-----------------------------------------------------------------------------
(* What a stage may do to the retrieval state. *)

\* Nothing becomes dirty, and only a parent that was dirty at or below the
\* watermark becomes clean without being embedded.
DataStep(r) ==
    /\ DataInv' /\ SegmentInv'
    /\ workRevision' = workRevision
    /\ \A p \in Parents : dirty'[p] = dirty[p] \/ dirty'[p] = 0
    /\ \A f \in Profiles, p \in Parents :
         dirty'[p] = 0 /\ embedding'[f][p] \notin {"none", "ready"} =>
            \/ dirty[p] \in 1 .. runner[r].watermark
            \/ dirty[p] = 0 /\ embedding[f][p] \notin {"none", "ready"}

LEMMA NoDataStep ==
    ASSUME IInv, NEW r \in Runners, UNCHANGED retrieval
    PROVE  DataStep(r)
BY DEF DataStep, IInv, DataInv, SegmentInv, retrieval, index

\* Dropping a vector from the segment that holds it.
LEMMA ProjectionData ==
    ASSUME IInv, NEW r \in Runners, NEW p \in Parents, dirty[p] \in 1 .. runner[r].watermark,
           ApplyProjection(p)
    PROVE  DataStep(r)
<1> DEFINE Without(segment) == IF p \notin segment.held THEN segment
                               ELSE [held |-> segment.held \ {p}, gone |-> segment.gone + 1]
<1>1. /\ dirty' = [dirty EXCEPT ![p] = 0]
      /\ workRevision' = workRevision /\ generation' = generation /\ snapshot' = snapshot
    BY DEF ApplyProjection
<1>2. DataInv /\ SegmentInv
    BY DEF IInv
<1>3. /\ dirty' \in [Parents -> 0 .. MaxRevision]
      /\ \A q \in Parents : dirty'[q] = IF q = p THEN 0 ELSE dirty[q]
    BY <1>1, <1>2, RefreshAssumption DEF DataInv
<1>4. CASE UNCHANGED <<embedding, revision, segments>>
  <2>1. DataInv' /\ SegmentInv'
    BY <1>1, <1>2, <1>3, <1>4 DEF DataInv, SegmentInv
  <2> QED
    BY <1>1, <1>3, <1>4, <2>1 DEF DataStep
<1>5. CASE /\ embedding' = [f \in Profiles |-> [embedding[f] EXCEPT ![p] = "due"]]
           /\ revision' = [f \in Profiles |-> [revision[f] EXCEPT ![p] = 0]]
           /\ segments' = [f \in Profiles |-> [i \in DOMAIN segments[f] |-> Without(segments[f][i])]]
  <2>1. ASSUME NEW f \in Profiles
        PROVE  /\ embedding'[f] = [embedding[f] EXCEPT ![p] = "due"]
               /\ revision'[f] = [revision[f] EXCEPT ![p] = 0]
               /\ embedding[f] \in [Parents -> {"none", "due", "ready", "cooling"}]
               /\ revision[f] \in [Parents -> Nat]
    BY <1>2, <1>5 DEF DataInv
  <2>2. /\ embedding' \in [Profiles -> [Parents -> {"none", "due", "ready", "cooling"}]]
        /\ revision' \in [Profiles -> [Parents -> Nat]]
    BY <1>5, <2>1
  <2>3. ASSUME NEW f \in Profiles, NEW q \in Parents
        PROVE  /\ embedding'[f][q] = IF q = p THEN "due" ELSE embedding[f][q]
               /\ revision'[f][q] = IF q = p THEN 0 ELSE revision[f][q]
    <3>1. embedding'[f] = [embedding[f] EXCEPT ![p] = "due"] /\ DOMAIN embedding[f] = Parents
      BY <2>1
    <3>2. revision'[f] = [revision[f] EXCEPT ![p] = 0] /\ DOMAIN revision[f] = Parents
      BY <2>1
    <3> QED
      BY <3>1, <3>2
  <2>a. ASSUME NEW f \in Profiles, NEW q \in Parents
        PROVE  revision'[f][q] > 0 <=> embedding'[f][q] = "ready"
    <3>1. revision[f][q] > 0 <=> embedding[f][q] = "ready"
      BY <1>2 DEF DataInv
    <3> QED
      BY <2>3, <3>1
  <2>4. DataInv'
    BY <1>1, <1>2, <1>3, <2>2, <2>a DEF DataInv
  <2>5. ASSUME NEW f \in Profiles
        PROVE  /\ segments'[f] \in Seq(Segment) /\ DOMAIN segments'[f] = DOMAIN segments[f]
               /\ \A i \in DOMAIN segments[f] : segments'[f][i].held \subseteq segments[f][i].held
    <3> DEFINE s == segments[f]
               t == [i \in 1 .. Len(s) |-> Without(s[i])]
    <3>1. s \in Seq(Segment) /\ Len(s) \in Nat /\ DOMAIN s = 1 .. Len(s)
      BY <1>2, LenProperties DEF SegmentInv
    <3>2. segments'[f] = t
      BY <1>5, <3>1
    <3>3. \A i \in 1 .. Len(s) : s[i] \in Segment
      BY <3>1, ElementOfSeq
    <3> HIDE DEF s
    <3>4. \A x \in Segment : Without(x) \in Segment /\ Without(x).held \subseteq x.held
      BY DEF Segment
    <3> HIDE DEF Without
    <3>5. t \in [1 .. Len(s) -> Segment]
      BY <3>3, <3>4
    <3>6. t \in Seq(Segment)
      BY <3>1, <3>5, SeqDef
    <3> QED
      BY <3>1, <3>2, <3>3, <3>4, <3>6 DEF s
  <2> HIDE DEF Without
  <2>6. segments' \in [Profiles -> Seq(Segment)]
    BY <1>5, <2>5
  <2>7. SegmentInv'
    BY <1>2, <2>5, <2>6 DEF SegmentInv
  <2> QED
    BY <1>1, <1>3, <2>3, <2>4, <2>7 DEF DataStep
<1> QED
    BY <1>4, <1>5 DEF ApplyProjection

LEMMA HeldFacts ==
    ASSUME NEW f
    PROVE  \A p : p \in Held(f) <=> \E i \in DOMAIN segments[f] : p \in segments[f][i].held
BY DEF Held

\* A flush takes SegmentTarget vectors out of L0.
LEMMA FlushFacts ==
    ASSUME DataInv, SegmentInv, NEW f \in Profiles, NEW window \in FlushWindow(f),
           Flushes(f, window)
    PROVE  /\ SegmentInv'
           /\ generation' \in [Profiles -> Nat] /\ snapshot' \in [Profiles -> Nat]
           /\ window \in SUBSET L0(f) /\ Cardinality(window) = SegmentTarget
           /\ \A g \in Profiles : g # f => segments'[g] = segments[g]
           /\ \A p : p \in Held(f)' <=> p \in Held(f) \/ p \in window
<1> DEFINE e == [held |-> window, gone |-> 0]
           s == segments[f]
           n == Len(segments[f])
           t == Append(segments[f], e)
<1>1. window \in SUBSET L0(f) /\ Cardinality(window) = SegmentTarget
    BY DEF FlushWindow, kSubset
<1>2. window \in SUBSET Parents /\ window # {}
    BY <1>1, FS_EmptySet, RefreshAssumption DEF L0
<1>3. \A p \in window : p \notin Held(f)
    BY <1>1 DEF L0
<1>4. segments[f] \in Seq(Segment) /\ Disjoint(segments[f]) /\ n \in Nat /\ DOMAIN s = 1 .. n
    BY LenProperties DEF SegmentInv, Disjoint
<1>5. \A i \in 1 .. n : s[i].held \cap window = {}
    BY <1>3, <1>4, HeldFacts
<1>6. e \in Segment
    BY <1>2 DEF Segment
<1>7. /\ t \in Seq(Segment) /\ Disjoint(t)
      /\ DOMAIN t = 1 .. n + 1
      /\ \A i \in 1 .. n : t[i] = s[i]
      /\ t[n + 1] = e
    BY <1>4, <1>5, <1>6, AppendDisjoint
<1>8. /\ segments' = [segments EXCEPT ![f] = t]
      /\ generation' = [generation EXCEPT ![f] = generation[f] + 1]
      /\ snapshot' = [snapshot EXCEPT ![f] = Max({revision[f][p] : p \in window})]
    BY DEF Flushes
<1>9. e.held = window
    OBVIOUS
<1> HIDE DEF e, s, n, t
<1>10. segments \in [Profiles -> Seq(Segment)]
    BY DEF SegmentInv
<1>11. segments' \in [Profiles -> Seq(Segment)] /\ segments'[f] = t
       /\ \A g \in Profiles : g # f => segments'[g] = segments[g]
    BY <1>7, <1>8, <1>10
<1>12. SegmentInv'
    BY <1>7, <1>11 DEF SegmentInv, Disjoint
<1>13. generation' \in [Profiles -> Nat]
    BY <1>8 DEF DataInv
<1>14. Max({revision[f][p] : p \in window}) \in Nat
  <2>1. revision[f] \in [Parents -> Nat]
    BY DEF DataInv
  <2>2. IsFiniteSet({revision[f][p] : p \in window}) /\ {revision[f][p] : p \in window} \in SUBSET Nat
    BY <1>2, <2>1, RevisionsFinite
  <2>3. {revision[f][p] : p \in window} # {}
    BY <1>2
  <2>4. Max({revision[f][p] : p \in window}) \in {revision[f][p] : p \in window}
    BY <2>2, <2>3, MaxFacts
  <2> QED
    BY <2>2, <2>4
<1>15. snapshot' \in [Profiles -> Nat]
    BY <1>8, <1>14 DEF DataInv
<1>16. ASSUME NEW p PROVE p \in Held(f)' <=> p \in Held(f) \/ p \in window
  <2>1. p \in Held(f)' <=> \E i \in 1 .. n + 1 : p \in t[i].held
    BY <1>7, <1>11 DEF Held
  <2>2. p \in Held(f) <=> \E i \in 1 .. n : p \in s[i].held
    BY <1>4, HeldFacts DEF s
  <2>3. \A i \in 1 .. n + 1 : i \in 1 .. n \/ i = n + 1
    BY <1>4
  <2>4. n + 1 \in 1 .. n + 1 /\ \A i \in 1 .. n : i \in 1 .. n + 1
    BY <1>4
  <2> QED
    BY <1>7, <1>9, <2>1, <2>2, <2>3, <2>4
<1> QED
    BY <1>1, <1>11, <1>12, <1>13, <1>15, <1>16

\* The vectors of a batch.
LEMMA PutFacts ==
    ASSUME DataInv, NEW f \in Profiles, NEW batch \in SUBSET Candidates(f),
           snapshot' \in [Profiles -> Nat], PutReady(f, batch) \/ PutFailed(f, batch)
    PROVE  /\ embedding' \in [Profiles -> [Parents -> {"none", "due", "ready", "cooling"}]]
           /\ revision' \in [Profiles -> [Parents -> Nat]]
           /\ \A g \in Profiles, p \in Parents : revision'[g][p] > 0 <=> embedding'[g][p] = "ready"
           /\ \A g \in Profiles, p \in Parents :
                (g # f \/ p \notin batch) => embedding'[g][p] = embedding[g][p]
           /\ PutFailed(f, batch) => \A p \in batch : embedding'[f][p] = "cooling"
           /\ PutReady(f, batch) => \A p \in batch : embedding'[f][p] = "ready"
<1>1. batch \in SUBSET Parents /\ \A p \in batch : embedding[f][p] = "due"
    BY DEF Candidates
<1>2. /\ embedding \in [Profiles -> [Parents -> {"none", "due", "ready", "cooling"}]]
      /\ revision \in [Profiles -> [Parents -> Nat]]
      /\ \A g \in Profiles, p \in Parents : revision[g][p] > 0 <=> embedding[g][p] = "ready"
    BY DEF DataInv
<1>3. ASSUME NEW status \in {"ready", "cooling"}, embedding' = Marked(f, batch, status)
      PROVE  /\ embedding' \in [Profiles -> [Parents -> {"none", "due", "ready", "cooling"}]]
             /\ \A g \in Profiles, p \in Parents :
                  (g # f \/ p \notin batch) => embedding'[g][p] = embedding[g][p]
             /\ \A p \in batch : embedding'[f][p] = status
  <2> DEFINE m == [p \in Parents |-> IF p \in batch THEN status ELSE embedding[f][p]]
  <2>1. embedding' = [embedding EXCEPT ![f] = m]
    BY <1>3 DEF Marked
  <2>2. m \in [Parents -> {"none", "due", "ready", "cooling"}]
    BY <1>2
  <2> QED
    BY <1>1, <1>2, <2>1, <2>2
<1>4. CASE PutReady(f, batch)
  <2> DEFINE latest == Max({snapshot'[f]} \cup Range(revision[f]))
             v == [p \in Parents |-> IF p \in batch THEN latest + 1 ELSE revision[f][p]]
  <2>1. embedding' = Marked(f, batch, "ready") /\ revision' = [revision EXCEPT ![f] = v]
    BY <1>4 DEF PutReady
  <2>2. latest \in Nat
    <3> DEFINE T == {revision[f][p] : p \in Parents}
    <3>1. revision[f] \in [Parents -> Nat] /\ snapshot'[f] \in Nat
      BY <1>2
    <3>2. Range(revision[f]) = T
      BY <3>1 DEF Range
    <3>3. IsFiniteSet(T) /\ T \in SUBSET Nat
      BY <3>1, RevisionsFinite
    <3> HIDE DEF T
    <3>4. IsFiniteSet(T \cup {snapshot'[f]})
      BY <3>3, FS_AddElement
    <3>5. {snapshot'[f]} \cup T = T \cup {snapshot'[f]} /\ {snapshot'[f]} \cup T # {}
          /\ {snapshot'[f]} \cup T \in SUBSET Nat
      BY <3>1, <3>3
    <3>6. Max({snapshot'[f]} \cup T) \in {snapshot'[f]} \cup T
      BY <3>4, <3>5, MaxFacts
    <3> QED
      BY <3>2, <3>5, <3>6
  <2> HIDE DEF latest
  <2>3. v \in [Parents -> Nat] /\ \A p \in Parents : v[p] = IF p \in batch THEN latest + 1 ELSE revision[f][p]
    BY <1>2, <2>2
  <2> HIDE DEF v
  <2>4. revision' \in [Profiles -> [Parents -> Nat]]
    BY <1>2, <2>1, <2>3
  <2>5. ASSUME NEW g \in Profiles, NEW p \in Parents
        PROVE  revision'[g][p] = IF g = f /\ p \in batch THEN latest + 1 ELSE revision[g][p]
    BY <1>2, <2>1, <2>3
  <2>6. latest + 1 > 0
    BY <2>2
  <2>7. \A g \in Profiles, p \in Parents : revision'[g][p] > 0 <=> embedding'[g][p] = "ready"
    BY <1>2, <1>3, <2>1, <2>5, <2>6
  <2>8. ~PutFailed(f, batch) \/ batch = {}
    <3> SUFFICES ASSUME PutFailed(f, batch), NEW p \in batch PROVE FALSE
      OBVIOUS
    <3>1. embedding' = Marked(f, batch, "cooling")
      BY DEF PutFailed
    <3>2. embedding'[f][p] = "cooling" /\ embedding'[f][p] = "ready"
      BY <1>3, <2>1, <3>1
    <3> QED
      BY <3>2
  <2> QED
    BY <1>3, <2>1, <2>4, <2>7, <2>8
<1>5. CASE PutFailed(f, batch)
  <2>1. embedding' = Marked(f, batch, "cooling") /\ revision' = revision
    BY <1>5 DEF PutFailed
  <2>2. /\ embedding' \in [Profiles -> [Parents -> {"none", "due", "ready", "cooling"}]]
        /\ \A g \in Profiles, p \in Parents :
             (g # f \/ p \notin batch) => embedding'[g][p] = embedding[g][p]
        /\ \A p \in batch : embedding'[f][p] = "cooling"
    BY <1>3, <2>1
  <2>3. \A g \in Profiles, p \in Parents : revision'[g][p] > 0 <=> embedding'[g][p] = "ready"
    BY <1>1, <1>2, <2>1, <2>2
  <2>4. ~PutReady(f, batch) \/ batch = {}
    <3> SUFFICES ASSUME PutReady(f, batch), NEW p \in batch PROVE FALSE
      OBVIOUS
    <3>1. embedding' = Marked(f, batch, "ready")
      BY DEF PutReady
    <3>2. embedding'[f][p] = "cooling" /\ embedding'[f][p] = "ready"
      BY <1>3, <2>2, <3>1
    <3> QED
      BY <3>2
  <2> QED
    BY <1>2, <2>1, <2>2, <2>3, <2>4
<1> QED
    BY <1>4, <1>5

-----------------------------------------------------------------------------
(* The stages. *)

\* The stage ended with an outcome that may be recorded.
StageEnds(r) ==
    /\ \E o \in Outcomes :
         /\ Ends(r, o)
         /\ o.successor <= workRevision
         /\ runner[r].fresh => Honest(r, o)
    /\ used' \in 0 .. MaxDisturbances

LEMMA DisturbedType ==
    ASSUME IInv, Disturbed
    PROVE  used' \in 0 .. MaxDisturbances
BY RefreshAssumption DEF IInv, WorldInv, Disturbed

\* A run past its projection is clean up to the watermark of its fresh copy.
LEMMA FreshIsClean ==
    ASSUME IInv, NEW r \in Runners, runner[r].fresh, runner[r].stage # "projection"
    PROVE  Clean(runner[r].watermark)
<1>1. /\ runner[r].attached /\ runner[r].stage = run[runner[r].profile].stage
      /\ run[runner[r].profile] # None /\ run[runner[r].profile].watermark = runner[r].watermark
      /\ runner[r].pc # "idle"
    BY DEF IInv, LedgerInv
<1>2. runner[r].profile \in Profiles
    BY <1>1 DEF IInv, CopyInv
<1> QED
    BY <1>1, <1>2 DEF IInv, RowInv

LEMMA ZeroSuccessor == 0 \in 0 .. MaxRevision
<1>1. MaxRevision \in Nat
    BY RefreshAssumption
<1> QED
    BY <1>1

LEMMA OutcomeFacts ==
    ASSUME NEW next \in Stages \cup {None}, NEW gen \in Nat
    PROVE  LET o == Outcome(next, gen)
               o2 == [o EXCEPT !.failed = TRUE]
           IN  /\ o \in Outcomes /\ o.next = next /\ o.gen = gen /\ ~o.complete /\ o.successor = 0
               /\ o2 \in Outcomes /\ o2.next = next /\ o2.gen = gen /\ ~o2.complete /\ o2.successor = 0
BY ZeroSuccessor DEF Outcome, NoOutcome, Outcomes

LEMMA NoOutcomeFacts ==
    LET o == NoOutcome
        o2 == [o EXCEPT !.failed = TRUE]
    IN  /\ o \in Outcomes /\ o.next = None /\ ~o.complete /\ o.successor = 0
        /\ o2 \in Outcomes /\ o2.next = None /\ ~o2.complete /\ o2.successor = 0
BY ZeroSuccessor DEF NoOutcome, Outcomes

\* The types of a copy.
LEMMA CopyFacts ==
    ASSUME IInv, NEW r \in Runners
    PROVE  /\ runner[r] \in Copies /\ runner[r].watermark \in 0 .. MaxRevision
           /\ runner[r].gen \in Nat /\ runner[r].out \in Outcomes
           /\ runner[r].watermark <= workRevision /\ runner[r].watermark \in Nat
           /\ workRevision \in Nat /\ workRevision \in 0 .. MaxRevision
           /\ (runner[r].pc # "idle" => runner[r].profile \in Profiles)
           /\ (runner[r].pc \notin {"idle", "start"} => runner[r].stage \in Stages)
<1>1. runner[r] \in Copies
    BY DEF IInv, CopyInv
<1>2. workRevision \in 0 .. MaxRevision /\ MaxRevision \in Nat
    BY RefreshAssumption DEF IInv, DataInv
<1>3. runner[r].watermark \in 0 .. MaxRevision /\ runner[r].gen \in Nat /\ runner[r].out \in Outcomes
    BY <1>1 DEF Copies
<1>4. runner[r].watermark \in Nat /\ workRevision \in Nat
    BY <1>2, <1>3
<1> QED
    BY <1>1, <1>2, <1>3, <1>4 DEF IInv, CopyInv

\* A failed outcome claims no more than that the projection is behind it.
LEMMA FailedEnds ==
    ASSUME IInv, NEW r \in Runners, runner[r].pc = "stage", NEW next \in Stages, NEW gen \in Nat,
           \/ next = "projection"
           \/ runner[r].stage # "projection"
           \/ Clean(runner[r].watermark),
           Ends(r, [Outcome(next, gen) EXCEPT !.failed = TRUE]),
           used' \in 0 .. MaxDisturbances
    PROVE  StageEnds(r)
<1> DEFINE o == [Outcome(next, gen) EXCEPT !.failed = TRUE]
<1>0. next \in Stages \cup {None}
    OBVIOUS
<1>1. workRevision \in Nat
    BY CopyFacts
<1>2. o \in Outcomes /\ o.next = next /\ ~o.complete /\ o.successor = 0
    BY <1>0, OutcomeFacts
<1> HIDE DEF o
<1>3. runner[r].fresh => Honest(r, o)
    BY <1>2, FreshIsClean DEF Honest
<1>4. Ends(r, o)
    BY DEF o
<1> QED
    BY <1>1, <1>2, <1>3, <1>4 DEF StageEnds

\* An outcome that names the stage again claims nothing new.
LEMMA AgainEnds ==
    ASSUME IInv, NEW r \in Runners, runner[r].pc = "stage", NEW gen \in Nat,
           Ends(r, [Outcome(runner[r].stage, gen) EXCEPT !.failed = TRUE]),
           used' \in 0 .. MaxDisturbances
    PROVE  StageEnds(r)
<1>1. runner[r].stage \in Stages
    BY CopyFacts
<1> QED
    BY <1>1, FailedEnds

\* A stage that breaks off with an error.
LEMMA BreakEnds ==
    ASSUME IInv, NEW r \in Runners, runner[r].pc = "stage", NEW next \in Stages, NEW gen \in Nat,
           \/ next = "projection"
           \/ runner[r].stage # "projection"
           \/ Clean(runner[r].watermark),
           Breaks(r, next, gen)
    PROVE  StageEnds(r)
<1>1. used' \in 0 .. MaxDisturbances
    BY DisturbedType DEF Breaks, IInv, WorldInv
<1>2. Ends(r, [Outcome(next, gen) EXCEPT !.failed = TRUE])
    BY DEF Breaks
<1> QED
    BY <1>1, <1>2, FailedEnds

\* A stage that is done, or that breaks off after its work.
LEMMA DoneEnds ==
    ASSUME IInv, NEW r \in Runners, runner[r].pc = "stage", NEW o \in Outcomes,
           o.next \in Stages,
           \/ o.next = "projection"
           \/ runner[r].stage # "projection"
           \/ Clean(runner[r].watermark),
           o.successor <= workRevision, runner[r].fresh => Honest(r, o), Done(r, o)
    PROVE  StageEnds(r)
<1>1. /\ o.gen \in Nat /\ used \in 0 .. MaxDisturbances
      /\ runner[r].gen \in Nat /\ runner[r].stage \in Stages
    BY CopyFacts DEF Outcomes, IInv, WorldInv
<1>2. CASE Ends(r, o) /\ UNCHANGED used
    BY <1>1, <1>2 DEF StageEnds
<1>3. ASSUME NEW next \in {runner[r].stage, o.next}, NEW gen \in {runner[r].gen, o.gen},
             Breaks(r, next, gen)
      PROVE  StageEnds(r)
  <2>1. /\ next \in Stages /\ gen \in Nat
        /\ \/ next = "projection"
           \/ runner[r].stage # "projection"
           \/ Clean(runner[r].watermark)
    BY <1>1
  <2> QED
    BY <1>3, <2>1, BreakEnds
<1> QED
    BY <1>2, <1>3 DEF Done

\* A stage after the projection that does not complete the run.
LEMMA PlainDone ==
    ASSUME IInv, NEW r \in Runners, runner[r].pc = "stage", NEW next \in Stages, NEW gen \in Nat,
           \/ next = "projection"
           \/ runner[r].stage # "projection"
           \/ Clean(runner[r].watermark),
           Done(r, Outcome(next, gen))
    PROVE  StageEnds(r)
<1> DEFINE o == Outcome(next, gen)
<1>0. next \in Stages \cup {None}
    OBVIOUS
<1>1. o \in Outcomes /\ o.next = next /\ ~o.complete /\ o.successor = 0
    BY <1>0, OutcomeFacts
<1> HIDE DEF o
<1>2. runner[r].fresh => Honest(r, o)
    BY <1>1, FreshIsClean DEF Honest
<1>3. o.successor <= workRevision
    BY <1>1, CopyFacts
<1>4. Done(r, o)
    BY DEF o
<1>5. o.next \in Stages /\ (o.next = "projection" \/ runner[r].stage # "projection" \/ Clean(runner[r].watermark))
    BY <1>1
<1> QED
    BY <1>1, <1>2, <1>3, <1>4, <1>5, DoneEnds

LEMMA FailsEnds ==
    ASSUME IInv, NEW r \in Runners, runner[r].pc = "stage", NEW gen \in Nat, FailsAt(r, gen)
    PROVE  StageEnds(r)
<1>1. used' \in 0 .. MaxDisturbances
    BY DEF FailsAt, IInv, WorldInv
<1> QED
    BY <1>1, AgainEnds DEF FailsAt

LEMMA ProjectionStage ==
    ASSUME IInv, NEW r \in Runners, ExecuteProjection(r)
    PROVE  runner[r].pc = "stage" /\ DataStep(r) /\ StageEnds(r)
<1> DEFINE page == {p \in Parents : dirty[p] \in 1 .. runner[r].watermark}
           q == CHOOSE q \in page : \A o \in page : dirty[q] <= dirty[o]
<1>1. runner[r].pc = "stage" /\ UNCHANGED <<run, world, lost>>
    BY DEF ExecuteProjection, At
<1>2. runner[r].gen \in Nat
    BY CopyFacts
<1>3. "embedding" \in Stages /\ "projection" \in Stages
    BY DEF Stages
<1>4. CASE page = {}
  <2>1. Done(r, Outcome("embedding", runner[r].gen)) /\ UNCHANGED retrieval
    BY <1>4 DEF ExecuteProjection
  <2>2. Clean(runner[r].watermark)
    BY <1>4 DEF Clean
  <2>3. DataStep(r)
    BY <1>1, <2>1, NoDataStep
  <2> QED
    BY <1>1, <1>2, <1>3, <2>1, <2>2, <2>3, PlainDone
<1>5. CASE page # {}
  <2>1. ApplyProjection(q) /\ Done(r, Outcome("projection", runner[r].gen))
    BY <1>5 DEF ExecuteProjection
  <2>2. q \in page
    <3> DEFINE T == {dirty[p] : p \in page}
    <3>0. runner[r].watermark \in Nat
      BY CopyFacts
    <3>1. T \in SUBSET Nat /\ T # {}
      BY <1>5, <3>0
    <3>2. PICK x \in T : \A y \in T : x <= y
      BY <3>1, LeastNat
    <3>3. \E p \in page : \A o \in page : dirty[p] <= dirty[o]
      BY <3>2
    <3> QED
      BY <3>3
  <2> HIDE DEF q
  <2>3. q \in Parents /\ dirty[q] \in 1 .. runner[r].watermark
    BY <2>2
  <2>4. DataStep(r)
    BY <1>1, <2>1, <2>3, ProjectionData
  <2> QED
    BY <1>1, <1>2, <1>3, <2>1, <2>4, PlainDone
<1> QED
    BY <1>4, <1>5

\* A batch for embedding: what is embedded or cools down was due and clean.
LEMMA BatchStage ==
    ASSUME IInv, NEW r \in Runners, At(r, "embedding"), NEW gen \in Nat,
           NEW batch \in SUBSET Candidates(runner[r].profile),
           SegmentInv', generation' \in [Profiles -> Nat], snapshot' \in [Profiles -> Nat],
           EmbedBatch(r, runner[r].profile, batch, gen),
           UNCHANGED <<workRevision, dirty>>
    PROVE  DataStep(r) /\ StageEnds(r)
<1> DEFINE f == runner[r].profile
<1>1. runner[r].pc = "stage" /\ runner[r].stage = "embedding"
    BY DEF At
<1>2. f \in Profiles /\ DataInv
    BY <1>1, CopyFacts DEF IInv
<1>3. \A p \in batch : dirty[p] = 0 /\ embedding[f][p] = "due"
    BY DEF Candidates
<1> HIDE DEF f
<1>4. PutReady(f, batch) \/ PutFailed(f, batch) \/ UNCHANGED <<embedding, revision>>
    BY DEF EmbedBatch, f
<1>5. /\ embedding' \in [Profiles -> [Parents -> {"none", "due", "ready", "cooling"}]]
      /\ revision' \in [Profiles -> [Parents -> Nat]]
      /\ \A g \in Profiles, p \in Parents : revision'[g][p] > 0 <=> embedding'[g][p] = "ready"
      /\ \A g \in Profiles, p \in Parents :
           (g # f \/ p \notin batch) => embedding'[g][p] = embedding[g][p]
  <2>1. batch \in SUBSET Candidates(f)
    BY DEF f
  <2>2. CASE PutReady(f, batch) \/ PutFailed(f, batch)
    BY <1>2, <2>1, <2>2, PutFacts
  <2>3. CASE UNCHANGED <<embedding, revision>>
    BY <1>2, <2>3 DEF DataInv
  <2> QED
    BY <1>4, <2>2, <2>3
<1>6. DataInv'
    BY <1>2, <1>5 DEF DataInv
<1>7. DataStep(r)
    BY <1>3, <1>5, <1>6 DEF DataStep
<1>8. StageEnds(r)
  <2>1. CASE Done(r, Outcome(IF Candidates(f) = batch THEN "flush" ELSE "embedding", gen))
    <3>1. (IF Candidates(f) = batch THEN "flush" ELSE "embedding") \in Stages
      BY DEF Stages
    <3> QED
      BY <1>1, <2>1, <3>1, PlainDone
  <2>2. CASE FailsAt(r, gen)
    BY <1>1, <2>2, FailsEnds
  <2>3. CASE Breaks(r, "embedding", gen)
    <3>1. "embedding" \in Stages
      BY DEF Stages
    <3> QED
      BY <1>1, <2>3, <3>1, BreakEnds
  <2> QED
    BY <2>1, <2>2, <2>3 DEF EmbedBatch, f
<1> QED
    BY <1>7, <1>8

LEMMA EmbeddingStage ==
    ASSUME IInv, NEW r \in Runners, ExecuteEmbedding(r)
    PROVE  runner[r].pc = "stage" /\ DataStep(r) /\ StageEnds(r)
<1> DEFINE f == runner[r].profile
           size == Min({Cardinality(Candidates(f)), EmbeddingBatch})
<1>1. At(r, "embedding") /\ runner[r].pc = "stage" /\ UNCHANGED <<workRevision, dirty, run, world, lost>>
    BY DEF ExecuteEmbedding, At
<1>2. f \in Profiles /\ DataInv /\ SegmentInv /\ runner[r].gen \in Nat
    BY <1>1, CopyFacts DEF IInv
<1>3. PICK batch \in kSubset(size, Candidates(f)) :
         IF batch = {} \/ ~MustFlushFirst(f, batch)
         THEN UNCHANGED index /\ EmbedBatch(r, f, batch, runner[r].gen)
         ELSE \/ \E window \in FlushWindow(f) :
                     Flushes(f, window) /\ EmbedBatch(r, f, batch, generation'[f])
              \/ /\ FlushWindow(f) = {}
                 /\ FailsAt(r, runner[r].gen) /\ UNCHANGED <<embedding, revision, index>>
    BY DEF ExecuteEmbedding
<1>4. batch \in SUBSET Candidates(f)
    BY DEF kSubset
<1> HIDE DEF size
<1>5. CASE UNCHANGED index /\ EmbedBatch(r, f, batch, runner[r].gen)
  <2>1. SegmentInv' /\ generation' \in [Profiles -> Nat] /\ snapshot' \in [Profiles -> Nat]
    BY <1>2, <1>5 DEF index, SegmentInv, DataInv
  <2> QED
    BY <1>1, <1>2, <1>4, <1>5, <2>1, BatchStage
<1>6. ASSUME NEW window \in FlushWindow(f), Flushes(f, window),
             EmbedBatch(r, f, batch, generation'[f])
      PROVE  DataStep(r) /\ StageEnds(r)
  <2>1. SegmentInv' /\ generation' \in [Profiles -> Nat] /\ snapshot' \in [Profiles -> Nat]
    BY <1>2, <1>6, FlushFacts
  <2>2. generation'[f] \in Nat
    BY <1>2, <2>1
  <2> QED
    BY <1>1, <1>4, <1>6, <2>1, <2>2, BatchStage
<1>7. CASE FailsAt(r, runner[r].gen) /\ UNCHANGED <<embedding, revision, index>>
  <2>1. StageEnds(r)
    BY <1>1, <1>2, <1>7, FailsEnds
  <2>2. DataStep(r)
    BY <1>1, <1>7, NoDataStep DEF retrieval
  <2> QED
    BY <1>1, <2>1, <2>2
<1> QED
    BY <1>1, <1>3, <1>5, <1>6, <1>7

\* A new generation leaves parents, embeddings and revisions alone.
LEMMA IndexData ==
    ASSUME IInv, NEW r \in Runners, SegmentInv', generation' \in [Profiles -> Nat],
           snapshot' \in [Profiles -> Nat],
           UNCHANGED <<workRevision, dirty, embedding, revision>>
    PROVE  DataStep(r)
<1>1. DataInv'
    BY DEF IInv, DataInv
<1> QED
    BY <1>1 DEF DataStep

LEMMA FlushStage ==
    ASSUME IInv, NEW r \in Runners, ExecuteFlush(r)
    PROVE  runner[r].pc = "stage" /\ DataStep(r) /\ StageEnds(r)
<1> DEFINE f == runner[r].profile
<1>1. /\ runner[r].pc = "stage" /\ runner[r].stage = "flush"
      /\ UNCHANGED <<workRevision, dirty, embedding, revision, run, world, lost>>
    BY DEF ExecuteFlush, At
<1>2. f \in Profiles /\ DataInv /\ SegmentInv /\ runner[r].gen \in Nat
    BY <1>1, CopyFacts DEF IInv
<1>3. "compaction" \in Stages /\ "flush" \in Stages
    BY DEF Stages
<1>4. UNCHANGED index => DataStep(r)
    BY <1>1, NoDataStep DEF retrieval
<1>5. CASE Done(r, Outcome("compaction", runner[r].gen)) /\ UNCHANGED index
    BY <1>1, <1>2, <1>3, <1>4, <1>5, PlainDone
<1>6. ASSUME NEW window \in FlushWindow(f), Flushes(f, window),
             Done(r, Outcome("flush", generation'[f]))
      PROVE  DataStep(r) /\ StageEnds(r)
  <2>1. SegmentInv' /\ generation' \in [Profiles -> Nat] /\ snapshot' \in [Profiles -> Nat]
    BY <1>2, <1>6, FlushFacts
  <2>2. generation'[f] \in Nat
    BY <1>2, <2>1
  <2>3. StageEnds(r)
    BY <1>1, <1>3, <1>6, <2>2, PlainDone
  <2> QED
    BY <1>1, <2>1, <2>3, IndexData
<1>7. CASE FailsAt(r, runner[r].gen) /\ UNCHANGED index
    BY <1>1, <1>2, <1>4, <1>7, FailsEnds
<1> QED
    BY <1>1, <1>5, <1>6, <1>7 DEF ExecuteFlush

LEMMA CompactionStage ==
    ASSUME IInv, NEW r \in Runners, ExecuteCompaction(r)
    PROVE  runner[r].pc = "stage" /\ DataStep(r) /\ StageEnds(r)
<1> DEFINE f == runner[r].profile
<1>1. /\ runner[r].pc = "stage" /\ runner[r].stage = "compaction"
      /\ UNCHANGED <<workRevision, dirty, embedding, revision, run, world, lost>>
    BY DEF ExecuteCompaction, At
<1>2. f \in Profiles /\ DataInv /\ SegmentInv /\ runner[r].gen \in Nat
    BY <1>1, CopyFacts DEF IInv
<1>3. "compaction" \in Stages /\ "verify" \in Stages
    BY DEF Stages
<1>4. UNCHANGED index => DataStep(r)
    BY <1>1, NoDataStep DEF retrieval
<1>5. CASE FailsAt(r, runner[r].gen) /\ UNCHANGED index
    BY <1>1, <1>2, <1>4, <1>5, FailsEnds
<1>6. CASE Done(r, Outcome("verify", runner[r].gen)) /\ UNCHANGED index
    BY <1>1, <1>2, <1>3, <1>4, <1>6, PlainDone
<1>7. CASE /\ CompactionPlan(f) # {}
           /\ segments' = [segments EXCEPT ![f] = Compacted(f)]
           /\ generation' = [generation EXCEPT ![f] = @ + 1]
           /\ Done(r, Outcome("compaction", generation'[f]))
           /\ UNCHANGED snapshot
  <2>1. Compacted(f) \in Seq(Segment) /\ Disjoint(Compacted(f))
    BY <1>2, <1>7, CompactedFacts
  <2>2. SegmentInv'
    BY <1>2, <1>7, <2>1 DEF SegmentInv, Disjoint
  <2>3. generation' \in [Profiles -> Nat] /\ snapshot' \in [Profiles -> Nat]
    BY <1>2, <1>7 DEF DataInv
  <2>4. generation'[f] \in Nat
    BY <1>2, <2>3
  <2>5. StageEnds(r)
    BY <1>1, <1>3, <1>7, <2>4, PlainDone
  <2> QED
    BY <1>1, <2>2, <2>3, <2>5, IndexData
<1> QED
    BY <1>5, <1>6, <1>7 DEF ExecuteCompaction

LEMMA VerifyStage ==
    ASSUME IInv, NEW r \in Runners, ExecuteVerify(r)
    PROVE  runner[r].pc = "stage" /\ DataStep(r) /\ StageEnds(r)
<1>1. /\ runner[r].pc = "stage" /\ runner[r].stage = "verify"
      /\ UNCHANGED <<retrieval, run, world, lost>>
    BY DEF ExecuteVerify, At
<1>2. generation[runner[r].profile] \in Nat /\ "readiness" \in Stages
    BY <1>1, CopyFacts DEF IInv, DataInv, Stages
<1>3. Done(r, Outcome("readiness", generation[runner[r].profile]))
    BY DEF ExecuteVerify
<1> QED
    BY <1>1, <1>2, <1>3, PlainDone, NoDataStep

LEMMA ReadinessStage ==
    ASSUME IInv, NEW r \in Runners, ExecuteReadiness(r)
    PROVE  runner[r].pc = "stage" /\ DataStep(r) /\ StageEnds(r)
<1> DEFINE f == runner[r].profile
           here == Outcome("readiness", runner[r].gen)
           next == [here EXCEPT !.complete = TRUE, !.successor = workRevision]
           last == [here EXCEPT !.complete = TRUE]
<1>1. /\ runner[r].pc = "stage" /\ runner[r].stage = "readiness"
      /\ UNCHANGED <<retrieval, run, world, lost>>
    BY DEF ExecuteReadiness, At
<1>2. runner[r].gen \in Nat /\ workRevision \in 0 .. MaxRevision /\ workRevision \in Nat
      /\ runner[r].watermark \in Nat /\ f \in Profiles
    BY <1>1, CopyFacts
<1>3. DataStep(r)
    BY <1>1, NoDataStep
<1>4. "readiness" \in Stages /\ "compaction" \in Stages
    BY DEF Stages
<1>5. CASE Done(r, Outcome("compaction", 0))
    BY <1>1, <1>3, <1>4, <1>5, PlainDone
<1>6. CASE workRevision > runner[r].watermark /\ Done(r, next)
  <2>1. /\ next \in Outcomes /\ next.next = "readiness" /\ next.complete /\ ~next.failed
        /\ next.successor = workRevision
    BY <1>2, <1>4 DEF Outcomes, Outcome, NoOutcome
  <2> HIDE DEF next
  <2>2. runner[r].fresh => Honest(r, next)
    BY <1>1, <1>2, <1>6, <2>1, FreshIsClean DEF Honest
  <2>3. next.successor <= workRevision
    BY <1>2, <2>1
  <2> QED
    BY <1>1, <1>3, <1>4, <1>6, <2>1, <2>2, <2>3, DoneEnds
<1>7. CASE Ready(f) /\ Done(r, last)
  <2>1. /\ last \in Outcomes /\ last.next = "readiness" /\ last.complete /\ ~last.failed
        /\ last.successor = 0
    BY <1>2, <1>4, ZeroSuccessor DEF Outcomes, Outcome, NoOutcome
  <2> HIDE DEF last
  <2>2. WorkDone(f)
    BY <1>7, Zenon DEF Ready
  <2>3. Settled(f)
    <3>1. \A p \in Parents : dirty[p] = 0 /\ embedding[f][p] \in {"none", "ready"}
      BY <2>2 DEF WorkDone
    <3>2. \A n \in Nat : 0 \notin 1 .. n
      OBVIOUS
    <3>3. \A s \in Runners : runner[s].watermark \in Nat
      BY CopyFacts
    <3> QED
      BY <3>1, <3>2, <3>3 DEF Settled
  <2>4. runner[r].fresh => Honest(r, last)
    BY <1>1, <2>1, <2>3, FreshIsClean DEF Honest
  <2>5. last.successor <= workRevision
    BY <1>2, <2>1
  <2> QED
    BY <1>1, <1>3, <1>4, <1>7, <2>1, <2>4, <2>5, DoneEnds
<1>8. CASE Ends(r, [here EXCEPT !.failed = TRUE]) /\ UNCHANGED used
  <2>1. used' \in 0 .. MaxDisturbances
    BY <1>8 DEF IInv, WorldInv
  <2> QED
    BY <1>1, <1>2, <1>3, <1>8, <2>1, AgainEnds
<1> QED
    BY <1>5, <1>6, <1>7, <1>8 DEF ExecuteReadiness

LEMMA ExecuteStage ==
    ASSUME IInv, NEW r \in Runners, Execute(r)
    PROVE  /\ runner[r].pc = "stage" /\ DataStep(r) /\ StageEnds(r)
           /\ UNCHANGED <<run, world, lost>>
<1>1. runner[r].pc = "stage" /\ DataStep(r) /\ StageEnds(r)
    BY ProjectionStage, EmbeddingStage, FlushStage, CompactionStage, VerifyStage, ReadinessStage
    DEF Execute
<1>2. UNCHANGED <<run, world, lost>>
    BY DEF Execute, ExecuteProjection, ExecuteEmbedding, ExecuteFlush, ExecuteCompaction,
           ExecuteVerify, ExecuteReadiness
<1> QED
    BY <1>1, <1>2

-----------------------------------------------------------------------------
(* Steps of the runners. *)

\* Honest(s, o) after the step.
HonestAfter(s, o) ==
    /\ o.next \notin {None, "projection"} =>
         \A p \in Parents : dirty'[p] \notin 1 .. runner'[s].watermark
    /\ o.complete =>
         /\ o.next = "readiness" /\ ~o.failed
         /\ o.successor = 0 =>
              \A p \in Parents :
                 /\ dirty'[p] = 0 => embedding'[runner'[s].profile][p] \in {"none", "ready"}
                 /\ \A t \in Runners : runner'[t].pc \notin {"idle", "start"} =>
                       dirty'[p] \notin 1 .. runner'[t].watermark
         /\ o.successor # 0 => o.successor > runner'[s].watermark

LEMMA AfterIsHonest ==
    (\A s \in Runners : runner'[s].fresh =>
        /\ runner'[s].pc = "record" => HonestAfter(s, runner'[s].out)
        /\ runner'[s].pc = "complete" => runner'[s].out.complete /\ HonestAfter(s, runner'[s].out))
    => OutcomeInv'
BY DEF OutcomeInv, Honest, Settled, Clean, HonestAfter

\* An honest outcome stays honest while a stage works on the data.
LEMMA HonestStays ==
    ASSUME IInv, NEW r \in Runners, DataStep(r), runner[r].pc = "stage" \/ UNCHANGED retrieval,
           \A t \in Runners : runner'[t].pc \notin {"idle", "start"} =>
               runner[t].pc \notin {"idle", "start"} /\ runner'[t].watermark = runner[t].watermark,
           NEW s \in Runners, NEW o, Honest(s, o), runner[s].profile \in Profiles,
           runner'[s].profile = runner[s].profile, runner'[s].watermark = runner[s].watermark
    PROVE  HonestAfter(s, o)
<1>1. \A t \in Runners : runner[t].watermark \in Nat
    BY CopyFacts
<1>2. \A p \in Parents, n \in Nat : dirty[p] \notin 1 .. n => dirty'[p] \notin 1 .. n
  <2>1. \A n \in Nat : 0 \notin 1 .. n
    OBVIOUS
  <2> QED
    BY <2>1 DEF DataStep
<1>3. ASSUME Settled(runner[s].profile), NEW p \in Parents
      PROVE  /\ dirty'[p] = 0 => embedding'[runner'[s].profile][p] \in {"none", "ready"}
             /\ \A t \in Runners : runner'[t].pc \notin {"idle", "start"} =>
                       dirty'[p] \notin 1 .. runner'[t].watermark
  <2>1. /\ dirty[p] = 0 => embedding[runner[s].profile][p] \in {"none", "ready"}
        /\ \A t \in Runners : runner[t].pc \notin {"idle", "start"} =>
              dirty[p] \notin 1 .. runner[t].watermark
    BY <1>3 DEF Settled
  <2>2. \A t \in Runners : runner'[t].pc \notin {"idle", "start"} =>
              dirty'[p] \notin 1 .. runner'[t].watermark
    BY <1>1, <1>2, <2>1
  <2>3. CASE runner[r].pc = "stage"
    BY <2>1, <2>2, <2>3 DEF DataStep
  <2>4. CASE UNCHANGED retrieval
    BY <2>1, <2>2, <2>4 DEF retrieval
  <2> QED
    BY <2>3, <2>4
<1> QED
    BY <1>1, <1>2, <1>3 DEF Honest, HonestAfter, Clean

\* A step that leaves the ledger alone and changes no more of r's copy than its
\* place, its outcome and whether it is cancelled.
LEMMA CopyStep ==
    ASSUME IInv, NEW r \in Runners, NEW c \in Copies,
           runner' = [runner EXCEPT ![r] = c],
           DataStep(r), runner[r].pc = "stage" \/ UNCHANGED retrieval,
           WorldInv', run' = run, lost => lost',
           c.profile = runner[r].profile, c.watermark = runner[r].watermark,
           c.stage = runner[r].stage, c.attached = runner[r].attached, c.fresh = runner[r].fresh,
           runner[r].pc # "idle",
           c.pc = runner[r].pc \/ (/\ c.pc \notin {"idle", "start", "successor"}
                                   /\ runner[r].pc \notin {"idle", "start", "successor"}),
           c.out.successor <= workRevision,
           runner[r].fresh =>
             /\ c.pc = "record" => Honest(r, c.out)
             /\ c.pc = "complete" => c.out.complete /\ Honest(r, c.out)
    PROVE  IInv'
<1>1. /\ runner \in [Runners -> Copies] /\ runner'[r] = c /\ runner' \in [Runners -> Copies]
      /\ \A s \in Runners : s # r => runner'[s] = runner[s]
    BY DEF IInv, CopyInv
<1>2. \A s \in Runners :
        /\ runner'[s].profile = runner[s].profile /\ runner'[s].watermark = runner[s].watermark
        /\ runner'[s].stage = runner[s].stage /\ runner'[s].attached = runner[s].attached
        /\ runner'[s].fresh = runner[s].fresh
        /\ runner'[s].pc \in {"idle", "start", "successor"} => runner'[s].pc = runner[s].pc
        /\ runner'[s].pc # "idle" => runner[s].pc # "idle"
        /\ runner'[s].pc \notin {"idle", "start"} => runner[s].pc \notin {"idle", "start"}
    BY <1>1
<1>3. DataInv' /\ SegmentInv' /\ workRevision' = workRevision
    BY DEF DataStep
<1>4. CopyInv'
    BY <1>1, <1>2, <1>3 DEF IInv, CopyInv
<1>5. LedgerInv'
    BY <1>2 DEF IInv, LedgerInv
<1>6. RowInv'
  <2>1. \A p \in Parents, n \in Nat : dirty[p] \notin 1 .. n => dirty'[p] \notin 1 .. n
    <3>1. \A n \in Nat : 0 \notin 1 .. n
      OBVIOUS
    <3> QED
      BY <3>1 DEF DataStep
  <2>2. \A f \in Profiles : run[f] # None => run[f].watermark \in Nat
    BY RefreshAssumption DEF IInv, RowInv, Row
  <2> QED
    BY <1>3, <2>1, <2>2 DEF IInv, RowInv, Clean
<1>7. RunningHasARunner'
    BY <1>2 DEF IInv, RunningHasARunner
<1>8. OutcomeInv'
  <2> SUFFICES ASSUME NEW s \in Runners, runner'[s].fresh, runner'[s].pc \in {"record", "complete"}
               PROVE  /\ HonestAfter(s, runner'[s].out)
                      /\ runner'[s].pc = "complete" => runner'[s].out.complete
    BY AfterIsHonest
  <2>1. runner[s].fresh /\ runner[s].pc # "idle"
    BY <1>2
  <2>2. runner[s].profile \in Profiles
    BY <2>1, CopyFacts
  <2>3. Honest(s, runner'[s].out) /\ (runner'[s].pc = "complete" => runner'[s].out.complete)
    BY <1>1, <2>1 DEF IInv, OutcomeInv
  <2> QED
    BY <1>2, <2>2, <2>3, HonestStays
<1> QED
    BY <1>3, <1>4, <1>5, <1>6, <1>7, <1>8 DEF IInv

\* A runner that is not at work on a run, before the step or after it.
LEMMA LeaveStep ==
    ASSUME IInv, NEW r \in Runners, NEW c \in Copies, runner' = [runner EXCEPT ![r] = c],
           c.pc \in {"idle", "start"}, ~c.attached, ~c.fresh,
           c.watermark <= workRevision, c.out.successor <= workRevision,
           c.pc # "idle" => c.profile \in Profiles,
           UNCHANGED <<retrieval, run>>, WorldInv', lost => lost',
           runner[r].fresh => lost' \/ run[runner[r].profile].state # "running"
    PROVE  IInv'
<1>1. /\ runner \in [Runners -> Copies] /\ runner'[r] = c /\ runner' \in [Runners -> Copies]
      /\ \A s \in Runners : s # r => runner'[s] = runner[s]
    BY DEF IInv, CopyInv
<1>2. DataInv' /\ SegmentInv' /\ workRevision' = workRevision
    BY DEF IInv, DataInv, SegmentInv, retrieval, index
<1>3. CopyInv'
    BY <1>1, <1>2 DEF IInv, CopyInv
<1>4. LedgerInv'
    BY <1>1 DEF IInv, LedgerInv
<1>5. RowInv'
    BY DEF IInv, RowInv, Clean, retrieval
<1>6. RunningHasARunner'
    BY <1>1 DEF IInv, RunningHasARunner
<1>7. OutcomeInv'
  <2> SUFFICES ASSUME NEW s \in Runners, runner'[s].fresh, runner'[s].pc \in {"record", "complete"}
               PROVE  /\ HonestAfter(s, runner'[s].out)
                      /\ runner'[s].pc = "complete" => runner'[s].out.complete
    BY AfterIsHonest
  <2>1. s # r /\ runner'[s] = runner[s] /\ runner[s].fresh
    BY <1>1
  <2>2. Honest(s, runner'[s].out) /\ (runner'[s].pc = "complete" => runner'[s].out.complete)
    BY <2>1 DEF IInv, OutcomeInv
  <2>3. runner[s].profile \in Profiles
    BY <2>1, CopyFacts
  <2>4. DataStep(r)
    BY NoDataStep
  <2> QED
    BY <1>1, <2>1, <2>2, <2>3, <2>4, HonestStays
<1> QED
    BY <1>2, <1>3, <1>4, <1>5, <1>6, <1>7 DEF IInv

LEMMA IdleFacts ==
    /\ Idle \in Copies /\ Idle.pc = "idle" /\ Idle.watermark = 0 /\ Idle.out.successor = 0
    /\ ~Idle.fresh /\ ~Idle.attached /\ Idle.out = NoOutcome
<1>1. Idle.out = NoOutcome /\ NoOutcome.successor = 0
    BY DEF Idle, NoOutcome
<1> QED
    BY <1>1, ZeroSuccessor, NoOutcomeFacts DEF Idle, Copies

\* A runner that returns leaves a run marked running only if it was not its run
\* any more or if that is put on record.
LEMMA ReturnStep ==
    ASSUME IInv, NEW r \in Runners, Returns(r), UNCHANGED <<retrieval, run>>, WorldInv',
           lost => lost',
           runner[r].fresh => lost' \/ run[runner[r].profile].state # "running"
    PROVE  IInv'
<1>1. runner' = [runner EXCEPT ![r] = Idle]
    BY DEF Returns
<1>2. Idle.watermark <= workRevision /\ Idle.out.successor <= workRevision
    BY IdleFacts, CopyFacts
<1> QED
    BY <1>1, <1>2, IdleFacts, LeaveStep

-----------------------------------------------------------------------------
(* The world around the refresh. *)

LEMMA SourceWriteStep ==
    ASSUME IInv, NEW p \in Parents, SourceWrite(p)
    PROVE  IInv'
<1>1. /\ workRevision \in Nat /\ workRevision < MaxRevision /\ MaxRevision \in Nat
      /\ workRevision' = workRevision + 1 /\ dirty' = [dirty EXCEPT ![p] = workRevision + 1]
      /\ UNCHANGED <<embedding, revision, index, run, runner, world, used, lost>>
    BY RefreshAssumption DEF SourceWrite, IInv, DataInv
<1>2. /\ dirty' \in [Parents -> 0 .. MaxRevision] /\ workRevision' \in 0 .. MaxRevision
      /\ \A q \in Parents : dirty'[q] = IF q = p THEN workRevision + 1 ELSE dirty[q]
    BY <1>1 DEF IInv, DataInv
<1>3. DataInv' /\ SegmentInv' /\ WorldInv'
    BY <1>1, <1>2 DEF IInv, DataInv, SegmentInv, WorldInv, index, world
<1>4. \A n \in Nat : n <= workRevision =>
        /\ n <= workRevision'
        /\ \A q \in Parents : dirty[q] \notin 1 .. n => dirty'[q] \notin 1 .. n
    BY <1>1, <1>2
<1>5. \A q \in Parents : dirty'[q] = 0 => dirty[q] = 0
    BY <1>1, <1>2
<1>6. \A s \in Runners : /\ runner[s].watermark \in Nat /\ runner[s].watermark <= workRevision
                         /\ runner[s].out.successor \in Nat
    BY CopyFacts, RefreshAssumption DEF Outcomes
<1>7. \A f \in Profiles : run[f] # None => run[f].watermark \in Nat
    BY RefreshAssumption DEF IInv, RowInv, Row
<1>8. RowInv'
    BY <1>1, <1>4, <1>7 DEF IInv, RowInv, Clean
<1>9. CopyInv'
    BY <1>1, <1>4, <1>6 DEF IInv, CopyInv
<1>10. LedgerInv' /\ RunningHasARunner'
    BY <1>1 DEF IInv, LedgerInv, RunningHasARunner
<1>11. OutcomeInv'
  <2> SUFFICES ASSUME NEW s \in Runners, runner[s].fresh, runner[s].pc \in {"record", "complete"}
               PROVE  HonestAfter(s, runner[s].out)
    BY <1>1, AfterIsHonest DEF IInv, OutcomeInv
  <2>1. Honest(s, runner[s].out)
    BY DEF IInv, OutcomeInv
  <2> QED
    BY <1>1, <1>4, <1>5, <1>6, <2>1 DEF Honest, Settled, Clean, HonestAfter
<1> QED
    BY <1>3, <1>8, <1>9, <1>10, <1>11 DEF IInv

LEMMA CooldownStep ==
    ASSUME IInv, NEW f \in Profiles, NEW p \in Parents, CooldownEnds(f, p)
    PROVE  IInv'
<1>1. /\ embedding[f][p] = "cooling" /\ embedding' = [embedding EXCEPT ![f][p] = "due"]
      /\ UNCHANGED <<workRevision, dirty, revision, index, run, runner, world, used, lost>>
    BY DEF CooldownEnds
<1>2. /\ embedding' \in [Profiles -> [Parents -> {"none", "due", "ready", "cooling"}]]
      /\ \A g \in Profiles, q \in Parents :
           embedding'[g][q] = IF g = f /\ q = p THEN "due" ELSE embedding[g][q]
    BY <1>1 DEF IInv, DataInv
<1>a. \A g \in Profiles, q \in Parents : embedding'[g][q] = "ready" <=> embedding[g][q] = "ready"
    BY <1>1, <1>2
<1>b. \A g \in Profiles, q \in Parents : revision'[g][q] > 0 <=> embedding'[g][q] = "ready"
    BY <1>1, <1>a DEF IInv, DataInv
<1>c. DataInv'
    BY <1>1, <1>2, <1>b DEF IInv, DataInv, index
<1>3. DataInv' /\ SegmentInv' /\ WorldInv'
    BY <1>1, <1>c DEF IInv, SegmentInv, WorldInv, index, world
<1>4. RowInv' /\ CopyInv' /\ LedgerInv' /\ RunningHasARunner'
    BY <1>1 DEF IInv, RowInv, CopyInv, LedgerInv, RunningHasARunner, Clean
<1>5. OutcomeInv'
  <2> SUFFICES ASSUME NEW s \in Runners, runner[s].fresh, runner[s].pc \in {"record", "complete"}
               PROVE  HonestAfter(s, runner[s].out)
    BY <1>1, AfterIsHonest DEF IInv, OutcomeInv
  <2>1. Honest(s, runner[s].out) /\ runner[s].profile \in Profiles
    BY CopyFacts DEF IInv, OutcomeInv
  <2> QED
    BY <1>1, <1>2, <2>1 DEF Honest, Settled, Clean, HonestAfter
<1> QED
    BY <1>3, <1>4, <1>5 DEF IInv

LEMMA WorldStep ==
    ASSUME IInv, UNCHANGED <<retrieval, run, runner, lost>>, WorldInv'
    PROVE  IInv'
<1>1. DataInv' /\ SegmentInv' /\ RowInv'
    BY DEF IInv, DataInv, SegmentInv, RowInv, Clean, retrieval, index
<1>2. CopyInv' /\ LedgerInv' /\ RunningHasARunner'
    BY DEF IInv, CopyInv, LedgerInv, RunningHasARunner, retrieval
<1>3. OutcomeInv'
    BY DEF IInv, OutcomeInv, Honest, Settled, Clean, retrieval
<1> QED
    BY <1>1, <1>2, <1>3 DEF IInv

-----------------------------------------------------------------------------
(* The ledger and the runner, one lemma per action. *)

\* A new or resumed run is r's alone.
LEMMA StartOrResumeStep ==
    ASSUME IInv, NEW r \in Runners, NEW f \in Profiles, NEW watermark \in 0 .. MaxRevision,
           watermark <= workRevision, StartOrResumeRun(r, f, watermark),
           UNCHANGED <<retrieval, world, used, lost>>
    PROVE  IInv'
<1> DEFINE row == IF run[f] # None THEN [run[f] EXCEPT !.state = "running"]
                  ELSE [watermark |-> watermark, stage |-> "projection", gen |-> 0, state |-> "running"]
           stale == [s \in Runners |-> IF runner[s].profile = f
                                       THEN [runner[s] EXCEPT !.fresh = FALSE] ELSE runner[s]]
           c == [Idle EXCEPT !.pc = "emit", !.profile = f, !.watermark = row.watermark,
                       !.stage = row.stage, !.gen = row.gen, !.attached = TRUE, !.fresh = TRUE,
                       !.cancelled = runner[r].cancelled]
<1>1. /\ run' = [g \in Profiles |-> IF g = f THEN row ELSE None]
      /\ runner' = [Detach(stale, Profiles \ {f}) EXCEPT ![r] = c]
    BY DEF StartOrResumeRun
<1>2. row \in Row /\ row # None /\ row.watermark <= workRevision
      /\ (row.stage # "projection" => Clean(row.watermark))
      /\ (run[f] # None => row.watermark = run[f].watermark)
  <2>1. CASE run[f] # None
    <3>1. run[f] \in Row /\ run[f].watermark <= workRevision
          /\ (run[f].stage # "projection" => Clean(run[f].watermark))
      BY <2>1 DEF IInv, RowInv
    <3>2. row = [run[f] EXCEPT !.state = "running"]
      BY <2>1
    <3>3. row \in Row /\ row.watermark = run[f].watermark /\ row.stage = run[f].stage
      BY <3>1, <3>2 DEF Row
    <3> QED
      BY <3>1, <3>3, NoneAssumption
  <2>2. CASE run[f] = None
    <3>1. row = [watermark |-> watermark, stage |-> "projection", gen |-> 0, state |-> "running"]
      BY <2>2
    <3>2. row \in Row /\ row.watermark = watermark /\ row.stage = "projection"
      BY <3>1 DEF Row, Stages
    <3> QED
      BY <2>2, <3>2, NoneAssumption
  <2> QED
    BY <2>1, <2>2
<1> HIDE DEF row
<1>3. /\ c \in Copies /\ c.pc = "emit" /\ c.profile = f /\ c.watermark = row.watermark
      /\ c.stage = row.stage /\ c.attached /\ c.fresh /\ c.out.successor = 0 /\ c.stage \in Stages
  <2>1. runner[r].cancelled \in BOOLEAN
    BY CopyFacts DEF Copies
  <2>2. /\ row.watermark \in 0 .. MaxRevision /\ row.stage \in Stages /\ row.gen \in Nat
    BY <1>2 DEF Row
  <2>3. NoOutcome \in Outcomes /\ NoOutcome.successor = 0
    BY NoOutcomeFacts
  <2> HIDE DEF row
  <2> QED
    BY <2>1, <2>2, <2>3 DEF Idle, Copies
<1> HIDE DEF c
<1>4. ASSUME NEW s \in Runners, s # r
      PROVE  /\ runner'[s] \in Copies /\ ~runner'[s].fresh
             /\ runner'[s].attached => runner[s].attached /\ runner[s].profile = f
             /\ runner'[s].pc = runner[s].pc /\ runner'[s].profile = runner[s].profile
             /\ runner'[s].watermark = runner[s].watermark /\ runner'[s].stage = runner[s].stage
             /\ runner'[s].out = runner[s].out
  <2>1. runner[s] \in Copies /\ (runner[s].fresh => runner[s].attached)
        /\ (runner[s].attached => runner[s].profile \in Profiles)
    BY CopyFacts DEF IInv, LedgerInv
  <2>2. runner'[s] = Detach(stale, Profiles \ {f})[s]
    BY <1>1, <1>4 DEF Detach
  <2>3. CASE runner[s].profile = f
    <3>1. runner'[s] = [runner[s] EXCEPT !.fresh = FALSE]
      BY <2>1, <2>2, <2>3 DEF Detach, Copies
    <3> QED
      BY <2>1, <2>3, <3>1 DEF Copies
  <2>4. CASE runner[s].profile # f /\ runner[s].profile \in Profiles
    <3>1. runner'[s] = [runner[s] EXCEPT !.attached = FALSE, !.fresh = FALSE]
      BY <2>2, <2>4 DEF Detach
    <3> QED
      BY <2>1, <3>1 DEF Copies
  <2>5. CASE runner[s].profile \notin Profiles
    <3>1. runner'[s] = runner[s]
      BY <2>2, <2>5 DEF Detach
    <3> QED
      BY <2>1, <2>5, <3>1
  <2> QED
    BY <2>3, <2>4, <2>5
<1>5. runner'[r] = c /\ runner' \in [Runners -> Copies]
  <2>1. runner'[r] = c /\ DOMAIN runner' = Runners /\ runner' = [s \in Runners |-> runner'[s]]
    BY <1>1 DEF Detach
  <2> QED
    BY <1>3, <1>4, <2>1
<1>6. DataInv' /\ SegmentInv' /\ WorldInv' /\ workRevision' = workRevision /\ workRevision \in Nat
    BY CopyFacts DEF IInv, DataInv, SegmentInv, WorldInv, retrieval, index, world
<1>7. run'[f] = row /\ \A g \in Profiles : g # f => run'[g] = None
    BY <1>1
<1>8. RowInv'
  <2>1. run' \in [Profiles -> Row \cup {None}]
    BY <1>1, <1>2
  <2>2. dirty' = dirty
    BY DEF retrieval
  <2> QED
    BY <1>2, <1>6, <1>7, <2>1, <2>2 DEF RowInv, Clean
<1>9. CopyInv'
    BY <1>2, <1>3, <1>4, <1>5, <1>6 DEF IInv, CopyInv
<1>10. LedgerInv'
    BY <1>2, <1>3, <1>4, <1>5, <1>7 DEF IInv, LedgerInv
<1>11. RunningHasARunner'
    BY <1>3, <1>5, <1>7 DEF RunningHasARunner
<1>12. OutcomeInv'
    BY <1>3, <1>4, <1>5 DEF OutcomeInv
<1> QED
    BY <1>6, <1>8, <1>9, <1>10, <1>11, <1>12 DEF IInv

LEMMA RefreshStep ==
    ASSUME IInv, NEW r \in Runners, Refresh(r)
    PROVE  IInv'
<1> DEFINE c == [Idle EXCEPT !.pc = "start", !.profile = profile, !.watermark = workRevision]
<1>1. /\ runner[r].pc = "idle" /\ runner' = [runner EXCEPT ![r] = c]
      /\ UNCHANGED <<retrieval, run, world, lost>>
    BY DEF Refresh
<1>2. profile \in Profiles /\ workRevision \in 0 .. MaxRevision /\ workRevision \in Nat
    BY CopyFacts DEF IInv, WorldInv
<1>3. /\ c \in Copies /\ c.pc = "start" /\ c.profile = profile /\ c.watermark = workRevision
      /\ ~c.attached /\ ~c.fresh /\ c.out.successor = 0
    BY <1>2, IdleFacts, NoOutcomeFacts DEF Idle, Copies
<1> HIDE DEF c
<1>4. ~runner[r].fresh
    BY <1>1 DEF IInv, LedgerInv
<1>5. WorldInv'
    BY <1>1, DisturbedType DEF Refresh, IInv, WorldInv, world
<1>6. c.watermark <= workRevision /\ c.out.successor <= workRevision
    BY <1>2, <1>3
<1> QED
    BY <1>1, <1>2, <1>3, <1>4, <1>5, <1>6, LeaveStep

LEMMA StartStep ==
    ASSUME IInv, NEW r \in Runners, Start(r)
    PROVE  IInv'
<1>1. runner[r].pc = "start" /\ UNCHANGED <<retrieval, world, used, lost>>
    BY DEF Start
<1>2. CASE Returns(r) /\ UNCHANGED run
  <2>1. ~runner[r].fresh
    BY <1>1 DEF IInv, LedgerInv
  <2>2. WorldInv'
    BY <1>1 DEF IInv, WorldInv, world
  <2> QED
    BY <1>1, <1>2, <2>1, <2>2, ReturnStep
<1>3. CASE StartOrResumeRun(r, runner[r].profile, runner[r].watermark)
    BY <1>1, <1>3, CopyFacts, StartOrResumeStep
<1> QED
    BY <1>2, <1>3 DEF Start

\* Going on to another place with the copy as it is.
LEMMA GoesStep ==
    ASSUME IInv, NEW r \in Runners, NEW pc \in {"stage", "complete", "cancel", "fail"}, Goes(r, pc),
           runner[r].pc \notin {"idle", "start", "successor"},
           UNCHANGED <<retrieval, run>>, WorldInv', lost => lost',
           runner[r].fresh => pc # "complete"
    PROVE  IInv'
<1> DEFINE c == [runner[r] EXCEPT !.pc = pc]
<1>1. runner' = [runner EXCEPT ![r] = c]
    BY DEF Goes
<1>2. /\ c \in Copies /\ c.pc = pc /\ c.profile = runner[r].profile
      /\ c.watermark = runner[r].watermark /\ c.stage = runner[r].stage /\ c.out = runner[r].out
      /\ c.attached = runner[r].attached /\ c.fresh = runner[r].fresh
    BY CopyFacts DEF Copies
<1> HIDE DEF c
<1>3. c.out.successor <= workRevision
    BY <1>2 DEF IInv, CopyInv
<1> QED
    BY <1>1, <1>2, <1>3, NoDataStep, CopyStep

LEMMA StartEmitterStep ==
    ASSUME IInv, NEW r \in Runners, StartEmitter(r)
    PROVE  IInv'
<1>1. runner[r].pc = "emit" /\ UNCHANGED <<retrieval, run, world, lost>>
    BY DEF StartEmitter
<1>2. WorldInv'
    BY <1>1, DisturbedType DEF StartEmitter, IInv, WorldInv, world
<1>3. CASE Goes(r, "cancel") \/ Goes(r, "stage") \/ Goes(r, "fail")
    BY <1>1, <1>2, <1>3, GoesStep
<1>4. CASE ~Touchable(r) /\ Returns(r)
  <2>1. runner[r].fresh => run[runner[r].profile].state # "running"
    BY <1>4 DEF Touchable, IInv, LedgerInv
  <2> QED
    BY <1>1, <1>2, <1>4, <2>1, ReturnStep
<1> QED
    BY <1>3, <1>4 DEF StartEmitter

LEMMA EndsStep ==
    ASSUME IInv, NEW r \in Runners, runner[r].pc = "stage", DataStep(r), StageEnds(r),
           UNCHANGED <<run, world, lost>>
    PROVE  IInv'
<1>1. PICK o \in Outcomes : Ends(r, o) /\ o.successor <= workRevision /\ (runner[r].fresh => Honest(r, o))
    BY DEF StageEnds
<1> DEFINE c == [runner[r] EXCEPT !.pc = "record", !.out = o]
<1>2. runner' = [runner EXCEPT ![r] = c]
    BY <1>1 DEF Ends
<1>3. /\ c \in Copies /\ c.pc = "record" /\ c.profile = runner[r].profile
      /\ c.watermark = runner[r].watermark /\ c.stage = runner[r].stage /\ c.out = o
      /\ c.attached = runner[r].attached /\ c.fresh = runner[r].fresh
    BY CopyFacts DEF Copies
<1> HIDE DEF c
<1>4. WorldInv'
    BY DEF StageEnds, IInv, WorldInv, world
<1> QED
    BY <1>1, <1>2, <1>3, <1>4, CopyStep

LEMMA StageFailsStep ==
    ASSUME IInv, NEW r \in Runners, StageFails(r)
    PROVE  IInv'
<1>1. runner[r].pc = "stage" /\ UNCHANGED <<retrieval, run, world, lost>>
    BY DEF StageFails
<1>2. WorldInv'
    BY <1>1, DisturbedType DEF StageFails, IInv, WorldInv, world
<1>3. CASE Goes(r, "cancel") \/ Goes(r, "fail")
    BY <1>1, <1>2, <1>3, GoesStep
<1>4. used' \in 0 .. MaxDisturbances
    BY <1>2 DEF WorldInv
<1>5. CASE Ends(r, [Outcome(runner[r].stage, runner[r].gen) EXCEPT !.failed = TRUE])
  <2>1. StageEnds(r)
    BY <1>1, <1>4, <1>5, CopyFacts, AgainEnds
  <2> QED
    BY <1>1, <2>1, NoDataStep, EndsStep
<1>6. CASE Ends(r, [NoOutcome EXCEPT !.failed = TRUE])
  <2> DEFINE o == [NoOutcome EXCEPT !.failed = TRUE]
  <2>1. o \in Outcomes /\ o.next = None /\ ~o.complete /\ o.successor = 0
    BY NoOutcomeFacts
  <2> HIDE DEF o
  <2>2. Honest(r, o) /\ o.successor <= workRevision
    BY <2>1, CopyFacts DEF Honest
  <2>3. StageEnds(r)
    BY <1>4, <1>6, <2>1, <2>2 DEF StageEnds, o
  <2> QED
    BY <1>1, <2>3, NoDataStep, EndsStep
<1> QED
    BY <1>3, <1>5, <1>6 DEF StageFails

LEMMA ExecuteStep ==
    ASSUME IInv, NEW r \in Runners, Execute(r)
    PROVE  IInv'
BY ExecuteStage, EndsStep

\* What becomes of the update of a stale copy, or of one that a fault prevents.
LEMMA UpdateFailsFacts ==
    ASSUME IInv, NEW r \in Runners, UpdateFails(r), UNCHANGED world
    PROVE  WorldInv' /\ (lost => lost') /\ (runner[r].fresh => lost')
BY DisturbedType DEF UpdateFails, CanUpdate, IInv, WorldInv, world

\* The recorded outcome is the row's, and stays the copy's.
LEMMA RecordedStep ==
    ASSUME IInv, NEW r \in Runners, runner[r].pc = "record", CanUpdate(r),
           runner[r].out.next # None,
           run' = [run EXCEPT ![runner[r].profile] =
                     [run[runner[r].profile] EXCEPT !.stage = runner[r].out.next,
                        !.gen = runner[r].out.gen, !.state = "running"]],
           runner' = [runner EXCEPT ![r] =
                        [runner[r] EXCEPT !.pc = Decides(r, runner[r].out),
                           !.stage = runner[r].out.next, !.gen = runner[r].out.gen,
                           !.out = IF runner[r].out.complete THEN runner[r].out ELSE NoOutcome]],
           UNCHANGED <<retrieval, world, used, lost>>
    PROVE  IInv'
<1> DEFINE o == runner[r].out
           f == runner[r].profile
           row == [run[f] EXCEPT !.stage = o.next, !.gen = o.gen, !.state = "running"]
           c == [runner[r] EXCEPT !.pc = Decides(r, o), !.stage = o.next, !.gen = o.gen,
                    !.out = IF o.complete THEN o ELSE NoOutcome]
<1>1. run' = [run EXCEPT ![f] = row] /\ runner' = [runner EXCEPT ![r] = c]
    OBVIOUS
<1>2. /\ runner[r].fresh /\ f \in Profiles /\ runner[r] \in Copies /\ o \in Outcomes
      /\ runner[r].watermark \in 0 .. MaxRevision
    BY CopyFacts DEF CanUpdate
<1>3. /\ runner[r].attached /\ run[f] # None /\ run[f].watermark = runner[r].watermark
      /\ run[f] \in Row /\ run[f].watermark <= workRevision
    BY <1>2 DEF IInv, LedgerInv, RowInv
<1>4. Honest(r, o)
    BY <1>2 DEF IInv, OutcomeInv
<1>5. o.next \in Stages /\ o.gen \in Nat /\ o.successor <= workRevision /\ workRevision \in Nat
    BY <1>2, CopyFacts DEF Outcomes, IInv, CopyInv
<1>6. row \in Row /\ row # None /\ row.stage = o.next /\ row.watermark = run[f].watermark
      /\ row.state = "running"
  <2>1. row \in Row /\ row.stage = o.next /\ row.watermark = run[f].watermark /\ row.state = "running"
    BY <1>3, <1>5 DEF Row
  <2> QED
    BY <2>1, NoneAssumption
<1>7. Decides(r, o) \in {"cancel", "fail", "complete", "stage"} /\ (Decides(r, o) = "complete" => o.complete)
    BY DEF Decides
<1>8. /\ c \in Copies /\ c.pc = Decides(r, o) /\ c.profile = f /\ c.watermark = runner[r].watermark
      /\ c.stage = o.next /\ c.attached = runner[r].attached /\ c.fresh = runner[r].fresh
      /\ c.out = IF o.complete THEN o ELSE NoOutcome
    BY <1>2, <1>5, <1>7, NoOutcomeFacts DEF Copies
<1> HIDE DEF c, row
<1>9. /\ runner'[r] = c /\ runner' \in [Runners -> Copies]
      /\ \A s \in Runners : s # r => runner'[s] = runner[s]
    BY <1>1, <1>8 DEF IInv, CopyInv
<1>10. run'[f] = row /\ \A g \in Profiles : g # f => run'[g] = run[g]
    BY <1>1, <1>2 DEF IInv, RowInv
<1>11. DataInv' /\ SegmentInv' /\ WorldInv' /\ workRevision' = workRevision /\ dirty' = dirty
    BY DEF IInv, DataInv, SegmentInv, WorldInv, retrieval, index, world
<1>12. RowInv'
  <2>1. run' \in [Profiles -> Row \cup {None}]
    BY <1>1, <1>6 DEF IInv, RowInv
  <2>2. row.stage # "projection" => Clean(row.watermark)
    BY <1>3, <1>4, <1>6 DEF Honest
  <2>3. ASSUME NEW g \in Profiles, run'[g] # None
        PROVE  /\ run'[g].watermark <= workRevision
               /\ run'[g].stage # "projection" => Clean(run'[g].watermark)
    <3>1. CASE g = f
      BY <1>3, <1>6, <1>10, <2>2, <3>1
    <3>2. CASE g # f
      <4>1. run'[g] = run[g]
        BY <1>10, <3>2
      <4> QED
        BY <2>3, <4>1 DEF IInv, RowInv
    <3> QED
      BY <3>1, <3>2
  <2> QED
    BY <1>11, <2>1, <2>3 DEF RowInv, Clean
<1>13. c.out.successor <= workRevision
    BY <1>5, <1>8, NoOutcomeFacts
<1>14. CopyInv'
    BY <1>2, <1>5, <1>8, <1>9, <1>11, <1>13 DEF IInv, CopyInv
<1>15. LedgerInv'
  <2>1. \A s \in Runners : s # r /\ runner[s].fresh => runner[s].profile # f
    BY <1>2 DEF IInv, LedgerInv
  <2>2. \A s \in Runners : runner[s].attached => runner[s].profile \in Profiles
    BY CopyFacts DEF IInv, LedgerInv
  <2>3. ASSUME NEW s \in Runners, runner'[s].fresh
        PROVE  runner'[s].attached /\ runner'[s].stage = run'[runner'[s].profile].stage
    <3>1. CASE s = r
      BY <1>3, <1>6, <1>8, <1>9, <1>10, <3>1
    <3>2. CASE s # r
      <4>1. runner'[s] = runner[s] /\ runner[s].fresh
        BY <1>9, <2>3, <3>2
      <4>2. runner[s].attached /\ runner[s].stage = run[runner[s].profile].stage
        BY <4>1 DEF IInv, LedgerInv
      <4>3. run'[runner[s].profile] = run[runner[s].profile]
        BY <1>10, <2>1, <2>2, <3>2, <4>1, <4>2
      <4> QED
        BY <4>1, <4>2, <4>3
    <3> QED
      BY <3>1, <3>2
  <2>4. ASSUME NEW s \in Runners, runner'[s].attached
        PROVE  /\ runner'[s].pc \notin {"idle", "start", "successor"}
               /\ run'[runner'[s].profile] # None
               /\ run'[runner'[s].profile].watermark = runner'[s].watermark
    <3>1. CASE s = r
      BY <1>3, <1>6, <1>7, <1>8, <1>9, <1>10, <3>1
    <3>2. CASE s # r
      <4>1. runner'[s] = runner[s] /\ runner[s].attached
        BY <1>9, <2>4, <3>2
      <4>2. /\ runner[s].pc \notin {"idle", "start", "successor"}
            /\ run[runner[s].profile] # None
            /\ run[runner[s].profile].watermark = runner[s].watermark
        BY <4>1 DEF IInv, LedgerInv
      <4>3. CASE runner[s].profile = f
        BY <1>3, <1>6, <1>10, <4>1, <4>2, <4>3
      <4>4. CASE runner[s].profile # f
        <5>1. run'[runner[s].profile] = run[runner[s].profile]
          BY <1>10, <2>2, <4>1, <4>4
        <5> QED
          BY <4>1, <4>2, <5>1
      <4> QED
        BY <4>3, <4>4
    <3> QED
      BY <3>1, <3>2
  <2>5. ASSUME NEW s \in Runners, NEW t \in Runners, runner'[s].fresh, runner'[t].fresh,
               runner'[s].profile = runner'[t].profile
        PROVE  s = t
    <3>1. \A u \in Runners : /\ runner'[u].fresh = runner[u].fresh
                             /\ runner'[u].profile = runner[u].profile
      BY <1>8, <1>9
    <3> QED
      BY <2>5, <3>1 DEF IInv, LedgerInv
  <2> QED
    BY <2>3, <2>4, <2>5 DEF LedgerInv
<1>16. RunningHasARunner'
  <2> SUFFICES ASSUME NEW g \in Profiles, run'[g] # None, run'[g].state = "running", ~lost'
               PROVE  \E s \in Runners : runner'[s].fresh /\ runner'[s].profile = g
    BY DEF RunningHasARunner
  <2>1. CASE g = f
    BY <1>2, <1>8, <1>9, <2>1
  <2>2. CASE g # f
    <3>1. \E s \in Runners : runner[s].fresh /\ runner[s].profile = g
      BY <1>10, <2>2 DEF IInv, RunningHasARunner
    <3> QED
      BY <1>9, <2>2, <3>1
  <2> QED
    BY <2>1, <2>2
<1>17. OutcomeInv'
  <2> SUFFICES ASSUME NEW s \in Runners, runner'[s].fresh, runner'[s].pc \in {"record", "complete"}
               PROVE  /\ HonestAfter(s, runner'[s].out)
                      /\ runner'[s].pc = "complete" => runner'[s].out.complete
    BY AfterIsHonest
  <2>1. runner[s].fresh /\ runner[s].profile \in Profiles /\ runner'[s].profile = runner[s].profile
        /\ runner'[s].watermark = runner[s].watermark
    BY <1>8, <1>9, CopyFacts DEF IInv, LedgerInv
  <2>2. Honest(s, runner'[s].out) /\ (runner'[s].pc = "complete" => runner'[s].out.complete)
    BY <1>4, <1>7, <1>8, <1>9, <2>1 DEF IInv, OutcomeInv
  <2>3. \A t \in Runners : runner'[t].pc \notin {"idle", "start"} =>
          runner[t].pc \notin {"idle", "start"} /\ runner'[t].watermark = runner[t].watermark
    BY <1>8, <1>9
  <2>4. DataStep(r) /\ UNCHANGED retrieval
    BY NoDataStep
  <2> QED
    BY <2>1, <2>2, <2>3, <2>4, HonestStays
<1> QED
    BY <1>11, <1>12, <1>14, <1>15, <1>16, <1>17 DEF IInv

LEMMA RecordStep ==
    ASSUME IInv, NEW r \in Runners, Record(r)
    PROVE  IInv'
<1> DEFINE o == runner[r].out
<1>1. runner[r].pc = "record" /\ UNCHANGED <<retrieval, world>>
    BY DEF Record
<1>2. CASE o.next = None /\ Goes(r, Decides(r, o)) /\ UNCHANGED <<run, used, lost>>
  <2>1. WorldInv'
    BY <1>1, <1>2 DEF IInv, WorldInv, world
  <2>2. Decides(r, o) \in {"stage", "complete", "cancel", "fail"} /\ (Decides(r, o) = "complete" => o.complete)
    BY DEF Decides
  <2>3. runner[r].fresh => ~o.complete
    BY <1>1, <1>2, NoneAssumption DEF IInv, OutcomeInv, Honest, Stages
  <2> QED
    BY <1>1, <1>2, <2>1, <2>2, <2>3, GoesStep
<1>3. CASE /\ o.next # None /\ CanUpdate(r)
           /\ run' = [run EXCEPT ![runner[r].profile] =
                 [run[runner[r].profile] EXCEPT !.stage = o.next, !.gen = o.gen, !.state = "running"]]
           /\ runner' = [runner EXCEPT ![r] = [runner[r] EXCEPT !.pc = Decides(r, o),
                !.stage = o.next, !.gen = o.gen, !.out = IF o.complete THEN o ELSE NoOutcome]]
           /\ UNCHANGED <<used, lost>>
    BY <1>1, <1>3, RecordedStep
<1>4. CASE UpdateFails(r) /\ Returns(r) /\ UNCHANGED run
  <2>1. WorldInv' /\ (lost => lost') /\ (runner[r].fresh => lost')
    BY <1>1, <1>4, UpdateFailsFacts
  <2> QED
    BY <1>1, <1>4, <2>1, ReturnStep
<1>5. CASE /\ Disturbed \/ UNCHANGED used
           /\ runner' = [runner EXCEPT ![r].pc = "cancel", ![r].cancelled = TRUE]
           /\ UNCHANGED <<run, lost>>
  <2> DEFINE c == [runner[r] EXCEPT !.pc = "cancel", !.cancelled = TRUE]
  <2>1. runner' = [runner EXCEPT ![r] = c]
    BY <1>5 DEF IInv, CopyInv
  <2>2. /\ c \in Copies /\ c.pc = "cancel" /\ c.profile = runner[r].profile
        /\ c.watermark = runner[r].watermark /\ c.stage = runner[r].stage /\ c.out = runner[r].out
        /\ c.attached = runner[r].attached /\ c.fresh = runner[r].fresh
    BY CopyFacts DEF Copies
  <2> HIDE DEF c
  <2>3. WorldInv'
    BY <1>1, <1>5, DisturbedType DEF IInv, WorldInv, world
  <2>4. c.out.successor <= workRevision
    BY <2>2 DEF IInv, CopyInv
  <2> QED
    BY <1>1, <1>5, <2>1, <2>2, <2>3, <2>4, NoDataStep, CopyStep
<1> QED
    BY <1>2, <1>3, <1>4, <1>5 DEF Record

\* What Detach leaves of a copy.
LEMMA DetachFacts ==
    ASSUME IInv, NEW gone, NEW s \in Runners
    PROVE  LET d == Detach(runner, gone)[s] IN
           /\ d \in Copies
           /\ d.pc = runner[s].pc /\ d.profile = runner[s].profile
           /\ d.watermark = runner[s].watermark /\ d.stage = runner[s].stage /\ d.out = runner[s].out
           /\ d.attached = (runner[s].attached /\ runner[s].profile \notin gone)
           /\ d.fresh = (runner[s].fresh /\ runner[s].profile \notin gone)
<1>1. runner[s] \in Copies
    BY CopyFacts
<1>2. CASE runner[s].profile \in gone
  <2>1. Detach(runner, gone)[s] = [runner[s] EXCEPT !.attached = FALSE, !.fresh = FALSE]
    BY <1>2 DEF Detach
  <2> QED
    BY <1>1, <1>2, <2>1 DEF Copies
<1>3. CASE runner[s].profile \notin gone
  <2>1. Detach(runner, gone)[s] = runner[s]
    BY <1>3 DEF Detach
  <2> QED
    BY <1>1, <1>3, <2>1 DEF Copies
<1> QED
    BY <1>2, <1>3

\* The profile's row leaves the ledger, or changes hands, and r lets go of it.
LEMMA LetGoStep ==
    ASSUME IInv, NEW r \in Runners, NEW f \in Profiles,
           run' \in [Profiles -> Row \cup {None}],
           \A g \in Profiles : run'[g] # None =>
              /\ run[g] # None /\ run'[g].watermark = run[g].watermark
              /\ run'[g].stage = run[g].stage,
           runner' \in [Runners -> Copies],
           ~runner'[r].attached, ~runner'[r].fresh,
           runner'[r].watermark <= workRevision, runner'[r].out.successor <= workRevision,
           runner'[r].pc # "idle" =>
              /\ runner[r].pc \notin {"idle", "start"}
              /\ runner'[r].profile \in Profiles /\ runner'[r].stage \in Stages
              /\ runner'[r].watermark = runner[r].watermark,
           \A s \in Runners \ {r} :
              /\ runner'[s].pc = runner[s].pc /\ runner'[s].profile = runner[s].profile
              /\ runner'[s].watermark = runner[s].watermark
              /\ runner'[s].stage = runner[s].stage /\ runner'[s].out = runner[s].out
              /\ runner'[s].attached => runner[s].attached /\ run'[runner[s].profile] # None
              /\ runner'[s].fresh => runner[s].fresh /\ runner'[s].attached,
           UNCHANGED retrieval, WorldInv', RunningHasARunner'
    PROVE  IInv'
<1>1. DataInv' /\ SegmentInv' /\ workRevision' = workRevision /\ dirty' = dirty
    BY DEF IInv, DataInv, SegmentInv, retrieval, index
<1>2. RowInv'
    BY <1>1 DEF IInv, RowInv, Clean
<1>3. CopyInv'
    BY <1>1 DEF IInv, CopyInv
<1>4. \A s \in Runners : runner[s].attached => runner[s].profile \in Profiles
    BY CopyFacts DEF IInv, LedgerInv
<1>5. LedgerInv'
    BY <1>4 DEF IInv, LedgerInv
<1>6. OutcomeInv'
  <2> SUFFICES ASSUME NEW s \in Runners, runner'[s].fresh, runner'[s].pc \in {"record", "complete"}
               PROVE  /\ HonestAfter(s, runner'[s].out)
                      /\ runner'[s].pc = "complete" => runner'[s].out.complete
    BY AfterIsHonest
  <2>1. s # r /\ runner[s].fresh /\ runner[s].attached /\ runner'[s].out = runner[s].out /\ runner'[s].pc = runner[s].pc
        /\ runner'[s].profile = runner[s].profile /\ runner'[s].watermark = runner[s].watermark
    BY DEF IInv, LedgerInv
  <2>2. Honest(s, runner[s].out) /\ (runner[s].pc = "complete" => runner[s].out.complete)
    BY <2>1 DEF IInv, OutcomeInv
  <2>3. runner[s].profile \in Profiles
    BY <1>4, <2>1
  <2>4. DataStep(r)
    BY NoDataStep
  <2>5. \A t \in Runners : runner'[t].pc \notin {"idle", "start"} =>
          runner[t].pc \notin {"idle", "start"} /\ runner'[t].watermark = runner[t].watermark
    OBVIOUS
  <2>6. HonestAfter(s, runner[s].out)
    BY <2>1, <2>2, <2>3, <2>4, <2>5, HonestStays
  <2> QED
    BY <2>1, <2>2, <2>6
<1> QED
    BY <1>1, <1>2, <1>3, <1>5, <1>6 DEF IInv

LEMMA CompleteStep ==
    ASSUME IInv, NEW r \in Runners, Complete(r)
    PROVE  IInv'
<1> DEFINE f == runner[r].profile
           c == IF runner[r].out.successor = 0 THEN Idle
                ELSE [runner[r] EXCEPT !.pc = "successor", !.attached = FALSE, !.fresh = FALSE]
<1>1. runner[r].pc = "complete" /\ UNCHANGED <<retrieval, world>>
    BY DEF Complete
<1>2. CASE Goes(r, "cancel") /\ UNCHANGED <<run, used, lost>>
  <2>1. WorldInv'
    BY <1>1, <1>2 DEF IInv, WorldInv, world
  <2> QED
    BY <1>1, <1>2, <2>1, GoesStep
<1>3. CASE /\ run' = [run EXCEPT ![f] = None]
           /\ runner' = [Detach(runner, {f}) EXCEPT ![r] = c]
           /\ UNCHANGED <<used, lost>>
  <2>1. f \in Profiles /\ runner[r] \in Copies /\ runner[r].stage \in Stages /\ workRevision \in Nat
        /\ runner[r].watermark <= workRevision /\ runner[r].out.successor <= workRevision
    BY <1>1, CopyFacts DEF IInv, CopyInv
  <2>2. /\ c \in Copies /\ ~c.attached /\ ~c.fresh
        /\ c.watermark <= workRevision /\ c.out.successor <= workRevision
        /\ c.pc # "idle" => c.profile = f /\ c.stage \in Stages /\ c.watermark = runner[r].watermark
    <3>1. CASE runner[r].out.successor = 0
      BY <2>1, <3>1, IdleFacts
    <3>2. CASE runner[r].out.successor # 0
      <4>1. c = [runner[r] EXCEPT !.pc = "successor", !.attached = FALSE, !.fresh = FALSE]
        BY <3>2
      <4> QED
        BY <2>1, <4>1 DEF Copies
    <3> QED
      BY <3>1, <3>2
  <2> HIDE DEF c
  <2>3. ASSUME NEW s \in Runners \ {r}
        PROVE  /\ runner'[s] \in Copies
               /\ runner'[s].pc = runner[s].pc /\ runner'[s].profile = runner[s].profile
               /\ runner'[s].watermark = runner[s].watermark
               /\ runner'[s].stage = runner[s].stage /\ runner'[s].out = runner[s].out
               /\ runner'[s].attached = (runner[s].attached /\ runner[s].profile # f)
               /\ runner'[s].fresh = (runner[s].fresh /\ runner[s].profile # f)
    <3>1. runner'[s] = Detach(runner, {f})[s]
      BY <1>3 DEF Detach
    <3> QED
      BY <3>1, DetachFacts
  <2>4. runner'[r] = c /\ runner' \in [Runners -> Copies]
    <3>1. runner'[r] = c /\ DOMAIN runner' = Runners /\ runner' = [s \in Runners |-> runner'[s]]
      BY <1>3 DEF Detach
    <3> QED
      BY <2>2, <2>3, <3>1
  <2>5. /\ run' \in [Profiles -> Row \cup {None}] /\ run'[f] = None
        /\ \A g \in Profiles : g # f => run'[g] = run[g]
    BY <1>3, <2>1 DEF IInv, RowInv
  <2>6. WorldInv'
    BY <1>1, <1>3 DEF IInv, WorldInv, world
  <2>7. \A s \in Runners : (runner[s].fresh => runner[s].attached)
          /\ (runner[s].attached => runner[s].profile \in Profiles /\ run[runner[s].profile] # None)
    BY CopyFacts DEF IInv, LedgerInv
  <2>8. RunningHasARunner'
    <3> SUFFICES ASSUME NEW g \in Profiles, run'[g] # None, run'[g].state = "running", ~lost'
                 PROVE  \E s \in Runners : runner'[s].fresh /\ runner'[s].profile = g
      BY DEF RunningHasARunner
    <3>1. g # f /\ run[g] # None /\ run[g].state = "running" /\ ~lost
      BY <1>3, <2>5
    <3>2. PICK s \in Runners : runner[s].fresh /\ runner[s].profile = g
      BY <3>1 DEF IInv, RunningHasARunner
    <3>3. s # r
      BY <3>1, <3>2
    <3> QED
      BY <2>3, <3>1, <3>2, <3>3
  <2> HIDE DEF f
  <2>9. \A s \in Runners \ {r} :
              /\ runner'[s].attached => runner[s].attached /\ run'[runner[s].profile] # None
              /\ runner'[s].fresh => runner[s].fresh /\ runner'[s].attached
    BY <2>3, <2>5, <2>7
  <2>10. \A g \in Profiles : run'[g] # None =>
              /\ run[g] # None /\ run'[g].watermark = run[g].watermark
              /\ run'[g].stage = run[g].stage
    BY <2>5
  <2> QED
    BY <1>1, <2>1, <2>2, <2>3, <2>4, <2>5, <2>6, <2>8, <2>9, <2>10, LetGoStep
<1>4. CASE UpdateFails(r) /\ Returns(r) /\ UNCHANGED run
    BY <1>1, <1>4, UpdateFailsFacts, ReturnStep
<1> QED
    BY <1>2, <1>3, <1>4 DEF Complete

LEMMA StartSuccessorStep ==
    ASSUME IInv, NEW r \in Runners, StartSuccessor(r)
    PROVE  IInv'
<1> DEFINE f == runner[r].profile
<1>1. runner[r].pc = "successor" /\ UNCHANGED <<retrieval, world, used>> /\ f \in Profiles
    BY CopyFacts DEF StartSuccessor
<1>2. ~runner[r].attached /\ ~runner[r].fresh
    BY <1>1 DEF IInv, LedgerInv
<1>3. CASE Returns(r) /\ UNCHANGED <<run, lost>>
  <2>1. WorldInv'
    BY <1>1, <1>3 DEF IInv, WorldInv, world
  <2> QED
    BY <1>1, <1>2, <1>3, <2>1, ReturnStep
<1>4. CASE StartOrResumeRun(r, f, runner[r].out.successor) /\ UNCHANGED lost
  <2>1. runner[r].out.successor \in 0 .. MaxRevision /\ runner[r].out.successor <= workRevision
    BY CopyFacts DEF IInv, CopyInv, Outcomes
  <2> QED
    BY <1>1, <1>4, <2>1, StartOrResumeStep
<1>5. CASE /\ run[f] # None
           /\ run' = [g \in Profiles |-> IF g = f THEN [run[f] EXCEPT !.state = "running"] ELSE None]
           /\ runner' = [s \in Runners |->
                   IF s = r THEN Idle
                   ELSE IF runner[s].profile = f THEN [runner[s] EXCEPT !.fresh = FALSE]
                   ELSE Detach(runner, Profiles \ {f})[s]]
           /\ lost' = TRUE
  <2>1. run[f] \in Row
    BY <1>1, <1>5 DEF IInv, RowInv
  <2>2. /\ run' \in [Profiles -> Row \cup {None}]
        /\ run'[f].watermark = run[f].watermark /\ run'[f].stage = run[f].stage /\ run'[f] \in Row
        /\ \A g \in Profiles : g # f => run'[g] = None
    BY <1>1, <1>5, <2>1 DEF Row
  <2>3. run'[f] # None
    BY <2>2, NoneAssumption
  <2>4. runner'[r] = Idle
    BY <1>5
  <2>5. \A s \in Runners : (runner[s].fresh => runner[s].attached)
          /\ (runner[s].attached => runner[s].profile \in Profiles)
    BY CopyFacts DEF IInv, LedgerInv
  <2>6. ASSUME NEW s \in Runners \ {r}
        PROVE  /\ runner'[s] \in Copies
               /\ runner'[s].pc = runner[s].pc /\ runner'[s].profile = runner[s].profile
               /\ runner'[s].watermark = runner[s].watermark
               /\ runner'[s].stage = runner[s].stage /\ runner'[s].out = runner[s].out
               /\ ~runner'[s].fresh
               /\ runner'[s].attached => runner[s].attached /\ runner[s].profile = f
    <3>1. CASE runner[s].profile = f
      <4>1. runner'[s] = [runner[s] EXCEPT !.fresh = FALSE] /\ runner[s] \in Copies
        BY <1>5, <3>1, CopyFacts
      <4> QED
        BY <3>1, <4>1 DEF Copies
    <3>2. CASE runner[s].profile # f
      <4>1. runner'[s] = Detach(runner, Profiles \ {f})[s]
        BY <1>5, <3>2
      <4> HIDE DEF f
      <4>2. /\ runner'[s] \in Copies
            /\ runner'[s].pc = runner[s].pc /\ runner'[s].profile = runner[s].profile
            /\ runner'[s].watermark = runner[s].watermark
            /\ runner'[s].stage = runner[s].stage /\ runner'[s].out = runner[s].out
            /\ runner'[s].attached = (runner[s].attached /\ runner[s].profile \notin Profiles \ {f})
            /\ runner'[s].fresh = (runner[s].fresh /\ runner[s].profile \notin Profiles \ {f})
        BY <4>1, DetachFacts
      <4> QED
        BY <2>5, <3>2, <4>2
    <3> QED
      BY <3>1, <3>2
  <2>7. runner' \in [Runners -> Copies]
    <3>1. runner' = [s \in Runners |-> runner'[s]]
      BY <1>5
    <3> QED
      BY <2>4, <2>6, <3>1, IdleFacts
  <2>8. WorldInv' /\ RunningHasARunner'
    BY <1>1, <1>5 DEF IInv, WorldInv, world, RunningHasARunner
  <2>9. runner'[r].watermark <= workRevision /\ runner'[r].out.successor <= workRevision
        /\ ~runner'[r].attached /\ ~runner'[r].fresh /\ runner'[r].pc = "idle"
    BY <2>4, IdleFacts, CopyFacts
  <2> HIDE DEF f
  <2>10. \A g \in Profiles : run'[g] # None =>
              /\ run[g] # None /\ run'[g].watermark = run[g].watermark
              /\ run'[g].stage = run[g].stage
    BY <1>5, <2>2
  <2> QED
    BY <1>1, <2>2, <2>3, <2>6, <2>7, <2>8, <2>9, <2>10, LetGoStep
<1> QED
    BY <1>3, <1>4, <1>5 DEF StartSuccessor

LEMMA PersistStep ==
    ASSUME IInv, NEW r \in Runners, NEW pc \in {"cancel", "fail"}, NEW state \in {"cancelled", "failed"},
           Persist(r, pc, state)
    PROVE  IInv'
<1> DEFINE f == runner[r].profile
<1>1. runner[r].pc \in {"cancel", "fail"} /\ Returns(r) /\ UNCHANGED <<retrieval, world>>
    BY DEF Persist
<1>2. CASE UpdateFails(r) /\ UNCHANGED run
    BY <1>1, <1>2, UpdateFailsFacts, ReturnStep
<1>3. CASE CanUpdate(r) /\ SaveState(r, state) /\ UNCHANGED <<used, lost>>
  <2>1. f \in Profiles /\ runner[r].fresh /\ run[f] # None /\ run[f] \in Row /\ workRevision \in Nat
    BY <1>1, <1>3, CopyFacts DEF CanUpdate, IInv, LedgerInv, RowInv
  <2> DEFINE row == [run[f] EXCEPT !.state = state]
  <2>2. run' = [run EXCEPT ![f] = row]
    BY <1>3 DEF SaveState
  <2>3. row \in Row /\ row.watermark = run[f].watermark /\ row.stage = run[f].stage /\ row.state = state
    BY <2>1 DEF Row
  <2> HIDE DEF row
  <2>4. /\ run' \in [Profiles -> Row \cup {None}] /\ run'[f] = row
        /\ \A g \in Profiles : g # f => run'[g] = run[g]
    BY <2>1, <2>2, <2>3 DEF IInv, RowInv
  <2>5. /\ runner'[r] = Idle /\ runner' \in [Runners -> Copies]
        /\ \A s \in Runners : s # r => runner'[s] = runner[s]
    BY <1>1, IdleFacts DEF Returns, IInv, CopyInv
  <2>6. runner'[r].watermark <= workRevision /\ runner'[r].out.successor <= workRevision
        /\ ~runner'[r].attached /\ ~runner'[r].fresh /\ runner'[r].pc = "idle"
    BY <2>1, <2>5, IdleFacts
  <2>7. WorldInv'
    BY <1>1, <1>3 DEF IInv, WorldInv, world
  <2>8. RunningHasARunner'
    <3> SUFFICES ASSUME NEW g \in Profiles, run'[g] # None, run'[g].state = "running", ~lost'
                 PROVE  \E s \in Runners : runner'[s].fresh /\ runner'[s].profile = g
      BY DEF RunningHasARunner
    <3>1. g # f /\ run[g] # None /\ run[g].state = "running" /\ ~lost
      BY <1>3, <2>3, <2>4
    <3>2. PICK s \in Runners : runner[s].fresh /\ runner[s].profile = g
      BY <3>1 DEF IInv, RunningHasARunner
    <3>3. s # r
      BY <3>1, <3>2
    <3> QED
      BY <2>5, <3>2, <3>3
  <2>9. \A g \in Profiles : run'[g] # None =>
              /\ run[g] # None /\ run'[g].watermark = run[g].watermark
              /\ run'[g].stage = run[g].stage
    BY <2>1, <2>3, <2>4
  <2>10. row # None
    BY <2>3, NoneAssumption
  <2> HIDE DEF f
  <2>11. \A s \in Runners \ {r} :
              /\ runner'[s] = runner[s]
              /\ runner'[s].attached => run'[runner[s].profile] # None
              /\ runner'[s].fresh => runner'[s].attached
    BY <2>4, <2>5, <2>10, CopyFacts DEF IInv, LedgerInv
  <2> QED
    BY <1>1, <2>1, <2>4, <2>5, <2>6, <2>7, <2>8, <2>9, <2>11, LetGoStep
<1> QED
    BY <1>2, <1>3 DEF Persist

LEMMA CancelStep ==
    ASSUME IInv, NEW r \in Runners, Cancel(r)
    PROVE  IInv'
<1> DEFINE c == [runner[r] EXCEPT !.cancelled = TRUE]
<1>1. /\ runner[r].pc # "idle" /\ runner' = [runner EXCEPT ![r] = c]
      /\ UNCHANGED <<retrieval, run, world, lost>> /\ Disturbed
    BY DEF Cancel
<1>2. /\ c \in Copies /\ c.pc = runner[r].pc /\ c.profile = runner[r].profile
      /\ c.watermark = runner[r].watermark /\ c.stage = runner[r].stage /\ c.out = runner[r].out
      /\ c.attached = runner[r].attached /\ c.fresh = runner[r].fresh
    BY CopyFacts DEF Copies
<1> HIDE DEF c
<1>3. c.out.successor <= workRevision
    BY <1>2 DEF IInv, CopyInv
<1>4. WorldInv'
    BY <1>1, DisturbedType DEF IInv, WorldInv, world
<1>5. runner[r].fresh =>
             /\ c.pc = "record" => Honest(r, c.out)
             /\ c.pc = "complete" => c.out.complete /\ Honest(r, c.out)
    BY <1>2 DEF IInv, OutcomeInv
<1> QED
    BY <1>1, <1>2, <1>3, <1>4, <1>5, NoDataStep, CopyStep

LEMMA CrashStep ==
    ASSUME IInv, NEW r \in Runners, Crash(r)
    PROVE  IInv'
<1>1. Returns(r) /\ lost' /\ UNCHANGED <<retrieval, run, world>> /\ Disturbed /\ lost' = TRUE
    BY DEF Crash
<1>2. WorldInv'
    BY <1>1, DisturbedType DEF IInv, WorldInv, world
<1> QED
    BY <1>1, <1>2, ReturnStep

-----------------------------------------------------------------------------
LEMMA InitIInv ==
    ASSUME Init
    PROVE  IInv
<1> DEFINE order == CHOOSE o \in Bijection(Backlog, 1 .. workRevision) : TRUE
<1>1. IsFiniteSet(Backlog) /\ Backlog \in SUBSET Parents
    BY RefreshAssumption, FS_Subset
<1>2. Cardinality(Backlog) \in Nat /\ ExistsBijection(1 .. Cardinality(Backlog), Backlog)
    BY <1>1, FS_CardinalityType
<1>3. /\ workRevision = Cardinality(Backlog) /\ workRevision \in Nat
      /\ workRevision <= MaxRevision /\ MaxRevision \in Nat
    BY <1>2, RefreshAssumption DEF Init
<1>4. Bijection(Backlog, 1 .. workRevision) # {}
  <2>1. ExistsBijection(Backlog, 1 .. workRevision)
    BY <1>2, <1>3, Fun_ExistsBijSymmetric
  <2> QED
    BY <2>1 DEF ExistsBijection
<1>5. order \in Bijection(Backlog, 1 .. workRevision)
    BY <1>4
<1>6. order \in [Backlog -> 1 .. workRevision]
    BY <1>5 DEF Bijection, Injection
<1>7. dirty = [p \in Parents |-> IF p \in Backlog THEN order[p] ELSE 0]
    BY DEF Init
<1> HIDE DEF order
<1>8. ASSUME NEW p \in Parents PROVE (IF p \in Backlog THEN order[p] ELSE 0) \in 0 .. MaxRevision
  <2>1. CASE p \in Backlog
    <3>1. order[p] \in 1 .. workRevision
      BY <1>6, <2>1
    <3> QED
      BY <1>3, <2>1, <3>1
  <2>2. CASE p \notin Backlog
    BY <1>3, <2>2
  <2> QED
    BY <2>1, <2>2
<1>9. dirty \in [Parents -> 0 .. MaxRevision] /\ workRevision \in 0 .. MaxRevision
    BY <1>3, <1>7, <1>8
<1>10. DataInv
  <2>1. /\ embedding = [f \in Profiles |-> [p \in Parents |-> "none"]]
        /\ revision = [f \in Profiles |-> [p \in Parents |-> 0]]
        /\ generation = [f \in Profiles |-> 0] /\ snapshot = [f \in Profiles |-> 0]
    BY DEF Init
  <2> QED
    BY <1>9, <2>1 DEF DataInv
<1>11. SegmentInv
  <2>1. segments = [f \in Profiles |-> <<>>]
    BY DEF Init
  <2>2. <<>> \in Seq(Segment) /\ DOMAIN (<<>>) = {}
    BY EmptySeq
  <2>3. \A f \in Profiles : segments[f] = <<>>
    BY <2>1
  <2> QED
    BY <2>1, <2>2, <2>3 DEF SegmentInv
<1>12. WorldInv
  <2>1. /\ profile = CHOOSE f \in Profiles : TRUE
        /\ provider = "up" /\ used = 0
    BY DEF Init
  <2>2. Profiles # {} /\ MaxDisturbances \in Nat
    BY RefreshAssumption
  <2>3. profile \in Profiles
    BY <2>1, <2>2
  <2>4. lost \in BOOLEAN
    BY DEF Init
  <2>5. used \in 0 .. MaxDisturbances /\ provider \in {"up", "down"}
    BY <2>1, <2>2
  <2> QED
    BY <2>3, <2>4, <2>5, Zenon DEF WorldInv
<1>13. run = [f \in Profiles |-> None] /\ runner = [r \in Runners |-> Idle]
    BY DEF Init
<1>14. RowInv /\ RunningHasARunner
    BY <1>13 DEF RowInv, RunningHasARunner
<1>15. \A r \in Runners : runner[r] = Idle
    BY <1>13
<1>16. CopyInv
    BY <1>3, <1>13, <1>15, IdleFacts DEF CopyInv
<1>17. LedgerInv /\ OutcomeInv
    BY <1>15, IdleFacts DEF LedgerInv, OutcomeInv
<1> QED
    BY <1>10, <1>11, <1>12, <1>14, <1>16, <1>17 DEF IInv

LEMMA NextIInv ==
    ASSUME IInv, [Next]_vars
    PROVE  IInv'
<1>1. ASSUME NEW r \in Runners, Step(r) PROVE IInv'
  <2>1. CASE Start(r) \/ StartEmitter(r) \/ Execute(r) \/ Record(r)
    BY <2>1, StartStep, StartEmitterStep, ExecuteStep, RecordStep
  <2>2. CASE Complete(r) \/ StartSuccessor(r)
    BY <2>2, CompleteStep, StartSuccessorStep
  <2>3. CASE PersistCancelled(r)
    BY <2>3, PersistStep DEF PersistCancelled
  <2>4. CASE PersistFailed(r)
    BY <2>4, PersistStep DEF PersistFailed
  <2> QED
    BY <1>1, <2>1, <2>2, <2>3, <2>4 DEF Step
<1>2. ASSUME NEW r \in Runners, Refresh(r) \/ StageFails(r) \/ Cancel(r) \/ Crash(r) PROVE IInv'
    BY <1>2, RefreshStep, StageFailsStep, CancelStep, CrashStep
<1>3. ASSUME NEW p \in Parents, SourceWrite(p) PROVE IInv'
    BY <1>3, SourceWriteStep
<1>4. ASSUME NEW p \in Parents, NEW f \in Profiles, CooldownEnds(f, p) PROVE IInv'
    BY <1>4, CooldownStep
<1>5. CASE ProviderFails \/ ProviderRecovers \/ \E f \in Profiles : SwitchProfile(f)
  <2>1. UNCHANGED <<retrieval, run, runner, lost>>
    BY <1>5 DEF ProviderFails, ProviderRecovers, SwitchProfile
  <2>2. WorldInv'
    BY <1>5, DisturbedType DEF ProviderFails, ProviderRecovers, SwitchProfile, IInv, WorldInv
  <2> QED
    BY <2>1, <2>2, WorldStep
<1>6. CASE UNCHANGED vars
  <2>1. UNCHANGED <<retrieval, run, runner, lost>> /\ WorldInv'
    BY <1>6 DEF vars, IInv, WorldInv, world
  <2> QED
    BY <2>1, WorldStep
<1> QED
    BY <1>1, <1>2, <1>3, <1>4, <1>5, <1>6 DEF Next

(* In every reachable state the ledger, the runners' copies, the outcomes they
   are about to record and the retrieval state agree. *)
THEOREM RefreshInvariant == Spec => []IInv
<1>1. Init => IInv
    BY InitIInv
<1>2. IInv /\ [Next]_vars => IInv'
    BY NextIInv
<1> QED
    BY <1>1, <1>2, PTL DEF Spec

LEMMA IInvType ==
    ASSUME IInv
    PROVE  TypeOK
<1>1. /\ workRevision \in 0 .. MaxRevision
      /\ dirty \in [Parents -> 0 .. MaxRevision]
      /\ embedding \in [Profiles -> [Parents -> {"none", "due", "ready", "cooling"}]]
      /\ revision \in [Profiles -> [Parents -> Nat]]
      /\ generation \in [Profiles -> Nat] /\ snapshot \in [Profiles -> Nat]
      /\ \A f \in Profiles, p \in Parents : (revision[f][p] > 0) = (embedding[f][p] = "ready")
    BY DEF IInv, DataInv
<1>2. \A f \in Profiles :
         /\ segments[f] \in Seq(Segment)
         /\ \A i, j \in DOMAIN segments[f] :
              i # j => segments[f][i].held \cap segments[f][j].held = {}
    BY DEF IInv, SegmentInv
<1>3. \A f \in Profiles : run[f] \in Row \cup {None}
    BY DEF IInv, RowInv
<1>4. \A r \in Runners :
         /\ runner[r].pc \in {"idle", "start", "emit", "stage", "record",
                              "complete", "successor", "cancel", "fail"}
         /\ runner[r].fresh => runner[r].attached
         /\ runner[r].attached => run[runner[r].profile] # None
    BY CopyFacts DEF IInv, LedgerInv, Copies
<1> QED
    BY <1>1, <1>2, <1>3, <1>4 DEF TypeOK, IInv, WorldInv

(* A run past its projection stage has projected everything up to its
   watermark: for any number of runners, faults, crashes and source writes, no
   stale copy and no repeated or lost record lets executeProjection's end be
   recorded early. *)
THEOREM StagesAreEarned == Spec => []StageIsEarned
<1>1. IInv => StageIsEarned
    BY IInvType DEF IInv, RowInv, StageIsEarned, Clean
<1> QED
    BY <1>1, RefreshInvariant, PTL

(* However runOneLedgerRun ends, it leaves no run marked running, unless a
   crash, a failed update or a colliding successor is on record. *)
THEOREM RunsAreNotAbandoned == Spec => []RunningHasARunner
<1>1. IInv => RunningHasARunner
    BY DEF IInv
<1> QED
    BY <1>1, RefreshInvariant, PTL

-----------------------------------------------------------------------------
(* What a completion finds. *)

\* The step that takes a row out of the ledger under a fresh copy.
LEMMA CompletionStep ==
    ASSUME IInv, [Next]_vars, NEW f \in Profiles, NEW r \in Runners,
           runner[r].fresh, runner[r].profile = f, runner[r].pc = "complete",
           runner'[r].pc \in {"idle", "successor"}, run'[f] = None
    PROVE  /\ \A p \in Parents : dirty[p] \notin 1 .. run[f].watermark
           /\ runner[r].out.successor = 0 =>
                \A p \in Parents : dirty[p] = 0 => embedding[f][p] \in {"none", "ready"}
           /\ runner[r].out.successor # 0 => runner[r].out.successor > run[f].watermark
<1>1. run[f].watermark = runner[r].watermark
    BY DEF IInv, LedgerInv
<1>2. runner[r].out.complete /\ Honest(r, runner[r].out)
    BY DEF IInv, OutcomeInv
<1>3. runner[r].out.next \notin {None, "projection"}
    BY <1>2, NoneAssumption DEF Honest, Stages
<1> QED
    BY <1>1, <1>2, <1>3 DEF Honest, Settled, Clean

(* Whatever a run is completed with is searchable at that moment: nothing that
   other runners or writers did between the readiness stage and the completion
   takes away what executeReadiness found. *)
THEOREM CompletionsAreEarned == Spec => CompletionIsEarned
<1>1. IInv /\ [Next]_vars =>
        \A f \in Profiles : \A r \in Runners :
           ( /\ runner[r].fresh /\ runner[r].profile = f
             /\ runner[r].pc = "complete" /\ runner'[r].pc \in {"idle", "successor"}
             /\ run'[f] = None ) =>
             /\ \A p \in Parents : dirty[p] \notin 1 .. run[f].watermark
             /\ runner[r].out.successor = 0 =>
                  \A p \in Parents : dirty[p] = 0 => embedding[f][p] \in {"none", "ready"}
             /\ runner[r].out.successor # 0 => runner[r].out.successor > run[f].watermark
    BY CompletionStep
<1> QED
    BY <1>1, RefreshInvariant, PTL DEF Spec, CompletionIsEarned


-----------------------------------------------------------------------------
(* The exact-search tail. *)

\* Only a batch of embeddings makes a due vector ready.
LEMMA OnlyBatchesReady ==
    ASSUME IInv, [Next]_vars, NEW f \in Profiles, NEW p \in Parents,
           embedding[f][p] = "due", embedding'[f][p] = "ready"
    PROVE  \E r \in Runners : ExecuteEmbedding(r)
<1> SUFFICES ASSUME \A r \in Runners : ~ExecuteEmbedding(r) PROVE FALSE
    OBVIOUS
<1>1. embedding' # embedding
    OBVIOUS
<1>2. embedding \in [Profiles -> [Parents -> {"none", "due", "ready", "cooling"}]]
    BY DEF IInv, DataInv
<1>3. ASSUME NEW r \in Runners, Execute(r) PROVE FALSE
  <2>1. CASE ExecuteProjection(r)
    <3>1. PICK q : \/ embedding' = embedding
                    \/ embedding' = [g \in Profiles |-> [embedding[g] EXCEPT ![q] = "due"]]
      <4>1. embedding' = embedding \/ \E q : ApplyProjection(q)
        BY <2>1 DEF ExecuteProjection, retrieval
      <4>2. ASSUME NEW q, ApplyProjection(q)
            PROVE  \/ embedding' = embedding
                   \/ embedding' = [g \in Profiles |-> [embedding[g] EXCEPT ![q] = "due"]]
        BY <4>2 DEF ApplyProjection
      <4> QED
        BY <4>1, <4>2
    <3>2. embedding' = [g \in Profiles |-> [embedding[g] EXCEPT ![q] = "due"]]
      BY <1>1, <3>1
    <3>3. embedding'[f] = [embedding[f] EXCEPT ![q] = "due"] /\ embedding[f] \in [Parents -> {"none", "due", "ready", "cooling"}]
      BY <1>2, <3>2
    <3> QED
      BY <3>3
  <2>2. CASE ExecuteFlush(r) \/ ExecuteCompaction(r) \/ ExecuteVerify(r) \/ ExecuteReadiness(r)
    BY <1>1, <2>2 DEF ExecuteFlush, ExecuteCompaction, ExecuteVerify, ExecuteReadiness, retrieval
  <2> QED
    BY <1>3, <2>1, <2>2 DEF Execute
<1>4. ASSUME NEW r \in Runners, Step(r) \/ Refresh(r) \/ StageFails(r) \/ Cancel(r) \/ Crash(r)
      PROVE  FALSE
  <2>1. CASE Start(r) \/ StartEmitter(r) \/ Record(r) \/ Complete(r) \/ StartSuccessor(r)
             \/ PersistCancelled(r) \/ PersistFailed(r)
    BY <1>1, <2>1 DEF Start, StartEmitter, Record, Complete, StartSuccessor, PersistCancelled,
                      PersistFailed, Persist, retrieval
  <2>2. CASE Refresh(r) \/ StageFails(r) \/ Cancel(r) \/ Crash(r)
    BY <1>1, <2>2 DEF Refresh, StageFails, Cancel, Crash, retrieval
  <2> QED
    BY <1>3, <1>4, <2>1, <2>2 DEF Step
<1>5. ASSUME NEW q \in Parents, SourceWrite(q) PROVE FALSE
    BY <1>1, <1>5 DEF SourceWrite
<1>6. ASSUME NEW q \in Parents, NEW g \in Profiles, CooldownEnds(g, q) PROVE FALSE
    BY <1>2, <1>6 DEF CooldownEnds
<1>7. CASE ProviderFails \/ ProviderRecovers \/ \E g \in Profiles : SwitchProfile(g)
    BY <1>1, <1>7 DEF ProviderFails, ProviderRecovers, SwitchProfile, retrieval
<1>8. CASE UNCHANGED vars
    BY <1>1, <1>8 DEF vars, retrieval
<1> QED
    BY <1>4, <1>5, <1>6, <1>7, <1>8 DEF Next

LEMMA UnionBound ==
    ASSUME NEW S, NEW T, IsFiniteSet(S), IsFiniteSet(T)
    PROVE  /\ IsFiniteSet(S \cup T) /\ Cardinality(S \cup T) \in Nat
           /\ Cardinality(S \cup T) <= Cardinality(S) + Cardinality(T)
<1>1. /\ IsFiniteSet(S \cup T)
      /\ Cardinality(S \cup T) = Cardinality(S) + Cardinality(T) - Cardinality(S \cap T)
    BY FS_Union
<1>2. IsFiniteSet(S \cap T)
    BY FS_Intersection
<1>3. /\ Cardinality(S) \in Nat /\ Cardinality(T) \in Nat
      /\ Cardinality(S \cap T) \in Nat /\ Cardinality(S \cup T) \in Nat
    BY <1>1, <1>2, FS_CardinalityType
<1> QED
    BY <1>1, <1>3

\* A batch fits into what a flush makes room for.
LEMMA BatchFacts ==
    ASSUME NEW f, NEW batch \in kSubset(Min({Cardinality(Candidates(f)), EmbeddingBatch}),
                                        Candidates(f))
    PROVE  /\ batch \in SUBSET Candidates(f) /\ batch \in SUBSET Parents /\ IsFiniteSet(batch)
           /\ Cardinality(batch) \in Nat /\ Cardinality(batch) <= SegmentTarget
<1> DEFINE T == {Cardinality(Candidates(f)), EmbeddingBatch}
<1>1. batch \in SUBSET Candidates(f) /\ Cardinality(batch) = Min(T)
    BY DEF kSubset
<1>2. Candidates(f) \in SUBSET Parents /\ IsFiniteSet(Parents)
    BY RefreshAssumption DEF Candidates
<1>3. batch \in SUBSET Parents
    BY <1>1, <1>2
<1>4. IsFiniteSet(batch) /\ IsFiniteSet(Candidates(f))
    BY <1>2, <1>3, FS_Subset
<1>5. Cardinality(Candidates(f)) \in Nat /\ Cardinality(batch) \in Nat
    BY <1>4, FS_CardinalityType
<1>6. T \in SUBSET Nat /\ EmbeddingBatch \in T /\ T # {}
    BY <1>5, RefreshAssumption
<1>7. Min(T) <= EmbeddingBatch
    BY <1>6, MinFacts
<1> HIDE DEF T
<1>8. Cardinality(batch) <= SegmentTarget
    BY <1>1, <1>5, <1>7, RefreshAssumption
<1> QED
    BY <1>1, <1>3, <1>4, <1>5, <1>8

\* What a batch adds to L0.
LEMMA BatchTail ==
    ASSUME DataInv, NEW f \in Profiles, NEW batch \in SUBSET Candidates(f), NEW r, NEW gen,
           snapshot' \in [Profiles -> Nat], EmbedBatch(r, f, batch, gen)
    PROVE  \A q \in Parents : embedding'[f][q] = "ready" => embedding[f][q] = "ready" \/ q \in batch
<1>1. PutReady(f, batch) \/ PutFailed(f, batch) \/ UNCHANGED embedding
    BY DEF EmbedBatch
<1>2. \A q \in Parents : q \notin batch => embedding'[f][q] = embedding[f][q]
    BY <1>1, PutFacts
<1> QED
    BY <1>2

LEMMA TailStep ==
    ASSUME IInv, [Next]_vars, NEW f \in Profiles, NEW p \in Parents,
           embedding[f][p] = "due", embedding'[f][p] = "ready",
           Cardinality(L0(f)) <= SegmentHardLimit
    PROVE  Cardinality(L0(f)') <= SegmentHardLimit
<1>1. PICK r \in Runners : ExecuteEmbedding(r)
    BY OnlyBatchesReady
<1>2. runner[r].profile \in Profiles /\ DataInv /\ SegmentInv
    BY <1>1, CopyFacts DEF IInv, ExecuteEmbedding, At
<1>a. PICK g \in Profiles : g = runner[r].profile
    BY <1>2
<1>3. PICK batch \in kSubset(Min({Cardinality(Candidates(g)), EmbeddingBatch}), Candidates(g)) :
         IF batch = {} \/ ~MustFlushFirst(g, batch)
         THEN UNCHANGED index /\ EmbedBatch(r, g, batch, runner[r].gen)
         ELSE \/ \E window \in FlushWindow(g) :
                     Flushes(g, window) /\ EmbedBatch(r, g, batch, generation'[g])
              \/ /\ FlushWindow(g) = {}
                 /\ FailsAt(r, runner[r].gen) /\ UNCHANGED <<embedding, revision, index>>
    BY <1>1, <1>a DEF ExecuteEmbedding
<1>4. /\ batch \in SUBSET Candidates(g) /\ batch \in SUBSET Parents /\ IsFiniteSet(batch)
      /\ Cardinality(batch) \in Nat /\ Cardinality(batch) <= SegmentTarget
    BY BatchFacts
<1>5. L0(f) \in SUBSET Parents /\ IsFiniteSet(L0(f)) /\ Cardinality(L0(f)) \in Nat
  <2>1. L0(f) \in SUBSET Parents
    BY DEF L0
  <2>2. IsFiniteSet(L0(f))
    BY <2>1, RefreshAssumption, FS_Subset
  <2> QED
    BY <2>1, <2>2, FS_CardinalityType
<1>6. SegmentTarget \in Nat /\ SegmentHardLimit \in Nat
    BY RefreshAssumption
<1>7. embedding' # embedding
    OBVIOUS
\* Without a flush there was room for the batch.
<1>8. ASSUME batch = {} \/ ~MustFlushFirst(g, batch), UNCHANGED index,
             EmbedBatch(r, g, batch, runner[r].gen)
      PROVE  Cardinality(L0(f)') <= SegmentHardLimit
  <2>1. snapshot' \in [Profiles -> Nat] /\ segments' = segments
    BY <1>2, <1>8 DEF index, DataInv
  <2>2. f = g /\ batch # {}
    <3>1. PutReady(g, batch) \/ PutFailed(g, batch)
      BY <1>7, <1>8 DEF EmbedBatch
    <3> QED
      BY <1>2, <1>4, <2>1, <3>1, PutFacts
  <2>3. L0(f)' \in SUBSET (L0(f) \cup batch)
    <3>1. \A q \in Parents : embedding'[f][q] = "ready" => embedding[f][q] = "ready" \/ q \in batch
      BY <1>2, <1>4, <1>8, <2>1, <2>2, BatchTail
    <3>2. Held(f)' = Held(f)
      BY <2>1 DEF Held
    <3> QED
      BY <3>1, <3>2 DEF L0
  <2>4. /\ IsFiniteSet(L0(f) \cup batch)
        /\ Cardinality(L0(f) \cup batch) \in Nat
        /\ Cardinality(L0(f) \cup batch) <= Cardinality(L0(f)) + Cardinality(batch)
    BY <1>4, <1>5, UnionBound
  <2>5. Cardinality(L0(f)') <= Cardinality(L0(f) \cup batch) /\ Cardinality(L0(f)') \in Nat
    BY <2>3, <2>4, FS_Subset, FS_CardinalityType
  <2>6. Cardinality(L0(f)) <= SegmentHardLimit - Cardinality(batch)
    BY <1>4, <1>5, <1>6, <1>8, <2>2 DEF MustFlushFirst
  <2> QED
    BY <1>4, <1>5, <1>6, <2>4, <2>5, <2>6
\* A flush took away at least as much as the batch brings.
<1>9. ASSUME NEW window \in FlushWindow(g), Flushes(g, window),
             EmbedBatch(r, g, batch, generation'[g])
      PROVE  Cardinality(L0(f)') <= SegmentHardLimit
  <2>1. /\ snapshot' \in [Profiles -> Nat]
        /\ window \in SUBSET L0(g) /\ Cardinality(window) = SegmentTarget
        /\ \A q : q \in Held(g)' <=> q \in Held(g) \/ q \in window
    BY <1>2, <1>9, FlushFacts
  <2>2. f = g
    <3>1. PutReady(g, batch) \/ PutFailed(g, batch)
      BY <1>7, <1>9 DEF EmbedBatch
    <3> QED
      BY <1>2, <1>4, <2>1, <3>1, PutFacts
  <2> DEFINE rest == L0(f) \ window
  <2>3. L0(f)' \in SUBSET (rest \cup batch)
    <3>1. \A q \in Parents : embedding'[f][q] = "ready" => embedding[f][q] = "ready" \/ q \in batch
      BY <1>2, <1>4, <1>9, <2>1, <2>2, BatchTail
    <3>2. \A q : q \in Held(f)' <=> q \in Held(f) \/ q \in window
      BY <2>1, <2>2
    <3> QED
      BY <3>1, <3>2 DEF L0
  <2>4. /\ IsFiniteSet(rest) /\ Cardinality(rest) = Cardinality(L0(f)) - SegmentTarget
        /\ Cardinality(rest) \in Nat
    <3>1. IsFiniteSet(window) /\ window \in SUBSET L0(f)
      BY <1>5, <2>1, <2>2, FS_Subset
    <3>2. L0(f) \cap window = window
      BY <3>1
    <3>3. IsFiniteSet(rest) /\ Cardinality(rest) = Cardinality(L0(f)) - Cardinality(L0(f) \cap window)
      BY <1>5, FS_Difference
    <3> QED
      BY <2>1, <3>2, <3>3, FS_CardinalityType
  <2> HIDE DEF rest
  <2>5. /\ IsFiniteSet(rest \cup batch)
        /\ Cardinality(rest \cup batch) \in Nat
        /\ Cardinality(rest \cup batch) <= Cardinality(rest) + Cardinality(batch)
    BY <1>4, <2>4, UnionBound
  <2>6. Cardinality(L0(f)') <= Cardinality(rest \cup batch) /\ Cardinality(L0(f)') \in Nat
    BY <2>3, <2>5, FS_Subset, FS_CardinalityType
  <2> QED
    BY <1>4, <1>5, <1>6, <2>4, <2>5, <2>6
<1> QED
    BY <1>3, <1>7, <1>8, <1>9

(* No batch of executeEmbedding takes the exact-search tail over the limit that
   a query can scan, for every batch size up to the segment target: a batch is
   put into room that was there, or behind a flush of a whole segment. *)
THEOREM TheTailStaysBounded == Spec => EmbeddingKeepsL0Bounded
<1>1. IInv /\ [Next]_vars =>
        \A f \in Profiles :
           ( /\ \E p \in Parents : embedding[f][p] = "due" /\ embedding'[f][p] = "ready"
             /\ Cardinality(L0(f)) <= SegmentHardLimit ) =>
               Cardinality(L0(f)') <= SegmentHardLimit
    BY TailStep
<1> QED
    BY <1>1, RefreshInvariant, PTL DEF Spec, EmbeddingKeepsL0Bounded
================================================================================
