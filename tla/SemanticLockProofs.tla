-------------------------- MODULE SemanticLockProofs ---------------------------
(***************************************************************************)
(* The leases of the semantic index for any number of writers, queries,    *)
(* cold loads, dry runs, maintainers and workers: readers exclude          *)
(* publication, references are counted exactly, and generation is only     *)
(* taken under maintenance.                                                *)
(***************************************************************************)
EXTENDS SemanticLock, FiniteSetTheorems, TLAPS

\* A handle that counts, or that has yet to give up the kernel lock.
Kept(h) == lease[h] \in {"open", "closed", "last"}

\* Who can be where in the two kernel locks, and that they exclude.
LockInv ==
    /\ gWriters = {} \/ gReaders = {}
    /\ gWriters \subseteq Workers /\ gReaders \subseteq Queries \cup Planners
    /\ mWriters \subseteq Maintainers

\* A guard shares the leaseState of a query, everybody else has one of his own, and
\* whoever closes the kernel lock is the only one left.
HandleInv ==
    /\ \A h \in Queries \cup Workers : stateOf[h] = h
    /\ \A g \in Guards : lease[g] # "none" => stateOf[g] \in Queries
    /\ \A h \in Queries \cup Guards : lease[h] \in {"none", "open", "closed", "last"}
    /\ \A h, k \in Handles : lease[h] = "last" /\ stateOf[k] = stateOf[h] /\ Kept(k) => k = h

CountInv == \A k \in Queries \cup Workers : refs[k] = Cardinality(HandlesOf(k))

\* The kernel lock is held for the handles that need it.
ReaderInv ==
    \A q \in Queries : q \in gReaders <=> \E h \in Handles : stateOf[h] = q /\ Kept(h)

WriterInv ==
    \A w \in Workers :
        /\ w \in gWriters <=> Kept(w)
        /\ gIntent[w] # 0 => lease[w] \in {"wait", "open", "closed", "last", "intent"}

\* A maintainer holds its lock until the last of its children has given back the
\* other one: a worker waits under l.mu, and is a child from then on.
ChildInv ==
    /\ \A m \in Maintainers :
          /\ m \in mWriters <=> job[m] \in {"open", "closing"}
          /\ mlMu[m] # None => job[m] = "open"
    /\ \A w \in Workers :
          LET m == MaintainerOf[w] IN
          /\ lease[w] = "wait" => mlMu[m] = w
          /\ lease[w] \in {"open", "closed", "last", "intent"} =>
                \/ job[m] = "open" /\ w \in children[m]
                \/ job[m] = "closing" /\ w \in closing[m]

IInv == TypeOK /\ LockInv /\ HandleInv /\ CountInv /\ ReaderInv /\ WriterInv /\ ChildInv

-----------------------------------------------------------------------------
\* Finitely many handles share a leaseState.
LEMMA HandlesFinite == \A k : IsFiniteSet(HandlesOf(k))
<1>1. \A k : HandlesOf(k) \subseteq Handles
    BY DEF HandlesOf
<1> QED
    BY <1>1, KindAssumption, FS_Subset DEF Handles

\* The leaseState of a handle that is not given up yet belongs to a query or a worker,
\* and counts that handle.
LEMMA HandleIsCounted ==
    ASSUME IInv, NEW h \in Handles, lease[h] \in {"open", "closed"}
    PROVE  /\ stateOf[h] \in Queries \cup Workers
           /\ h \in HandlesOf(stateOf[h])
           /\ refs[stateOf[h]] = Cardinality(HandlesOf(stateOf[h]))
           /\ refs[stateOf[h]] \in Nat \ {0}
<1>1. stateOf[h] \in Queries \cup Workers
    BY DEF IInv, HandleInv, Handles
<1>2. h \in HandlesOf(stateOf[h])
    BY DEF HandlesOf
<1>3. refs[stateOf[h]] = Cardinality(HandlesOf(stateOf[h]))
    BY <1>1 DEF IInv, CountInv
<1>4. Cardinality(HandlesOf(stateOf[h])) \in Nat \ {0}
    BY <1>2, HandlesFinite, FS_CardinalityType, FS_EmptySet
<1> QED
    BY <1>1, <1>2, <1>3, <1>4

\* The last reference is that of the handle that is being released.
LEMMA LastIsAlone ==
    ASSUME IInv, NEW h \in Handles, lease[h] \in {"open", "closed"}
    PROVE  /\ IsLast(stateOf[h]) => HandlesOf(stateOf[h]) = {h}
           /\ ~IsLast(stateOf[h]) => HandlesOf(stateOf[h]) \ {h} # {}
<1> DEFINE S == HandlesOf(stateOf[h])
<1>1. h \in S /\ refs[stateOf[h]] = Cardinality(S)
    BY HandleIsCounted
<1> HIDE DEF S
<1>2. IsFiniteSet(S)
    BY HandlesFinite DEF S
<1>3. IsFiniteSet(S \ {h}) /\ Cardinality(S \ {h}) = Cardinality(S) - 1
    BY <1>1, <1>2, FS_RemoveElement
<1>4. Cardinality(S) \in Nat
    BY <1>2, FS_CardinalityType
<1>5. Cardinality(S) = 1 => S \ {h} = {}
    BY <1>3, <1>4, FS_EmptySet
<1>6. Cardinality(S) # 1 => S \ {h} # {}
    BY <1>3, <1>4, FS_EmptySet
<1> QED
    BY <1>1, <1>5, <1>6 DEF IsLast, S

\* A source writer becomes a reader of maintenance.
LEMMA WriterAcquireStep ==
    ASSUME IInv, NEW w \in SourceWriters, WriterAcquire(w)
    PROVE  IInv'
<1> USE DEF IInv, WriterAcquire, Move, Maintenance!AdmitReader, mVars, gVars, leaseVars, mlVars
<1>1. TypeOK'
    BY DEF TypeOK, MaintenanceClients
<1>2. ChildInv'
    BY KindAssumption DEF ChildInv
<1>3. LockInv' /\ HandleInv' /\ CountInv' /\ ReaderInv' /\ WriterInv'
    BY DEF LockInv, HandleInv, Kept, CountInv, HandlesOf, ReaderInv, WriterInv
<1> QED
    BY <1>1, <1>2, <1>3

\* A source writer leaves.
LEMMA WriterCloseStep ==
    ASSUME IInv, NEW w \in SourceWriters, WriterClose(w)
    PROVE  IInv'
<1> USE DEF IInv, WriterClose, Move, Maintenance!Leave, mVars, gVars, leaseVars, mlVars
<1>1. TypeOK'
    BY DEF TypeOK
<1>2. LockInv'
    BY DEF LockInv
<1>3. ChildInv'
    BY JobAssumption, KindAssumption DEF ChildInv
<1>4. HandleInv' /\ CountInv' /\ ReaderInv' /\ WriterInv'
    BY DEF HandleInv, Kept, CountInv, HandlesOf, ReaderInv, WriterInv
<1> QED
    BY <1>1, <1>2, <1>3, <1>4

\* A dry run becomes a reader of maintenance, then of generation.
LEMMA PlannerAcquireStep ==
    ASSUME IInv, NEW p \in Planners, PlannerAcquire(p)
    PROVE  IInv'
<1> USE DEF IInv, PlannerAcquire, Move, AdmitTo, LockOrder, Maintenance!AdmitReader,
      Generation!AdmitReader, mVars, gVars, leaseVars, mlVars
<1>1. TypeOK'
    BY DEF TypeOK, MaintenanceClients, GenerationClients
<1>2. LockInv'
    BY DEF LockInv
<1>3. ReaderInv'
    BY KindAssumption DEF ReaderInv, Kept
<1>4. ChildInv'
    BY JobAssumption DEF TypeOK, ChildInv, MaintenanceClients
<1>5. HandleInv' /\ CountInv' /\ WriterInv'
    BY DEF HandleInv, Kept, CountInv, HandlesOf, WriterInv
<1> QED
    BY <1>1, <1>2, <1>3, <1>4, <1>5

\* A dry run leaves both locks in reverse order.
LEMMA PlannerCloseStep ==
    ASSUME IInv, NEW p \in Planners, PlannerClose(p)
    PROVE  IInv'
<1> USE DEF IInv, PlannerClose, Move, LeaveFrom, LockOrder, Maintenance!Leave, Generation!Leave,
      mVars, gVars, leaseVars, mlVars
<1>1. TypeOK'
    BY DEF TypeOK
<1>2. LockInv'
    BY DEF LockInv
<1>3. ReaderInv'
    BY KindAssumption DEF ReaderInv, Kept
<1>4. WriterInv'
    BY KindAssumption DEF WriterInv, Kept
<1>5. ChildInv'
    BY JobAssumption DEF TypeOK, ChildInv, MaintenanceClients
<1>6. HandleInv' /\ CountInv'
    BY DEF HandleInv, Kept, CountInv, HandlesOf
<1> QED
    BY <1>1, <1>2, <1>3, <1>4, <1>5, <1>6

\* A dry run gives up the second lock.
LEMMA PlannerTimeoutStep ==
    ASSUME IInv, NEW p \in Planners, PlannerTimeout(p)
    PROVE  IInv'
<1> USE DEF IInv, PlannerTimeout, Move, mVars, gVars, leaseVars, mlVars
<1>1. TypeOK'
    BY DEF TypeOK
<1>2. ChildInv'
    BY DEF ChildInv
<1>3. LockInv' /\ HandleInv' /\ CountInv' /\ ReaderInv' /\ WriterInv'
    BY DEF LockInv, HandleInv, Kept, CountInv, HandlesOf, ReaderInv, WriterInv
<1> QED
    BY <1>1, <1>2, <1>3

\* A query gets a leaseState that no handle refers to.
LEMMA QueryAcquireStep ==
    ASSUME IInv, NEW q \in Queries, QueryAcquire(q)
    PROVE  IInv'
<1> USE DEF IInv, QueryAcquire, Fresh, Turn, Generation!AdmitReader, mVars, gVars, leaseVars,
      mlVars
<1>1. TypeOK'
    BY DEF TypeOK, GenerationClients
<1>2. LockInv'
    BY DEF LockInv
<1>3. HandleInv'
    BY DEF HandleInv, Kept
<1>4. CountInv'
    <2>1. HandlesOf(q)' = {q}
        BY DEF TypeOK, HandleInv, HandlesOf, Handles
    <2>2. \A k \in (Queries \cup Workers) \ {q} : HandlesOf(k)' = HandlesOf(k)
        BY DEF IInv, HandleInv, HandlesOf
    <2>3. refs' = [refs EXCEPT ![q] = 1]
        BY DEF QueryAcquire
    <2> QED
        BY <2>1, <2>2, FS_Singleton DEF TypeOK, CountInv, Handles
<1>5. ReaderInv'
    BY DEF TypeOK, HandleInv, ReaderInv, Kept, Handles
<1>6. WriterInv'
    BY KindAssumption DEF WriterInv, Kept
<1>7. ChildInv'
    BY KindAssumption DEF ChildInv
<1> QED
    BY <1>1, <1>2, <1>3, <1>4, <1>5, <1>6, <1>7

\* A cold load shares the leaseState of a query.
LEMMA RetainStep ==
    ASSUME IInv, NEW q \in Queries, NEW g \in Guards, Retain(q, g)
    PROVE  IInv'
<1> USE DEF IInv, Retain, Retainable, Turn, mVars, gVars, leaseVars, mlVars
<1>1. TypeOK'
    BY DEF TypeOK, Handles
<1>2. HandleInv'
    BY KindAssumption DEF TypeOK, HandleInv, Kept
<1>3. CountInv'
    <2>1. stateOf[q] = q /\ g \in Handles /\ lease[g] = "none" /\ refs' = [refs EXCEPT ![q] = @ + 1]
        BY DEF Retain, Turn, IInv, HandleInv, Handles
    <2>2. HandlesOf(q)' = HandlesOf(q) \cup {g} /\ g \notin HandlesOf(q)
        BY <2>1 DEF IInv, TypeOK, HandlesOf
    <2>3. \A k \in (Queries \cup Workers) \ {q} : HandlesOf(k)' = HandlesOf(k)
        BY <2>1 DEF IInv, TypeOK, HandlesOf
    <2>4. Cardinality(HandlesOf(q)') = Cardinality(HandlesOf(q)) + 1
        BY <2>2, HandlesFinite, FS_AddElement
    <2> QED
        BY <2>1, <2>3, <2>4 DEF IInv, TypeOK, CountInv, Handles
<1>4. ReaderInv'
    BY DEF TypeOK, ReaderInv, Kept, Handles
<1>5. WriterInv'
    BY KindAssumption DEF WriterInv, Kept
<1>6. ChildInv'
    BY KindAssumption DEF ChildInv
<1>7. LockInv'
    BY DEF LockInv
<1> QED
    BY <1>1, <1>2, <1>3, <1>4, <1>5, <1>6, <1>7

\* A handle is marked closed and still counts.
LEMMA CloseLeaseStep ==
    ASSUME IInv, NEW h \in Handles, CloseLease(h)
    PROVE  IInv'
<1> USE DEF IInv, CloseLease, Turn, mVars, gVars, leaseVars, mlVars
<1>1. TypeOK'
    BY DEF TypeOK
<1>2. HandleInv'
    BY DEF HandleInv, Kept
<1>3. CountInv'
    BY DEF CountInv, HandlesOf
<1>4. ReaderInv'
    BY DEF ReaderInv, Kept
<1>5. WriterInv'
    BY DEF WriterInv, Kept
<1>6. ChildInv'
    BY DEF ChildInv
<1>7. LockInv'
    BY DEF LockInv
<1> QED
    BY <1>1, <1>2, <1>3, <1>4, <1>5, <1>6, <1>7

\* A handle gives up its reference; the last one goes on to the kernel lock.
LEMMA ReleaseRefStep ==
    ASSUME IInv, NEW h \in Handles, ReleaseRef(h)
    PROVE  IInv'
<1> DEFINE k == stateOf[h]
           to == IF IsLast(k) THEN "last" ELSE "none"
<1>1. /\ lease[h] = "closed" /\ lease' = [lease EXCEPT ![h] = to]
      /\ refs' = [refs EXCEPT ![k] = @ - 1]
      /\ UNCHANGED <<mVars, gVars, job, stateOf, mlVars>>
    BY DEF ReleaseRef, Turn
<1>2. /\ k \in Queries \cup Workers /\ h \in HandlesOf(k)
      /\ refs[k] = Cardinality(HandlesOf(k)) /\ refs[k] \in Nat \ {0}
    BY <1>1, HandleIsCounted
<1>3. /\ to = "last" => HandlesOf(k) = {h}
      /\ to = "none" => HandlesOf(k) \ {h} # {}
    BY <1>1, LastIsAlone
<1>4. to \in {"last", "none"}
    OBVIOUS
<1>5. HandlesOf(k)' = HandlesOf(k) \ {h}
      /\ \A j : j # k => HandlesOf(j)' = HandlesOf(j)
    BY <1>1 DEF IInv, TypeOK, HandlesOf
<1> HIDE DEF to
<1>6. \A j \in Handles : lease[j] = "last" => stateOf[j] # k
    BY <1>1 DEF IInv, HandleInv, Kept
<1>7. TypeOK'
    BY <1>1, <1>2, <1>4 DEF IInv, TypeOK, mVars, gVars, mlVars
<1>8. LockInv'
    BY <1>1 DEF IInv, LockInv, mVars, gVars
<1>9. HandleInv'
    <2>1. \A j \in Handles : stateOf[j] = k /\ j # h /\ to = "last" => ~Kept(j)
        BY <1>3, <1>6 DEF HandlesOf, Kept
    <2>2. \A j \in Handles \ {h} : lease'[j] = lease[j]
        BY <1>1
    <2>3. lease'[h] = to
        BY <1>1 DEF IInv, TypeOK
    <2>4. \A i, j \in Handles :
              lease'[i] = "last" /\ stateOf[j] = stateOf[i] /\ Kept(j)' => j = i
        BY <1>6, <2>1, <2>2, <2>3 DEF IInv, HandleInv, Kept
    <2> QED
        BY <1>1, <1>4, <2>4 DEF IInv, HandleInv
<1>10. CountInv'
    <2>1. Cardinality(HandlesOf(k)') = Cardinality(HandlesOf(k)) - 1
        BY <1>2, <1>5, HandlesFinite, FS_RemoveElement
    <2> QED
        BY <1>1, <1>5, <2>1 DEF IInv, TypeOK, CountInv, Handles
<1>11. ReaderInv'
    <2>1. (\E j \in Handles : stateOf[j] = k /\ Kept(j)) /\ \E j \in Handles : stateOf'[j] = k /\ Kept(j)'
        BY <1>1, <1>3, <1>4 DEF HandlesOf, Kept
    <2>2. \A q \in Queries \ {k} :
              (\E j \in Handles : stateOf[j] = q /\ Kept(j)) <=> \E j \in Handles : stateOf'[j] = q /\ Kept(j)'
        BY <1>1 DEF Kept
    <2> QED
        BY <1>1, <2>1, <2>2 DEF IInv, ReaderInv, gVars
<1>12. WriterInv'
    <2>1. h \in Workers => HandlesOf(k) = {h}
        BY KindAssumption, <1>2 DEF IInv, HandleInv, HandlesOf, Handles
    <2>2. h \in Workers => to = "last"
        BY <1>3, <1>4, <2>1
    <2> QED
        BY <1>1, <2>2 DEF IInv, WriterInv, Kept, gVars
<1>13. ChildInv'
    <2>1. h \in Workers => HandlesOf(k) = {h}
        BY KindAssumption, <1>2 DEF IInv, HandleInv, HandlesOf, Handles
    <2>2. h \in Workers => to = "last"
        BY <1>3, <1>4, <2>1
    <2> QED
        BY <1>1, <2>2 DEF IInv, ChildInv, mVars, mlVars
<1> QED
    BY <1>7, <1>8, <1>9, <1>10, <1>11, <1>12, <1>13 DEF IInv

\* The last handle of a query closes the kernel lock.
LEMMA CloseSharedStep ==
    ASSUME IInv, NEW h \in Handles, CloseShared(h)
    PROVE  IInv'
<1> USE DEF IInv, CloseShared, Turn, Generation!Leave, mVars, gVars, leaseVars, mlVars
<1>1. TypeOK'
    BY DEF TypeOK
<1>2. LockInv'
    BY DEF LockInv
<1>3. HandleInv'
    BY DEF HandleInv, Kept
<1>4. CountInv'
    BY DEF CountInv, HandlesOf
<1>5. ReaderInv'
    BY DEF TypeOK, HandleInv, ReaderInv, Kept
<1>6. WriterInv'
    BY DEF HandleInv, WriterInv, Kept, Handles
<1>7. ChildInv'
    BY DEF ChildInv
<1> QED
    BY <1>1, <1>2, <1>3, <1>4, <1>5, <1>6, <1>7

\* A maintainer publishes its intent.
LEMMA MaintainerWaitStep ==
    ASSUME IInv, NEW m \in Maintainers, MaintainerWait(m)
    PROVE  IInv'
<1> USE DEF IInv, MaintainerWait, Move, Maintenance!PublishAt, mVars, gVars, leaseVars, mlVars
<1>1. TypeOK'
    BY DEF TypeOK, MaintenanceClients
<1>2. ChildInv'
    BY DEF ChildInv
<1>3. LockInv' /\ HandleInv' /\ CountInv' /\ ReaderInv' /\ WriterInv'
    BY DEF LockInv, HandleInv, Kept, CountInv, HandlesOf, ReaderInv, WriterInv
<1> QED
    BY <1>1, <1>2, <1>3

\* A maintainer gets maintenance.
LEMMA MaintainerAcquireStep ==
    ASSUME IInv, NEW m \in Maintainers, MaintainerAcquire(m)
    PROVE  IInv'
<1> USE DEF IInv, MaintainerAcquire, Move, Maintenance!AdmitWriter, mVars, gVars, leaseVars,
      mlVars
<1>1. TypeOK'
    BY DEF TypeOK, MaintenanceClients
<1>2. LockInv'
    BY DEF LockInv
<1>3. ChildInv'
    BY DEF TypeOK, ChildInv, MaintenanceClients
<1>4. HandleInv' /\ CountInv' /\ ReaderInv' /\ WriterInv'
    BY DEF HandleInv, Kept, CountInv, HandlesOf, ReaderInv, WriterInv
<1> QED
    BY <1>1, <1>2, <1>3, <1>4

\* A maintainer withdraws its intent.
LEMMA MaintainerTimeoutStep ==
    ASSUME IInv, NEW m \in Maintainers, MaintainerTimeout(m)
    PROVE  IInv'
<1> USE DEF IInv, MaintainerTimeout, Move, Maintenance!Withdraw, mVars, gVars, leaseVars, mlVars
<1>1. TypeOK'
    BY JobAssumption DEF TypeOK, MaintenanceClients
<1>2. ChildInv'
    BY DEF ChildInv
<1>3. LockInv' /\ HandleInv' /\ CountInv' /\ ReaderInv' /\ WriterInv'
    BY DEF LockInv, HandleInv, Kept, CountInv, HandlesOf, ReaderInv, WriterInv
<1> QED
    BY <1>1, <1>2, <1>3

\* A worker publishes its intent under l.mu of an open maintenance lease.
LEMMA WorkerWaitStep ==
    ASSUME IInv, NEW w \in Workers, WorkerWait(w)
    PROVE  IInv'
<1> USE DEF IInv, WorkerWait, Turn, Generation!PublishAt, mVars, gVars, leaseVars, mlVars
<1>1. TypeOK'
    BY JobAssumption DEF TypeOK, GenerationClients, Handles
<1>2. HandleInv'
    BY KindAssumption DEF HandleInv, Kept
<1>3. CountInv'
    BY DEF HandleInv, CountInv, HandlesOf, Handles
<1>4. ReaderInv'
    BY DEF ReaderInv, Kept
<1>5. WriterInv'
    BY DEF TypeOK, WriterInv, Kept, Handles
<1>6. ChildInv'
    BY JobAssumption DEF TypeOK, ChildInv
<1>7. LockInv'
    BY DEF LockInv
<1> QED
    BY <1>1, <1>2, <1>3, <1>4, <1>5, <1>6, <1>7

\* A worker gets generation and becomes a child.
LEMMA WorkerAcquireStep ==
    ASSUME IInv, NEW w \in Workers, WorkerAcquire(w)
    PROVE  IInv'
<1> USE DEF IInv, WorkerAcquire, Turn, Generation!AdmitWriter, mVars, gVars, leaseVars, mlVars
<1>1. TypeOK'
    BY JobAssumption DEF TypeOK, GenerationClients
<1>2. LockInv'
    BY DEF LockInv
<1>3. HandleInv'
    BY DEF HandleInv, Kept, Handles
<1>4. CountInv'
    <2>1. HandlesOf(w)' = {w}
        BY DEF TypeOK, HandleInv, HandlesOf, Handles
    <2>2. \A k \in (Queries \cup Workers) \ {w} : HandlesOf(k)' = HandlesOf(k)
        BY DEF IInv, HandleInv, HandlesOf
    <2>3. refs' = [refs EXCEPT ![w] = 1]
        BY DEF WorkerAcquire
    <2>4. \A k \in (Queries \cup Workers) \ {w} : refs'[k] = refs[k]
        OBVIOUS
    <2>5. refs'[w] = Cardinality(HandlesOf(w)')
        BY <2>1, FS_Singleton DEF TypeOK, Handles
    <2> QED
        BY <2>2, <2>5 DEF CountInv
<1>5. ReaderInv'
    BY DEF HandleInv, ReaderInv, Kept
<1>6. WriterInv'
    BY DEF TypeOK, WriterInv, Kept, Handles
<1>7. ChildInv'
    BY JobAssumption DEF TypeOK, ChildInv, Handles
<1> QED
    BY <1>1, <1>2, <1>3, <1>4, <1>5, <1>6, <1>7

\* A worker withdraws its intent.
LEMMA WorkerTimeoutStep ==
    ASSUME IInv, NEW w \in Workers, WorkerTimeout(w)
    PROVE  IInv'
<1> USE DEF IInv, WorkerTimeout, Turn, Generation!Withdraw, mVars, gVars, leaseVars, mlVars
<1>1. TypeOK'
    BY JobAssumption DEF TypeOK, GenerationClients, Handles
<1>2. HandleInv'
    BY DEF HandleInv, Kept
<1>3. CountInv'
    BY DEF CountInv, HandlesOf
<1>4. ReaderInv'
    BY DEF ReaderInv, Kept
<1>5. WriterInv'
    BY DEF TypeOK, WriterInv, Kept, GenerationClients
<1>6. ChildInv'
    BY DEF TypeOK, ChildInv, Handles
<1>7. LockInv'
    BY DEF LockInv
<1> QED
    BY <1>1, <1>2, <1>3, <1>4, <1>5, <1>6, <1>7

\* A worker gives up the flock, then the intent.
LEMMA CloseExclusiveStep ==
    ASSUME IInv, NEW w \in Workers, CloseExclusive(w)
    PROVE  IInv'
<1> USE DEF IInv, CloseExclusive, Turn, Generation!Leave, Generation!Withdraw, mVars, gVars,
      leaseVars, mlVars
<1>1. TypeOK'
    BY JobAssumption DEF TypeOK
<1>2. LockInv'
    BY DEF LockInv
<1>3. HandleInv'
    BY KindAssumption DEF TypeOK, HandleInv, Kept, Handles
<1>4. CountInv'
    BY DEF TypeOK, HandleInv, CountInv, HandlesOf
<1>5. ReaderInv'
    BY DEF TypeOK, HandleInv, ReaderInv, Kept
<1>6. WriterInv'
    BY DEF TypeOK, WriterInv, Kept, GenerationClients, Handles
<1>7. ChildInv'
    BY DEF TypeOK, ChildInv, Handles
<1> QED
    BY <1>1, <1>2, <1>3, <1>4, <1>5, <1>6, <1>7

\* A closed worker leaves the children.
LEMMA OnCloseStep ==
    ASSUME IInv, NEW w \in Workers, OnClose(w)
    PROVE  IInv'
<1> USE DEF IInv, OnClose, Turn, mVars, gVars, leaseVars, mlVars
<1>1. TypeOK'
    BY DEF TypeOK
<1>2. HandleInv'
    BY DEF HandleInv, Kept
<1>3. CountInv'
    BY DEF CountInv, HandlesOf
<1>4. ReaderInv'
    BY DEF ReaderInv, Kept
<1>5. WriterInv'
    BY DEF WriterInv, Kept
<1>6. ChildInv'
    BY DEF ChildInv
<1>7. LockInv'
    BY DEF LockInv
<1> QED
    BY <1>1, <1>2, <1>3, <1>4, <1>5, <1>6, <1>7

\* The children become those that Close has to close.
LEMMA MaintainerCloseStep ==
    ASSUME IInv, NEW m \in Maintainers, MaintainerClose(m)
    PROVE  IInv'
<1> USE DEF IInv, MaintainerClose, Move, OpenChildren, mVars, gVars, leaseVars, mlVars
<1>1. TypeOK'
    BY DEF TypeOK
<1>2. ChildInv'
    BY DEF TypeOK, ChildInv
<1>3. LockInv' /\ HandleInv' /\ CountInv' /\ ReaderInv' /\ WriterInv'
    BY DEF LockInv, HandleInv, Kept, CountInv, HandlesOf, ReaderInv, WriterInv
<1> QED
    BY <1>1, <1>2, <1>3

\* A maintainer without children left gives up maintenance.
LEMMA MaintainerLeaveStep ==
    ASSUME IInv, NEW m \in Maintainers, MaintainerLeave(m)
    PROVE  IInv'
<1> USE DEF IInv, MaintainerLeave, Move, Maintenance!Leave, Maintenance!Withdraw, mVars, gVars,
      leaseVars, mlVars
<1>1. TypeOK'
    BY JobAssumption DEF TypeOK
<1>2. LockInv'
    BY DEF LockInv
<1>3. ChildInv'
    BY JobAssumption DEF TypeOK, ChildInv, MaintenanceClients
<1>4. HandleInv' /\ CountInv' /\ ReaderInv' /\ WriterInv'
    BY DEF HandleInv, Kept, CountInv, HandlesOf, ReaderInv, WriterInv
<1> QED
    BY <1>1, <1>2, <1>3, <1>4

-----------------------------------------------------------------------------
\* A stuttering step.
LEMMA StutterStep ==
    ASSUME IInv, UNCHANGED vars
    PROVE  IInv'
<1> USE DEF IInv, vars, mVars, gVars, leaseVars, mlVars
<1>1. TypeOK' /\ LockInv'
    BY DEF TypeOK, LockInv
<1>2. HandleInv' /\ CountInv' /\ ReaderInv'
    BY DEF HandleInv, CountInv, ReaderInv, Kept, HandlesOf
<1>3. WriterInv' /\ ChildInv'
    BY DEF WriterInv, ChildInv, Kept
<1> QED
    BY <1>1, <1>2, <1>3

\* A child that its maintainer found closed needs no further call.
LEMMA CloseChildStep ==
    ASSUME IInv, NEW m \in Maintainers, CloseChild(m)
    PROVE  IInv'
<1>1. PICK w \in closing[m] :
          \/ CloseLease(w)
          \/ /\ lease[w] = "none"
             /\ closing' = [closing EXCEPT ![m] = @ \ {w}]
             /\ UNCHANGED <<mVars, gVars, job, leaseVars, mlMu, children>>
    BY DEF CloseChild
<1>2. w \in Workers /\ w \in Handles
    BY DEF IInv, TypeOK, Handles
<1>3. CASE CloseLease(w)
    BY <1>2, <1>3, CloseLeaseStep
<1>4. CASE /\ lease[w] = "none"
           /\ closing' = [closing EXCEPT ![m] = @ \ {w}]
           /\ UNCHANGED <<mVars, gVars, job, leaseVars, mlMu, children>>
    <2> USE <1>4 DEF IInv, mVars, gVars, leaseVars
    <2>1. TypeOK' /\ LockInv'
        BY DEF TypeOK, LockInv
    <2>2. HandleInv' /\ CountInv' /\ ReaderInv' /\ WriterInv'
        BY DEF HandleInv, CountInv, ReaderInv, WriterInv, Kept, HandlesOf
    <2>3. ChildInv'
        BY JobAssumption DEF TypeOK, ChildInv
    <2> QED
        BY <2>1, <2>2, <2>3
<1> QED
    BY <1>1, <1>3, <1>4

\* Nothing is held or wanted at the start.
LEMMA InitHolds == Init => IInv
<1> SUFFICES ASSUME Init PROVE IInv
    OBVIOUS
<1> USE DEF Init, Maintenance!Init, Generation!Init
<1>1. TypeOK
    BY JobAssumption DEF TypeOK
<1>2. LockInv /\ HandleInv
    BY DEF LockInv, HandleInv, Kept, Handles
<1>3. CountInv
    <2>1. \A k \in Handles : HandlesOf(k) = {}
        BY DEF HandlesOf
    <2> QED
        BY <2>1, FS_EmptySet DEF CountInv, Handles
<1>4. ReaderInv /\ WriterInv
    BY DEF ReaderInv, WriterInv, Kept, Handles, GenerationClients
<1>5. ChildInv
    BY JobAssumption DEF ChildInv, Handles, MaintenanceClients
<1> QED
    BY <1>1, <1>2, <1>3, <1>4, <1>5 DEF IInv

\* IInv is inductive.
LEMMA NextKeeps == IInv /\ [Next]_vars => IInv'
<1> SUFFICES ASSUME IInv, [Next]_vars PROVE IInv'
    OBVIOUS
<1>1. CASE \E w \in SourceWriters : WriterAcquire(w) \/ WriterClose(w)
    BY <1>1, WriterAcquireStep, WriterCloseStep
<1>2. CASE \E p \in Planners : PlannerAcquire(p) \/ PlannerClose(p) \/ PlannerTimeout(p)
    BY <1>2, PlannerAcquireStep, PlannerCloseStep, PlannerTimeoutStep
<1>3. CASE \E q \in Queries : QueryAcquire(q) \/ \E g \in Guards : Retain(q, g)
    BY <1>3, QueryAcquireStep, RetainStep
<1>4. CASE \E h \in Handles : CloseLease(h) \/ Give(h)
    BY <1>4, CloseLeaseStep, ReleaseRefStep, CloseSharedStep, CloseExclusiveStep, OnCloseStep
       DEF Give
<1>5. CASE \E m \in Maintainers :
              \/ MaintainerWait(m) \/ MaintainerAcquire(m) \/ MaintainerTimeout(m)
              \/ MaintainerClose(m) \/ CloseChild(m) \/ MaintainerLeave(m)
    BY <1>5, MaintainerWaitStep, MaintainerAcquireStep, MaintainerTimeoutStep,
       MaintainerCloseStep, CloseChildStep, MaintainerLeaveStep
<1>6. CASE \E w \in Workers : WorkerWait(w) \/ WorkerAcquire(w) \/ WorkerTimeout(w)
    BY <1>6, WorkerWaitStep, WorkerAcquireStep, WorkerTimeoutStep
<1>7. CASE UNCHANGED vars
    BY <1>7, StutterStep
<1> QED
    BY <1>1, <1>2, <1>3, <1>4, <1>5, <1>6, <1>7 DEF Next

\* The invariant holds in every reachable state.
LEMMA Invariant == Spec => []IInv
    BY InitHolds, NextKeeps, PTL DEF Spec

\* While a query, or a cold load that retained its lease, works on a root, nobody holds
\* the generation lock exclusively: no root is published, collected or purged under it.
THEOREM NoPublicationUnderReaders == Spec => []ReadersExcludePublication
<1>1. IInv => ReadersExcludePublication
    <2> SUFFICES ASSUME IInv, NEW h \in Queries \cup Guards, lease[h] = "open"
                 PROVE  stateOf[h] \in gReaders /\ gWriters = {}
        BY DEF ReadersExcludePublication
    <2>1. stateOf[h] \in Queries
        BY DEF IInv, HandleInv
    <2>2. stateOf[h] \in gReaders
        BY <2>1 DEF IInv, ReaderInv, Kept, Handles
    <2> QED
        BY <2>2 DEF IInv, LockInv
<1> QED
    BY <1>1, Invariant, PTL

\* leaseState.refs is the number of handles that have not been given up, and the kernel
\* lock is held exactly as long as one of them, or the one that closes it, needs it.
THEOREM LeasesStayExact == Spec => []LeasesAreExact
<1>1. IInv => LeasesAreExact
    BY DEF IInv, CountInv, ReaderInv, WriterInv, Kept, LeasesAreExact
<1> QED
    BY <1>1, Invariant, PTL

\* Generation is requested or held exclusively only under exclusive maintenance, also
\* while ExclusiveMaintenanceLease.Close closes its children.
THEOREM MaintenanceComesFirst == Spec => []GenerationUnderMaintenance
<1>1. IInv => GenerationUnderMaintenance
    <2> SUFFICES ASSUME IInv, NEW w \in Workers, gIntent[w] # 0 \/ w \in gWriters
                 PROVE  MaintainerOf[w] \in mWriters
        BY DEF GenerationUnderMaintenance
    <2>1. lease[w] \in {"wait", "open", "closed", "last", "intent"}
        BY DEF IInv, WriterInv, Kept
    <2>2. job[MaintainerOf[w]] \in {"open", "closing"}
        BY <2>1, JobAssumption DEF IInv, ChildInv
    <2> QED
        BY <2>2, JobAssumption DEF IInv, ChildInv
<1> QED
    BY <1>1, Invariant, PTL
================================================================================
