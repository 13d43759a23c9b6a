---------------------------- MODULE SemanticLock -----------------------------
(***************************************************************************)
(* The two lock families of semantic retrieval (internal/semanticlock) and  *)
(* the jobs that use them: source writers (maintenance shared), queries and *)
(* the cold loads that retain a query's lease (generation shared), the GC's *)
(* dry run (both shared) and maintainers - refresh stages, GC apply and     *)
(* purge - that hold maintenance exclusively and take generation under it.  *)
(*                                                                         *)
(* Each family is one fair lock, the specification that RunLock implements. *)
(* On top of it a lease counts references: Retain hands out another handle  *)
(* and the kernel lock goes when the last handle is closed.  An             *)
(* ExclusiveMaintenanceLease closes the generation leases it handed out     *)
(* before it gives up maintenance.                                          *)
(***************************************************************************)
EXTENDS Naturals, FiniteSets, FiniteSetsExt

CONSTANTS
    SourceWriters,  \* transactions of withAuthoritativeWriteTx
    Queries,        \* research queries with a generation lease
    Guards,         \* handles made by Lease.Retain
    Planners,       \* dry runs of semantic GC
    Maintainers,    \* owners of an ExclusiveMaintenanceLease
    Workers,        \* calls of AcquireGenerationExclusive
    MaintainerOf,   \* the ExclusiveMaintenanceLease a worker uses
    None,
    MaxIntents      \* bound: position of an intent behind the waiting ones

ASSUME JobAssumption ==
    /\ MaintainerOf \in [Workers -> Maintainers]
    /\ None \notin Workers
    /\ MaxIntents \in Nat

\* A job, or a handle, is of one kind; there are finitely many handles.
ASSUME KindAssumption ==
    /\ SourceWriters \cap (Planners \cup Maintainers) = {} /\ Planners \cap Maintainers = {}
    /\ Queries \cap (Guards \cup Planners \cup Workers) = {}
    /\ Guards \cap (Planners \cup Workers) = {} /\ Planners \cap Workers = {}
    /\ IsFiniteSet(Queries \cup Guards \cup Workers)

VARIABLES
    mIntent, mReaders, mWriters,   \* runlock of maintenance.lock
    gIntent, gReaders, gWriters,   \* runlock of generation.lock
    job,        \* where source writers, planners and maintainers stand
    lease,      \* state of each generation lease handle
    stateOf,    \* leaseState of a handle: the handle that acquired the kernel lock
    refs,       \* leaseState.refs
    mlMu,       \* worker that holds ExclusiveMaintenanceLease.mu while it waits
    children,   \* ExclusiveMaintenanceLease.children
    closing     \* children that ExclusiveMaintenanceLease.Close has to close

mVars == <<mIntent, mReaders, mWriters>>
gVars == <<gIntent, gReaders, gWriters>>
leaseVars == <<lease, stateOf, refs>>
mlVars == <<mlMu, children, closing>>
vars == <<mVars, gVars, job, leaseVars, mlVars>>

MaintenanceClients == SourceWriters \cup Planners \cup Maintainers
GenerationClients == Queries \cup Planners \cup Workers
Handles == Queries \cup Guards \cup Workers

Maintenance == INSTANCE FairRWLock WITH
    Clients <- MaintenanceClients, intent <- mIntent, readers <- mReaders, writers <- mWriters
Generation == INSTANCE FairRWLock WITH
    Clients <- GenerationClients, intent <- gIntent, readers <- gReaders, writers <- gWriters

Init ==
    /\ Maintenance!Init
    /\ Generation!Init
    /\ job = [j \in MaintenanceClients |-> "idle"]
    /\ lease = [h \in Handles |-> "none"]
    /\ stateOf = [h \in Handles |-> h]
    /\ refs = [k \in Handles |-> 0]
    /\ mlMu = [m \in Maintainers |-> None]
    /\ children = [m \in Maintainers |-> {}]
    /\ closing = [m \in Maintainers |-> {}]

Move(j, from, to) == job[j] = from /\ job' = [job EXCEPT ![j] = to]
Turn(h, from, to) == lease[h] = from /\ lease' = [lease EXCEPT ![h] = to]

\* The place behind all published intents.
Behind(intent) == 1 + Max({0} \cup {intent[c] : c \in DOMAIN intent})

-----------------------------------------------------------------------------
(* Source writers and the dry run of GC.                                   *)

\* withAuthoritativeWriteTx gets its lease, runs the transaction and closes it.
WriterAcquire(w) ==
    /\ Move(w, "idle", "open")
    /\ Maintenance!AdmitReader(w)
    /\ UNCHANGED <<gVars, leaseVars, mlVars>>

WriterClose(w) ==
    /\ Move(w, "open", "idle")
    /\ Maintenance!Leave(w)
    /\ UNCHANGED <<gVars, leaseVars, mlVars>>

\* Mutant: the dry run takes generation before maintenance.
GenerationFirst == <<"generation", "maintenance">>

\* The order of the two locks in a dry run.
LockOrder == <<"maintenance", "generation">>

AdmitTo(family, p) ==
    \/ family = "maintenance" /\ Maintenance!AdmitReader(p) /\ UNCHANGED gVars
    \/ family = "generation" /\ Generation!AdmitReader(p) /\ UNCHANGED mVars

LeaveFrom(family, p) ==
    \/ family = "maintenance" /\ Maintenance!Leave(p) /\ UNCHANGED gVars
    \/ family = "generation" /\ Generation!Leave(p) /\ UNCHANGED mVars

PlannerAcquire(p) ==
    /\ \/ Move(p, "idle", "first") /\ AdmitTo(LockOrder[1], p)
       \/ Move(p, "first", "both") /\ AdmitTo(LockOrder[2], p)
    /\ UNCHANGED <<leaseVars, mlVars>>

\* Deferred closes run in reverse order; the second lock may not have been
\* obtained within the lock timeout.
PlannerClose(p) ==
    /\ \/ Move(p, "both", "last") /\ LeaveFrom(LockOrder[2], p)
       \/ Move(p, "last", "idle") /\ LeaveFrom(LockOrder[1], p)
    /\ UNCHANGED <<leaseVars, mlVars>>

PlannerTimeout(p) ==
    /\ Move(p, "first", "last")
    /\ UNCHANGED <<mVars, gVars, leaseVars, mlVars>>

-----------------------------------------------------------------------------
(* Leases with references.                                                 *)

\* No handle refers to a leaseState: its identity can stand for a new one.
Fresh(k) == \A h \in Handles : stateOf[h] = k => lease[h] = "none"

\* AcquireGenerationShared of a query.
QueryAcquire(q) ==
    /\ Fresh(q)
    /\ Turn(q, "none", "open")
    /\ Generation!AdmitReader(q)
    /\ refs' = [refs EXCEPT ![q] = 1]
    /\ UNCHANGED <<mVars, job, stateOf, mlVars>>

\* Mutant: a lease can be retained while its last reference closes the lock.
RetainableLate(h) == lease[h] \in {"open", "last"}

\* !l.closed, and then the state is not closing and has references.
Retainable(h) == lease[h] = "open" /\ refs[stateOf[h]] > 0

\* Lease.Retain by the cold load of a query: only a query's own handle is retained.
Retain(h, g) ==
    /\ Retainable(h)
    /\ Turn(g, "none", "open")
    /\ stateOf' = [stateOf EXCEPT ![g] = stateOf[h]]
    /\ refs' = [refs EXCEPT ![stateOf[h]] = @ + 1]
    /\ UNCHANGED <<mVars, gVars, job, mlVars>>

\* Lease.Close: the handle is marked closed; a second call waits for the first.
CloseLease(h) ==
    /\ Turn(h, "open", "closed")
    /\ UNCHANGED <<mVars, gVars, job, stateOf, refs, mlVars>>

\* Mutant: every handle gives up the kernel lock.
IsLastOfAny(k) == TRUE

\* s.refs == 0 after the decrement
IsLast(k) == refs[k] = 1

\* leaseState.release: the last reference takes the kernel lock with it.
ReleaseRef(h) ==
    LET k == stateOf[h] IN
    /\ Turn(h, "closed", IF IsLast(k) THEN "last" ELSE "none")
    /\ refs' = [refs EXCEPT ![k] = @ - 1]
    /\ UNCHANGED <<mVars, gVars, job, stateOf, mlVars>>

\* lock.Close() of a shared lease.
CloseShared(h) ==
    /\ h \notin Workers
    /\ Turn(h, "last", "none")
    /\ Generation!Leave(stateOf[h])
    /\ UNCHANGED <<mVars, job, stateOf, refs, mlVars>>

-----------------------------------------------------------------------------
(* ExclusiveMaintenanceLease.                                              *)

\* AcquireMaintenanceExclusive publishes its intent, and gets the lock or gives up.
MaintainerWait(m) ==
    /\ Move(m, "idle", "wait")
    /\ Behind(mIntent) <= MaxIntents
    /\ Maintenance!PublishAt(m, Behind(mIntent))
    /\ UNCHANGED <<gVars, leaseVars, mlVars>>

MaintainerAcquire(m) ==
    /\ Move(m, "wait", "open")
    /\ Maintenance!AdmitWriter(m)
    /\ UNCHANGED <<gVars, leaseVars, mlVars>>

MaintainerTimeout(m) ==
    /\ Move(m, "wait", "idle")
    /\ Maintenance!Withdraw(m)
    /\ UNCHANGED <<gVars, leaseVars, mlVars>>

\* AcquireGenerationExclusive: l.mu is held from here until the lock is obtained
\* or the attempt fails.
WorkerWait(w) ==
    LET m == MaintainerOf[w] IN
    /\ mlMu[m] = None
    /\ job[m] = "open"
    /\ Turn(w, "none", "wait")
    /\ Behind(gIntent) <= MaxIntents
    /\ Generation!PublishAt(w, Behind(gIntent))
    /\ mlMu' = [mlMu EXCEPT ![m] = w]
    /\ UNCHANGED <<mVars, job, stateOf, refs, children, closing>>

WorkerAcquire(w) ==
    LET m == MaintainerOf[w] IN
    /\ Turn(w, "wait", "open")
    /\ Generation!AdmitWriter(w)
    /\ refs' = [refs EXCEPT ![w] = 1]
    /\ children' = [children EXCEPT ![m] = @ \cup {w}]
    /\ mlMu' = [mlMu EXCEPT ![m] = None]
    /\ UNCHANGED <<mVars, job, stateOf, closing>>

WorkerTimeout(w) ==
    /\ Turn(w, "wait", "none")
    /\ Generation!Withdraw(w)
    /\ mlMu' = [mlMu EXCEPT ![MaintainerOf[w]] = None]
    /\ UNCHANGED <<mVars, job, stateOf, refs, children, closing>>

\* lock.Close() of a worker's lease: the flock, then the intent.
CloseExclusive(w) ==
    /\ \/ Turn(w, "last", "intent") /\ Generation!Leave(w)
       \/ Turn(w, "intent", "onClose") /\ Generation!Withdraw(w)
    /\ UNCHANGED <<mVars, job, stateOf, refs, mlVars>>

\* onClose removes the lease from the children, under l.mu.
OnClose(w) ==
    LET m == MaintainerOf[w] IN
    /\ mlMu[m] = None
    /\ Turn(w, "onClose", "none")
    /\ children' = [children EXCEPT ![m] = @ \ {w}]
    /\ UNCHANGED <<mVars, gVars, job, stateOf, refs, mlMu, closing>>

\* Mutant: Close forgets the children.
NoChildren(m) == {}

\* The children that Close found in its critical section.
OpenChildren(m) == children[m]

\* ExclusiveMaintenanceLease.Close: l.lease and l.children are cleared.
MaintainerClose(m) ==
    /\ mlMu[m] = None
    /\ Move(m, "open", "closing")
    /\ closing' = [closing EXCEPT ![m] = OpenChildren(m)]
    /\ children' = [children EXCEPT ![m] = {}]
    /\ UNCHANGED <<mVars, gVars, leaseVars, mlMu>>

\* child.Close() of a child nobody else closes; then the next child.
CloseChild(m) ==
    \E w \in closing[m] :
        \/ /\ CloseLease(w)
        \/ /\ lease[w] = "none"
           /\ closing' = [closing EXCEPT ![m] = @ \ {w}]
           /\ UNCHANGED <<mVars, gVars, job, leaseVars, mlMu, children>>

\* maintenance.Close(): the flock, then the intent.
MaintainerLeave(m) ==
    /\ \/ closing[m] = {} /\ Move(m, "closing", "intent") /\ Maintenance!Leave(m)
       \/ Move(m, "intent", "idle") /\ Maintenance!Withdraw(m)
    /\ UNCHANGED <<gVars, leaseVars, mlVars>>

-----------------------------------------------------------------------------
\* The steps by which a job gives up what it holds.
Give(h) ==
    \/ ReleaseRef(h) \/ CloseShared(h)
    \/ h \in Workers /\ (CloseExclusive(h) \/ OnClose(h))

Next ==
    \/ \E w \in SourceWriters : WriterAcquire(w) \/ WriterClose(w)
    \/ \E p \in Planners : PlannerAcquire(p) \/ PlannerClose(p) \/ PlannerTimeout(p)
    \/ \E q \in Queries : QueryAcquire(q)
    \/ \E q \in Queries, g \in Guards : Retain(q, g)
    \/ \E h \in Handles : CloseLease(h) \/ Give(h)
    \/ \E m \in Maintainers :
          \/ MaintainerWait(m) \/ MaintainerAcquire(m) \/ MaintainerTimeout(m)
          \/ MaintainerClose(m) \/ CloseChild(m) \/ MaintainerLeave(m)
    \/ \E w \in Workers : WorkerWait(w) \/ WorkerAcquire(w) \/ WorkerTimeout(w)

Spec == Init /\ [][Next]_vars

\* Jobs that hold a lock finish; a client that is first in line gets the lock
\* (RunLock's WritersAreServed); ExclusiveMaintenanceLease.mu is a starvation-free
\* Go mutex; a dry run gets a lock that stays free.  Timeouts need not happen.
Fairness ==
    /\ \A w \in SourceWriters : WF_vars(WriterClose(w))
    /\ \A p \in Planners : WF_vars(PlannerClose(p))
    /\ \A h \in Handles : WF_vars(CloseLease(h)) /\ WF_vars(Give(h))
    /\ \A m \in Maintainers :
          /\ WF_vars(MaintainerAcquire(m)) /\ SF_vars(MaintainerClose(m))
          /\ WF_vars(CloseChild(m)) /\ WF_vars(MaintainerLeave(m))
    /\ \A w \in Workers : WF_vars(WorkerAcquire(w))
    /\ \A p \in Planners : WF_vars(PlannerAcquire(p))

FairSpec == Spec /\ Fairness

-----------------------------------------------------------------------------
(* Properties.                                                             *)

HandlesOf(k) == {h \in Handles : stateOf[h] = k /\ lease[h] \in {"open", "closed"}}

\* Types; the reference count of a lease never becomes negative.
TypeOK ==
    /\ mIntent \in [MaintenanceClients -> 0..MaxIntents]
    /\ mReaders \subseteq MaintenanceClients /\ mWriters \subseteq MaintenanceClients
    /\ gIntent \in [GenerationClients -> 0..MaxIntents]
    /\ gReaders \subseteq GenerationClients /\ gWriters \subseteq GenerationClients
    /\ job \in [MaintenanceClients -> {"idle", "open", "first", "both", "last", "wait",
                                       "closing", "intent"}]
    /\ lease \in [Handles -> {"none", "wait", "open", "closed", "last", "intent", "onClose"}]
    /\ stateOf \in [Handles -> Handles]
    /\ refs \in [Handles -> Nat]
    /\ mlMu \in [Maintainers -> Workers \cup {None}]
    /\ children \in [Maintainers -> SUBSET Workers]
    /\ closing \in [Maintainers -> SUBSET Workers]

\* A query, or a cold load that retained its lease, never works on a root while a
\* maintainer publishes, collects or purges generations.
ReadersExcludePublication ==
    \A h \in Queries \cup Guards : lease[h] = "open" =>
        stateOf[h] \in gReaders /\ gWriters = {}

\* The count of a lease is the number of handles that have not been given up,
\* whatever the order in which queries and cold loads close them, and the kernel
\* lock is held while, and only while, some handle is open or on its way to
\* release it: it is neither leaked nor dropped twice.
LeasesAreExact ==
    /\ TypeOK
    /\ \A k \in Queries \cup Workers : refs[k] = Cardinality(HandlesOf(k))
    /\ \A q \in Queries : q \in gReaders <=>
          \E h \in Handles : stateOf[h] = q /\ lease[h] \in {"open", "closed", "last"}
    /\ \A w \in Workers : w \in gWriters <=> lease[w] \in {"open", "closed", "last"}

\* Lock order: generation is requested or held exclusively only under exclusive
\* maintenance, even while the maintenance lease is being closed.
GenerationUnderMaintenance ==
    \A w \in Workers : (gIntent[w] # 0 \/ w \in gWriters) => MaintainerOf[w] \in mWriters

\* Every maintainer and every worker in line gets its lock, and closing a
\* maintenance lease with open children returns: jobs never wait on each other.
EveryoneProceeds ==
    /\ \A m \in Maintainers : job[m] = "wait" ~> job[m] # "wait"
    /\ \A m \in Maintainers : job[m] = "closing" ~> job[m] = "idle"
    /\ \A w \in Workers : lease[w] = "wait" ~> lease[w] # "wait"
=============================================================================
