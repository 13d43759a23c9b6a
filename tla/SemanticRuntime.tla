--------------------------- MODULE SemanticRuntime ---------------------------
(***************************************************************************)
(* The process-local cache of validated semantic roots                     *)
(* (internal/semanticruntime/cache.go).  A Manager hands out leases on      *)
(* immutable native search indexes.  Callers that need a root which is not  *)
(* cached share one detached load (a loadFlight); a caller that asks for    *)
(* another generation of the same scope retires the entries of the old one; *)
(* a retired entry is closed once no lease and no search refers to it; and  *)
(* Shutdown waits until every load and every entry is gone.                 *)
(*                                                                         *)
(* A step is one critical section of m.mu (and of the lease's l.mu, which   *)
(* is always taken first), or one call made outside it: retain, load, the   *)
(* native Close, the release of the retained guard.  A flight creates at    *)
(* most one cacheEntry, so the flight's identity also names its entry.      *)
(***************************************************************************)
EXTENDS Naturals, FiniteSets

CONSTANTS
    Keys,         \* RootKey values
    Scopes,       \* rootScope values (cacheDir, databaseID, profileID)
    ScopeOf,      \* RootKey.scope()
    Flights,      \* loadFlight objects; bounds the number of cold loads
    Callers,      \* goroutines in Acquire; each holds at most one Lease
    Searchers,    \* goroutines in Lease.Search
    None,         \* the nil pointer, the absent map entry
    MaxSequence   \* bound on m.sequence (root switches)

ASSUME ScopeAssumption == ScopeOf \in [Keys -> Scopes]
ASSUME NoneAssumption ==
    /\ None \notin Keys
    /\ None \notin Flights
    /\ None \notin Callers
ASSUME FiniteAssumption ==
    /\ IsFiniteSet(Flights)
    /\ IsFiniteSet(Callers)
    /\ IsFiniteSet(Searchers)
ASSUME BoundAssumption == MaxSequence \in Nat

VARIABLES
    \* Manager
    shutdown,     \* m.shutdown
    drainedDone,  \* m.drainedDone: the drained channel is closed
    scopeKey,     \* m.scopes[s].key, None when absent
    scopeSeq,     \* m.scopes[s].sequence
    sequence,     \* m.sequence
    flights,      \* m.flights
    entries,      \* m.entries
    allEntries,   \* m.allEntries
    loads,        \* m.loads
    \* loadFlight
    fpc,          \* where the goroutine that runs the flight stands
    fkey,         \* flight.key
    fseq,         \* flight.sequence
    failed,       \* flights whose error (so far) is not nil
    admitted,     \* flights with flight.entry # nil
    guard,        \* flights whose retained generation guard is still held
    \* cacheEntry
    root,         \* the native resource behind loaded.Searcher
    refs,         \* entry.refs
    ops,          \* entry.ops
    pending,      \* entries with entry.pending
    retired,      \* entries with entry.retired
    closing,      \* entries with entry.closing
    closer,       \* where the entry's closeEntry goroutine stands
    searchMu,     \* entries whose searchMu is locked
    \* Lease
    cpc,          \* where the caller stands
    cfl,          \* the flight it waits for, or the entry it leases
    lclosed,      \* callers whose lease has l.closed set
    operations,   \* l.operations
    \* Lease.Search
    spc,          \* where the searching goroutine stands
    slease        \* the caller whose lease it searches

managerVars == <<shutdown, drainedDone, scopeKey, scopeSeq, sequence,
                 flights, entries, allEntries, loads>>
flightVars  == <<fpc, fkey, fseq, failed, admitted, guard>>
entryVars   == <<root, refs, ops, pending, retired, closing, closer, searchMu>>
leaseVars   == <<cpc, cfl, lclosed, operations>>
searchVars  == <<spc, slease>>
vars == <<managerVars, flightVars, entryVars, leaseVars, searchVars>>

-----------------------------------------------------------------------------
(* Helpers shared by the critical sections.                                *)

\* loaded.Close(): frees the native resource; a second call would free it twice.
Closed(state) == IF state = "open" THEN "closed" ELSE "broken"

\* Mutant: a retired entry is closed although it is leased and searched.
ToCloseInUse(S, ret, rf, op) == {e \in S : e \notin closing \cup pending /\ e \in ret}

\* The entries of S that scheduleEntryCloseLocked starts to close, given the
\* values of retired, refs and ops at the time of the call.
ToClose(S, ret, rf, op) ==
    {e \in S : /\ e \notin closing
               /\ e \notin pending
               /\ e \in ret
               /\ rf[e] = 0
               /\ op[e] = 0}

\* scheduleEntryCloseLocked for the entries of S; ent is m.entries at the call.
ScheduleClose(S, ent) ==
    /\ closing' = closing \cup S
    /\ closer' = [e \in Flights |-> IF e \in S THEN "close" ELSE closer[e]]
    /\ entries' = [k \in Keys |-> IF ent[k] \in S THEN None ELSE ent[k]]

\* Mutant: unfinished loads are not waited for.
DrainIgnoringLoads(down, loading, all) ==
    drainedDone' = (drainedDone \/ (down /\ all = {}))

\* Mutant: the check runs before the entry is deleted from allEntries.
DrainTooEarly(down, loading, all) ==
    drainedDone' = (drainedDone \/ (down /\ loading = 0 /\ allEntries = {}))

\* checkDrainedLocked.
CheckDrained(down, loading, all) ==
    drainedDone' = (drainedDone \/ (down /\ loading = 0 /\ all = {}))

\* Mutant: a lease that is not counted.
TakeNoRef(e) == refs' = refs

\* entry.refs++
TakeRef(e) == refs' = [refs EXCEPT ![e] = @ + 1]

Init ==
    /\ shutdown = FALSE
    /\ drainedDone = FALSE
    /\ scopeKey = [s \in Scopes |-> None]
    /\ scopeSeq = [s \in Scopes |-> 0]
    /\ sequence = 0
    /\ flights = [k \in Keys |-> None]
    /\ entries = [k \in Keys |-> None]
    /\ allEntries = {}
    /\ loads = 0
    /\ fpc = [f \in Flights |-> "none"]
    /\ fkey = [f \in Flights |-> None]
    /\ fseq = [f \in Flights |-> 0]
    /\ failed = {}
    /\ admitted = {}
    /\ guard = {}
    /\ root = [f \in Flights |-> "none"]
    /\ refs = [f \in Flights |-> 0]
    /\ ops = [f \in Flights |-> 0]
    /\ pending = {}
    /\ retired = {}
    /\ closing = {}
    /\ closer = [f \in Flights |-> "none"]
    /\ searchMu = {}
    /\ cpc = [c \in Callers |-> "idle"]
    /\ cfl = [c \in Callers |-> None]
    /\ lclosed = {}
    /\ operations = [c \in Callers |-> 0]
    /\ spc = [s \in Searchers |-> "idle"]
    /\ slease = [s \in Searchers |-> None]

-----------------------------------------------------------------------------
(* Acquire: the first critical section.                                    *)

IsCurrent(k) == scopeKey[ScopeOf[k]] = k

\* The sequence the scope has once Acquire(k) has looked at it.
SeqFor(k) == IF IsCurrent(k) THEN scopeSeq[ScopeOf[k]] ELSE sequence + 1

\* The keys whose entries retireOtherEntriesLocked removes.
OtherKeys(k) == {j \in Keys \ {k} : ScopeOf[j] = ScopeOf[k] /\ entries[j] # None}

\* m.scopes follows the caller's key; the scope's other entries are retired.
ObserveKey(k) ==
    \/ /\ IsCurrent(k)
       /\ UNCHANGED <<scopeKey, scopeSeq, sequence, retired, closing, closer, entries>>
    \/ /\ ~IsCurrent(k)
       /\ sequence < MaxSequence
       /\ sequence' = sequence + 1
       /\ scopeKey' = [scopeKey EXCEPT ![ScopeOf[k]] = k]
       /\ scopeSeq' = [scopeSeq EXCEPT ![ScopeOf[k]] = sequence + 1]
       /\ LET others == {entries[j] : j \in OtherKeys(k)}
          IN  /\ retired' = retired \cup others
              /\ ScheduleClose(ToClose(others, retired \cup others, refs, ops),
                     [j \in Keys |-> IF j \in OtherKeys(k) THEN None ELSE entries[j]])

JoinsFlight(k) == flights[k] # None /\ fseq[flights[k]] = SeqFor(k)

HitsEntry(k) == /\ entries[k] # None
                /\ entries[k] \notin pending
                /\ entries[k] \notin retired
                /\ entries[k] \notin closing

\* A load of the current key is under way: wait for it.
AcquireJoin(c, k) ==
    /\ cpc[c] = "idle" /\ ~shutdown
    /\ ObserveKey(k)
    /\ JoinsFlight(k)
    /\ cpc' = [cpc EXCEPT ![c] = "waiting"]
    /\ cfl' = [cfl EXCEPT ![c] = flights[k]]
    /\ UNCHANGED <<shutdown, drainedDone, flights, allEntries, loads, flightVars,
                   root, refs, ops, pending, searchMu, lclosed, operations, searchVars>>

\* The root is cached and ready: lease it.
AcquireHit(c, k) ==
    /\ cpc[c] = "idle" /\ ~shutdown
    /\ ObserveKey(k)
    /\ ~JoinsFlight(k) /\ HitsEntry(k)
    /\ TakeRef(entries[k])
    /\ cpc' = [cpc EXCEPT ![c] = "leased"]
    /\ cfl' = [cfl EXCEPT ![c] = entries[k]]
    /\ UNCHANGED <<shutdown, drainedDone, flights, allEntries, loads, flightVars,
                   root, ops, pending, searchMu, lclosed, operations, searchVars>>

\* retain is nil: the call fails, but the scope has already moved to the key.
AcquireWithoutGuard(c, k) ==
    /\ cpc[c] = "idle" /\ ~shutdown
    /\ ObserveKey(k)
    /\ ~JoinsFlight(k) /\ ~HitsEntry(k)
    /\ UNCHANGED <<shutdown, drainedDone, flights, allEntries, loads, flightVars,
                   root, refs, ops, pending, searchMu, leaseVars, searchVars>>

\* A cold load: f is the new loadFlight, which replaces an outdated one.
AcquireLoad(c, k, f) ==
    /\ cpc[c] = "idle" /\ ~shutdown
    /\ ObserveKey(k)
    /\ ~JoinsFlight(k) /\ ~HitsEntry(k)
    /\ fpc[f] = "none"
    /\ fpc' = [fpc EXCEPT ![f] = "retain"]
    /\ fkey' = [fkey EXCEPT ![f] = k]
    /\ fseq' = [fseq EXCEPT ![f] = SeqFor(k)]
    /\ flights' = [flights EXCEPT ![k] = f]
    /\ loads' = loads + 1
    /\ cpc' = [cpc EXCEPT ![c] = "starting"]
    /\ cfl' = [cfl EXCEPT ![c] = f]
    /\ UNCHANGED <<shutdown, drainedDone, allEntries, failed, admitted, guard,
                   root, refs, ops, pending, searchMu, lclosed, operations, searchVars>>

-----------------------------------------------------------------------------
(* The rest of Acquire, run by the caller that started the flight.         *)

\* retain(): takes a further reference on the caller's generation lock, or fails.
Retain(f) ==
    /\ fpc[f] = "retain"
    /\ \/ /\ guard' = guard \cup {f}
          /\ fpc' = [fpc EXCEPT ![f] = "recheck"]
          /\ UNCHANGED failed
       \/ /\ failed' = failed \cup {f}
          /\ fpc' = [fpc EXCEPT ![f] = "finish"]
          /\ UNCHANGED guard
    /\ UNCHANGED <<managerVars, fkey, fseq, admitted, entryVars, leaseVars, searchVars>>

\* The second critical section: shut down or superseded while retaining?
\* Otherwise the load is detached and its caller starts to wait.
Recheck(f) ==
    /\ fpc[f] = "recheck"
    /\ \/ /\ shutdown \/ flights[fkey[f]] # f
          /\ fpc' = [fpc EXCEPT ![f] = "abandon"]
          /\ failed' = failed \cup {f}
          /\ UNCHANGED cpc
       \/ /\ ~shutdown /\ flights[fkey[f]] = f
          /\ fpc' = [fpc EXCEPT ![f] = "load"]
          /\ cpc' = [c \in Callers |-> IF cfl[c] = f /\ cpc[c] = "starting"
                                       THEN "waiting" ELSE cpc[c]]
          /\ UNCHANGED failed
    /\ UNCHANGED <<managerVars, fkey, fseq, admitted, guard, entryVars,
                   cfl, lclosed, operations, searchVars>>

\* Mutant: Acquire returns without finishFlight.
AbandonUnfinished(f) ==
    /\ fpc[f] = "abandon"
    /\ guard' = guard \ {f}
    /\ UNCHANGED <<managerVars, fpc, fkey, fseq, failed, admitted, entryVars, leaseVars,
                   searchVars>>

\* release() of a flight that never started to load.
Abandon(f) ==
    /\ fpc[f] = "abandon"
    /\ guard' = guard \ {f}
    /\ fpc' = [fpc EXCEPT ![f] = "finish"]
    /\ UNCHANGED <<managerVars, fkey, fseq, failed, admitted, entryVars, leaseVars, searchVars>>

-----------------------------------------------------------------------------
(* runLoad: the detached load.                                             *)

\* m.loader: a root, an error, or an error together with a root (the loader
\* found, after opening the root, that it is no longer the ready one).
Load(f) ==
    /\ fpc[f] = "load"
    /\ \/ /\ root' = [root EXCEPT ![f] = "open"]
          /\ fpc' = [fpc EXCEPT ![f] = "admit"]
          /\ UNCHANGED failed
       \/ /\ root' = [root EXCEPT ![f] = "open"]
          /\ fpc' = [fpc EXCEPT ![f] = "discard"]
          /\ failed' = failed \cup {f}
       \/ /\ fpc' = [fpc EXCEPT ![f] = "release"]
          /\ failed' = failed \cup {f}
          /\ UNCHANGED root
    /\ UNCHANGED <<managerVars, fkey, fseq, admitted, guard, refs, ops, pending,
                   retired, closing, closer, searchMu, leaseVars, searchVars>>

\* Mutant: only the shutdown is looked at.
StillRunning(f) == ~shutdown

\* The flight still is the one its scope waits for.
StillCurrent(f) == /\ ~shutdown
                   /\ flights[fkey[f]] = f
                   /\ scopeKey[ScopeOf[fkey[f]]] = fkey[f]
                   /\ scopeSeq[ScopeOf[fkey[f]]] = fseq[f]

\* The loaded root becomes a pending entry, or is rejected.
Admit(f) ==
    /\ fpc[f] = "admit"
    /\ \/ /\ StillCurrent(f)
          /\ entries' = [entries EXCEPT ![fkey[f]] = f]
          /\ allEntries' = allEntries \cup {f}
          /\ pending' = pending \cup {f}
          /\ admitted' = admitted \cup {f}
          /\ fpc' = [fpc EXCEPT ![f] = "release"]
          /\ UNCHANGED failed
       \/ /\ ~StillCurrent(f)
          /\ failed' = failed \cup {f}
          /\ fpc' = [fpc EXCEPT ![f] = "discard"]
          /\ UNCHANGED <<entries, allEntries, pending, admitted>>
    /\ UNCHANGED <<shutdown, drainedDone, scopeKey, scopeSeq, sequence, flights, loads,
                   fkey, fseq, guard, root, refs, ops, retired, closing, closer,
                   searchMu, leaseVars, searchVars>>

\* loaded.Close() of a root that never became an entry.
Discard(f) ==
    /\ fpc[f] = "discard"
    /\ root' = [root EXCEPT ![f] = Closed(@)]
    /\ fpc' = [fpc EXCEPT ![f] = "release"]
    /\ UNCHANGED <<managerVars, fkey, fseq, failed, admitted, guard, refs, ops, pending,
                   retired, closing, closer, searchMu, leaseVars, searchVars>>

\* release(): drops the retained generation guard; it may report an error.
ReleaseGuard(f) ==
    /\ fpc[f] = "release"
    /\ guard' = guard \ {f}
    /\ failed' \in {failed, failed \cup {f}}
    /\ fpc' = [fpc EXCEPT ![f] = IF f \in admitted THEN "publish" ELSE "finish"]
    /\ UNCHANGED <<managerVars, fkey, fseq, admitted, entryVars, leaseVars, searchVars>>

Publishable(f) == /\ f \notin failed
                  /\ StillCurrent(f)
                  /\ entries[fkey[f]] = f
                  /\ f \notin retired

\* The pending entry becomes leasable, or is taken out to be closed.
Publish(f) ==
    /\ fpc[f] = "publish"
    /\ pending' = pending \ {f}
    /\ \/ /\ Publishable(f)
          /\ fpc' = [fpc EXCEPT ![f] = "finish"]
          /\ UNCHANGED <<entries, retired, closing, failed>>
       \/ /\ ~Publishable(f)
          /\ entries' = [k \in Keys |-> IF k = fkey[f] /\ entries[k] = f
                                        THEN None ELSE entries[k]]
          /\ retired' = retired \cup {f}
          /\ closing' = closing \cup {f}
          /\ failed' = failed \cup {f}
          /\ fpc' = [fpc EXCEPT ![f] = "dispose"]
    /\ UNCHANGED <<shutdown, drainedDone, scopeKey, scopeSeq, sequence, flights, allEntries,
                   loads, fkey, fseq, admitted, guard, root, refs, ops, closer, searchMu,
                   leaseVars, searchVars>>

\* entry.loaded.Close() of an entry that was not published.
Dispose(f) ==
    /\ fpc[f] = "dispose"
    /\ root' = [root EXCEPT ![f] = Closed(@)]
    /\ fpc' = [fpc EXCEPT ![f] = "drop"]
    /\ UNCHANGED <<managerVars, fkey, fseq, failed, admitted, guard, refs, ops, pending,
                   retired, closing, closer, searchMu, leaseVars, searchVars>>

\* delete(m.allEntries, entry) of that entry.
Drop(f) ==
    /\ fpc[f] = "drop"
    /\ allEntries' = allEntries \ {f}
    /\ CheckDrained(shutdown, loads, allEntries \ {f})
    /\ fpc' = [fpc EXCEPT ![f] = "finish"]
    /\ UNCHANGED <<shutdown, scopeKey, scopeSeq, sequence, flights, entries, loads,
                   fkey, fseq, failed, admitted, guard, entryVars, leaseVars, searchVars>>

\* if m.flights[flight.key] == flight { delete(m.flights, flight.key) }
UnlinkFlight(f) ==
    flights' = [k \in Keys |-> IF k = fkey[f] /\ flights[k] = f THEN None ELSE flights[k]]

\* finishFlight: unlinks the flight if it is still the key's, and wakes waiters.
\* A caller whose flight failed before it was detached starts to wait only here.
FinishFlight(f) ==
    /\ fpc[f] = "finish"
    /\ fpc' = [fpc EXCEPT ![f] = "done"]
    /\ UnlinkFlight(f)
    /\ loads' = loads - 1
    /\ CheckDrained(shutdown, loads - 1, allEntries)
    /\ cpc' = [c \in Callers |-> IF cfl[c] = f /\ cpc[c] = "starting"
                                 THEN "waiting" ELSE cpc[c]]
    /\ UNCHANGED <<shutdown, scopeKey, scopeSeq, sequence, entries, allEntries,
                   fkey, fseq, failed, admitted, guard, entryVars,
                   cfl, lclosed, operations, searchVars>>

-----------------------------------------------------------------------------
(* waitForFlight and acquireFlightEntry.                                   *)

\* Mutant: the entry may have been retired since the flight was published.
ObtainableStale(f) == f \notin failed /\ ~shutdown /\ f \in admitted

Obtainable(f) == /\ f \notin failed
                 /\ ~shutdown
                 /\ f \in admitted
                 /\ f \notin retired
                 /\ f \notin closing
                 /\ entries[fkey[f]] = f

\* The flight is done: lease its entry, or return why there is none.
WaitDone(c) ==
    LET f == cfl[c] IN
    /\ cpc[c] = "waiting"
    /\ fpc[f] = "done"
    /\ \/ /\ Obtainable(f)
          /\ TakeRef(f)
          /\ cpc' = [cpc EXCEPT ![c] = "leased"]
          /\ UNCHANGED cfl
       \/ /\ ~Obtainable(f)
          /\ cpc' = [cpc EXCEPT ![c] = "idle"]
          /\ cfl' = [cfl EXCEPT ![c] = None]
          /\ UNCHANGED refs
    /\ UNCHANGED <<managerVars, flightVars, root, ops, pending, retired, closing, closer,
                   searchMu, lclosed, operations, searchVars>>

\* ctx is done or loadWaitTimeout has passed: the load goes on without the caller.
GiveUp(c) ==
    /\ cpc[c] = "waiting"
    /\ cpc' = [cpc EXCEPT ![c] = "idle"]
    /\ cfl' = [cfl EXCEPT ![c] = None]
    /\ UNCHANGED <<managerVars, flightVars, entryVars, lclosed, operations, searchVars>>

-----------------------------------------------------------------------------
(* Lease.Search, Lease.Close and closeEntry.                               *)

\* Search, up to the unlock of l.mu: the operation is counted.
SearchBegin(s, c) ==
    LET e == cfl[c] IN
    /\ spc[s] = "idle"
    /\ cpc[c] = "leased"
    /\ c \notin lclosed
    /\ ~shutdown
    /\ e \notin retired
    /\ e \notin closing
    /\ operations' = [operations EXCEPT ![c] = @ + 1]
    /\ ops' = [ops EXCEPT ![e] = @ + 1]
    /\ spc' = [spc EXCEPT ![s] = "queued"]
    /\ slease' = [slease EXCEPT ![s] = c]
    /\ UNCHANGED <<managerVars, flightVars, root, refs, pending, retired, closing, closer,
                   searchMu, cpc, cfl, lclosed>>

\* entry.searchMu.Lock(): one native search at a time.
SearchLock(s) ==
    /\ spc[s] = "queued"
    /\ cfl[slease[s]] \notin searchMu
    /\ searchMu' = searchMu \cup {cfl[slease[s]]}
    /\ spc' = [spc EXCEPT ![s] = "searching"]
    /\ UNCHANGED <<managerVars, flightVars, root, refs, ops, pending, retired, closing, closer,
                   leaseVars, slease>>

\* The native search returns; the deferred unlock runs before finishOperation.
SearchReturn(s) ==
    /\ spc[s] = "searching"
    /\ searchMu' = searchMu \ {cfl[slease[s]]}
    /\ spc' = [spc EXCEPT ![s] = "finishing"]
    /\ UNCHANGED <<managerVars, flightVars, root, refs, ops, pending, retired, closing, closer,
                   leaseVars, slease>>

\* Mutant: the first operation to end releases a closed lease.
AnyOperation(c) == c \in lclosed

\* finishOperation: the last operation of a closed lease gives up its reference.
LastOperation(c) == c \in lclosed /\ operations[c] = 1

FinishOperation(s) ==
    LET c   == slease[s]
        e   == cfl[c]
        rf  == IF LastOperation(c) THEN [refs EXCEPT ![e] = @ - 1] ELSE refs
        op  == [ops EXCEPT ![e] = @ - 1]
    IN
    /\ spc[s] = "finishing"
    /\ operations' = [operations EXCEPT ![c] = @ - 1]
    /\ ops' = op
    /\ refs' = rf
    /\ ScheduleClose(ToClose({e}, retired, rf, op), entries)
    /\ CheckDrained(shutdown, loads, allEntries)
    /\ spc' = [spc EXCEPT ![s] = "idle"]
    /\ slease' = [slease EXCEPT ![s] = None]
    /\ cpc' = [cpc EXCEPT ![c] = IF LastOperation(c) THEN "idle" ELSE @]
    /\ cfl' = [cfl EXCEPT ![c] = IF LastOperation(c) THEN None ELSE @]
    /\ lclosed' = IF LastOperation(c) THEN lclosed \ {c} ELSE lclosed
    /\ UNCHANGED <<shutdown, scopeKey, scopeSeq, sequence, flights, allEntries, loads,
                   flightVars, root, pending, retired, searchMu>>

\* Lease.Close with operations still running only marks the lease.
CloseBusyLease(c) ==
    /\ cpc[c] = "leased"
    /\ c \notin lclosed
    /\ operations[c] # 0
    /\ lclosed' = lclosed \cup {c}
    /\ UNCHANGED <<managerVars, flightVars, entryVars, cpc, cfl, operations, searchVars>>

\* Lease.Close of an unused lease: releaseEntryLocked.
CloseLease(c) ==
    LET e  == cfl[c]
        rf == [refs EXCEPT ![e] = @ - 1]
    IN
    /\ cpc[c] = "leased"
    /\ c \notin lclosed
    /\ operations[c] = 0
    /\ refs' = rf
    /\ ScheduleClose(ToClose({e}, retired, rf, ops), entries)
    /\ CheckDrained(shutdown, loads, allEntries)
    /\ cpc' = [cpc EXCEPT ![c] = "idle"]
    /\ cfl' = [cfl EXCEPT ![c] = None]
    /\ UNCHANGED <<shutdown, scopeKey, scopeSeq, sequence, flights, allEntries, loads,
                   flightVars, root, ops, pending, retired, searchMu,
                   lclosed, operations, searchVars>>

\* closeEntry, first half: entry.loaded.Close() outside the lock.
CloseEntry(e) ==
    /\ closer[e] = "close"
    /\ root' = [root EXCEPT ![e] = Closed(@)]
    /\ closer' = [closer EXCEPT ![e] = "drop"]
    /\ UNCHANGED <<managerVars, flightVars, refs, ops, pending, retired, closing, searchMu,
                   leaseVars, searchVars>>

\* closeEntry, second half: the entry is forgotten.
ForgetEntry(e) ==
    /\ closer[e] = "drop"
    /\ closer' = [closer EXCEPT ![e] = "done"]
    /\ allEntries' = allEntries \ {e}
    /\ CheckDrained(shutdown, loads, allEntries \ {e})
    /\ UNCHANGED <<shutdown, scopeKey, scopeSeq, sequence, flights, entries, loads, flightVars,
                   root, refs, ops, pending, retired, closing, searchMu, leaseVars, searchVars>>

\* Shutdown: no new work; every entry is retired.
Shutdown ==
    LET all == {entries[k] : k \in {j \in Keys : entries[j] # None}} IN
    /\ ~shutdown
    /\ shutdown' = TRUE
    /\ retired' = retired \cup all
    /\ ScheduleClose(ToClose(all, retired \cup all, refs, ops), [k \in Keys |-> None])
    /\ CheckDrained(TRUE, loads, allEntries)
    /\ UNCHANGED <<scopeKey, scopeSeq, sequence, flights, allEntries, loads, flightVars,
                   root, refs, ops, pending, searchMu, leaseVars, searchVars>>

\* After Shutdown has drained nothing is left to do.
Terminated ==
    /\ drainedDone
    /\ \A c \in Callers : cpc[c] = "idle"
    /\ UNCHANGED vars

-----------------------------------------------------------------------------
FlightStep(f) ==
    \/ Retain(f) \/ Recheck(f) \/ Abandon(f)
    \/ Load(f) \/ Admit(f) \/ Discard(f) \/ ReleaseGuard(f)
    \/ Publish(f) \/ Dispose(f) \/ Drop(f) \/ FinishFlight(f)

CloserStep(e) == CloseEntry(e) \/ ForgetEntry(e)

LeaseClose(c) == CloseBusyLease(c) \/ CloseLease(c)

Next ==
    \/ \E c \in Callers, k \in Keys :
          \/ AcquireJoin(c, k)
          \/ AcquireHit(c, k)
          \/ AcquireWithoutGuard(c, k)
          \/ \E f \in Flights : AcquireLoad(c, k, f)
    \/ \E f \in Flights : FlightStep(f)
    \/ \E e \in Flights : CloserStep(e)
    \/ \E c \in Callers : WaitDone(c) \/ GiveUp(c) \/ LeaseClose(c)
    \/ \E s \in Searchers :
          \/ \E c \in Callers : SearchBegin(s, c)
          \/ SearchLock(s) \/ SearchReturn(s) \/ FinishOperation(s)
    \/ Shutdown
    \/ Terminated

Spec == Init /\ [][Next]_vars

\* Goroutines run: a load returns (the loader gets shutdownContext), waiters
\* wake up, searches return, every lease holder defers lease.Close, and
\* sync.Mutex is starvation free, which makes searchMu strongly fair.
Fairness ==
    /\ \A f \in Flights : WF_vars(FlightStep(f)) /\ WF_vars(CloserStep(f))
    /\ \A c \in Callers : WF_vars(WaitDone(c) \/ LeaseClose(c))
    /\ \A s \in Searchers : SF_vars(SearchLock(s)) /\ WF_vars(SearchReturn(s) \/ FinishOperation(s))

FairSpec == Spec /\ Fairness

-----------------------------------------------------------------------------
(* Properties.                                                             *)

LeasesOf(e)   == {c \in Callers : cpc[c] = "leased" /\ cfl[c] = e}
SearchesOf(e) == {s \in Searchers : spc[s] # "idle" /\ cfl[slease[s]] = e}
ActiveFlights == {f \in Flights : fpc[f] \notin {"none", "done"}}
OpsOfLease(c) == {s \in Searchers : spc[s] # "idle" /\ slease[s] = c}

\* Every variable has its type, and m.loads, entry.refs, entry.ops and
\* l.operations never become negative (Go would keep counting down).
TypeOK ==
    /\ shutdown \in BOOLEAN
    /\ drainedDone \in BOOLEAN
    /\ scopeKey \in [Scopes -> Keys \cup {None}]
    /\ scopeSeq \in [Scopes -> Nat]
    /\ sequence \in Nat
    /\ flights \in [Keys -> Flights \cup {None}]
    /\ entries \in [Keys -> Flights \cup {None}]
    /\ allEntries \subseteq Flights
    /\ loads \in Nat
    /\ fpc \in [Flights -> {"none", "retain", "recheck", "abandon", "load", "admit",
                            "discard", "release", "publish", "dispose", "drop",
                            "finish", "done"}]
    /\ fkey \in [Flights -> Keys \cup {None}]
    /\ fseq \in [Flights -> Nat]
    /\ failed \subseteq Flights
    /\ admitted \subseteq Flights
    /\ guard \subseteq Flights
    /\ root \in [Flights -> {"none", "open", "closed", "broken"}]
    /\ refs \in [Flights -> Nat]
    /\ ops \in [Flights -> Nat]
    /\ pending \subseteq Flights
    /\ retired \subseteq Flights
    /\ closing \subseteq Flights
    /\ closer \in [Flights -> {"none", "close", "drop", "done"}]
    /\ searchMu \subseteq Flights
    /\ cpc \in [Callers -> {"idle", "starting", "waiting", "leased"}]
    /\ cfl \in [Callers -> Flights \cup {None}]
    /\ lclosed \subseteq Callers
    /\ operations \in [Callers -> Nat]
    /\ spc \in [Searchers -> {"idle", "queued", "searching", "finishing"}]
    /\ slease \in [Searchers -> Callers \cup {None}]

\* No search runs, or is still to run, on a root that was closed or whose
\* closing was scheduled: a lease keeps its root alive however long it waits for
\* searchMu, whatever root switches, Close and Shutdown happen meanwhile.
SearchesUseOpenRoots ==
    \A s \in Searchers : spc[s] \in {"queued", "searching"} =>
        /\ root[cfl[slease[s]]] = "open"
        /\ cfl[slease[s]] \notin closing

\* The native Close callback runs at most once per root, although three places
\* call it (a rejected load, an unpublished entry, the closeEntry goroutine).
ClosedOnce == \A f \in Flights : root[f] # "broken"

\* A lease never exists on an entry whose load still retains the generation
\* lock; otherwise an exclusive activation waiting for that lock could deadlock
\* with the query that uses the new root.
GuardReleasedBeforeLease ==
    \A c \in Callers : cpc[c] = "leased" => cfl[c] \notin guard \cup pending

\* A loaded root that was rejected before it became an entry is closed before the
\* retained guard is released: an open root is either tracked in allEntries, where
\* Shutdown waits for it, or still protected by the guard.
RejectedRootsClosedUnderGuard ==
    \A f \in Flights : root[f] = "open" => f \in allEntries \/ f \in guard

\* The generation lock that a cold load retains is given up after a rejected root
\* is closed and before an accepted one is leased.
GuardsProtectRoots == GuardReleasedBeforeLease /\ RejectedRootsClosedUnderGuard

\* A native root is safe from its load to its close: open while it is searched,
\* closed once, and under the generation lock until it is tracked or closed.
RootsAreSafe == SearchesUseOpenRoots /\ ClosedOnce /\ GuardsProtectRoots

\* m.entries only holds unretired roots of the generation its scope follows, so
\* no stale generation can be leased after a root switch.
EntriesAreCurrent ==
    \A k \in Keys : entries[k] # None =>
        /\ IsCurrent(k)
        /\ fkey[entries[k]] = k
        /\ entries[k] \notin retired \cup closing
        /\ fseq[entries[k]] = scopeSeq[ScopeOf[k]]

\* No entry is lost: an entry that is not retired is still found through
\* m.entries, where a root switch and Shutdown look for entries to retire.  (Admit
\* overwrites the map slot of its key without looking at what it held.)
NoOrphanedEntries ==
    \A e \in allEntries \ retired : entries[fkey[e]] = e

\* Callers share loads: two flights for the same key and root switch never run at
\* the same time, even when the scope switches away and back.
SingleFlight ==
    \A f, g \in ActiveFlights : fkey[f] = fkey[g] /\ fseq[f] = fseq[g] => f = g

\* What Acquire finds in the maps can be relied on: the three properties above.
CacheCoherent == EntriesAreCurrent /\ NoOrphanedEntries /\ SingleFlight

\* Once Shutdown reports the manager drained, every native root is closed, every
\* retained guard released, and no load, search or lease is left.
DrainedIsClean ==
    drainedDone =>
        /\ \A f \in Flights : root[f] \in {"none", "closed"}
        /\ \A f \in Flights : fpc[f] \in {"none", "done"}
        /\ guard = {} /\ allEntries = {}
        /\ \A c \in Callers : cpc[c] # "leased"

\* The hand-kept counters are exact: entry.refs counts the outstanding leases,
\* entry.ops the running searches, l.operations those of one lease, m.loads the
\* unfinished flights.
CountersExact ==
    /\ \A e \in Flights : /\ refs[e] = Cardinality(LeasesOf(e))
                          /\ ops[e] = Cardinality(SearchesOf(e))
    /\ \A c \in Callers : operations[c] = Cardinality(OpsOfLease(c))
    /\ loads = Cardinality(ActiveFlights)

\* No counter goes wrong, and none below zero, in any order of closes and searches.
CountersSound == TypeOK /\ CountersExact

\* A step that creates a lease does so on a published root of the generation its
\* scope follows after the step.
LeasesGrantedOnCurrentRoot ==
    [][\A c \in Callers : (cpc[c] # "leased" /\ cpc'[c] = "leased") =>
          LET e == cfl'[c] IN
          /\ root[e] = "open"
          /\ e \notin retired' \cup pending'
          /\ scopeKey'[ScopeOf[fkey[e]]] = fkey[e]]_vars

\* Shutdown never hangs: once it was called, the manager drains.
ShutdownDrains == shutdown ~> drainedDone

\* A retired entry, whenever and by whom it was retired, is eventually closed.
RetiredRootsClose ==
    \A f \in Flights : (f \in retired /\ root[f] = "open") ~> (root[f] = "closed")

\* A caller that waits for a flight gets its answer, even if the flight was
\* superseded, failed to retain its guard or was caught by Shutdown.
WaitersReturn ==
    \A c \in Callers : (cpc[c] \in {"starting", "waiting"}) ~> (cpc[c] \in {"idle", "leased"})

\* Nobody is forgotten: neither a root that was withdrawn nor a caller that waits.
NobodyIsForgotten == RetiredRootsClose /\ WaitersReturn

-----------------------------------------------------------------------------
(* The cache implements the lifecycle of native roots.  A root counts as    *)
(* doomed once it is retired, or once its flight can no longer publish it.  *)

HeldPairs == {<<c, cfl[c]>> : c \in {d \in Callers : cpc[d] = "leased"}}
UsedPairs == {<<s, cfl[slease[s]]>> : s \in {t \in Searchers : spc[t] # "idle"}}
Doomed == retired \cup {f \in Flights : fpc[f] \in {"discard", "release", "finish", "done"}
                                        /\ f \notin admitted}

Lifecycle == INSTANCE RootLifecycle WITH
    Roots <- Flights, Holders <- Callers, Users <- Searchers,
    native <- root, doomed <- Doomed, holds <- HeldPairs, uses <- UsedPairs

\* The lifecycle of native roots, as a property of the detailed specification.
ImplementsLifecycle == Lifecycle!Spec

=============================================================================
