------------------------------ MODULE LocalGate ------------------------------
(***************************************************************************)
(* The in-process half of runlock (internal/runlock/local_gate.go): a       *)
(* registry that keeps one reader/writer gate per lock path while somebody  *)
(* refers to it, and the gate itself, which queues goroutines in order.     *)
(* One path is modelled.  A step is one critical section of the registry's  *)
(* or of the gate's mutex; between choosing ctx.Done() in the select and    *)
(* locking the gate a waiter may be granted, so Cancel looks again.         *)
(***************************************************************************)
EXTENDS Naturals, Sequences, FiniteSets

CONSTANTS
    Goroutines,
    Entries,     \* localGateEntry objects; unreferenced ones are reused
    None

ASSUME EntryAssumption == None \notin Entries
ASSUME FiniteGoroutines == IsFiniteSet(Goroutines)

VARIABLES
    pc,        \* "idle", "ref", "waiting", "held" or "drop"
    mode,      \* the mode a goroutine asks for
    try,       \* it uses tryAcquireProcessGate
    entryOf,   \* localGateReference.entry of a goroutine
    entry,     \* processGates.entries[path]
    refs,      \* localGateEntry.refs
    gates,     \* localGateEntry.gate
    granted    \* goroutines whose localWaiter.granted is set

vars == <<pc, mode, try, entryOf, entry, refs, gates, granted>>

Modes == {"shared", "exclusive"}
Gates == [readers : Nat, writer : BOOLEAN, waiters : Seq(Goroutines)]
EmptyGate == [readers |-> 0, writer |-> FALSE, waiters |-> <<>>]

Init ==
    /\ pc = [g \in Goroutines |-> "idle"]
    /\ mode = [g \in Goroutines |-> "shared"]
    /\ try = [g \in Goroutines |-> FALSE]
    /\ entryOf = [g \in Goroutines |-> None]
    /\ entry = None
    /\ refs = [e \in Entries |-> 0]
    /\ gates = [e \in Entries |-> EmptyGate]
    /\ granted = {}

Goto(g, from, to) == pc[g] = from /\ pc' = [pc EXCEPT ![g] = to]

-----------------------------------------------------------------------------
(* The gate as a value.                                                    *)

CanGrant(gate, m) == ~gate.writer /\ (m = "shared" \/ gate.readers = 0)

MarkGranted(gate, m) ==
    IF m = "shared" THEN [gate EXCEPT !.readers = @ + 1] ELSE [gate EXCEPT !.writer = TRUE]

MarkReleased(gate, m) ==
    IF m = "shared" THEN [gate EXCEPT !.readers = @ - 1] ELSE [gate EXCEPT !.writer = FALSE]

\* Mutant: nobody is woken up.
GrantNobody(gate) == 0

\* How many waiters grantWaiters takes from the front of the queue: a writer
\* alone, or all readers up to the next writer.
GrantCount(gate) ==
    LET q == gate.waiters IN
    IF q = <<>> THEN 0
    ELSE IF ~CanGrant(gate, mode[q[1]]) THEN 0
    ELSE IF mode[q[1]] = "exclusive" THEN 1
    ELSE CHOOSE k \in 1..Len(q) :
            /\ \A i \in 1..k : mode[q[i]] = "shared"
            /\ k = Len(q) \/ mode[q[k + 1]] = "exclusive"

\* The gate after grantWaiters, and the waiters it has granted.
Served(gate) ==
    LET n == GrantCount(gate)
        q == gate.waiters
        rest == [gate EXCEPT !.waiters = SubSeq(q, n + 1, Len(q))] IN
    IF n = 0 THEN gate
    ELSE IF mode[q[1]] = "exclusive" THEN MarkGranted(rest, "exclusive")
    ELSE [rest EXCEPT !.readers = @ + n]

Woken(gate) == {gate.waiters[i] : i \in 1..GrantCount(gate)}

\* grantWaiters on gate, which becomes the gate of entry e; woken is granted so far.
GrantWaiters(e, gate, woken) ==
    /\ gates' = [gates EXCEPT ![e] = Served(gate)]
    /\ granted' = woken \cup Woken(gate)

-----------------------------------------------------------------------------
\* localGateRegistry.reference: the registered entry, or a new one.
Reference(g) ==
    /\ Goto(g, "idle", "ref")
    /\ \E m \in Modes : mode' = [mode EXCEPT ![g] = m]
    /\ \E t \in BOOLEAN : try' = [try EXCEPT ![g] = t]
    /\ \/ /\ entry # None
          /\ refs' = [refs EXCEPT ![entry] = @ + 1]
          /\ entryOf' = [entryOf EXCEPT ![g] = entry]
          /\ UNCHANGED <<entry, gates>>
       \/ /\ entry = None
          /\ \E e \in Entries :
                /\ \A h \in Goroutines : entryOf[h] # e
                /\ entry' = e
                /\ refs' = [refs EXCEPT ![e] = 1]
                /\ gates' = [gates EXCEPT ![e] = EmptyGate]
                /\ entryOf' = [entryOf EXCEPT ![g] = e]
    /\ UNCHANGED granted

\* Mutant: a newcomer looks only at who holds the gate.
AdmitsIgnoringQueue(g) == CanGrant(gates[entryOf[g]], mode[g])

\* len(g.waiters) == 0 && g.canGrant(mode)
Admits(g) == gates[entryOf[g]].waiters = <<>> /\ CanGrant(gates[entryOf[g]], mode[g])

\* The gate is free: tryAcquire and acquire return a lease at once.
AcquireNow(g) ==
    /\ Goto(g, "ref", "held")
    /\ Admits(g)
    /\ gates' = [gates EXCEPT ![entryOf[g]] = MarkGranted(@, mode[g])]
    /\ UNCHANGED <<mode, try, entryOf, entry, refs, granted>>

\* tryAcquire fails and tryAcquireProcessGate gives its reference back.
TryFails(g) ==
    /\ Goto(g, "ref", "drop")
    /\ try[g]
    /\ ~Admits(g)
    /\ UNCHANGED <<mode, try, entryOf, entry, refs, gates, granted>>

\* acquire joins the queue.
Enqueue(g) ==
    LET gate == gates[entryOf[g]] IN
    /\ Goto(g, "ref", "waiting")
    /\ ~try[g]
    /\ ~Admits(g)
    /\ GrantWaiters(entryOf[g], [gate EXCEPT !.waiters = Append(@, g)], granted)
    /\ UNCHANGED <<mode, try, entryOf, entry, refs>>

\* <-waiter.ready
Receive(g) ==
    /\ g \in granted
    /\ Goto(g, "waiting", "held")
    /\ granted' = granted \ {g}
    /\ UNCHANGED <<mode, try, entryOf, entry, refs, gates>>

\* The queue q without the waiter at index i.
Without(q, i) == [j \in 1..(Len(q) - 1) |-> IF j < i THEN q[j] ELSE q[j + 1]]

\* The queue q after the loop that looks for g in it.
Leave(q, g) ==
    IF \E i \in 1..Len(q) : q[i] = g THEN Without(q, CHOOSE i \in 1..Len(q) : q[i] = g) ELSE q

\* Mutant: a waiter that was granted meanwhile just leaves.
LeaveGate(g) == [gates[entryOf[g]] EXCEPT !.waiters = Leave(@, g)]

\* The gate after g stopped waiting: the grant is given back or g leaves the queue.
GiveUpGate(g) ==
    LET gate == gates[entryOf[g]] IN
    IF g \in granted THEN MarkReleased(gate, mode[g])
    ELSE [gate EXCEPT !.waiters = Leave(@, g)]

\* <-ctx.Done()
Cancel(g) ==
    /\ Goto(g, "waiting", "drop")
    /\ GrantWaiters(entryOf[g], GiveUpGate(g), granted \ {g})
    /\ UNCHANGED <<mode, try, entryOf, entry, refs>>

\* localLease.release: the gate first, the reference afterwards.
Release(g) ==
    /\ Goto(g, "held", "drop")
    /\ GrantWaiters(entryOf[g], MarkReleased(gates[entryOf[g]], mode[g]), granted)
    /\ UNCHANGED <<mode, try, entryOf, entry, refs>>

\* r.entry.refs == 0 after the decrement
Unused(e) == refs[e] = 1

\* localGateReference.release.
DropReference(g) ==
    LET e == entryOf[g] IN
    /\ Goto(g, "drop", "idle")
    /\ refs' = [refs EXCEPT ![e] = @ - 1]
    /\ entry' = IF Unused(e) /\ entry = e THEN None ELSE entry
    /\ entryOf' = [entryOf EXCEPT ![g] = None]
    /\ UNCHANGED <<mode, try, gates, granted>>

Next ==
    \E g \in Goroutines :
        \/ Reference(g) \/ AcquireNow(g) \/ TryFails(g) \/ Enqueue(g) \/ Receive(g)
        \/ Cancel(g) \/ Release(g) \/ DropReference(g)

Spec == Init /\ [][Next]_vars

\* Goroutines that got the gate go on and release it; nobody has to ask for it
\* and nobody has to be cancelled.
Fairness ==
    \A g \in Goroutines :
        /\ WF_vars(AcquireNow(g) \/ TryFails(g) \/ Enqueue(g)) /\ WF_vars(Receive(g))
        /\ WF_vars(Release(g)) /\ WF_vars(DropReference(g))

FairSpec == Spec /\ Fairness

-----------------------------------------------------------------------------
(* Properties.                                                             *)

Queued(e) == {gates[e].waiters[i] : i \in 1..Len(gates[e].waiters)}
Position(e, g) == CHOOSE i \in 1..Len(gates[e].waiters) : gates[e].waiters[i] = g

\* Goroutines the gate counts: holders and waiters that were granted.
Active == {g \in Goroutines : pc[g] = "held"} \cup granted
ActiveIn(e, m) == {g \in Active : entryOf[g] = e /\ mode[g] = m}

\* Types; in particular activeReaders and refs never become negative.
TypeOK ==
    /\ pc \in [Goroutines -> {"idle", "ref", "waiting", "held", "drop"}]
    /\ mode \in [Goroutines -> Modes]
    /\ try \in [Goroutines -> BOOLEAN]
    /\ entryOf \in [Goroutines -> Entries \cup {None}]
    /\ entry \in Entries \cup {None}
    /\ refs \in [Entries -> Nat]
    /\ gates \in [Entries -> Gates]
    /\ granted \subseteq Goroutines

\* Everybody who holds or wants the lock's gate works on the same gate, however
\* often the registry entry was dropped and made again.
OneGatePerPath ==
    \A g \in Goroutines : entryOf[g] # None => entryOf[g] = entry

\* The gate's counters are the leases it has given out, a grant that a cancelled
\* waiter gave back not included, and a writer is alone on the path.
GateCountsLeases ==
    \A e \in Entries :
        /\ e = entry => /\ gates[e].readers = Cardinality(ActiveIn(e, "shared"))
                        /\ gates[e].writer <=> ActiveIn(e, "exclusive") # {}
        /\ \A g \in ActiveIn(e, "exclusive") : Active = {g}

\* The gate of a path is one gate with exact counters, in any order of grants,
\* cancellations and dropped references.
GateIsExact == TypeOK /\ OneGatePerPath /\ GateCountsLeases

\* No waiter is forgotten: whenever the mutex is free the first one has to wait.
NoStrandedWaiter ==
    \A e \in Entries : gates[e].waiters # <<>> => ~CanGrant(gates[e], mode[Head(gates[e].waiters)])

\* Nobody gets the gate before those who queued earlier: neither a later waiter
\* nor a newcomer overtakes.
NoOvertaking ==
    [][\A g \in Active' \ Active, e \in Entries : \A h \in Queued(e) :
          (g \in Queued(e) => Position(e, h) < Position(e, g)) => h \notin Queued(e)' \/ h = g]_vars

\* A queued goroutine gets the gate, or is cancelled, if holders release it.
WaitersAreGranted ==
    \A g \in Goroutines : pc[g] = "waiting" ~> pc[g] # "waiting"
=============================================================================
