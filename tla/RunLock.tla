------------------------------- MODULE RunLock -------------------------------
(***************************************************************************)
(* The advisory reader/writer lock that processes share through the file   *)
(* system (internal/runlock).  Every client first queues at a coordinator   *)
(* file.  A writer publishes its intent as a numbered ticket file that it   *)
(* keeps flock'ed; a ticket whose flock is free was abandoned and is        *)
(* removed by the next scan.  Readers are admitted only while no live       *)
(* ticket exists; of the writers only the owner of the lowest one is.       *)
(* The lock itself is a per-process gate plus a flock on the lock file.     *)
(*                                                                         *)
(* A step is one file-system call (or one scan of the ticket directory,     *)
(* which only the holder of the coordinator makes and during which tickets  *)
(* can only die).  A process may crash between any two steps: the kernel    *)
(* drops its flocks, its ticket files and the coordinator's contents stay.  *)
(***************************************************************************)
EXTENDS Naturals, FiniteSets

CONSTANTS
    Clients,      \* goroutines that use the lock
    Procs,        \* processes
    ProcOf,       \* the process of a client
    TryClients,   \* clients that use Acquire instead of AcquireContext
    None,
    MaxSequence,  \* math.MaxUint64
    MaxArrivals,  \* bound: number of writer intents ever published
    MaxCrashes    \* bound: number of process crashes

ASSUME ClientAssumption ==
    /\ ProcOf \in [Clients -> Procs]
    /\ TryClients \subseteq Clients
    /\ None \notin Clients
ASSUME LimitAssumption ==
    /\ MaxSequence \in Nat \ {0}
    /\ MaxArrivals \in Nat
    /\ MaxCrashes \in Nat

VARIABLES
    pc,         \* where each client stands
    coord,      \* the client that holds the coordinator file
    counter,    \* the number in the coordinator file, 0 when it is empty
    files,      \* numbers of the ticket files in the lock directory
    ticketOf,   \* the client whose flock is on a ticket file
    ticket,     \* writerIntent.sequence of each client
    gateR,      \* clients holding their process gate shared
    gateW,      \* clients holding their process gate exclusively
    lockR,      \* clients holding the lock file's flock shared
    lockW,      \* clients holding the lock file's flock exclusively
    arrival,    \* history: the order in which intents were published
    arrivals,   \* history: number of intents published so far
    crashes     \* number of crashes so far

fileVars == <<counter, files, ticketOf, ticket>>
lockVars == <<gateR, gateW, lockR, lockW>>
history  == <<arrival, arrivals>>
vars == <<pc, coord, fileVars, lockVars, history, crashes>>

Sequences == 1..MaxSequence

Init ==
    /\ pc = [c \in Clients |-> "idle"]
    /\ coord = None
    /\ counter = 0
    /\ files = {}
    /\ ticketOf = [n \in Sequences |-> None]
    /\ ticket = [c \in Clients |-> 0]
    /\ gateR = {} /\ gateW = {} /\ lockR = {} /\ lockW = {}
    /\ arrival = [c \in Clients |-> 0]
    /\ arrivals = 0
    /\ crashes = 0

-----------------------------------------------------------------------------
(* Building blocks.                                                        *)

Goto(c, from, to) == pc[c] = from /\ pc' = [pc EXCEPT ![c] = to]

\* Tickets whose flock is held: what tryAcquireFileLock finds locked.
LiveTickets == {n \in files : ticketOf[n] # None}

\* cleanWriterIntents: abandoned ticket files are removed.
Clean(c) == files' = LiveTickets

\* localGate.canGrant for an exclusive request, in the client's own process.
GateFreeForWriter(c) == {d \in gateR \cup gateW : ProcOf[d] = ProcOf[c]} = {}

\* localGate.canGrant for a shared request.
GateFreeForReader(c) == {d \in gateW : ProcOf[d] = ProcOf[c]} = {}

\* Mutant: a writer asks for a shared flock.
FlockFreeAsReader == lockW = {}

\* The kernel grants a flock that conflicts with no other.
FlockFreeForWriter == lockR \cup lockW = {}
FlockFreeForReader == lockW = {}

\* acquireCoordinator succeeds.
TakeCoordinator(c, from, to) ==
    /\ coord = None
    /\ Goto(c, from, to)
    /\ coord' = c
    /\ UNCHANGED <<fileVars, lockVars, history, crashes>>

-----------------------------------------------------------------------------
(* acquireSharedContext.                                                   *)

StartShared(c) ==
    /\ c \notin TryClients
    /\ Goto(c, "idle", "sWait")
    /\ UNCHANGED <<coord, fileVars, lockVars, history, crashes>>

SharedCoordinator(c) == TakeCoordinator(c, "sWait", "sScan")

\* Mutant: readers ignore writer intents.
IgnoreIntents == TRUE

\* len(intents) == 0
NoLiveIntent == LiveTickets = {}

\* The first scan: with a live intent the reader steps back and retries.
SharedScan(c) ==
    /\ pc[c] = "sScan"
    /\ Clean(c)
    /\ \/ /\ NoLiveIntent
          /\ pc' = [pc EXCEPT ![c] = "sGate"]
          /\ UNCHANGED coord
       \/ /\ ~NoLiveIntent
          /\ pc' = [pc EXCEPT ![c] = "sWait"]
          /\ coord' = None
    /\ UNCHANGED <<counter, ticketOf, ticket, lockVars, history, crashes>>

\* tryAcquireProcessGate, shared.
SharedGate(c) ==
    /\ pc[c] = "sGate"
    /\ \/ /\ GateFreeForReader(c)
          /\ gateR' = gateR \cup {c}
          /\ pc' = [pc EXCEPT ![c] = "sFlock"]
          /\ UNCHANGED coord
       \/ /\ ~GateFreeForReader(c)
          /\ pc' = [pc EXCEPT ![c] = "sWait"]
          /\ coord' = None
          /\ UNCHANGED gateR
    /\ UNCHANGED <<fileVars, gateW, lockR, lockW, history, crashes>>

\* tryAcquireFileLock, shared.
SharedFlock(c) ==
    /\ pc[c] = "sFlock"
    /\ \/ /\ FlockFreeForReader
          /\ lockR' = lockR \cup {c}
          /\ pc' = [pc EXCEPT ![c] = "sRecheck"]
          /\ UNCHANGED <<coord, gateR>>
       \/ /\ ~FlockFreeForReader
          /\ gateR' = gateR \ {c}
          /\ pc' = [pc EXCEPT ![c] = "sWait"]
          /\ coord' = None
          /\ UNCHANGED lockR
    /\ UNCHANGED <<fileVars, gateW, lockW, history, crashes>>

\* The second scan, then the coordinator is closed and the lock is returned.
SharedRecheck(c) ==
    /\ pc[c] = "sRecheck"
    /\ Clean(c)
    /\ coord' = None
    /\ \/ /\ NoLiveIntent
          /\ pc' = [pc EXCEPT ![c] = "shared"]
          /\ UNCHANGED <<gateR, lockR>>
       \/ /\ ~NoLiveIntent
          /\ lockR' = lockR \ {c}
          /\ gateR' = gateR \ {c}
          /\ pc' = [pc EXCEPT ![c] = "sWait"]
    /\ UNCHANGED <<counter, ticketOf, ticket, gateW, lockW, history, crashes>>

\* Lock.Close of a reader: the flock, then the gate.
SharedClose(c) ==
    /\ Goto(c, "shared", "sRelease")
    /\ lockR' = lockR \ {c}
    /\ UNCHANGED <<coord, fileVars, gateR, gateW, lockW, history, crashes>>

SharedRelease(c) ==
    /\ Goto(c, "sRelease", "idle")
    /\ gateR' = gateR \ {c}
    /\ UNCHANGED <<coord, fileVars, gateW, lockR, lockW, history, crashes>>

-----------------------------------------------------------------------------
(* createWriterIntent.                                                     *)

StartExclusive(c) ==
    /\ c \notin TryClients
    /\ Goto(c, "idle", "iWait")
    /\ UNCHANGED <<coord, fileVars, lockVars, history, crashes>>

IntentCoordinator(c) ==
    /\ arrivals < MaxArrivals
    /\ TakeCoordinator(c, "iWait", "iScan")

\* Mutant: the counter file alone decides.
IsStoredSequence(n) == n = counter

\* The highest number in use: the coordinator's counter or a live ticket's.
IsLastSequence(n) ==
    /\ n \in {counter} \cup LiveTickets
    /\ \A m \in {counter} \cup LiveTickets : m <= n

\* sequence == math.MaxUint64 is an error.
SequenceLeft(n) == n < MaxSequence

\* Scan, read the counter, pick the next number and truncate the counter file;
\* or fail because the numbers are used up.
IntentScan(c) ==
    /\ pc[c] = "iScan"
    /\ Clean(c)
    /\ \E last \in {counter} \cup LiveTickets :
          /\ IsLastSequence(last)
          /\ \/ /\ SequenceLeft(last)
                /\ ticket' = [ticket EXCEPT ![c] = last + 1]
                /\ counter' = 0
                /\ pc' = [pc EXCEPT ![c] = "iWrite"]
                /\ UNCHANGED coord
             \/ /\ ~SequenceLeft(last)
                /\ pc' = [pc EXCEPT ![c] = "idle"]
                /\ coord' = None
                /\ UNCHANGED <<ticket, counter>>
    /\ UNCHANGED <<ticketOf, lockVars, history, crashes>>

\* The second half of replaceFileLockMetadata: the new number is written.
IntentWrite(c) ==
    /\ Goto(c, "iWrite", "iTicket")
    /\ counter' = ticket[c]
    /\ UNCHANGED <<coord, files, ticketOf, ticket, lockVars, history, crashes>>

\* The ticket file is created and locked and the coordinator closed, or that
\* fails, perhaps after the file was created, and the number is lost.
IntentTicket(c) ==
    /\ pc[c] = "iTicket"
    /\ coord' = None
    /\ \/ /\ files' = files \cup {ticket[c]}
          /\ ticketOf' = [ticketOf EXCEPT ![ticket[c]] = c]
          /\ arrivals' = arrivals + 1
          /\ arrival' = [arrival EXCEPT ![c] = arrivals + 1]
          /\ pc' = [pc EXCEPT ![c] = "xWait"]
          /\ UNCHANGED ticket
       \/ /\ pc' = [pc EXCEPT ![c] = "idle"]
          /\ ticket' = [ticket EXCEPT ![c] = 0]
          /\ files' = files \/ files' = files \cup {ticket[c]}
          /\ UNCHANGED <<ticketOf, history>>
    /\ UNCHANGED <<counter, lockVars, crashes>>

-----------------------------------------------------------------------------
(* acquireExclusiveContext.                                                *)

ExclusiveCoordinator(c) == TakeCoordinator(c, "xWait", "xScan")

\* Mutant: any live ticket will do.
IsAnyTicket(c) == ticket[c] \in files

\* len(intents) > 0 && intents[0].path == intent.ticketPath
IsFirstTicket(c) == ticket[c] \in files /\ \A n \in LiveTickets : ticket[c] <= n

ExclusiveScan(c) ==
    /\ pc[c] = "xScan"
    /\ Clean(c)
    /\ \/ /\ IsFirstTicket(c)
          /\ pc' = [pc EXCEPT ![c] = "xGate"]
          /\ UNCHANGED coord
       \/ /\ ~IsFirstTicket(c)
          /\ pc' = [pc EXCEPT ![c] = "xWait"]
          /\ coord' = None
    /\ UNCHANGED <<counter, ticketOf, ticket, lockVars, history, crashes>>

\* tryAcquireProcessGate, exclusive.
ExclusiveGate(c) ==
    /\ pc[c] = "xGate"
    /\ \/ /\ GateFreeForWriter(c)
          /\ gateW' = gateW \cup {c}
          /\ pc' = [pc EXCEPT ![c] = "xFlock"]
          /\ UNCHANGED coord
       \/ /\ ~GateFreeForWriter(c)
          /\ pc' = [pc EXCEPT ![c] = "xWait"]
          /\ coord' = None
          /\ UNCHANGED gateW
    /\ UNCHANGED <<fileVars, gateR, lockR, lockW, history, crashes>>

\* tryAcquireFileLock, exclusive; the metadata is written and the coordinator closed.
ExclusiveFlock(c) ==
    /\ pc[c] = "xFlock"
    /\ coord' = None
    /\ \/ /\ FlockFreeForWriter
          /\ lockW' = lockW \cup {c}
          /\ pc' = [pc EXCEPT ![c] = "exclusive"]
          /\ UNCHANGED gateW
       \/ /\ ~FlockFreeForWriter
          /\ gateW' = gateW \ {c}
          /\ pc' = [pc EXCEPT ![c] = "xWait"]
          /\ UNCHANGED lockW
    /\ UNCHANGED <<fileVars, gateR, lockR, history, crashes>>

\* Lock.Close of a writer: the flock, the gate, then the intent.
ExclusiveClose(c) ==
    /\ Goto(c, "exclusive", "xRelease")
    /\ lockW' = lockW \ {c}
    /\ UNCHANGED <<coord, fileVars, gateR, gateW, lockR, history, crashes>>

ExclusiveRelease(c) ==
    /\ Goto(c, "xRelease", "xTicket")
    /\ gateW' = gateW \ {c}
    /\ UNCHANGED <<coord, fileVars, gateR, lockR, lockW, history, crashes>>

\* releaseTicket: the ticket's flock is dropped, its file stays until a scan.
DropTicket(c, from, to) ==
    /\ Goto(c, from, to)
    /\ ticketOf' = [ticketOf EXCEPT ![ticket[c]] = None]
    /\ ticket' = [ticket EXCEPT ![c] = 0]
    /\ arrival' = [arrival EXCEPT ![c] = 0]
    /\ UNCHANGED <<coord, counter, files, lockVars, arrivals, crashes>>

ReleaseTicket(c) == DropTicket(c, "xTicket", "cWait")

\* cleanupReleasedTicket.
CleanupCoordinator(c) == TakeCoordinator(c, "cWait", "cScan")

CleanupScan(c) ==
    /\ Goto(c, "cScan", "idle")
    /\ Clean(c)
    /\ coord' = None
    /\ UNCHANGED <<counter, ticketOf, ticket, lockVars, history, crashes>>

-----------------------------------------------------------------------------
(* Errors, cancelled contexts, Acquire and crashes.                        *)

\* The early returns on an I/O error: what was acquired is closed.
Fail(c, to) ==
    /\ pc' = [pc EXCEPT ![c] = to]
    /\ coord' = None
    /\ lockR' = lockR \ {c}
    /\ gateR' = gateR \ {c}
    /\ gateW' = gateW \ {c}
    /\ UNCHANGED <<counter, ticketOf, lockW, history, crashes>>

\* cleanWriterIntents returns an error after removing some abandoned tickets.
FailedScan(c) ==
    /\ \/ pc[c] \in {"sScan", "sRecheck", "iScan", "cScan"} /\ Fail(c, "idle")
       \/ pc[c] = "xScan" /\ Fail(c, "xFail")
    /\ \E gone \in SUBSET (files \ LiveTickets) : files' = files \ gone
    /\ UNCHANGED ticket

\* Locking or writing a file fails.
FailedCall(c) ==
    /\ \/ pc[c] = "sFlock" /\ Fail(c, "idle") /\ UNCHANGED ticket
       \/ pc[c] = "iWrite" /\ Fail(c, "idle") /\ ticket' = [ticket EXCEPT ![c] = 0]
       \/ pc[c] = "xFlock" /\ Fail(c, "xFail") /\ UNCHANGED ticket
    /\ UNCHANGED files

\* closeAfterAcquireFailure: the failed writer's ticket is released.
FailTicket(c) == DropTicket(c, "xFail", "fWait")

\* ctx ends while a client waits: a reader or a writer without intent just
\* leaves; a writer drops its ticket (closeAfterAcquireFailure).
CancelWait(c) ==
    /\ Goto(c, "sWait", "idle") \/ Goto(c, "iWait", "idle")
    /\ UNCHANGED <<coord, fileVars, lockVars, history, crashes>>

CancelExclusive(c) == DropTicket(c, "xWait", "fWait")

\* The best-effort cleanup gets the coordinator, or runs out of its 25 ms grace.
FailureCoordinator(c) == TakeCoordinator(c, "fWait", "cScan")

FailureTimeout(c) ==
    /\ Goto(c, "fWait", "idle")
    /\ UNCHANGED <<coord, fileVars, lockVars, history, crashes>>

\* Acquire: gate and flock are tried once, without coordinator and intent.
TryGate(c) ==
    /\ c \in TryClients
    /\ GateFreeForWriter(c)
    /\ Goto(c, "idle", "tFlock")
    /\ gateW' = gateW \cup {c}
    /\ UNCHANGED <<coord, fileVars, gateR, lockR, lockW, history, crashes>>

\* The one attempt at the flock: it is got, or it is held by another or cannot be
\* opened, and the gate is given back.
TryFlock(c) ==
    /\ pc[c] = "tFlock"
    /\ \/ /\ FlockFreeForWriter
          /\ lockW' = lockW \cup {c}
          /\ pc' = [pc EXCEPT ![c] = "tried"]
          /\ UNCHANGED gateW
       \/ /\ gateW' = gateW \ {c}
          /\ pc' = [pc EXCEPT ![c] = "idle"]
          /\ UNCHANGED lockW
    /\ UNCHANGED <<coord, fileVars, gateR, lockR, history, crashes>>

TryClose(c) ==
    /\ Goto(c, "tried", "tRelease")
    /\ lockW' = lockW \ {c}
    /\ UNCHANGED <<coord, fileVars, gateR, gateW, lockR, history, crashes>>

TryRelease(c) ==
    /\ Goto(c, "tRelease", "idle")
    /\ gateW' = gateW \ {c}
    /\ UNCHANGED <<coord, fileVars, gateR, lockR, lockW, history, crashes>>

\* A process dies: the kernel closes its descriptors; files keep their contents.
Crash(p) ==
    LET dead == {c \in Clients : ProcOf[c] = p} IN
    /\ crashes < MaxCrashes
    /\ crashes' = crashes + 1
    /\ pc' = [c \in Clients |-> IF c \in dead THEN "idle" ELSE pc[c]]
    /\ coord' = IF coord \in dead THEN None ELSE coord
    /\ ticketOf' = [n \in Sequences |-> IF ticketOf[n] \in dead THEN None ELSE ticketOf[n]]
    /\ ticket' = [c \in Clients |-> IF c \in dead THEN 0 ELSE ticket[c]]
    /\ gateR' = gateR \ dead
    /\ gateW' = gateW \ dead
    /\ lockR' = lockR \ dead
    /\ lockW' = lockW \ dead
    /\ arrival' = [c \in Clients |-> IF c \in dead THEN 0 ELSE arrival[c]]
    /\ UNCHANGED <<counter, files, arrivals>>

-----------------------------------------------------------------------------
SharedStep(c) ==
    SharedScan(c) \/ SharedGate(c) \/ SharedFlock(c) \/ SharedRecheck(c)

ExclusiveStep(c) ==
    \/ ExclusiveScan(c) \/ ExclusiveGate(c) \/ ExclusiveFlock(c)

IntentStep(c) == IntentScan(c) \/ IntentWrite(c) \/ IntentTicket(c)

CloseStep(c) ==
    \/ SharedClose(c) \/ SharedRelease(c)
    \/ ExclusiveClose(c) \/ ExclusiveRelease(c) \/ ReleaseTicket(c) \/ CleanupScan(c)
    \/ FailTicket(c)

TryStep(c) == TryFlock(c) \/ TryClose(c) \/ TryRelease(c)

Next ==
    \/ \E c \in Clients :
          \/ StartShared(c) \/ SharedCoordinator(c) \/ SharedStep(c)
          \/ StartExclusive(c) \/ IntentCoordinator(c) \/ IntentStep(c)
          \/ ExclusiveCoordinator(c) \/ ExclusiveStep(c)
          \/ CloseStep(c) \/ CleanupCoordinator(c)
          \/ FailedScan(c) \/ FailedCall(c)
          \/ CancelWait(c) \/ CancelExclusive(c) \/ FailureCoordinator(c) \/ FailureTimeout(c)
          \/ TryGate(c) \/ TryStep(c)
    \/ \E p \in Procs : Crash(p)

Spec == Init /\ [][Next]_vars

\* A client that does not wait for the coordinator or retry after a failure.
RunningStep(c) ==
    SharedStep(c) \/ IntentStep(c) \/ ExclusiveStep(c) \/ CloseStep(c) \/ TryStep(c)

\* Clients run and lock holders close their locks.  The coordinator is polled every
\* 5 ms (FIFO within a process), so a waiting writer that finds it free again and
\* again gets it: strong fairness.  Nothing is assumed of readers that wait.
Fairness ==
    /\ \A c \in Clients : WF_vars(RunningStep(c))
    /\ \A c \in Clients \ TryClients : SF_vars(ExclusiveCoordinator(c))

FairSpec == Spec /\ Fairness

-----------------------------------------------------------------------------
(* Properties.                                                             *)

\* Clients with a published intent: their ticket file is locked.
Intents == {c \in Clients : pc[c] \in {"xWait", "xScan", "xGate", "xFlock",
                                       "exclusive", "xRelease", "xTicket", "xFail"}}
Readers == {c \in Clients : pc[c] = "shared"}
Writers == {c \in Clients : pc[c] \in {"exclusive", "tried"}}

\* The places of the code at which a client can stand.
Places == {"idle", "sWait", "sScan", "sGate", "sFlock", "sRecheck", "shared", "sRelease",
           "iWait", "iScan", "iWrite", "iTicket", "xWait", "xScan", "xGate", "xFlock",
           "exclusive", "xRelease", "xTicket", "xFail", "cWait", "cScan", "fWait",
           "tFlock", "tried", "tRelease"}

\* Types; in particular ticket numbers stay within the range of the counter.
TypeOK ==
    /\ pc \in [Clients -> Places]
    /\ coord \in Clients \cup {None}
    /\ counter \in 0..MaxSequence
    /\ files \subseteq Sequences
    /\ ticketOf \in [Sequences -> Clients \cup {None}]
    /\ ticket \in [Clients -> 0..MaxSequence]
    /\ gateR \subseteq Clients /\ gateW \subseteq Clients
    /\ lockR \subseteq Clients /\ lockW \subseteq Clients
    /\ arrival \in [Clients -> Nat] /\ arrivals \in Nat
    /\ crashes \in Nat

\* A published intent is never lost: its ticket file stays in the directory and
\* locked by its owner until the owner drops it, whatever scans, crashes and
\* restarts of the numbering happen.  No two writers ever share a ticket.
IntentsAreKept ==
    \A c \in Intents : ticket[c] \in files /\ ticketOf[ticket[c]] = c

\* Ticket numbers agree with the order in which the intents were published, even
\* when a crash between truncating and writing the counter file lost the counter.
TicketsFollowArrival ==
    \A c, d \in Intents : ticket[c] < ticket[d] <=> arrival[c] < arrival[d]

\* A published intent keeps its place in the line: both of the above.
IntentsKeepTheirPlace == IntentsAreKept /\ TicketsFollowArrival

\* The line of writers is sound: ticket numbers stay in range, and no intent is
\* lost or overtaken when the range runs out or the counter is lost.
LineIsSound == TypeOK /\ IntentsKeepTheirPlace

\* A writer holds the lock alone, across processes and within one.
WritersAlone ==
    \A c \in Writers : Writers = {c} /\ Readers = {}

\* The process gate is never held by two clients that exclude each other, and a
\* client that holds the file lock holds its gate.
GatesCoverLocks ==
    /\ \A c \in gateW, d \in gateR \cup gateW : ProcOf[c] = ProcOf[d] => c = d
    /\ lockR \subseteq gateR /\ lockW \subseteq gateW

\* Exclusion on both levels: the lock, and the gates it is taken under.
MutualExclusion == WritersAlone /\ GatesCoverLocks

\* Writer intent blocks readers: while an intent is published, nobody becomes a reader.
IntentBlocksReaders == [][Intents # {} => Readers' \subseteq Readers]_vars

\* Writers are served in the order of their intents: whoever becomes exclusive
\* published its intent before every other writer still waiting.
WritersInOrder ==
    [][\A c \in Clients : (pc[c] # "exclusive" /\ pc'[c] = "exclusive") =>
          \A d \in Intents : arrival[c] <= arrival[d]]_vars

\* A writer that has published its intent is served, unless its context is
\* cancelled or its process dies: later readers and writers cannot starve it.
\* Only callers of Acquire, which publish no intent, can, by trying for ever: each
\* attempt takes the gate, be it for a flock that it fails to open.
WritersAreServed ==
    \/ \E t \in TryClients : []<>(pc[t] = "tFlock")
    \/ \A c \in Clients \ TryClients : (pc[c] \in {"xWait", "xScan", "xGate", "xFlock"})
           ~> (pc[c] \in {"exclusive", "fWait", "idle"})

-----------------------------------------------------------------------------
(* The lock files implement the abstract lock.                             *)

Lock == INSTANCE FairRWLock WITH
    intent <- arrival, readers <- Readers, writers <- Writers

\* Coordinator, tickets, gates and flocks together behave like the fair lock.
ImplementsFairLock == Lock!Spec
=============================================================================
