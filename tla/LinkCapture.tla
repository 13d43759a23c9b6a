------------------------------ MODULE LinkCapture ------------------------------
(***************************************************************************)
(* The deferred link capture queue: the table link_capture_queue           *)
(* (internal/store/link_capture_queue.go), the savers that put URLs in it  *)
(* (the web handler and the requeue command), and the workers that drain   *)
(* it (internal/linkcapture/worker.go), one per web server on the          *)
(* database.                                                               *)
(*                                                                         *)
(* Every SQL statement runs in a transaction of its own, so it is one      *)
(* action; what a worker or a saver does between two statements            *)
(* interleaves with everybody else's.  A URL stands for its row: the key   *)
(* normalized_url is unique.  Times are abstracted: next_attempt_at to     *)
(* whether it has passed, enqueued_at to the order of the queue (two saves *)
(* of the same second, which the code orders by id, are given an order).   *)
(***************************************************************************)
EXTENDS Naturals, Sequences, FiniteSets, Functions

CONSTANTS
    URLs,           \* the normalized URLs that are saved
    Workers,        \* the workers, one per web server
    Savers,         \* concurrent calls of EnqueueLinkCapture
    None,
    MaxAttempts,    \* MaxLinkCaptureAttempts
    EnqueueRounds,  \* the rounds EnqueueLinkCapture tries
    MaxInterrupts   \* bound: crashes, shutdowns and failed statements of workers

ASSUME CaptureAssumption ==
    /\ MaxAttempts \in Nat \ {0} /\ EnqueueRounds \in Nat \ {0}
    /\ MaxInterrupts \in Nat /\ IsFiniteSet(Workers)
    /\ None \notin URLs

VARIABLES
    state,      \* state[u]: processed_at and dead_lettered_at of u's row
    attempts,   \* attempts[u]: attempt_count
    due,        \* due[u]: next_attempt_at is empty or has passed
    queue,      \* the rows, by enqueued_at
    stored,     \* the URLs kept as a source or a feed
    worker,     \* worker[w]: where RunOnce is, the capture and its in-memory count
    saver,      \* saver[s]: where EnqueueLinkCapture is
    interrupts,
    accepted,   \* history: the URLs whose save was acknowledged
    tries,      \* history: attempts begun since u was last opened
    shared,     \* history: two workers had u in hand in this window
    fellBack    \* history: the fallback write was tried, and failed, in this window

row == <<state, attempts, due, queue>>
history == <<accepted, tries, shared, fellBack>>
vars == <<row, stored, worker, saver, interrupts, history>>

Pending(u) == state[u] = "pending"

Idle == [pc |-> "idle", url |-> None, count |-> 0]
NoSave == [pc |-> "idle", url |-> None, round |-> 0]

TypeOK ==
    /\ state \in [URLs -> {"absent", "pending", "processed", "dead"}]
    /\ attempts \in [URLs -> 0 .. MaxAttempts + MaxInterrupts + Cardinality(Workers)]
    /\ due \in [URLs -> BOOLEAN]
    /\ queue \in Seq(URLs) /\ IsInjective(queue)
    /\ Range(queue) = {u \in URLs : state[u] # "absent"}
    /\ stored \subseteq URLs /\ accepted \subseteq URLs
    /\ worker \in [Workers -> [pc : {"idle", "listed", "process", "fallback", "done", "failed"},
                               url : URLs \cup {None}, count : Nat]]
    /\ \A w \in Workers : worker[w].pc = "idle" <=> worker[w].url = None
    /\ saver \in [Savers -> [pc : {"idle", "insert", "reopen", "refresh"},
                             url : URLs \cup {None}, round : 0 .. EnqueueRounds]]
    /\ \A s \in Savers : saver[s].pc = "idle" <=> saver[s].url = None
    /\ interrupts \in 0 .. MaxInterrupts
    /\ tries \in [URLs -> Nat] /\ shared \in [URLs -> BOOLEAN] /\ fellBack \in [URLs -> BOOLEAN]

Init ==
    /\ state = [u \in URLs |-> "absent"]
    /\ attempts = [u \in URLs |-> 0]
    /\ due = [u \in URLs |-> TRUE]
    /\ queue = <<>>
    /\ stored = {}
    /\ worker = [w \in Workers |-> Idle]
    /\ saver = [s \in Savers |-> NoSave]
    /\ interrupts = 0
    /\ accepted = {}
    /\ tries = [u \in URLs |-> 0]
    /\ shared = [u \in URLs |-> FALSE]
    /\ fellBack = [u \in URLs |-> FALSE]

(***************************************************************************)
(* EnqueueLinkCapture: insert, else reopen, else refresh, each its own     *)
(* statement, in at most EnqueueRounds rounds.                             *)
(***************************************************************************)

\* The web handler saves any URL.
SaveLink(s, u) ==
    /\ saver[s].pc = "idle"
    /\ saver' = [saver EXCEPT ![s] = [pc |-> "insert", url |-> u, round |-> 1]]
    /\ UNCHANGED <<row, stored, worker, interrupts, history>>

\* The requeue command saves again what it just read as dead-lettered.
RequeueLink(s, u) ==
    /\ state[u] = "dead"
    /\ SaveLink(s, u)

Acknowledge(s, u) ==
    /\ saver' = [saver EXCEPT ![s] = NoSave]
    /\ accepted' = accepted \cup {u}

\* The queue without its i-th row.
Without(i) == [j \in 1 .. (Len(queue) - 1) |-> queue[IF j < i THEN j ELSE j + 1]]

\* The queue after u's row got a new enqueued_at.
Requeued(u) ==
    IF state[u] = "absent" THEN Append(queue, u)
    ELSE Append(Without(CHOOSE i \in 1 .. Len(queue) : queue[i] = u), u)

\* A new window of attempts: it is shared from the start when a worker is
\* still busy with the capture of the last one.
OpenWindow(u) ==
    /\ state' = [state EXCEPT ![u] = "pending"]
    /\ attempts' = [attempts EXCEPT ![u] = 0]
    /\ due' = [due EXCEPT ![u] = TRUE]
    /\ queue' = Requeued(u)
    /\ tries' = [tries EXCEPT ![u] = 0]
    /\ shared' = [shared EXCEPT ![u] = \E w \in Workers : worker[w].url = u]
    /\ fellBack' = [fellBack EXCEPT ![u] = FALSE]

InsertCapture(s) ==
    LET u == saver[s].url IN
    /\ saver[s].pc = "insert"
    /\ IF state[u] = "absent"
       THEN OpenWindow(u) /\ Acknowledge(s, u)
       ELSE /\ saver' = [saver EXCEPT ![s].pc = "reopen"]
            /\ UNCHANGED <<row, history>>
    /\ UNCHANGED <<stored, worker, interrupts>>

ReopenCapture(s) ==
    LET u == saver[s].url IN
    /\ saver[s].pc = "reopen"
    /\ IF state[u] \in {"processed", "dead"}
       THEN OpenWindow(u) /\ Acknowledge(s, u)
       ELSE /\ saver' = [saver EXCEPT ![s].pc = "refresh"]
            /\ UNCHANGED <<row, history>>
    /\ UNCHANGED <<stored, worker, interrupts>>

\* Mutant: a save of a pending capture starts its failure budget again.
MutantRefreshCapture(s) ==
    LET u == saver[s].url IN
    /\ saver[s].pc = "refresh"
    /\ IF Pending(u)
       THEN /\ Acknowledge(s, u)
            /\ due' = [due EXCEPT ![u] = TRUE]
            /\ attempts' = [attempts EXCEPT ![u] = 0]
            /\ UNCHANGED <<state, queue, tries, shared, fellBack>>
       ELSE /\ saver' = [saver EXCEPT ![s] = NoSave]
            /\ UNCHANGED <<row, history>>
    /\ UNCHANGED <<stored, worker, interrupts>>

\* A save of a pending capture clears its backoff and keeps its place and its
\* attempt count.  A row that changed between the statements is tried again,
\* and after the last round the save fails.
RefreshCapture(s) ==
    LET u == saver[s].url IN
    /\ saver[s].pc = "refresh"
    /\ IF Pending(u)
       THEN /\ Acknowledge(s, u)
            /\ due' = [due EXCEPT ![u] = TRUE]
            /\ UNCHANGED <<state, attempts, queue, tries, shared, fellBack>>
       ELSE /\ saver' = [saver EXCEPT ![s] =
                  IF saver[s].round < EnqueueRounds
                  THEN [pc |-> "insert", url |-> u, round |-> saver[s].round + 1]
                  ELSE NoSave]
            /\ UNCHANGED <<row, history>>
    /\ UNCHANGED <<stored, worker, interrupts>>

\* A statement failed (the admission pool's busy timeout): the save is refused.
RefuseSave(s) ==
    /\ saver[s].pc # "idle"
    /\ saver' = [saver EXCEPT ![s] = NoSave]
    /\ UNCHANGED <<row, stored, worker, interrupts, history>>

(***************************************************************************)
(* RunOnce of a worker.                                                    *)
(***************************************************************************)

Moves(w, pc) == worker' = [worker EXCEPT ![w].pc = pc]
Returns(w) == worker' = [worker EXCEPT ![w] = Idle]

Ready(u) == Pending(u) /\ due[u]

\* Mutant: a capture that has used its attempts is no longer listed.
MutantListPending(w) ==
    /\ worker[w].pc = "idle"
    /\ \E i \in 1 .. Len(queue) :
         /\ Ready(queue[i]) /\ attempts[queue[i]] < MaxAttempts
         /\ \A j \in 1 .. (i - 1) : ~Ready(queue[j])
         /\ worker' = [worker EXCEPT ![w] =
                [pc |-> "listed", url |-> queue[i], count |-> attempts[queue[i]]]]
    /\ UNCHANGED <<row, stored, saver, interrupts, history>>

\* ListPendingLinkCaptures with limit 1: the oldest pending capture that is due.
ListPending(w) ==
    /\ worker[w].pc = "idle"
    /\ \E i \in 1 .. Len(queue) :
         /\ Ready(queue[i])
         /\ \A j \in 1 .. (i - 1) : ~Ready(queue[j])
         /\ worker' = [worker EXCEPT ![w] =
                [pc |-> "listed", url |-> queue[i], count |-> attempts[queue[i]]]]
    /\ UNCHANGED <<row, stored, saver, interrupts, history>>

\* The attempt is counted in the row, then in the worker's copy of it.
MarkAttempt(w) ==
    LET u == worker[w].url IN
    /\ worker[w].pc = "listed"
    /\ IF Pending(u)
       THEN /\ attempts' = [attempts EXCEPT ![u] = @ + 1]
            /\ worker' = [worker EXCEPT ![w].pc = "process", ![w].count = @ + 1]
            /\ tries' = [tries EXCEPT ![u] = @ + 1]
            /\ shared' = [shared EXCEPT ![u] = @ \/ \E v \in Workers \ {w} : worker[v].url = u]
       ELSE Returns(w) /\ UNCHANGED <<attempts, tries, shared>>
    /\ UNCHANGED <<state, due, queue, stored, saver, interrupts, accepted, fellBack>>

\* Mutant: one attempt more before the fallback is tried.
MutantLastAttempt(w) ==
    LET u == worker[w].url IN
    /\ worker[w].pc = "process"
    /\ \/ stored' = stored \cup {u} /\ Moves(w, "done")
       \/ /\ UNCHANGED stored
          /\ Moves(w, IF worker[w].count > MaxAttempts THEN "fallback" ELSE "failed")
    /\ UNCHANGED <<row, saver, interrupts, history>>

\* Mutant: an ambiguous discovery is dropped instead of stored as a source.
MutantProcessCapture(w) ==
    /\ worker[w].pc = "process"
    /\ Moves(w, "done")
    /\ UNCHANGED <<row, stored, saver, interrupts, history>>

\* processCapture stores the URL as a feed or as a source and succeeds, or it
\* fails: the fetch, the import or its time limit.  A feed import may fail
\* having stored the feed.  The last permitted attempt goes on to the fallback.
ProcessCapture(w) ==
    LET u == worker[w].url IN
    /\ worker[w].pc = "process"
    /\ \/ stored' = stored \cup {u} /\ Moves(w, "done")
       \/ /\ stored' \in {stored, stored \cup {u}}
          /\ Moves(w, IF worker[w].count >= MaxAttempts THEN "fallback" ELSE "failed")
    /\ UNCHANGED <<row, saver, interrupts, history>>

\* fallbackCapture: the URL becomes an ordinary source, or the write fails, which
\* may leave the source behind.
FallbackCapture(w) ==
    LET u == worker[w].url IN
    /\ worker[w].pc = "fallback"
    /\ \/ /\ stored' = stored \cup {u}
          /\ Moves(w, "done")
          /\ UNCHANGED fellBack
       \/ /\ fellBack' = [fellBack EXCEPT ![u] = @ \/ Pending(u)]
          /\ Moves(w, "failed")
          /\ stored' \in {stored, stored \cup {u}}
    /\ UNCHANGED <<row, saver, interrupts, accepted, tries, shared>>

MarkProcessed(w) ==
    LET u == worker[w].url IN
    /\ worker[w].pc = "done"
    /\ state' = [state EXCEPT ![u] = IF @ = "pending" THEN "processed" ELSE @]
    /\ due' = [due EXCEPT ![u] = @ \/ Pending(u)]
    /\ shared' = [shared EXCEPT ![u] = @ /\ ~Pending(u)]
    /\ fellBack' = [fellBack EXCEPT ![u] = @ /\ ~Pending(u)]
    /\ Returns(w)
    /\ UNCHANGED <<attempts, queue, stored, saver, interrupts, accepted, tries>>

\* MarkLinkCaptureFailed decides by the row's count: the last attempt parks the
\* capture, an earlier one sets its backoff.
MarkFailed(w) ==
    LET u == worker[w].url
        last == attempts[u] >= MaxAttempts
    IN
    /\ worker[w].pc = "failed"
    /\ state' = [state EXCEPT ![u] = IF Pending(u) /\ last THEN "dead" ELSE @]
    /\ due' = [due EXCEPT ![u] = IF Pending(u) THEN last ELSE @]
    /\ Returns(w)
    /\ UNCHANGED <<attempts, queue, stored, saver, interrupts, history>>

\* The worker stops where it is: its process dies, Shutdown cancels its
\* context (every later statement then fails), or a statement fails.
Interrupt(w) ==
    /\ worker[w].pc # "idle"
    /\ interrupts < MaxInterrupts
    /\ interrupts' = interrupts + 1
    /\ Returns(w)
    /\ UNCHANGED <<row, stored, saver, history>>

\* A backoff passes.
Elapse(u) ==
    /\ ~due[u]
    /\ due' = [due EXCEPT ![u] = TRUE]
    /\ UNCHANGED <<state, attempts, queue, stored, worker, saver, interrupts, history>>

WorkerStep(w) ==
    \/ ListPending(w) \/ MarkAttempt(w) \/ ProcessCapture(w)
    \/ FallbackCapture(w) \/ MarkProcessed(w) \/ MarkFailed(w)

Next ==
    \/ \E s \in Savers :
         \/ \E u \in URLs : SaveLink(s, u) \/ RequeueLink(s, u)
         \/ InsertCapture(s) \/ ReopenCapture(s) \/ RefreshCapture(s) \/ RefuseSave(s)
    \/ \E w \in Workers : WorkerStep(w) \/ Interrupt(w)
    \/ \E u \in URLs : Elapse(u)

Spec == Init /\ [][Next]_vars

\* A worker's loop goes on and its attempts end (they have a time limit); a
\* backoff passes.  Nothing is assumed of the savers.
FairSpec ==
    /\ Spec
    /\ \A w \in Workers : WF_vars(WorkerStep(w))
    /\ \A u \in URLs : WF_vars(Elapse(u))

--------------------------------------------------------------------------------

(* An acknowledged save is never lost: its URL is in the queue, waiting or
   parked, or it has been stored.  A capture is marked processed only after the
   write it stands for, whichever worker makes the mark. *)
AcceptedIsKept ==
    /\ TypeOK
    /\ \A u \in accepted : u \in stored \/ state[u] \in {"pending", "dead"}
    /\ \A u \in URLs : state[u] = "processed" => u \in stored

(* Saving a pending link again never buys it more attempts: the attempts begun
   since it was opened stay within the budget, save for one per interruption
   and one per other worker that listed it at the same time. *)
BudgetIsKept ==
    \A u \in URLs :
        tries[u] <= MaxAttempts + interrupts + (Cardinality(Workers) - 1)

(* A capture is parked only after the fallback write was tried and failed,
   provided one worker at a time had it in hand: re-saves, interruptions and
   the raised counts they leave never park it early. *)
DeadLetterIsEarned ==
    \A u \in URLs : state[u] = "dead" => fellBack[u] \/ shared[u]

(* Every pending capture is processed or parked in the end, however often it is
   saved again, whichever workers have it in hand, and although an interrupted
   attempt leaves no mark but the raised count. *)
EveryCaptureSettles ==
    \A u \in URLs : Pending(u) ~> ~Pending(u)
================================================================================
