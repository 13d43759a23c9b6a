--------------------------- MODULE LinkCaptureProofs ---------------------------
(***************************************************************************)
(* Proofs about LinkCapture: an acknowledged link is never lost, saving it  *)
(* again buys no attempts, and nothing is parked before its fallback was    *)
(* tried, for any number of URLs, workers and concurrent savers.            *)
(***************************************************************************)
EXTENDS LinkCapture, FiniteSetTheorems, SequenceTheorems, TLAPS

(***************************************************************************)
(* The inductive invariant.  The workers in the middle of an attempt at u   *)
(* pay for the attempts beyond the budget: each of them will settle the     *)
(* capture, or be interrupted.  In a window that no two workers shared, a   *)
(* worker's copy of the attempt count is the row's.                         *)
(***************************************************************************)
Busy(W, u) ==
    {w \in Workers : W[w].url = u /\ W[w].pc \in {"process", "fallback", "done", "failed"}}

TypeInv ==
    /\ state \in [URLs -> {"absent", "pending", "processed", "dead"}]
    /\ attempts \in [URLs -> Nat] /\ tries \in [URLs -> Nat]
    /\ due \in [URLs -> BOOLEAN]
    /\ shared \in [URLs -> BOOLEAN] /\ fellBack \in [URLs -> BOOLEAN]
    /\ stored \subseteq URLs /\ accepted \subseteq URLs
    /\ interrupts \in 0 .. MaxInterrupts
WorkerInv ==
    /\ worker \in [Workers -> [pc : {"idle", "listed", "process", "fallback", "done", "failed"},
                               url : URLs \cup {None}, count : Nat]]
    /\ \A w \in Workers : worker[w].pc = "idle" <=> worker[w].url = None
SaverInv ==
    /\ saver \in [Savers -> [pc : {"idle", "insert", "reopen", "refresh"},
                             url : URLs \cup {None}, round : 0 .. EnqueueRounds]]
    /\ \A s \in Savers : saver[s].pc = "idle" <=> saver[s].url = None
QueueInv ==
    /\ queue \in Seq(URLs)
    /\ \A i, j \in 1 .. Len(queue) : queue[i] = queue[j] => i = j
    /\ \A u \in URLs : state[u] # "absent" <=> \E i \in 1 .. Len(queue) : queue[i] = u
KeptInv ==
    /\ \A u \in accepted : state[u] # "absent"
    /\ \A u \in URLs : state[u] = "processed" => u \in stored
    /\ \A w \in Workers : worker[w].pc = "done" => worker[w].url \in stored
BudgetInv ==
    /\ tries = attempts
    /\ \A u \in URLs :
         /\ Pending(u) => attempts[u] <= MaxAttempts - 1 + interrupts + Cardinality(Busy(worker, u))
         /\ attempts[u] <= MaxAttempts - 1 + interrupts + Cardinality(Workers)
EarnedInv ==
    \A u \in URLs :
        /\ state[u] = "dead" => fellBack[u] \/ shared[u]
        /\ Pending(u) /\ ~shared[u] =>
              \A w \in Workers : worker[w].url = u =>
                 /\ worker[w].count = attempts[u]
                 /\ worker[w].pc = "failed" /\ worker[w].count >= MaxAttempts => fellBack[u]

IInv ==
    /\ TypeInv /\ WorkerInv /\ SaverInv /\ QueueInv
    /\ KeptInv /\ BudgetInv /\ EarnedInv

-----------------------------------------------------------------------------
\* Counting the workers at an attempt.
LEMMA BusyFacts ==
    ASSUME NEW W, NEW u
    PROVE  /\ IsFiniteSet(Busy(W, u)) /\ Cardinality(Busy(W, u)) \in Nat
           /\ Cardinality(Busy(W, u)) <= Cardinality(Workers) /\ Cardinality(Workers) \in Nat
<1>1. IsFiniteSet(Workers) /\ Busy(W, u) \in SUBSET Workers
    BY CaptureAssumption DEF Busy
<1>2. IsFiniteSet(Busy(W, u)) /\ Cardinality(Busy(W, u)) <= Cardinality(Workers)
    BY <1>1, FS_Subset
<1> QED
    BY <1>1, <1>2, FS_CardinalityType

\* A worker that begins an attempt at u joins those that are busy with it.
LEMMA BusyJoin ==
    ASSUME NEW W, NEW V, NEW u, NEW w, Busy(V, u) = Busy(W, u) \cup {w}, w \notin Busy(W, u)
    PROVE  Cardinality(Busy(V, u)) = Cardinality(Busy(W, u)) + 1
BY BusyFacts, FS_AddElement

\* A worker that stops leaves at most one worker less busy.
LEMMA BusyLeave ==
    ASSUME NEW W, NEW V, NEW u, NEW w, Busy(V, u) = Busy(W, u) \ {w}
    PROVE  Cardinality(Busy(W, u)) <= Cardinality(Busy(V, u)) + 1
<1>1. Cardinality(Busy(V, u)) = IF w \in Busy(W, u) THEN Cardinality(Busy(W, u)) - 1 ELSE Cardinality(Busy(W, u))
    BY BusyFacts, FS_RemoveElement
<1> QED
    BY <1>1, BusyFacts

\* The new place of a row is behind all the others.
LEMMA RequeuedFacts ==
    ASSUME IInv, NEW u \in URLs
    PROVE  /\ Requeued(u) \in Seq(URLs)
           /\ \A i, j \in 1 .. Len(Requeued(u)) : Requeued(u)[i] = Requeued(u)[j] => i = j
           /\ \A v \in URLs : (v = u \/ state[v] # "absent") <=> \E i \in 1 .. Len(Requeued(u)) : Requeued(u)[i] = v
<1> DEFINE n == Len(queue)
<1>1. /\ queue \in Seq(URLs) /\ n \in Nat
      /\ \A i, j \in 1 .. n : queue[i] = queue[j] => i = j
      /\ \A v \in URLs : state[v] # "absent" <=> \E i \in 1 .. n : queue[i] = v
    BY DEF IInv, QueueInv
<1>2. ASSUME NEW q \in Seq(URLs), \A i \in 1 .. Len(q) : q[i] # u,
             \A i, j \in 1 .. Len(q) : q[i] = q[j] => i = j,
             \A v \in URLs \ {u} : state[v] # "absent" <=> \E i \in 1 .. Len(q) : q[i] = v,
             Requeued(u) = Append(q, u)
      PROVE  /\ Requeued(u) \in Seq(URLs)
             /\ \A i, j \in 1 .. Len(Requeued(u)) : Requeued(u)[i] = Requeued(u)[j] => i = j
             /\ \A v \in URLs : (v = u \/ state[v] # "absent") <=> \E i \in 1 .. Len(Requeued(u)) : Requeued(u)[i] = v
  <2>1. /\ Append(q, u) \in Seq(URLs) /\ Len(q) \in Nat /\ Len(Append(q, u)) = Len(q) + 1
        /\ \A i \in 1 .. Len(q) : Append(q, u)[i] = q[i]
        /\ Append(q, u)[Len(q) + 1] = u
    BY AppendProperties
  <2>2. \A i \in 1 .. Len(q) + 1 : i \in 1 .. Len(q) \/ i = Len(q) + 1
    BY <2>1
  <2>3. \A i \in 1 .. Len(q) : i \in 1 .. Len(q) + 1
    BY <2>1
  <2>4. Len(q) + 1 \in 1 .. Len(q) + 1
    BY <2>1
  <2>5. \A i, j \in 1 .. Len(q) + 1 : Append(q, u)[i] = Append(q, u)[j] => i = j
    BY <1>2, <2>1, <2>2
  <2>6. ASSUME NEW v \in URLs
        PROVE  (v = u \/ state[v] # "absent") <=> \E i \in 1 .. Len(q) + 1 : Append(q, u)[i] = v
    BY <1>2, <2>1, <2>2, <2>3, <2>4
  <2> QED
    BY <1>2, <2>1, <2>5, <2>6
<1>3. CASE state[u] = "absent"
    BY <1>1, <1>2, <1>3 DEF Requeued
<1>4. CASE state[u] # "absent"
  <2> DEFINE k == CHOOSE i \in 1 .. n : queue[i] = u
             q == Without(k)
  <2>1. k \in 1 .. n /\ queue[k] = u
    BY <1>1, <1>4
  <2>2. Requeued(u) = Append(q, u)
    BY <1>4 DEF Requeued
  <2> HIDE DEF k
  <2>3. n - 1 \in Nat /\ q = [j \in 1 .. (n - 1) |-> queue[IF j < k THEN j ELSE j + 1]]
    BY <1>1, <2>1 DEF Without
  <2>4. \A j \in 1 .. (n - 1) : (IF j < k THEN j ELSE j + 1) \in (1 .. n) \ {k}
    BY <1>1, <2>1
  <2>5. \A j \in 1 .. (n - 1) : queue[IF j < k THEN j ELSE j + 1] \in URLs
    BY <1>1, <2>4
  <2> HIDE DEF q, n
  <2>6. q \in Seq(URLs) /\ Len(q) = n - 1
    BY <2>3, <2>5
  <2>7. \A j \in 1 .. (n - 1) : q[j] = queue[IF j < k THEN j ELSE j + 1]
    BY <2>3
  <2>8. \A i \in 1 .. Len(q) : q[i] # u
    BY <1>1, <2>1, <2>4, <2>6, <2>7
  <2>9. ASSUME NEW i \in 1 .. Len(q), NEW j \in 1 .. Len(q), q[i] = q[j] PROVE i = j
    <3>1. (IF i < k THEN i ELSE i + 1) = (IF j < k THEN j ELSE j + 1)
      BY <1>1, <2>4, <2>6, <2>7, <2>9
    <3> QED
      BY <1>1, <2>1, <2>6, <3>1
  <2>10. ASSUME NEW v \in URLs \ {u} PROVE state[v] # "absent" <=> \E i \in 1 .. Len(q) : q[i] = v
    <3>1. ASSUME NEW i \in 1 .. n, queue[i] = v PROVE \E j \in 1 .. Len(q) : q[j] = v
      <4>1. i # k
        BY <2>1, <3>1
      <4>2. CASE i < k
        BY <1>1, <2>1, <2>6, <2>7, <3>1, <4>2
      <4>3. CASE i > k
        <5>1. i - 1 \in 1 .. (n - 1) /\ ~(i - 1 < k) /\ i - 1 + 1 = i
          BY <1>1, <2>1, <4>3
        <5> QED
          BY <2>6, <2>7, <3>1, <5>1
      <4> QED
        BY <1>1, <2>1, <4>1, <4>2, <4>3
    <3> QED
      BY <1>1, <2>4, <2>6, <2>7, <3>1
  <2> QED
    BY <1>2, <2>2, <2>6, <2>8, <2>9, <2>10
<1> QED
    BY <1>3, <1>4

\* A new window of attempts keeps the invariant.
LEMMA OpenWindowStep ==
    ASSUME IInv, NEW s \in Savers, NEW u \in URLs, ~Pending(u), OpenWindow(u), Acknowledge(s, u),
           UNCHANGED <<stored, worker, interrupts>>
    PROVE  IInv'
<1> USE DEF IInv, OpenWindow, Acknowledge
<1>1. TypeInv' /\ WorkerInv'
    BY DEF TypeInv, WorkerInv
<1>2. SaverInv'
    BY CaptureAssumption DEF SaverInv, NoSave
<1>3. QueueInv'
  <2>1. \A v \in URLs : state'[v] # "absent" <=> v = u \/ state[v] # "absent"
    BY DEF TypeInv
  <2>2. queue' = Requeued(u)
    OBVIOUS
  <2>3. /\ Requeued(u) \in Seq(URLs)
        /\ \A i, j \in 1 .. Len(Requeued(u)) : Requeued(u)[i] = Requeued(u)[j] => i = j
        /\ \A v \in URLs : (v = u \/ state[v] # "absent") <=> \E i \in 1 .. Len(Requeued(u)) : Requeued(u)[i] = v
    <3> HIDE DEF IInv
    <3> QED
      BY RequeuedFacts
  <2> HIDE DEF IInv, OpenWindow, Acknowledge
  <2> QED
    BY <2>1, <2>2, <2>3 DEF QueueInv
<1>4. KeptInv'
    BY DEF TypeInv, KeptInv
<1>5. BudgetInv'
  <2>1. \A v \in URLs : Cardinality(Busy(worker, v)) \in Nat /\ Cardinality(Workers) \in Nat
    BY BusyFacts
  <2>2. MaxAttempts - 1 \in Nat /\ interrupts \in Nat
    BY CaptureAssumption DEF TypeInv
  <2>3. \A v \in URLs \ {u} : state'[v] = state[v] /\ attempts'[v] = attempts[v]
    BY DEF TypeInv
  <2>4. attempts'[u] = 0 /\ tries' = attempts'
    BY DEF TypeInv, BudgetInv
  <2>5. ASSUME NEW v \in URLs
        PROVE  /\ Pending(v)' => attempts'[v] <= MaxAttempts - 1 + interrupts + Cardinality(Busy(worker, v))
               /\ attempts'[v] <= MaxAttempts - 1 + interrupts + Cardinality(Workers)
    <3>1. CASE v = u
      BY <2>1, <2>2, <2>4, <3>1
    <3>2. CASE v # u
      BY <2>3, <3>2 DEF BudgetInv, Pending
    <3> QED
      BY <3>1, <3>2
  <2>6. interrupts' = interrupts /\ worker' = worker
    OBVIOUS
  <2> QED
    BY <2>4, <2>5, <2>6 DEF BudgetInv
<1>6. EarnedInv'
    BY DEF TypeInv, WorkerInv, EarnedInv, Pending
<1> QED
    BY <1>1, <1>2, <1>3, <1>4, <1>5, <1>6

-----------------------------------------------------------------------------
\* A step of a saver that changes nothing but where the saver is.
LEMMA SaverFrame ==
    ASSUME IInv, SaverInv', UNCHANGED <<row, stored, worker, interrupts, history>>
    PROVE  IInv'
<1>1. TypeInv' /\ WorkerInv' /\ QueueInv'
    BY DEF IInv, row, history, TypeInv, WorkerInv, QueueInv
<1>2. KeptInv' /\ BudgetInv' /\ EarnedInv'
    BY DEF IInv, row, history, KeptInv, BudgetInv, EarnedInv, Pending
<1> QED
    BY <1>1, <1>2 DEF IInv

\* A worker moves on with the capture it has.
LEMMA MovesFacts ==
    ASSUME WorkerInv, NEW w \in Workers, worker[w].pc # "idle",
           NEW p \in {"process", "fallback", "done", "failed"}, Moves(w, p)
    PROVE  /\ WorkerInv'
           /\ worker'[w].pc = p /\ worker'[w].url = worker[w].url /\ worker'[w].count = worker[w].count
           /\ \A v \in Workers \ {w} : worker'[v] = worker[v]
<1>1. worker' = [worker EXCEPT ![w] = [worker[w] EXCEPT !.pc = p]]
    BY DEF Moves
<1> QED
    BY <1>1 DEF WorkerInv

\* RunOnce returns.
LEMMA ReturnsFacts ==
    ASSUME WorkerInv, NEW w \in Workers, Returns(w)
    PROVE  /\ WorkerInv'
           /\ worker'[w].pc = "idle" /\ worker'[w].url = None
           /\ \A v \in Workers \ {w} : worker'[v] = worker[v]
BY DEF WorkerInv, Returns, Idle

\* A worker that is not idle has a capture in hand.
LEMMA HasCapture ==
    ASSUME WorkerInv, NEW w \in Workers, worker[w].pc # "idle"
    PROVE  worker[w].url \in URLs /\ worker[w].count \in Nat
BY DEF WorkerInv

\* A save begins.
LEMMA SaveLinkStep ==
    ASSUME IInv, NEW s \in Savers, NEW u \in URLs, SaveLink(s, u)
    PROVE  IInv'
<1>1. SaverInv'
    BY CaptureAssumption DEF IInv, SaverInv, SaveLink
<1> QED
    BY <1>1, SaverFrame DEF SaveLink

\* The insert opens a window or finds the row.
LEMMA InsertCaptureStep ==
    ASSUME IInv, NEW s \in Savers, InsertCapture(s)
    PROVE  IInv'
<1> DEFINE u == saver[s].url
<1>1. u \in URLs /\ UNCHANGED <<stored, worker, interrupts>>
    BY DEF InsertCapture, IInv, SaverInv
<1>2. CASE state[u] = "absent"
    BY <1>1, <1>2, OpenWindowStep DEF InsertCapture, Pending
<1>3. CASE state[u] # "absent"
  <2>1. saver' = [saver EXCEPT ![s].pc = "reopen"] /\ UNCHANGED <<row, history>>
    BY <1>3 DEF InsertCapture
  <2>2. SaverInv'
    BY <2>1 DEF IInv, SaverInv, InsertCapture
  <2> QED
    BY <1>1, <2>1, <2>2, SaverFrame
<1> QED
    BY <1>2, <1>3

\* The reopening opens a window or finds the row pending.
LEMMA ReopenCaptureStep ==
    ASSUME IInv, NEW s \in Savers, ReopenCapture(s)
    PROVE  IInv'
<1> DEFINE u == saver[s].url
<1>1. u \in URLs /\ UNCHANGED <<stored, worker, interrupts>>
    BY DEF ReopenCapture, IInv, SaverInv
<1>2. CASE state[u] \in {"processed", "dead"}
    BY <1>1, <1>2, OpenWindowStep DEF ReopenCapture, Pending
<1>3. CASE state[u] \notin {"processed", "dead"}
  <2>1. saver' = [saver EXCEPT ![s].pc = "refresh"] /\ UNCHANGED <<row, history>>
    BY <1>3 DEF ReopenCapture
  <2>2. SaverInv'
    BY <2>1 DEF IInv, SaverInv, ReopenCapture
  <2> QED
    BY <1>1, <2>1, <2>2, SaverFrame
<1> QED
    BY <1>2, <1>3

\* The refresh of a pending capture keeps its count and its window.
LEMMA RefreshCaptureStep ==
    ASSUME IInv, NEW s \in Savers, RefreshCapture(s)
    PROVE  IInv'
<1> DEFINE u == saver[s].url
<1>1. u \in URLs /\ UNCHANGED <<stored, worker, interrupts>>
    BY DEF RefreshCapture, IInv, SaverInv
<1>2. CASE Pending(u)
  <2>1. /\ saver' = [saver EXCEPT ![s] = NoSave] /\ accepted' = accepted \cup {u}
        /\ due' = [due EXCEPT ![u] = TRUE]
        /\ UNCHANGED <<state, attempts, queue, tries, shared, fellBack>>
    BY <1>2 DEF RefreshCapture, Acknowledge
  <2>2. SaverInv'
    BY <2>1, CaptureAssumption DEF IInv, SaverInv, NoSave
  <2>3. TypeInv' /\ WorkerInv' /\ QueueInv'
    BY <1>1, <2>1 DEF IInv, TypeInv, WorkerInv, QueueInv
  <2>4. KeptInv' /\ BudgetInv' /\ EarnedInv'
    BY <1>1, <1>2, <2>1 DEF IInv, KeptInv, BudgetInv, EarnedInv, Pending
  <2> QED
    BY <2>2, <2>3, <2>4 DEF IInv
<1>3. CASE ~Pending(u)
  <2>1. UNCHANGED <<row, history>>
    BY <1>3 DEF RefreshCapture
  <2>2. SaverInv'
    <3>1. CASE saver[s].round < EnqueueRounds
      <4>1. saver' = [saver EXCEPT ![s] = [pc |-> "insert", url |-> u, round |-> saver[s].round + 1]]
        BY <1>3, <3>1 DEF RefreshCapture
      <4>2. saver[s].round + 1 \in 0 .. EnqueueRounds
        BY <3>1, CaptureAssumption DEF IInv, SaverInv
      <4> QED
        BY <1>1, <4>1, <4>2, CaptureAssumption DEF IInv, SaverInv
    <3>2. CASE ~(saver[s].round < EnqueueRounds)
      <4>1. saver' = [saver EXCEPT ![s] = NoSave]
        BY <1>3, <3>2 DEF RefreshCapture
      <4> QED
        BY <4>1, CaptureAssumption DEF IInv, SaverInv, NoSave
    <3> QED
      BY <3>1, <3>2
  <2> QED
    BY <1>1, <2>1, <2>2, SaverFrame
<1> QED
    BY <1>2, <1>3

\* A refused save changes no row.
LEMMA RefuseSaveStep ==
    ASSUME IInv, NEW s \in Savers, RefuseSave(s)
    PROVE  IInv'
<1>1. SaverInv'
    BY CaptureAssumption DEF IInv, SaverInv, RefuseSave, NoSave
<1> QED
    BY <1>1, SaverFrame DEF RefuseSave

\* A worker copies the count of a pending row.
LEMMA ListPendingStep ==
    ASSUME IInv, NEW w \in Workers, ListPending(w)
    PROVE  IInv'
<1>1. PICK i \in 1 .. Len(queue) :
         /\ Pending(queue[i])
         /\ worker' = [worker EXCEPT ![w] = [pc |-> "listed", url |-> queue[i], count |-> attempts[queue[i]]]]
    BY DEF ListPending, Ready
<1> DEFINE u == queue[i]
<1>2. worker[w].pc = "idle" /\ UNCHANGED <<row, stored, saver, interrupts, history>>
    BY DEF ListPending
<1>3. u \in URLs /\ attempts[u] \in Nat
    BY DEF IInv, QueueInv, TypeInv
<1> HIDE DEF u
<1>4. worker' = [worker EXCEPT ![w] = [pc |-> "listed", url |-> u, count |-> attempts[u]]]
    BY <1>1 DEF u
<1>5. /\ WorkerInv'
      /\ worker'[w].pc = "listed" /\ worker'[w].url = u /\ worker'[w].count = attempts[u]
      /\ \A v \in Workers \ {w} : worker'[v] = worker[v]
    BY <1>3, <1>4, CaptureAssumption DEF IInv, WorkerInv
<1>6. TypeInv' /\ SaverInv' /\ QueueInv'
    BY <1>2 DEF IInv, row, history, TypeInv, SaverInv, QueueInv
<1>7. KeptInv' /\ EarnedInv'
    BY <1>2, <1>5 DEF IInv, row, history, KeptInv, EarnedInv, Pending
<1>8. BudgetInv'
  <2>1. \A v \in URLs : Busy(worker', v) = Busy(worker, v)
    BY <1>2, <1>5 DEF Busy
  <2> QED
    BY <1>2, <2>1 DEF IInv, row, history, BudgetInv, Pending
<1> QED
    BY <1>5, <1>6, <1>7, <1>8 DEF IInv

\* An attempt raises both counts, or finds the row settled.
LEMMA MarkAttemptStep ==
    ASSUME IInv, NEW w \in Workers, MarkAttempt(w)
    PROVE  IInv'
<1> DEFINE u == worker[w].url
<1>1. worker[w].pc = "listed" /\ UNCHANGED <<state, due, queue, stored, saver, interrupts, accepted, fellBack>>
    BY DEF MarkAttempt
<1>2. u \in URLs /\ worker[w].count \in Nat /\ WorkerInv
    BY <1>1, HasCapture DEF IInv
<1>3. SaverInv' /\ QueueInv'
    BY <1>1 DEF IInv, SaverInv, QueueInv
<1>4. CASE ~Pending(u)
  <2>1. Returns(w) /\ UNCHANGED <<attempts, tries, shared>>
    BY <1>4 DEF MarkAttempt
  <2>2. /\ WorkerInv' /\ worker'[w].pc = "idle" /\ worker'[w].url = None
        /\ \A v \in Workers \ {w} : worker'[v] = worker[v]
    BY <1>2, <2>1, ReturnsFacts
  <2>3. TypeInv' /\ KeptInv'
    BY <1>1, <2>1, <2>2 DEF IInv, TypeInv, KeptInv
  <2>4. EarnedInv'
    BY <1>1, <2>1, <2>2, CaptureAssumption DEF IInv, EarnedInv, Pending
  <2>5. \A v \in URLs : Busy(worker', v) = Busy(worker, v)
    BY <1>1, <2>2, CaptureAssumption DEF Busy
  <2>6. BudgetInv'
    BY <1>1, <2>1, <2>5 DEF IInv, BudgetInv, Pending
  <2> QED
    BY <1>3, <2>2, <2>3, <2>4, <2>6 DEF IInv
<1>5. CASE Pending(u)
  <2>1. /\ attempts' = [attempts EXCEPT ![u] = @ + 1]
        /\ worker' = [worker EXCEPT ![w].pc = "process", ![w].count = @ + 1]
        /\ tries' = [tries EXCEPT ![u] = @ + 1]
        /\ shared' = [shared EXCEPT ![u] = @ \/ \E v \in Workers \ {w} : worker[v].url = u]
    BY <1>5 DEF MarkAttempt
  <2>2. /\ WorkerInv'
        /\ worker'[w].pc = "process" /\ worker'[w].url = u /\ worker'[w].count = worker[w].count + 1
        /\ \A v \in Workers \ {w} : worker'[v] = worker[v]
    BY <1>1, <1>2, <2>1 DEF WorkerInv
  <2>3. TypeInv'
    BY <1>1, <1>2, <2>1 DEF IInv, TypeInv
  <2>4. /\ attempts'[u] = attempts[u] + 1 /\ attempts[u] \in Nat /\ tries' = attempts'
        /\ \A v \in URLs \ {u} : attempts'[v] = attempts[v] /\ shared'[v] = shared[v]
        /\ ~shared'[u] => ~shared[u] /\ \A v \in Workers \ {w} : worker[v].url # u
    BY <1>2, <2>1 DEF IInv, TypeInv, BudgetInv
  <2>5. KeptInv'
    BY <1>1, <2>2 DEF IInv, KeptInv
  <2>6. EarnedInv'
    <3>1. ASSUME NEW x \in URLs, state[x] = "dead" PROVE fellBack[x] \/ shared'[x]
      BY <1>5, <2>4, <3>1 DEF IInv, EarnedInv, Pending
    <3>2. ASSUME NEW x \in URLs, Pending(x), ~shared'[x], NEW v \in Workers, worker'[v].url = x
          PROVE  /\ worker'[v].count = attempts'[x]
                 /\ worker'[v].pc = "failed" /\ worker'[v].count >= MaxAttempts => fellBack[x]
      <4>1. CASE x = u
        <5>1. v = w
          BY <2>2, <2>4, <3>2, <4>1
        <5>2. worker[w].count = attempts[u]
          BY <1>2, <1>5, <2>4, <3>2, <4>1 DEF IInv, EarnedInv
        <5> QED
          BY <2>2, <2>4, <4>1, <5>1, <5>2
      <4>2. CASE x # u
        BY <2>2, <2>4, <3>2, <4>2 DEF IInv, EarnedInv
      <4> QED
        BY <4>1, <4>2
    <3> QED
      BY <1>1, <3>1, <3>2 DEF EarnedInv, Pending
  <2>7. BudgetInv'
    <3>1. \A v \in URLs \ {u} : Busy(worker', v) = Busy(worker, v)
      BY <2>2 DEF Busy
    <3>2. Busy(worker', u) = Busy(worker, u) \cup {w} /\ w \notin Busy(worker, u)
      BY <1>1, <2>2 DEF Busy
    <3>3. Cardinality(Busy(worker', u)) = Cardinality(Busy(worker, u)) + 1
      BY <3>2, BusyJoin
    <3>4. /\ Cardinality(Busy(worker, u)) \in Nat /\ Cardinality(Workers) \in Nat
          /\ Cardinality(Busy(worker', u)) <= Cardinality(Workers)
          /\ MaxAttempts - 1 \in Nat /\ interrupts \in Nat
      BY BusyFacts, CaptureAssumption DEF IInv, TypeInv
    <3>5. attempts[u] <= MaxAttempts - 1 + interrupts + Cardinality(Busy(worker, u))
      BY <1>2, <1>5 DEF IInv, BudgetInv
    <3> HIDE DEF u
    <3>6. attempts'[u] <= MaxAttempts - 1 + interrupts + Cardinality(Busy(worker', u))
      BY <2>4, <3>3, <3>4, <3>5
    <3>7. attempts'[u] <= MaxAttempts - 1 + interrupts + Cardinality(Workers)
      BY <2>4, <3>3, <3>4, <3>6
    <3> QED
      BY <1>1, <2>4, <3>1, <3>6, <3>7 DEF IInv, BudgetInv, Pending
  <2> QED
    BY <1>3, <2>2, <2>3, <2>5, <2>6, <2>7 DEF IInv
<1> QED
    BY <1>4, <1>5

\* An attempt stores the URL or fails; the last permitted one goes to the fallback.
LEMMA ProcessCaptureStep ==
    ASSUME IInv, NEW w \in Workers, ProcessCapture(w)
    PROVE  IInv'
<1> DEFINE u == worker[w].url
<1>1. worker[w].pc = "process" /\ UNCHANGED <<row, saver, interrupts, history>>
    BY DEF ProcessCapture
<1>2. u \in URLs /\ worker[w].count \in Nat /\ WorkerInv
    BY <1>1, HasCapture DEF IInv
<1>3. PICK p \in {"fallback", "done", "failed"} :
         /\ Moves(w, p) /\ stored' \in {stored, stored \cup {u}}
         /\ p = "done" => stored' = stored \cup {u}
         /\ p = "failed" => ~(worker[w].count >= MaxAttempts)
    BY DEF ProcessCapture
<1>4. /\ WorkerInv' /\ worker'[w].pc = p /\ worker'[w].url = u /\ worker'[w].count = worker[w].count
      /\ \A v \in Workers \ {w} : worker'[v] = worker[v]
    BY <1>1, <1>2, <1>3, MovesFacts
<1>5. TypeInv' /\ SaverInv' /\ QueueInv'
    BY <1>1, <1>2, <1>3 DEF IInv, row, history, TypeInv, SaverInv, QueueInv
<1>6. KeptInv'
    BY <1>1, <1>2, <1>3, <1>4 DEF IInv, row, history, KeptInv
<1>7. EarnedInv'
    BY <1>1, <1>3, <1>4 DEF IInv, row, history, EarnedInv, Pending
<1>8. BudgetInv'
  <2>1. \A v \in URLs : Busy(worker', v) = Busy(worker, v)
    BY <1>1, <1>4 DEF Busy
  <2> QED
    BY <1>1, <2>1 DEF IInv, row, history, BudgetInv, Pending
<1> QED
    BY <1>4, <1>5, <1>6, <1>7, <1>8 DEF IInv

\* The fallback stores the URL or leaves its mark.
LEMMA FallbackCaptureStep ==
    ASSUME IInv, NEW w \in Workers, FallbackCapture(w)
    PROVE  IInv'
<1> DEFINE u == worker[w].url
<1>1. worker[w].pc = "fallback" /\ UNCHANGED <<row, saver, interrupts, accepted, tries, shared>>
    BY DEF FallbackCapture
<1>2. u \in URLs /\ worker[w].count \in Nat /\ WorkerInv
    BY <1>1, HasCapture DEF IInv
<1>3. PICK p \in {"done", "failed"} :
         /\ Moves(w, p) /\ stored' \in {stored, stored \cup {u}}
         /\ p = "done" => stored' = stored \cup {u} /\ fellBack' = fellBack
         /\ p = "failed" => fellBack' = [fellBack EXCEPT ![u] = @ \/ Pending(u)]
    BY DEF FallbackCapture
<1>4. /\ WorkerInv' /\ worker'[w].pc = p /\ worker'[w].url = u /\ worker'[w].count = worker[w].count
      /\ \A v \in Workers \ {w} : worker'[v] = worker[v]
    BY <1>1, <1>2, <1>3, MovesFacts
<1>5. /\ \A v \in URLs : fellBack[v] => fellBack'[v]
      /\ p = "failed" /\ Pending(u) => fellBack'[u]
      /\ fellBack' \in [URLs -> BOOLEAN]
    BY <1>2, <1>3 DEF IInv, TypeInv, Pending
<1>6. TypeInv' /\ SaverInv' /\ QueueInv'
    BY <1>1, <1>2, <1>3, <1>5 DEF IInv, row, TypeInv, SaverInv, QueueInv
<1>7. KeptInv'
    BY <1>1, <1>2, <1>3, <1>4 DEF IInv, row, KeptInv
<1>8. EarnedInv'
    BY <1>1, <1>3, <1>4, <1>5 DEF IInv, row, EarnedInv, Pending
<1>9. BudgetInv'
  <2>1. \A v \in URLs : Busy(worker', v) = Busy(worker, v)
    BY <1>1, <1>4 DEF Busy
  <2> QED
    BY <1>1, <2>1 DEF IInv, row, BudgetInv, Pending
<1> QED
    BY <1>4, <1>6, <1>7, <1>8, <1>9 DEF IInv

\* A capture is processed after its write.
LEMMA MarkProcessedStep ==
    ASSUME IInv, NEW w \in Workers, MarkProcessed(w)
    PROVE  IInv'
<1> DEFINE u == worker[w].url
<1>1. /\ worker[w].pc = "done" /\ Returns(w)
      /\ state' = [state EXCEPT ![u] = IF @ = "pending" THEN "processed" ELSE @]
      /\ due' = [due EXCEPT ![u] = @ \/ Pending(u)]
      /\ shared' = [shared EXCEPT ![u] = @ /\ ~Pending(u)]
      /\ fellBack' = [fellBack EXCEPT ![u] = @ /\ ~Pending(u)]
      /\ UNCHANGED <<attempts, queue, stored, saver, interrupts, accepted, tries>>
    BY DEF MarkProcessed
<1>2. u \in URLs /\ WorkerInv /\ TypeInv
    BY <1>1, HasCapture DEF IInv
<1>3. /\ WorkerInv' /\ worker'[w].pc = "idle" /\ worker'[w].url = None
      /\ \A v \in Workers \ {w} : worker'[v] = worker[v]
    BY <1>1, <1>2, ReturnsFacts
<1>4. /\ \A v \in URLs \ {u} : state'[v] = state[v] /\ shared'[v] = shared[v] /\ fellBack'[v] = fellBack[v]
      /\ state'[u] # "pending"
      /\ \A v \in URLs : state'[v] # "absent" <=> state[v] # "absent"
      /\ state'[u] = "dead" => state[u] = "dead" /\ shared'[u] = shared[u] /\ fellBack'[u] = fellBack[u]
    BY <1>1, <1>2 DEF TypeInv, Pending
<1>5. TypeInv'
    BY <1>1, <1>2 DEF TypeInv, Pending
<1>6. SaverInv' /\ QueueInv'
    BY <1>1, <1>4 DEF IInv, SaverInv, QueueInv
<1>7. KeptInv'
    BY <1>1, <1>2, <1>3, <1>4 DEF IInv, TypeInv, KeptInv
<1>8. EarnedInv'
    BY <1>1, <1>3, <1>4, CaptureAssumption DEF IInv, EarnedInv, Pending
<1>9. BudgetInv'
  <2>1. \A v \in URLs \ {u} : Busy(worker', v) = Busy(worker, v)
    BY <1>3, CaptureAssumption DEF Busy
  <2> HIDE DEF u
  <2> QED
    BY <1>1, <1>4, <2>1 DEF IInv, BudgetInv, Pending
<1> QED
    BY <1>3, <1>5, <1>6, <1>7, <1>8, <1>9 DEF IInv

\* A failure parks the capture at the end of its budget, and not before.
LEMMA MarkFailedStep ==
    ASSUME IInv, NEW w \in Workers, MarkFailed(w)
    PROVE  IInv'
<1> DEFINE u == worker[w].url
           last == attempts[u] >= MaxAttempts
<1>1. /\ worker[w].pc = "failed" /\ Returns(w)
      /\ state' = [state EXCEPT ![u] = IF Pending(u) /\ last THEN "dead" ELSE @]
      /\ due' = [due EXCEPT ![u] = IF Pending(u) THEN last ELSE @]
      /\ UNCHANGED <<attempts, queue, stored, saver, interrupts, history>>
    BY DEF MarkFailed
<1>2. u \in URLs /\ WorkerInv /\ TypeInv /\ last \in BOOLEAN
    BY <1>1, HasCapture DEF IInv
<1>3. /\ WorkerInv' /\ worker'[w].pc = "idle" /\ worker'[w].url = None
      /\ \A v \in Workers \ {w} : worker'[v] = worker[v]
    BY <1>1, <1>2, ReturnsFacts
<1>4. Pending(u) /\ last => fellBack[u] \/ shared[u]
    BY <1>1, <1>2 DEF IInv, EarnedInv
<1> HIDE DEF last
<1>5. /\ \A v \in URLs \ {u} : state'[v] = state[v]
      /\ state'[u] = IF Pending(u) /\ last THEN "dead" ELSE state[u]
      /\ \A v \in URLs : state'[v] # "absent" <=> state[v] # "absent"
      /\ state' \in [URLs -> {"absent", "pending", "processed", "dead"}]
    BY <1>1, <1>2 DEF TypeInv, Pending
<1>6. due' \in [URLs -> BOOLEAN]
    BY <1>1, <1>2 DEF TypeInv
<1>7. TypeInv' /\ SaverInv' /\ QueueInv'
    BY <1>1, <1>5, <1>6 DEF IInv, history, TypeInv, SaverInv, QueueInv
<1>8. KeptInv'
    BY <1>1, <1>3, <1>5 DEF IInv, history, KeptInv
<1>9. EarnedInv'
    BY <1>1, <1>3, <1>4, <1>5, CaptureAssumption DEF IInv, history, EarnedInv, Pending
<1>10. BudgetInv'
  <2>1. \A v \in URLs \ {u} : Busy(worker', v) = Busy(worker, v)
    BY <1>3, CaptureAssumption DEF Busy
  <2>2. state'[u] = "pending" => attempts[u] <= MaxAttempts - 1
    BY <1>2, <1>5, CaptureAssumption DEF TypeInv, Pending, last
  <2>3. Cardinality(Busy(worker', u)) \in Nat /\ MaxAttempts \in Nat /\ interrupts \in Nat /\ attempts[u] \in Nat
    BY <1>2, BusyFacts, CaptureAssumption DEF TypeInv
  <2>4. state'[u] = "pending" =>
           attempts[u] <= MaxAttempts - 1 + interrupts + Cardinality(Busy(worker', u))
    BY <2>2, <2>3
  <2> HIDE DEF u
  <2> QED
    BY <1>1, <1>5, <2>1, <2>4 DEF IInv, history, BudgetInv, Pending
<1> QED
    BY <1>3, <1>7, <1>8, <1>9, <1>10 DEF IInv

\* An interruption pays for the attempt it ends.
LEMMA InterruptStep ==
    ASSUME IInv, NEW w \in Workers, Interrupt(w)
    PROVE  IInv'
<1>1. /\ Returns(w) /\ interrupts < MaxInterrupts /\ interrupts' = interrupts + 1
      /\ UNCHANGED <<row, stored, saver, history>>
    BY DEF Interrupt
<1>2. /\ WorkerInv' /\ worker'[w].pc = "idle" /\ worker'[w].url = None
      /\ \A v \in Workers \ {w} : worker'[v] = worker[v]
    BY <1>1, ReturnsFacts DEF IInv
<1>3. TypeInv'
    BY <1>1, CaptureAssumption DEF IInv, row, history, TypeInv
<1>4. SaverInv' /\ QueueInv' /\ KeptInv'
    BY <1>1, <1>2 DEF IInv, row, history, SaverInv, QueueInv, KeptInv
<1>5. EarnedInv'
    BY <1>1, <1>2, CaptureAssumption DEF IInv, row, history, EarnedInv, Pending
<1>6. BudgetInv'
  <2>1. \A v \in URLs : Busy(worker', v) = Busy(worker, v) \ {w}
    BY <1>2, CaptureAssumption DEF Busy
  <2>2. MaxAttempts \in Nat /\ interrupts \in Nat /\ attempts \in [URLs -> Nat] /\ UNCHANGED <<state, attempts, tries>>
    BY <1>1, CaptureAssumption DEF IInv, TypeInv, row, history
  <2>3. ASSUME NEW v \in URLs
        PROVE  /\ Pending(v)' => attempts'[v] <= MaxAttempts - 1 + interrupts' + Cardinality(Busy(worker', v))
               /\ attempts'[v] <= MaxAttempts - 1 + interrupts' + Cardinality(Workers)
    <3>1. /\ Cardinality(Busy(worker, v)) <= Cardinality(Busy(worker', v)) + 1
          /\ Cardinality(Busy(worker, v)) \in Nat /\ Cardinality(Busy(worker', v)) \in Nat
          /\ Cardinality(Workers) \in Nat
      BY <2>1, BusyLeave, BusyFacts
    <3>2. /\ Pending(v) => attempts[v] <= MaxAttempts - 1 + interrupts + Cardinality(Busy(worker, v))
          /\ attempts[v] <= MaxAttempts - 1 + interrupts + Cardinality(Workers)
          /\ attempts[v] \in Nat
      BY <2>2 DEF IInv, BudgetInv
    <3> QED
      BY <1>1, <2>2, <3>1, <3>2 DEF Pending
  <2> QED
    BY <2>2, <2>3 DEF IInv, BudgetInv
<1> QED
    BY <1>2, <1>3, <1>4, <1>5, <1>6 DEF IInv

\* A backoff passes.
LEMMA ElapseStep ==
    ASSUME IInv, NEW u \in URLs, Elapse(u)
    PROVE  IInv'
<1>1. due' = [due EXCEPT ![u] = TRUE]
      /\ UNCHANGED <<state, attempts, queue, stored, worker, saver, interrupts, history>>
    BY DEF Elapse
<1>2. TypeInv' /\ WorkerInv' /\ SaverInv' /\ QueueInv'
    BY <1>1 DEF IInv, history, TypeInv, WorkerInv, SaverInv, QueueInv
<1>3. KeptInv' /\ BudgetInv' /\ EarnedInv'
    BY <1>1 DEF IInv, history, KeptInv, BudgetInv, EarnedInv, Pending
<1> QED
    BY <1>2, <1>3 DEF IInv

-----------------------------------------------------------------------------
\* The empty queue satisfies the invariant.
LEMMA InitIInv ==
    ASSUME Init
    PROVE  IInv
<1> USE DEF Init
<1>1. TypeInv
    BY CaptureAssumption DEF TypeInv
<1>2. WorkerInv /\ SaverInv
    BY CaptureAssumption DEF WorkerInv, SaverInv, Idle, NoSave
<1>3. QueueInv /\ KeptInv /\ EarnedInv
    BY EmptySeq DEF QueueInv, KeptInv, EarnedInv, Pending, Idle
<1>4. BudgetInv
    BY BusyFacts, CaptureAssumption DEF BudgetInv, Pending
<1> QED
    BY <1>1, <1>2, <1>3, <1>4 DEF IInv

\* Every step keeps the invariant.
LEMMA NextIInv ==
    ASSUME IInv, [Next]_vars
    PROVE  IInv'
<1>1. CASE Next
  <2>1. ASSUME NEW s \in Savers, NEW u \in URLs, SaveLink(s, u) \/ RequeueLink(s, u) PROVE IInv'
    BY <2>1, SaveLinkStep DEF RequeueLink
  <2>2. ASSUME NEW s \in Savers,
               InsertCapture(s) \/ ReopenCapture(s) \/ RefreshCapture(s) \/ RefuseSave(s)
        PROVE  IInv'
    BY <2>2, InsertCaptureStep, ReopenCaptureStep, RefreshCaptureStep, RefuseSaveStep
  <2>3. ASSUME NEW w \in Workers, WorkerStep(w) \/ Interrupt(w) PROVE IInv'
    BY <2>3, ListPendingStep, MarkAttemptStep, ProcessCaptureStep, FallbackCaptureStep,
       MarkProcessedStep, MarkFailedStep, InterruptStep DEF WorkerStep
  <2>4. ASSUME NEW u \in URLs, Elapse(u) PROVE IInv'
    BY <2>4, ElapseStep
  <2> QED
    BY <1>1, <2>1, <2>2, <2>3, <2>4 DEF Next
<1>2. CASE UNCHANGED vars
  <2>1. SaverInv' /\ UNCHANGED <<row, stored, worker, interrupts, history>>
    BY <1>2 DEF IInv, vars, SaverInv
  <2> QED
    BY <2>1, SaverFrame
<1> QED
    BY <1>1, <1>2

\* The counts, the windows and the queue stay right in every behaviour.
THEOREM CaptureInvariant == Spec => []IInv
<1>1. Init => IInv
    BY InitIInv
<1>2. IInv /\ [Next]_vars => IInv'
    BY NextIInv
<1> QED
    BY <1>1, <1>2, PTL DEF Spec

\* An acknowledged save is never lost: as long as its URL is not stored, its row
\* is pending or parked, and a capture is marked processed only after its write,
\* whichever of the workers makes the mark.
THEOREM AcceptedLinksAreKept == Spec => []AcceptedIsKept
<1>1. IInv => AcceptedIsKept
  <2> SUFFICES ASSUME IInv PROVE AcceptedIsKept
    OBVIOUS
  <2>1. ASSUME NEW u \in URLs
        PROVE  attempts[u] \in 0 .. MaxAttempts + MaxInterrupts + Cardinality(Workers)
    <3>1. /\ attempts[u] \in Nat /\ interrupts \in 0 .. MaxInterrupts
          /\ attempts[u] <= MaxAttempts - 1 + interrupts + Cardinality(Workers)
      BY DEF IInv, TypeInv, BudgetInv
    <3>2. Cardinality(Workers) \in Nat /\ MaxAttempts \in Nat /\ MaxInterrupts \in Nat
      BY BusyFacts, CaptureAssumption
    <3> QED
      BY <3>1, <3>2
  <2>2. attempts \in [URLs -> 0 .. MaxAttempts + MaxInterrupts + Cardinality(Workers)]
    BY <2>1 DEF IInv, TypeInv
  <2>3. queue \in Seq(URLs) /\ IsInjective(queue) /\ Range(queue) = {u \in URLs : state[u] # "absent"}
    <3>1. queue \in Seq(URLs) /\ DOMAIN queue = 1 .. Len(queue)
      BY LenProperties DEF IInv, QueueInv
    <3>2. IsInjective(queue)
      BY <3>1 DEF IInv, QueueInv, IsInjective
    <3>3. Range(queue) = {u \in URLs : state[u] # "absent"}
      BY <3>1 DEF IInv, QueueInv, Range
    <3> QED
      BY <3>1, <3>2, <3>3
  <2>4. TypeOK
    BY <2>2, <2>3 DEF IInv, TypeInv, WorkerInv, SaverInv, TypeOK
  <2>5. \A u \in accepted : u \in stored \/ state[u] \in {"pending", "dead"}
    BY DEF IInv, TypeInv, KeptInv
  <2> QED
    BY <2>4, <2>5 DEF AcceptedIsKept, IInv, KeptInv
<1> QED
    BY <1>1, CaptureInvariant, PTL

\* Saving a pending link again buys it no attempts: those begun in its window
\* stay within the budget, one for each interruption and one for each other
\* worker aside.
THEOREM BudgetStaysKept == Spec => []BudgetIsKept
<1>1. IInv => BudgetIsKept
  <2> SUFFICES ASSUME IInv, NEW u \in URLs
               PROVE  tries[u] <= MaxAttempts + interrupts + (Cardinality(Workers) - 1)
    BY DEF BudgetIsKept
  <2>1. tries[u] \in Nat /\ interrupts \in Nat
        /\ tries[u] <= MaxAttempts - 1 + interrupts + Cardinality(Workers)
    BY CaptureAssumption DEF IInv, TypeInv, BudgetInv
  <2>2. Cardinality(Workers) \in Nat /\ MaxAttempts \in Nat
    BY BusyFacts, CaptureAssumption
  <2> QED
    BY <2>1, <2>2
<1> QED
    BY <1>1, CaptureInvariant, PTL

\* A capture is parked only after its fallback was tried and failed, unless two
\* workers had it in hand at once.
THEOREM DeadLettersAreEarned == Spec => []DeadLetterIsEarned
<1>1. IInv => DeadLetterIsEarned
    BY DEF IInv, EarnedInv, DeadLetterIsEarned
<1> QED
    BY <1>1, CaptureInvariant, PTL
================================================================================
