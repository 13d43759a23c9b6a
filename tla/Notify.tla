-------------------------------- MODULE Notify --------------------------------
(***************************************************************************)
(* The notification manager (internal/notify/manager.go) over its state     *)
(* file (store.go): Observe loads the state, gives up what belongs to       *)
(* removed providers, applies the outcome, persists the result and only     *)
(* then delivers, one provider after the other and oldest envelope first.   *)
(* An outbox without room is delivered first and the outcome tried again.   *)
(*                                                                          *)
(* observeMu admits one Observe at a time and nothing else writes, so the   *)
(* steps end where the file is written or a provider is called: a crash     *)
(* falls between them.  The service restarts with any set of providers.     *)
(* A Replace that reports an error may have renamed the file already (the   *)
(* directory's fsync comes last).  Status, Test and cancelled outcomes      *)
(* change no state and are left out.                                        *)
(***************************************************************************)
EXTENDS NotifyState

CONSTANTS
    MaxTime,       \* bound on the clock
    MaxFailures,   \* bound on failed outcomes; successes are not bounded
    MaxFaults,     \* bound on I/O errors and crashes
    ClockStepsBack \* whether the wall clock may be set back

ASSUME BoundsAssumption ==
    /\ MaxTime \in Nat \ {0} /\ {MaxFailures, MaxFaults} \subseteq Nat
    /\ ClockStepsBack \in BOOLEAN

VARIABLES
    disk,         \* the state file
    configured,   \* Manager.providers of the running process
    pc,           \* "idle", "capacity" (making room) or "final"
    outcome,      \* the outcome being observed
    todo,         \* providers this round has not finished
    retry,        \* ambiguousIncidentIDs of the round
    inflight,     \* a delivery whose result is not recorded yet, or None
    now,          \* the clock when the last outcome finished
    failures, faults,
    enqueued,     \* history: every event that ever was in the outbox
    settled,      \* history: <<event, provider>> the provider published or refused
    recorded      \* history: those whose final result is on disk

managerVars == <<configured, pc, outcome, todo, retry, inflight>>
bounds == <<failures, faults>>
history == <<enqueued, settled, recorded>>
vars == <<disk, managerVars, now, bounds, history>>

Times == 1 .. MaxTime
Init ==
    /\ disk = EmptyState
    /\ configured \in (SUBSET Providers) \ {{}}
    /\ pc = "idle" /\ outcome = None /\ todo = {} /\ retry = {} /\ inflight = None
    /\ now = 1 /\ failures = 0 /\ faults = 0
    /\ enqueued = {} /\ settled = {} /\ recorded = {}

Events(st) == {st.outbox[k].event : k \in 1 .. Len(st.outbox)}

\* Store.Replace, which renames a complete file into place.
Replace(st) == disk' = st /\ enqueued' = enqueued \cup Events(st)

\* An I/O error during a step that would have written st.
FaultyReplace(st) ==
    /\ faults < MaxFaults
    /\ faults' = faults + 1
    /\ disk' \in {disk, st}
    /\ enqueued' = enqueued \cup Events(disk')

-----------------------------------------------------------------------------
(* Observe.                                                                *)

\* Mutant: every ambiguous delivery is retried in every round.
RetryAll(event) == UNION {IncidentIds(e) : e \in enqueued}

\* Only a reminder allows ambiguous deliveries, those of its incident.
Retryable(event) ==
    IF event # None /\ event.kind = "reminder" THEN IncidentIds(event) ELSE {}

Return == pc' = "idle" /\ outcome' = None /\ todo' = {} /\ retry' = {}

BeginRound(round, event) ==
    /\ pc' = round
    /\ todo' = configured
    /\ retry' = Retryable(event)

\* The clock and the budget of a new outcome.
Arrives(o, at) ==
    /\ pc = "idle"
    /\ now' = at
    /\ at >= now \/ ClockStepsBack
    /\ o # None => failures < MaxFailures
    /\ failures' = IF o # None THEN failures + 1 ELSE failures

ObserveOutcome(o, at) ==
    LET st == Prepared(disk, configured)
        r  == Observe(st, o, at, configured)
    IN  /\ Arrives(o, at)
        /\ outcome' = o
        /\ IF r.error = "" THEN Replace(pruneTerminalEnvelopes(r.state)) /\ BeginRound("final", r.event)
           ELSE IF r.error = "capacity" THEN Replace(st) /\ BeginRound("capacity", r.event)
           ELSE pc' = "idle" /\ UNCHANGED <<disk, enqueued, todo, retry>>
        /\ UNCHANGED <<configured, inflight, faults, settled, recorded>>

\* Load fails, or Replace does: the outcome is not delivered.
ObserveFails(o, at) ==
    LET st == Prepared(disk, configured)
        r  == Observe(st, o, at, configured)
    IN  /\ Arrives(o, at)
        /\ FaultyReplace(IF r.error = "" THEN pruneTerminalEnvelopes(r.state) ELSE st)
        /\ UNCHANGED <<managerVars, settled, recorded>>

\* Every provider had its turn: the outcome is tried once more.
ObserveAgain ==
    LET r == Observe(Prepared(disk, configured), outcome, now, configured)
    IN  /\ pc = "capacity" /\ todo = {} /\ inflight = None
        /\ IF r.error = ""
           THEN Replace(pruneTerminalEnvelopes(r.state)) /\ BeginRound("final", r.event) /\ UNCHANGED outcome
           ELSE Return /\ UNCHANGED <<disk, enqueued>>
        /\ UNCHANGED <<configured, inflight, now, bounds, settled, recorded>>

ObserveAgainFails ==
    LET r == Observe(Prepared(disk, configured), outcome, now, configured)
    IN  /\ pc = "capacity" /\ todo = {} /\ inflight = None
        /\ FaultyReplace(IF r.error = "" THEN pruneTerminalEnvelopes(r.state) ELSE disk)
        /\ Return
        /\ UNCHANGED <<configured, inflight, now, failures, settled, recorded>>

ObserveReturns ==
    /\ pc = "final" /\ todo = {} /\ inflight = None
    /\ Return
    /\ UNCHANGED <<disk, configured, inflight, now, bounds, history>>

-----------------------------------------------------------------------------
(* deliverProvider.                                                        *)

StatusFor(envelope, p) ==
    IF p \in DOMAIN envelope.deliveries THEN envelope.deliveries[p] ELSE "none"

\* Mutant: a delivery is repeated until the whole envelope is done.
DeliverableUntilDone(envelope, p) == StatusFor(envelope, p) \in {"pending", "accepted"}

Deliverable(envelope, p) ==
    \/ StatusFor(envelope, p) = "pending"
    \/ StatusFor(envelope, p) = "ambiguous" /\ IncidentIds(envelope.event) \cap retry # {}

\* Mutant: only the oldest envelope is looked at.
OldestOnly(p) ==
    IF disk.outbox # <<>> /\ Deliverable(disk.outbox[1], p) THEN 1 ELSE 0

nextDelivery(p) ==
    LET candidates == {k \in 1 .. Len(disk.outbox) : Deliverable(disk.outbox[k], p)}
    IN  IF candidates = {} THEN 0 ELSE Min(candidates)

\* The kinds of answers classifyDeliveryResult tells apart.
Answers == {"accepted", "pending", "ambiguous", "permanent"}

\* A provider publishes what it accepts and may publish when the answer is lost.
Published(answer) ==
    CASE answer = "accepted" -> {TRUE}
      [] answer = "ambiguous" -> BOOLEAN
      [] OTHER -> {FALSE}

Deliver(p, answer, published) ==
    LET k == nextDelivery(p)
        pair == <<disk.outbox[k].event, p>>
    IN  /\ p \in todo /\ inflight = None /\ k # 0
        /\ published \in Published(answer)
        /\ inflight' = [provider |-> p, index |-> k, event |-> disk.outbox[k].event,
                        expected |-> disk.outbox[k].deliveries[p], answer |-> answer]
        /\ settled' = IF published \/ answer = "permanent" THEN settled \cup {pair} ELSE settled
        /\ UNCHANGED <<disk, configured, pc, outcome, todo, retry, now, bounds, enqueued, recorded>>

NothingToDeliver(p) ==
    /\ p \in todo /\ inflight = None /\ nextDelivery(p) = 0
    /\ todo' = todo \ {p}
    /\ UNCHANGED <<disk, configured, pc, outcome, retry, inflight, now, bounds, history>>

DeliverLoadFails(p) ==
    /\ p \in todo /\ inflight = None /\ faults < MaxFaults
    /\ faults' = faults + 1
    /\ todo' = todo \ {p}
    /\ UNCHANGED <<disk, configured, pc, outcome, retry, inflight, now, failures, history>>

\* The envelope of the delivery, looked up in the reloaded state.
MatchingEnvelope ==
    LET same == {k \in 1 .. Len(disk.outbox) : disk.outbox[k].event = inflight.event}
    IN  IF inflight.index \in same THEN inflight.index
        ELSE IF same = {} THEN 0 ELSE Min(same)

Matched ==
    /\ MatchingEnvelope # 0
    /\ StatusFor(disk.outbox[MatchingEnvelope], inflight.provider) = inflight.expected

updateMatchingDelivery ==
    [disk EXCEPT
        !.outbox[MatchingEnvelope].deliveries[inflight.provider] = inflight.answer,
        !.last[inflight.provider] = IF inflight.answer \in Final THEN inflight.answer ELSE @]

\* A provider is done after a failed attempt that may succeed later.
RecordDelivery ==
    /\ inflight # None
    /\ IF Matched
       THEN /\ Replace(pruneTerminalEnvelopes(updateMatchingDelivery))
            /\ recorded' = IF inflight.answer \in Final
                           THEN recorded \cup {<<inflight.event, inflight.provider>>} ELSE recorded
       ELSE UNCHANGED <<disk, enqueued, recorded>>
    /\ todo' = IF Matched /\ inflight.answer \in Final THEN todo ELSE todo \ {inflight.provider}
    /\ inflight' = None
    /\ UNCHANGED <<configured, pc, outcome, retry, now, bounds, settled>>

\* The result is lost; the message may have been published.
RecordFails ==
    /\ inflight # None /\ Matched
    /\ FaultyReplace(pruneTerminalEnvelopes(updateMatchingDelivery))
    /\ recorded' = IF disk' # disk /\ inflight.answer \in Final
                   THEN recorded \cup {<<inflight.event, inflight.provider>>} ELSE recorded
    /\ todo' = todo \ {inflight.provider}
    /\ inflight' = None
    /\ UNCHANGED <<configured, pc, outcome, retry, now, failures, settled>>

\* The service dies and starts again, with the providers then configured.
Restart ==
    /\ faults < MaxFaults
    /\ faults' = faults + 1
    /\ configured' \in (SUBSET Providers) \ {{}}
    /\ Return /\ inflight' = None
    /\ UNCHANGED <<disk, now, failures, history>>

Steps ==
    \/ ObserveAgain \/ ObserveReturns \/ RecordDelivery
    \/ \E p \in Providers : NothingToDeliver(p)
Next ==
    \/ \E o \in Failures \cup {None}, at \in Times : ObserveOutcome(o, at) \/ ObserveFails(o, at)
    \/ Steps
    \/ ObserveAgainFails \/ RecordFails \/ Restart
    \/ \E p \in Providers : DeliverLoadFails(p)
    \/ \E p \in Providers, answer \in Answers, published \in BOOLEAN : Deliver(p, answer, published)

Spec == Init /\ [][Next]_vars

-----------------------------------------------------------------------------
(* Properties.                                                             *)

EventKinds == {"failure", "reminder", "recovery"}

\* Every variable has its type.
TypeOK ==
    /\ disk.incidents \in [Failures -> {None} \cup
        [phase : {"open", "cooling"}, first : Times, lastSeen : Times, enqueued : Times,
         occurrences : 1 .. MaxFailures, needsRecovery : BOOLEAN, recoveryNotified : BOOLEAN]]
    /\ Len(disk.outbox) <= MaxEnvelopes
    /\ \A k \in 1 .. Len(disk.outbox) :
        /\ disk.outbox[k].event.kind \in EventKinds
        /\ \E ps \in SUBSET Providers : disk.outbox[k].deliveries \in [ps -> Statuses]
    /\ disk.last \in [Providers -> Final \cup {"none"}]
    /\ configured \in (SUBSET Providers) \ {{}}
    /\ pc \in {"idle", "capacity", "final"}
    /\ todo \subseteq configured
    /\ inflight # None => inflight.provider \in todo /\ inflight.answer \in Answers
    /\ now \in Times /\ failures \in 0 .. MaxFailures /\ faults \in 0 .. MaxFaults

\* When an outcome can arrive, whichever it is, at whatever time of whatever
\* clock, the persisted state and its successor pass ValidateState: no history
\* of outcomes leads Observe to refuse its own state from then on.
NeverRefused ==
    /\ TypeOK
    /\ pc = "idle" =>
           \A o \in Failures \cup {None}, at \in Times :
               Observe(Prepared(disk, configured), o, at, configured).error # "invalid"

\* An incident that suppresses notifications has had the notification its
\* window counts from put into the outbox, even when the outbox was full or
\* a write failed.
SuppressionIsAnnounced ==
    \A f \in Failures : disk.incidents[f] # None =>
        \E e \in enqueued :
            /\ e.kind # "recovery"
            /\ e.createdAt = disk.incidents[f].enqueued
            /\ <<f, disk.incidents[f].first>> \in IncidentIds(e)

Announces(e, f) == e.kind # "recovery" /\ \E s \in e.incidents : s.type = f

\* Two failure or reminder events of one type are at least RepeatAfter apart,
\* whatever flapping, crashes and full outboxes happen between them.
FlapsAreSuppressed ==
    \A f \in Failures, e1, e2 \in enqueued :
        Announces(e1, f) /\ Announces(e2, f) /\ e1 # e2 =>
            \/ e1.createdAt + RepeatAfter <= e2.createdAt
            \/ e2.createdAt + RepeatAfter <= e1.createdAt

\* Every recovery of an incident answers an announcement of that incident
\* that no other recovery has answered.
RecoveriesAreEarned ==
    \A r \in {e \in enqueued : e.kind = "recovery"} : \A id \in IncidentIds(r) :
        \E a \in enqueued :
            /\ a.kind # "recovery" /\ id \in IncidentIds(a) /\ a.createdAt <= r.createdAt
            /\ \A q \in enqueued : q.kind = "recovery" /\ id \in IncidentIds(q) /\ q # r =>
                q.createdAt < a.createdAt \/ q.createdAt >= r.createdAt

\* What users are told is honest: silence follows an announcement, and a recovery
\* answers one.
AnnouncementsAreHonest == SuppressionIsAnnounced /\ RecoveriesAreEarned

\* A result that reached the disk as final is never sent again, although the
\* envelope may stay in the outbox for other providers and over restarts.
NoRepeatAfterRecord ==
    inflight # None => <<inflight.event, inflight.provider>> \notin recorded

\* A delivery with an unknown outcome is repeated only when a reminder of one
\* of its incidents is due or was just enqueued.
AmbiguousRetryIsDue ==
    inflight # None /\ inflight.expected = "ambiguous" =>
        \E f \in Failures :
            /\ disk.incidents[f] # None
            /\ <<f, disk.incidents[f].first>> \in IncidentIds(inflight.event)
            /\ disk.incidents[f].enqueued = now \/ now >= Boundary(disk.incidents[f])

\* An event leaves the outbox only when each of its providers published it,
\* refused it for good or is no longer configured.
DroppedWhenDone ==
    [][\A k \in 1 .. Len(disk.outbox) :
        LET e == disk.outbox[k] IN
        e.event \notin Events(disk') =>
            \A p \in DOMAIN e.deliveries :
                <<e.event, p>> \in settled \/ p \notin configured
                    \/ e.deliveries[p] = "retired"]_vars

-----------------------------------------------------------------------------
(* Liveness: the scheduler keeps finishing runs, a started Observe goes on,  *)
(* and a provider that is asked again and again accepts in the end.          *)

Fairness ==
    /\ WF_vars(Steps)
    /\ \A at \in Times : WF_vars(ObserveOutcome(None, at))
    /\ \A p \in Providers : SF_vars(Deliver(p, "accepted", TRUE))
    /\ \A p \in Providers :
        WF_vars(\E answer \in Answers, published \in BOOLEAN : Deliver(p, answer, published))

LiveSpec == Spec /\ Fairness

Pending(p) ==
    \E k \in 1 .. Len(disk.outbox) : StatusFor(disk.outbox[k], p) = "pending"

\* No delivery that can be made waits forever, behind a full outbox or an
\* ambiguous envelope: the pending deliveries of a configured provider drain.
PendingDrains ==
    \A p \in Providers : Pending(p) ~> ~Pending(p) \/ p \notin configured
=============================================================================
