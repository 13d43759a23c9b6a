----------------------------- MODULE NotifyState -----------------------------
(***************************************************************************)
(* The incident state machine of dbrain's failure notifications             *)
(* (internal/notify/state.go, with the outbox helpers of manager.go): what  *)
(* one outcome of a scheduled sync does to the persisted state.  A state    *)
(* has an incident per failure type, an outbox of envelopes with one        *)
(* delivery record per provider, and the last final delivery per provider.  *)
(*                                                                          *)
(* Times are ticks and 0 is Go's zero time.  An incident is identified by   *)
(* its type and its first observation, which is what its digest encodes.    *)
(* A record keeps its status only: attempts, error code and receipt do not  *)
(* steer anything.                                                          *)
(***************************************************************************)
EXTENDS Naturals, Sequences, FiniteSets, FiniteSetsExt

CONSTANTS
    Failures,       \* the failure catalogue
    Providers,      \* every provider a configuration may enable
    RepeatAfter,    \* Options.RepeatAfter, in ticks
    MaxEnvelopes,   \* maxStateEnvelopes
    None

\* IncidentState.
Incident ==
    [phase : {"open", "cooling"}, first : Nat, lastSeen : Nat, occurrences : Nat,
     enqueued : Nat, needsRecovery : BOOLEAN, recoveryNotified : BOOLEAN]

ASSUME NoneAssumption == None \notin Failures \cup Incident
ASSUME RepeatAssumption == RepeatAfter \in Nat \ {0}
ASSUME EnvelopesAssumption == MaxEnvelopes \in Nat \ {0}

Final == {"accepted", "permanent", "retired"}
Statuses == Final \cup {"pending", "ambiguous"}

EmptyState ==
    [incidents |-> [f \in Failures |-> None],
     outbox    |-> <<>>,
     last      |-> [p \in Providers |-> "none"]]

-----------------------------------------------------------------------------
(* Incidents and the events made of them.                                  *)

newIncident(at) ==
    [phase |-> "open", first |-> at, lastSeen |-> at, occurrences |-> 1,
     enqueued |-> at, needsRecovery |-> TRUE, recoveryNotified |-> FALSE]

\* The end of an incident's suppression window.
Boundary(incident) == incident.enqueued + RepeatAfter

Snapshot(f, incident) ==
    [type |-> f, first |-> incident.first, lastSeen |-> incident.lastSeen,
     occurrences |-> incident.occurrences]

IdOf(snapshot) == <<snapshot.type, snapshot.first>>
IncidentIds(event) == {IdOf(s) : s \in event.incidents}

Open(st) == {f \in Failures : st.incidents[f] # None /\ st.incidents[f].phase = "open"}

ValidEvent(event) ==
    /\ event.incidents # {}
    /\ \A s \in event.incidents :
        s.first > 0 /\ s.lastSeen >= s.first /\ event.createdAt >= s.lastSeen /\ s.occurrences >= 1
    /\ \A s, t \in event.incidents : s.type = t.type => s = t
    /\ event.kind = "failure" => \A s \in event.incidents :
        s.occurrences = 1 /\ s.first = s.lastSeen /\ s.lastSeen = event.createdAt
    /\ event.kind = "reminder" => \A s \in event.incidents :
        s.occurrences >= 2 /\ s.lastSeen = event.createdAt /\ s.lastSeen > s.first
    /\ event.kind # "recovery" => Cardinality(event.incidents) = 1

ValidIncident(i) ==
    /\ i.first > 0 /\ i.first <= i.enqueued /\ i.enqueued <= i.lastSeen /\ i.occurrences >= 1
    /\ i.phase = "cooling" => ~i.needsRecovery /\ i.recoveryNotified
    /\ i.phase = "open" => i.needsRecovery \/ i.recoveryNotified

\* A state that Load accepts and Replace agrees to write.
ValidateState(st) ==
    /\ Len(st.outbox) <= MaxEnvelopes
    /\ \A f \in Failures : st.incidents[f] # None => ValidIncident(st.incidents[f])
    /\ \A k \in 1 .. Len(st.outbox) :
        ValidEvent(st.outbox[k].event) /\ DOMAIN st.outbox[k].deliveries # {}

-----------------------------------------------------------------------------
(* Observe.  A result is the new state, the error ("" for none) and the     *)
(* event the observation enqueued or had no room for.                      *)

Result(st, error, event) == [state |-> st, error |-> error, event |-> event]

\* Mutant: an event that does not fit is dropped and the incident kept.
enqueueOrDrop(st, event, providers) ==
    IF Len(st.outbox) >= MaxEnvelopes THEN Result(st, "", event)
    ELSE Result([st EXCEPT !.outbox = Append(@,
                    [event |-> event, deliveries |-> [p \in providers |-> "pending"]])],
                "", event)

enqueueEvent(st, event, providers) ==
    IF Len(st.outbox) >= MaxEnvelopes THEN Result(st, "capacity", event)
    ELSE Result([st EXCEPT !.outbox = Append(@,
                    [event |-> event, deliveries |-> [p \in providers |-> "pending"]])],
                "", event)

enqueueIncident(st, f, incident, kind, providers) ==
    enqueueEvent([st EXCEPT !.incidents[f] = incident],
                 [kind |-> kind, incidents |-> {Snapshot(f, incident)},
                  createdAt |-> incident.lastSeen],
                 providers)

\* Mutant: an incident is forgotten as soon as it cools.
ExpiredAtOnce(incident, at) == incident # None /\ incident.phase = "cooling"

Expired(incident, at) ==
    incident # None /\ incident.phase = "cooling" /\ at >= Boundary(incident)

pruneExpiredCoolingIncidents(st, at) ==
    [st EXCEPT !.incidents = [f \in Failures |-> IF Expired(@[f], at) THEN None ELSE @[f]]]

SeenAgain(incident, at) ==
    [incident EXCEPT !.phase = "open", !.lastSeen = at, !.occurrences = @ + 1]

observeFailure(st, f, at, providers) ==
    LET incident == st.incidents[f]
        seen     == IF incident # None /\ at < incident.lastSeen THEN incident.lastSeen ELSE at
        again    == SeenAgain(incident, seen)
    IN  CASE incident = None -> enqueueIncident(st, f, newIncident(at), "failure", providers)
          [] Expired(incident, seen) -> enqueueIncident(st, f, newIncident(seen), "failure", providers)
          [] incident # None /\ ~Expired(incident, seen) /\ seen >= Boundary(incident) ->
                enqueueIncident(st, f, [again EXCEPT !.enqueued = seen, !.needsRecovery = TRUE],
                                "reminder", providers)
          [] OTHER -> Result([st EXCEPT !.incidents[f] = again], "", None)

\* Mutant: NeedsRecovery survives the recovery.
CooledAsNew(incident) == [incident EXCEPT !.phase = "cooling", !.recoveryNotified = TRUE]

Cooled(incident) ==
    [incident EXCEPT !.phase = "cooling", !.needsRecovery = FALSE,
                     !.recoveryNotified = @ \/ incident.needsRecovery]

observeSuccess(st, at, providers) ==
    LET open     == Open(st)
        created  == Max({at} \cup {st.incidents[f].lastSeen : f \in open})
        resolved == {f \in open : st.incidents[f].needsRecovery}
        next     == [st EXCEPT !.incidents =
                        [f \in Failures |-> IF f \in open THEN Cooled(@[f]) ELSE @[f]]]
    IN  IF resolved = {} THEN Result(next, "", None)
        ELSE enqueueEvent(next,
                          [kind |-> "recovery", createdAt |-> created,
                           incidents |-> {Snapshot(f, st.incidents[f]) : f \in resolved}],
                          providers)

\* An outcome is a failure type, or None for a success.
Observe(st, outcome, at, providers) ==
    LET pruned == pruneExpiredCoolingIncidents(st, at)
        r      == IF outcome = None THEN observeSuccess(pruned, at, providers)
                  ELSE observeFailure(pruned, outcome, at, providers)
    IN  CASE ~ValidateState(st) -> Result(st, "invalid", None)
          [] r.error = "" /\ ~ValidateState(r.state) -> Result(st, "invalid", None)
          [] OTHER -> IF r.error = "" THEN r ELSE Result(st, r.error, r.event)

-----------------------------------------------------------------------------
(* The outbox between observations.                                        *)

\* Mutant: an ambiguous delivery counts as done.
DoneOrAmbiguous(envelope) ==
    \A p \in DOMAIN envelope.deliveries : envelope.deliveries[p] # "pending"

Terminal(envelope) == \A p \in DOMAIN envelope.deliveries : envelope.deliveries[p] \in Final

\* The loop over the outbox: each envelope that is not terminal is appended to
\* those kept so far.
keptEnvelopes(outbox) ==
    LET kept[k \in 0 .. Len(outbox)] ==
            IF k = 0 THEN <<>>
            ELSE IF Terminal(outbox[k]) THEN kept[k - 1]
            ELSE Append(kept[k - 1], outbox[k])
    IN  kept[Len(outbox)]

pruneTerminalEnvelopes(st) == [st EXCEPT !.outbox = keptEnvelopes(@)]

\* Deliveries of providers that are no longer configured are given up.
Retires(envelope, p, configured) ==
    p \notin configured /\ p \in DOMAIN envelope.deliveries /\ envelope.deliveries[p] \notin Final

Retired(envelope, configured) ==
    [envelope EXCEPT !.deliveries =
        [p \in DOMAIN @ |-> IF Retires(envelope, p, configured) THEN "retired" ELSE @[p]]]

retireRemovedProviders(st, configured) ==
    [st EXCEPT
        !.outbox = [k \in 1 .. Len(@) |-> Retired(@[k], configured)],
        !.last = [p \in Providers |->
            IF \E k \in 1 .. Len(st.outbox) : Retires(st.outbox[k], p, configured)
            THEN "retired" ELSE @[p]]]

\* What Observe of the manager works on after each Load.
Prepared(st, configured) == pruneTerminalEnvelopes(retireRemovedProviders(st, configured))
=============================================================================
