------------------------ MODULE SemanticRuntimeProofs ------------------------
(***************************************************************************)
(* Proofs about SemanticRuntime, for any number of keys, scopes, callers,   *)
(* searchers and loads.  The properties are not inductive by themselves:    *)
(* InductiveInvariant records where a flight's guard, root and entry are at *)
(* each point of runLoad, who may still close a root, and which flight a    *)
(* scope follows.                                                           *)
(***************************************************************************)
EXTENDS SemanticRuntime, FiniteSetTheorems, TLAPS

\* A caller has a flight or an entry unless it is idle; a closed lease still has
\* operations; a search runs under an outstanding lease; leased entries were
\* published.
LeaseInv ==
    /\ \A c \in Callers : cpc[c] # "idle" => cfl[c] \in Flights
    /\ \A c \in Callers : cpc[c] # "leased" => c \notin lclosed /\ operations[c] = 0
    /\ \A c \in Callers : cpc[c] = "leased" => /\ cfl[c] \in admitted
                                               /\ fpc[cfl[c]] \in {"finish", "done"}
                                               /\ cfl[c] \notin failed
    /\ \A c \in lclosed : operations[c] # 0
    /\ \A s \in Searchers : spc[s] # "idle" => /\ slease[s] \in Callers
                                               /\ cpc[slease[s]] = "leased"

\* Where a flight's guard, root and entry are at each point of runLoad.
FlightInv ==
    /\ \A f \in Flights : fpc[f] # "none" => fkey[f] \in Keys
    /\ \A f \in Flights :
          f \in guard <=> fpc[f] \in {"recheck", "abandon", "load", "admit", "discard", "release"}
    /\ \A f \in admitted : fpc[f] \in {"release", "publish", "dispose", "drop", "finish", "done"}
    /\ \A f \in Flights : fpc[f] \in {"publish", "dispose", "drop"} => f \in admitted
    /\ \A f \in Flights : f \in pending <=> f \in admitted /\ fpc[f] \in {"release", "publish"}
    /\ \A f \in Flights :
          fpc[f] \in {"none", "retain", "recheck", "abandon", "load"} => root[f] = "none"
    /\ \A f \in Flights : fpc[f] \in {"admit", "discard"} => root[f] = "open"
    /\ \A f \in Flights : fpc[f] \in {"release", "finish", "done"} /\ f \notin admitted =>
          root[f] \in {"none", "closed"}

\* What happens to the root of an admitted flight, and who closes it.
EntryInv ==
    /\ \A f \in admitted : fpc[f] \in {"release", "publish"} =>
          root[f] = "open" /\ f \in allEntries /\ f \notin closing
    /\ \A f \in admitted : fpc[f] = "dispose" =>
          root[f] = "open" /\ f \in allEntries /\ f \in closing
    /\ \A f \in admitted : fpc[f] = "drop" =>
          root[f] = "closed" /\ f \in allEntries /\ f \in closing
    /\ \A f \in admitted : fpc[f] \in {"dispose", "drop"} => f \in failed
    /\ \A f \in admitted : fpc[f] \in {"finish", "done"} /\ f \in failed =>
          root[f] = "closed" /\ f \notin allEntries /\ f \in closing
    /\ \A f \in admitted : fpc[f] \in {"finish", "done"} /\ f \notin failed =>
          /\ f \in closing <=> closer[f] # "none"
          /\ root[f] = "open" <=> closer[f] \in {"none", "close"}
          /\ root[f] \in {"open", "closed"}
          /\ f \in allEntries <=> closer[f] # "done"
    /\ \A f \in Flights : closer[f] # "none" =>
          f \in admitted /\ fpc[f] \in {"finish", "done"} /\ f \notin failed
    /\ allEntries \subseteq admitted
    /\ retired \subseteq admitted
    /\ closing \subseteq retired
    /\ \A f \in closing : refs[f] = 0 /\ ops[f] = 0

\* m.entries and m.flights hold what their key says, and the flight of the
\* current sequence is the only one that can fill the key's slot.
MapInv ==
    /\ \A k \in Keys : flights[k] # None => /\ fkey[flights[k]] = k
                                            /\ fpc[flights[k]] \notin {"none", "done"}
    /\ \A k \in Keys : entries[k] # None =>
          /\ ~shutdown
          /\ IsCurrent(k)
          /\ fkey[entries[k]] = k
          /\ entries[k] \in admitted
          /\ entries[k] \in allEntries
          /\ entries[k] \notin retired
          /\ fseq[entries[k]] = scopeSeq[ScopeOf[k]]
    /\ \A k \in Keys : entries[k] # None /\ flights[k] # None
                       /\ fseq[flights[k]] = scopeSeq[ScopeOf[k]]
                       => entries[k] = flights[k]
    /\ NoOrphanedEntries

\* Sequence numbers identify root switches.
SequenceInv ==
    /\ \A s \in Scopes : scopeSeq[s] <= sequence
    /\ \A f \in Flights : fseq[f] <= sequence
    /\ \A f \in ActiveFlights :
          /\ scopeKey[ScopeOf[fkey[f]]] = fkey[f]
          /\ scopeSeq[ScopeOf[fkey[f]]] = fseq[f]
          => flights[fkey[f]] = f
    /\ SingleFlight

DrainInv == drainedDone => shutdown /\ loads = 0 /\ allEntries = {}

InductiveInvariant ==
    /\ TypeOK
    /\ LeaseInv
    /\ FlightInv
    /\ EntryInv
    /\ MapInv
    /\ SequenceInv
    /\ DrainInv
    /\ CountersExact
-----------------------------------------------------------------------------
(* Counting.                                                               *)

\* Adding a new element to a finite set adds one to its cardinality.
LEMMA CountAdd ==
    ASSUME NEW S, NEW T, NEW x, IsFiniteSet(S), x \notin S, T = S \cup {x}
    PROVE  Cardinality(T) = Cardinality(S) + 1
  BY FS_AddElement

\* Removing an element from a finite set subtracts one, and there was one.
LEMMA CountRemove ==
    ASSUME NEW S, NEW T, NEW x, IsFiniteSet(S), x \in S, T = S \ {x}
    PROVE  /\ Cardinality(T) = Cardinality(S) - 1
           /\ Cardinality(S) # 0
           /\ (Cardinality(S) = 1) => T = {}
  BY FS_RemoveElement, FS_EmptySet, FS_CardinalityType

\* The sets that the counters count are finite.
LEMMA CountedSetsFinite ==
    /\ \A e : IsFiniteSet(LeasesOf(e)) /\ IsFiniteSet(SearchesOf(e))
    /\ \A c : IsFiniteSet(OpsOfLease(c))
    /\ IsFiniteSet(ActiveFlights)
  BY FiniteAssumption, FS_Subset DEF LeasesOf, SearchesOf, OpsOfLease, ActiveFlights

\* A step that changes neither the counters nor what they count keeps them exact.
LEMMA CountersUnchanged ==
    ASSUME CountersExact,
           \A e \in Flights : LeasesOf(e)' = LeasesOf(e) /\ SearchesOf(e)' = SearchesOf(e),
           \A c \in Callers : OpsOfLease(c)' = OpsOfLease(c),
           ActiveFlights' = ActiveFlights,
           UNCHANGED <<refs, ops, operations, loads>>
    PROVE  CountersExact'
  BY DEF CountersExact

\* A root switch keeps the manager's maps and the entries' flags well typed.
LEMMA ObserveKeyType ==
    ASSUME TypeOK, NEW k \in Keys, ObserveKey(k)
    PROVE  /\ scopeKey' \in [Scopes -> Keys \cup {None}]
           /\ scopeSeq' \in [Scopes -> Nat]
           /\ sequence' \in Nat
           /\ entries' \in [Keys -> Flights \cup {None}]
           /\ retired' \subseteq Flights
           /\ closing' \subseteq Flights
           /\ closer' \in [Flights -> {"none", "close", "drop", "done"}]
           /\ SeqFor(k) \in Nat
  BY SMTT(60), ScopeAssumption, BoundAssumption
  DEF TypeOK, ObserveKey, IsCurrent, SeqFor, ScheduleClose, ToClose, OtherKeys

\* After a root switch the scope follows the key, with a sequence that no earlier
\* flight has; otherwise nothing changes.
LEMMA ObserveKeyScope ==
    ASSUME TypeOK, NEW k \in Keys, ObserveKey(k)
    PROVE  /\ scopeKey' = [scopeKey EXCEPT ![ScopeOf[k]] = k]
           /\ scopeSeq' = [scopeSeq EXCEPT ![ScopeOf[k]] = SeqFor(k)]
           /\ sequence <= sequence'
           /\ ~IsCurrent(k) => SeqFor(k) = sequence + 1 /\ sequence' = sequence + 1
           /\ IsCurrent(k) => sequence' = sequence
  BY ScopeAssumption, BoundAssumption DEF TypeOK, ObserveKey, IsCurrent, SeqFor

\* Observing a key keeps the sequence numbers in order when it starts no load.
LEMMA ObserveKeySequence ==
    ASSUME TypeOK, FlightInv, SequenceInv, NEW k \in Keys, ObserveKey(k),
           UNCHANGED <<flights, flightVars>>
    PROVE  SequenceInv'
<1>1. /\ fpc' = fpc /\ fkey' = fkey /\ fseq' = fseq /\ flights' = flights
      /\ ActiveFlights' = ActiveFlights
  BY DEF flightVars, ActiveFlights
<1>2. CASE IsCurrent(k)
  <2>1. scopeKey' = scopeKey /\ scopeSeq' = scopeSeq /\ sequence' = sequence
    BY <1>2 DEF ObserveKey
  <2> QED
    BY <1>1, <2>1 DEF SequenceInv, SingleFlight
<1>3. CASE ~IsCurrent(k)
  <2>1. /\ scopeKey' = [scopeKey EXCEPT ![ScopeOf[k]] = k]
        /\ scopeSeq' = [scopeSeq EXCEPT ![ScopeOf[k]] = sequence + 1]
        /\ sequence' = sequence + 1
    BY <1>3 DEF ObserveKey
  <2>2. ScopeOf[k] \in Scopes /\ \A f \in ActiveFlights : fkey[f] \in Keys /\ ScopeOf[fkey[f]] \in Scopes
    BY ScopeAssumption DEF FlightInv, ActiveFlights, TypeOK
  <2>3. \A s \in Scopes : scopeSeq'[s] <= sequence'
    BY <2>1, <2>2 DEF SequenceInv, TypeOK
  <2>4. \A f \in Flights : fseq[f] <= sequence /\ fseq[f] # sequence + 1 /\ fseq[f] <= sequence'
    BY <2>1 DEF SequenceInv, TypeOK
  <2>5. \A f \in ActiveFlights :
          /\ scopeKey'[ScopeOf[fkey[f]]] = fkey[f]
          /\ scopeSeq'[ScopeOf[fkey[f]]] = fseq[f]
          => flights[fkey[f]] = f
    BY <2>1, <2>2, <2>4 DEF SequenceInv, TypeOK, ActiveFlights
  <2> QED
    BY <1>1, <2>3, <2>4, <2>5 DEF SequenceInv, SingleFlight
<1> QED
  BY <1>2, <1>3

\* A finite set with an element has a non-zero cardinality.
LEMMA CountNonzero ==
    ASSUME NEW S, NEW x \in S, IsFiniteSet(S)
    PROVE  Cardinality(S) # 0
  BY FS_EmptySet

\* A leased entry is referenced, published and not being closed; a lease without
\* operations is searched by nobody.
LEMMA LeasedFacts ==
    ASSUME InductiveInvariant, NEW c \in Callers, cpc[c] = "leased"
    PROVE  /\ cfl[c] \in Flights
           /\ refs[cfl[c]] # 0
           /\ cfl[c] \in admitted /\ cfl[c] \notin closing /\ cfl[c] \notin pending
           /\ fpc[cfl[c]] \in {"finish", "done"} /\ cfl[c] \notin failed
           /\ closer[cfl[c]] = "none" /\ root[cfl[c]] = "open" /\ cfl[c] \in allEntries
           /\ operations[c] = 0 => \A s \in Searchers : spc[s] # "idle" => slease[s] # c
<1> USE DEF InductiveInvariant
<1>1. PICK e \in Flights : e = cfl[c]
  BY DEF LeaseInv
<1>2. refs[e] # 0
  <2>1. c \in LeasesOf(e)
    BY <1>1 DEF LeasesOf
  <2>2. Cardinality(LeasesOf(e)) # 0
    BY <2>1, CountNonzero, CountedSetsFinite
  <2> QED
    BY <2>2 DEF CountersExact
<1>3. e \in admitted /\ fpc[e] \in {"finish", "done"} /\ e \notin failed
  BY <1>1 DEF LeaseInv
<1>4. e \notin closing
  BY <1>2 DEF EntryInv
<1>5. closer[e] = "none" /\ root[e] = "open" /\ e \in allEntries
  BY <1>3, <1>4 DEF EntryInv
<1>6. e \notin pending
  BY <1>3 DEF FlightInv
<1>7. ASSUME operations[c] = 0
      PROVE  \A s \in Searchers : spc[s] # "idle" => slease[s] # c
  <2>1. Cardinality(OpsOfLease(c)) = 0
    BY <1>7 DEF CountersExact
  <2>2. OpsOfLease(c) = {}
    BY <2>1, CountedSetsFinite, FS_EmptySet
  <2> QED
    BY <2>2 DEF OpsOfLease
<1> QED
  BY <1>1, <1>2, <1>3, <1>4, <1>5, <1>6, <1>7

\* An operation is counted on its lease and on the entry; if it is the only one of
\* its lease, no other search uses that lease.
LEMMA OperationFacts ==
    ASSUME InductiveInvariant, NEW s \in Searchers, spc[s] # "idle"
    PROVE  /\ slease[s] \in Callers
           /\ cpc[slease[s]] = "leased"
           /\ operations[slease[s]] # 0
           /\ ops[cfl[slease[s]]] # 0
           /\ operations[slease[s]] = 1 =>
                 \A t \in Searchers : t # s /\ spc[t] # "idle" => slease[t] # slease[s]
<1> USE DEF InductiveInvariant
<1>1. PICK c \in Callers : c = slease[s]
  BY DEF LeaseInv
<1>2. cpc[c] = "leased"
  BY <1>1 DEF LeaseInv
<1>3. PICK e \in Flights : e = cfl[c]
  BY <1>2, LeasedFacts
<1>4. s \in OpsOfLease(c) /\ s \in SearchesOf(e)
  BY <1>1, <1>3 DEF OpsOfLease, SearchesOf
<1>5. operations[c] # 0
  <2>1. Cardinality(OpsOfLease(c)) # 0
    BY <1>4, CountNonzero, CountedSetsFinite
  <2> QED
    BY <2>1 DEF CountersExact
<1>6. ops[e] # 0
  <2>1. Cardinality(SearchesOf(e)) # 0
    BY <1>4, CountNonzero, CountedSetsFinite
  <2> QED
    BY <2>1 DEF CountersExact
<1>7. ASSUME operations[c] = 1
      PROVE  \A t \in Searchers : t # s /\ spc[t] # "idle" => slease[t] # c
  <2>1. Cardinality(OpsOfLease(c)) = 1
    BY <1>7 DEF CountersExact
  <2>2. OpsOfLease(c) \ {s} = {}
    BY <1>4, <2>1, CountRemove, CountedSetsFinite
  <2> QED
    BY <2>2 DEF OpsOfLease
<1> QED
  BY <1>1, <1>2, <1>3, <1>5, <1>6, <1>7

-----------------------------------------------------------------------------
(* Every action preserves the inductive invariant.                         *)

\* Acquire joins a running load.
LEMMA AcquireJoinStep ==
    ASSUME InductiveInvariant, NEW c \in Callers, NEW k \in Keys, AcquireJoin(c, k)
    PROVE  InductiveInvariant'
<1> USE ScopeAssumption, NoneAssumption, BoundAssumption DEF InductiveInvariant, TypeOK,
         AcquireJoin, ObserveKey, ScheduleClose, ToClose, OtherKeys, JoinsFlight, SeqFor,
         flightVars, searchVars
<1>1. TypeOK'
  <2>1. flights[k] \in Flights
    BY DEF JoinsFlight
  <2> HIDE DEF ObserveKey
  <2> QED
    BY <2>1, ObserveKeyType
<1>2. LeaseInv'
  BY DEF LeaseInv, IsCurrent
<1>3. FlightInv'
  BY DEF FlightInv, IsCurrent
<1>4. EntryInv'
  BY DEF EntryInv, FlightInv, MapInv, NoOrphanedEntries, IsCurrent
<1>5. MapInv'
  BY SMTT(60) DEF MapInv, NoOrphanedEntries, IsCurrent, FlightInv, EntryInv
<1>6. SequenceInv'
  <2> HIDE DEF ObserveKey, TypeOK
  <2> QED
    BY ObserveKeySequence DEF flightVars
<1>7. DrainInv'
  BY DEF DrainInv, IsCurrent
<1>8. CountersExact'
  <2>1. \A x \in Flights : LeasesOf(x)' = LeasesOf(x) /\ SearchesOf(x)' = SearchesOf(x)
    BY DEF LeasesOf, SearchesOf, LeaseInv
  <2>2. \A d \in Callers : OpsOfLease(d)' = OpsOfLease(d)
    BY DEF OpsOfLease
  <2>3. ActiveFlights' = ActiveFlights
    BY DEF ActiveFlights
  <2> QED
    BY <2>1, <2>2, <2>3, CountersUnchanged
<1> QED
  BY <1>1, <1>2, <1>3, <1>4, <1>5, <1>6, <1>7, <1>8

\* Acquire leases a cached root.
LEMMA AcquireHitStep ==
    ASSUME InductiveInvariant, NEW c \in Callers, NEW k \in Keys, AcquireHit(c, k)
    PROVE  InductiveInvariant'
<1> USE ScopeAssumption, NoneAssumption, BoundAssumption DEF InductiveInvariant, TypeOK,
         AcquireHit, ObserveKey, ScheduleClose, ToClose, OtherKeys, JoinsFlight,
         HitsEntry, SeqFor, TakeRef, flightVars, searchVars
<1>1. TypeOK'
  <2>1. entries[k] \in Flights
    BY DEF HitsEntry
  <2> HIDE DEF ObserveKey
  <2> QED
    BY <2>1, ObserveKeyType
<1>2. LeaseInv'
  BY DEF LeaseInv, FlightInv, EntryInv, MapInv, NoOrphanedEntries, IsCurrent
<1>3. FlightInv'
  BY DEF FlightInv, IsCurrent
<1>4. EntryInv'
  BY DEF EntryInv, FlightInv, MapInv, NoOrphanedEntries, IsCurrent
<1>5. MapInv'
  BY DEF MapInv, NoOrphanedEntries, IsCurrent
<1>6. SequenceInv'
  <2> HIDE DEF ObserveKey, TypeOK
  <2> QED
    BY ObserveKeySequence DEF flightVars
<1>7. DrainInv'
  BY DEF DrainInv, IsCurrent
<1>8. CountersExact'
  <2>1. PICK e \in Flights : e = entries[k]
    BY DEF HitsEntry
  <2>2. LeasesOf(e)' = LeasesOf(e) \cup {c} /\ c \notin LeasesOf(e)
    BY <2>1 DEF LeasesOf
  <2>3. \A x \in Flights : x # e => LeasesOf(x)' = LeasesOf(x)
    BY <2>1 DEF LeasesOf
  <2>4. \A x \in Flights : SearchesOf(x)' = SearchesOf(x)
    BY DEF SearchesOf, LeaseInv
  <2>5. \A d \in Callers : OpsOfLease(d)' = OpsOfLease(d)
    BY DEF OpsOfLease
  <2>6. ActiveFlights' = ActiveFlights
    BY DEF ActiveFlights
  <2>7. Cardinality(LeasesOf(e)') = Cardinality(LeasesOf(e)) + 1
    BY <2>2, CountAdd, CountedSetsFinite
  <2>8. refs' = [refs EXCEPT ![e] = @ + 1]
    BY <2>1
  <2>9. \A x \in Flights : refs'[x] = Cardinality(LeasesOf(x)')
    BY <2>3, <2>7, <2>8 DEF CountersExact
  <2> QED
    BY <2>4, <2>5, <2>6, <2>9 DEF CountersExact
<1> QED
  BY <1>1, <1>2, <1>3, <1>4, <1>5, <1>6, <1>7, <1>8

\* Acquire switches the root but has no guard to load under.
LEMMA AcquireWithoutGuardStep ==
    ASSUME InductiveInvariant, NEW c \in Callers, NEW k \in Keys, AcquireWithoutGuard(c, k)
    PROVE  InductiveInvariant'
<1> USE ScopeAssumption, NoneAssumption, BoundAssumption DEF InductiveInvariant, TypeOK,
         AcquireWithoutGuard, ObserveKey, ScheduleClose, ToClose, OtherKeys, JoinsFlight,
         HitsEntry, SeqFor, flightVars, leaseVars, searchVars
<1>1. TypeOK'
  <2> HIDE DEF ObserveKey
  <2> QED
    BY ObserveKeyType
<1>2. LeaseInv'
  BY DEF LeaseInv, IsCurrent
<1>3. FlightInv'
  BY DEF FlightInv, IsCurrent
<1>4. EntryInv'
  BY SMTT(60) DEF EntryInv, FlightInv, MapInv, NoOrphanedEntries, IsCurrent
<1>5. MapInv'
  BY SMTT(60) DEF MapInv, NoOrphanedEntries, IsCurrent, FlightInv, EntryInv
<1>6. SequenceInv'
  <2> HIDE DEF ObserveKey, TypeOK
  <2> QED
    BY ObserveKeySequence DEF flightVars
<1>7. DrainInv'
  BY DEF DrainInv, IsCurrent
<1>8. CountersExact'
  <2>1. \A x \in Flights : LeasesOf(x)' = LeasesOf(x) /\ SearchesOf(x)' = SearchesOf(x)
    BY DEF LeasesOf, SearchesOf, LeaseInv
  <2>2. \A d \in Callers : OpsOfLease(d)' = OpsOfLease(d)
    BY DEF OpsOfLease
  <2>3. ActiveFlights' = ActiveFlights
    BY DEF ActiveFlights
  <2> QED
    BY <2>1, <2>2, <2>3, CountersUnchanged
<1> QED
  BY <1>1, <1>2, <1>3, <1>4, <1>5, <1>6, <1>7, <1>8

\* Acquire starts a cold load.
LEMMA AcquireLoadStep ==
    ASSUME InductiveInvariant, NEW c \in Callers, NEW k \in Keys, NEW f \in Flights, AcquireLoad(c, k, f)
    PROVE  InductiveInvariant'
<1> USE ScopeAssumption, NoneAssumption, BoundAssumption DEF InductiveInvariant, TypeOK,
         AcquireLoad, ObserveKey, ScheduleClose, ToClose, OtherKeys, JoinsFlight,
         HitsEntry, SeqFor, searchVars
<1>1. TypeOK'
  <2> HIDE DEF ObserveKey, SeqFor
  <2> QED
    BY ObserveKeyType
<1>2. LeaseInv'
  BY DEF LeaseInv, IsCurrent
<1>3. FlightInv'
  BY DEF FlightInv, IsCurrent
<1>4. EntryInv'
  BY SMTT(60) DEF EntryInv, FlightInv, MapInv, NoOrphanedEntries, IsCurrent
<1>5. MapInv'
  <2>1. \A j \in Keys : flights[j] # f /\ entries[j] # f
    BY DEF MapInv, FlightInv
  <2>2. f \notin allEntries
    BY DEF FlightInv, EntryInv
  <2>3. CASE IsCurrent(k)
    <3>1. entries[k] = None
      BY <2>3 DEF MapInv, FlightInv, EntryInv, SequenceInv, ActiveFlights, IsCurrent
    <3> QED
      BY <2>1, <2>2, <2>3, <3>1 DEF MapInv, NoOrphanedEntries, IsCurrent
  <2>4. CASE ~IsCurrent(k)
    <3>1. entries[k] = None
      BY <2>4 DEF MapInv
    <3>2. \A j \in Keys : entries'[j] = IF ScopeOf[j] = ScopeOf[k] THEN None ELSE entries[j]
      BY <2>4, <3>1 DEF MapInv
    <3>3. retired' = retired \cup {entries[j] : j \in OtherKeys(k)}
      BY <2>4
    <3>4. \A j \in Keys : entries'[j] # None =>
             /\ scopeKey'[ScopeOf[j]] = j
             /\ fkey'[entries'[j]] = j
             /\ fseq'[entries'[j]] = scopeSeq'[ScopeOf[j]]
             /\ entries'[j] \in admitted
             /\ entries'[j] \in allEntries
             /\ entries'[j] \notin retired'
             /\ flights'[j] = flights[j]
      <4>1. /\ scopeKey' = [scopeKey EXCEPT ![ScopeOf[k]] = k]
            /\ scopeSeq' = [scopeSeq EXCEPT ![ScopeOf[k]] = SeqFor(k)]
            /\ ScopeOf[k] \in Scopes
        BY ObserveKeyScope
      <4>2. \A j \in Keys : entries'[j] # None => entries'[j] = entries[j] /\ ScopeOf[j] # ScopeOf[k]
        BY <3>2
      <4>3. \A j \in Keys : entries'[j] # None => entries[j] \notin retired'
        BY <3>3, <4>2 DEF MapInv, OtherKeys
      <4>4. \A j \in Keys : j # k => flights'[j] = flights[j]
        OBVIOUS
      <4>5. \A g \in Flights : g # f => fkey'[g] = fkey[g] /\ fseq'[g] = fseq[g]
        OBVIOUS
      <4> HIDE DEF AcquireLoad, ObserveKey, SeqFor, JoinsFlight, HitsEntry
      <4> QED
        BY <2>1, <4>1, <4>2, <4>3, <4>4, <4>5 DEF MapInv, IsCurrent
    <3>5. \A e \in allEntries : e \notin retired' => entries'[fkey'[e]] = e
      BY <2>1, <2>2, <3>1, <3>2, <3>3 DEF MapInv, NoOrphanedEntries, EntryInv, FlightInv
    <3>6. \A j \in Keys : flights'[j] # None => fkey'[flights'[j]] = j
                                              /\ fpc'[flights'[j]] \notin {"none", "done"}
      BY <2>1 DEF MapInv
    <3>7. \A j \in Keys : entries'[j] # None /\ flights'[j] # None
                           /\ fseq'[flights'[j]] = scopeSeq'[ScopeOf[j]]
                           => entries'[j] = flights'[j]
      BY <2>1, <3>2, <3>4, ObserveKeyScope DEF MapInv
    <3> HIDE DEF ObserveKey, SeqFor, JoinsFlight, HitsEntry
    <3> QED
      BY <3>4, <3>5, <3>6, <3>7 DEF MapInv, NoOrphanedEntries, IsCurrent
  <2> QED
    BY <2>3, <2>4
<1>6. SequenceInv'
  <2>1. f \notin ActiveFlights /\ ActiveFlights' = ActiveFlights \cup {f}
    BY DEF ActiveFlights
  <2>2. \A g \in ActiveFlights : g # f /\ fkey'[g] = fkey[g] /\ fseq'[g] = fseq[g] /\ fkey[g] \in Keys
    BY <2>1 DEF FlightInv, ActiveFlights
  <2>3. fkey'[f] = k /\ fseq'[f] = SeqFor(k) /\ SeqFor(k) <= sequence'
    <3>1. fkey'[f] = k /\ fseq'[f] = SeqFor(k)
      OBVIOUS
    <3>2. CASE IsCurrent(k)
      <4>1. SeqFor(k) = scopeSeq[ScopeOf[k]] /\ sequence' = sequence
        BY <3>2
      <4> QED
        <5>1. scopeSeq[ScopeOf[k]] <= sequence
          BY DEF SequenceInv
        <5> HIDE DEF ObserveKey, SeqFor, JoinsFlight, HitsEntry, AcquireLoad
        <5> QED
          BY <3>1, <4>1, <5>1
    <3>3. CASE ~IsCurrent(k)
      BY <3>1, <3>3, ObserveKeyScope
    <3> QED
      BY <3>2, <3>3
  <2>4. \A g \in ActiveFlights : ~(fkey[g] = k /\ fseq[g] = SeqFor(k))
    BY DEF SequenceInv, IsCurrent, ActiveFlights
  <2> HIDE DEF ObserveKey, SeqFor, JoinsFlight, HitsEntry
  <2>5. /\ scopeKey' = [scopeKey EXCEPT ![ScopeOf[k]] = k]
        /\ scopeSeq' = [scopeSeq EXCEPT ![ScopeOf[k]] = SeqFor(k)]
        /\ ScopeOf[k] \in Scopes
    BY ObserveKeyScope
  <2>6. \A s \in Scopes : scopeSeq'[s] <= sequence'
    BY <2>3, ObserveKeyScope DEF SequenceInv
  <2>7. \A g \in Flights : fseq'[g] <= sequence'
    BY <2>3, ObserveKeyScope DEF SequenceInv
  <2>8. \A g \in ActiveFlights' :
           /\ scopeKey'[ScopeOf[fkey'[g]]] = fkey'[g]
           /\ scopeSeq'[ScopeOf[fkey'[g]]] = fseq'[g]
           => flights'[fkey'[g]] = g
    <3>1. flights'[k] = f
      BY DEF AcquireLoad
    <3>2. \A j \in Keys : j # k => flights'[j] = flights[j]
      BY DEF AcquireLoad
    <3>3. SUFFICES ASSUME NEW g \in ActiveFlights,
                          scopeKey'[ScopeOf[fkey[g]]] = fkey[g],
                          scopeSeq'[ScopeOf[fkey[g]]] = fseq[g]
                   PROVE  flights'[fkey[g]] = g
      BY <2>1, <2>2, <2>3, <3>1
    <3>4. CASE ScopeOf[fkey[g]] = ScopeOf[k]
      <4>1. fkey[g] = k /\ fseq[g] = SeqFor(k)
        BY <2>2, <2>5, <3>3, <3>4
      <4> QED
        BY <2>4, <4>1
    <3>5. CASE ScopeOf[fkey[g]] # ScopeOf[k]
      <4>1. flights[fkey[g]] = g
        BY <2>2, <2>5, <3>3, <3>5 DEF SequenceInv
      <4> QED
        BY <2>2, <3>2, <3>5, <4>1
    <3> QED
      BY <3>4, <3>5
  <2>9. SingleFlight'
    BY <2>1, <2>2, <2>3, <2>4 DEF SequenceInv, SingleFlight
  <2> QED
    BY <2>6, <2>7, <2>8, <2>9 DEF SequenceInv
<1>7. DrainInv'
  BY DEF DrainInv, IsCurrent
<1>8. CountersExact'
  <2>1. \A x \in Flights : LeasesOf(x)' = LeasesOf(x) /\ SearchesOf(x)' = SearchesOf(x)
    BY DEF LeasesOf, SearchesOf, LeaseInv
  <2>2. \A d \in Callers : OpsOfLease(d)' = OpsOfLease(d)
    BY DEF OpsOfLease
  <2>3. ActiveFlights' = ActiveFlights \cup {f} /\ f \notin ActiveFlights
    BY DEF ActiveFlights
  <2>4. Cardinality(ActiveFlights') = Cardinality(ActiveFlights) + 1
    BY <2>3, CountAdd, CountedSetsFinite
  <2> QED
    BY <2>1, <2>2, <2>4 DEF CountersExact
<1> QED
  BY <1>1, <1>2, <1>3, <1>4, <1>5, <1>6, <1>7, <1>8

\* The first caller retains its generation guard, or fails.
LEMMA RetainStep ==
    ASSUME InductiveInvariant, NEW f \in Flights, Retain(f)
    PROVE  InductiveInvariant'
<1> USE ScopeAssumption, NoneAssumption, BoundAssumption DEF InductiveInvariant, TypeOK,
         Retain, managerVars, entryVars, leaseVars, searchVars
<1>1. TypeOK'
  BY SMT
<1>2. LeaseInv'
  BY DEF LeaseInv
<1>3. FlightInv'
  BY DEF FlightInv
<1>4. EntryInv'
  BY DEF EntryInv, FlightInv
<1>5. MapInv'
  BY DEF MapInv, NoOrphanedEntries, IsCurrent
<1>6. SequenceInv'
  BY DEF SequenceInv, SingleFlight, ActiveFlights
<1>7. DrainInv'
  BY DEF DrainInv
<1>8. CountersExact'
  <2>1. \A x \in Flights : LeasesOf(x)' = LeasesOf(x) /\ SearchesOf(x)' = SearchesOf(x)
    BY DEF LeasesOf, SearchesOf, LeaseInv
  <2>2. \A d \in Callers : OpsOfLease(d)' = OpsOfLease(d)
    BY DEF OpsOfLease
  <2>3. ActiveFlights' = ActiveFlights
    BY DEF ActiveFlights
  <2> QED
    BY <2>1, <2>2, <2>3, CountersUnchanged
<1> QED
  BY <1>1, <1>2, <1>3, <1>4, <1>5, <1>6, <1>7, <1>8

\* The flight is checked again before it is detached.
LEMMA RecheckStep ==
    ASSUME InductiveInvariant, NEW f \in Flights, Recheck(f)
    PROVE  InductiveInvariant'
<1> USE ScopeAssumption, NoneAssumption, BoundAssumption DEF InductiveInvariant, TypeOK,
         Recheck, managerVars, entryVars, searchVars
<1>1. TypeOK'
  BY SMT
<1>2. LeaseInv'
  BY DEF LeaseInv
<1>3. FlightInv'
  BY DEF FlightInv
<1>4. EntryInv'
  BY DEF EntryInv
<1>5. MapInv'
  BY DEF MapInv, NoOrphanedEntries, IsCurrent
<1>6. SequenceInv'
  BY SMTT(60) DEF SequenceInv, SingleFlight, ActiveFlights
<1>7. DrainInv'
  BY DEF DrainInv
<1>8. CountersExact'
  <2>1. \A x \in Flights : LeasesOf(x)' = LeasesOf(x) /\ SearchesOf(x)' = SearchesOf(x)
    BY DEF LeasesOf, SearchesOf, LeaseInv
  <2>2. \A d \in Callers : OpsOfLease(d)' = OpsOfLease(d)
    BY DEF OpsOfLease
  <2>3. ActiveFlights' = ActiveFlights
    BY DEF ActiveFlights
  <2> QED
    BY <2>1, <2>2, <2>3, CountersUnchanged
<1> QED
  BY <1>1, <1>2, <1>3, <1>4, <1>5, <1>6, <1>7, <1>8

\* An abandoned flight releases its guard.
LEMMA AbandonStep ==
    ASSUME InductiveInvariant, NEW f \in Flights, Abandon(f)
    PROVE  InductiveInvariant'
<1> USE ScopeAssumption, NoneAssumption, BoundAssumption DEF InductiveInvariant, TypeOK,
         Abandon, managerVars, entryVars, leaseVars, searchVars
<1>1. TypeOK'
  BY SMT
<1>2. LeaseInv'
  BY DEF LeaseInv
<1>3. FlightInv'
  BY DEF FlightInv
<1>4. EntryInv'
  BY DEF EntryInv, FlightInv
<1>5. MapInv'
  BY DEF MapInv, NoOrphanedEntries, IsCurrent
<1>6. SequenceInv'
  BY DEF SequenceInv, SingleFlight, ActiveFlights
<1>7. DrainInv'
  BY DEF DrainInv
<1>8. CountersExact'
  <2>1. \A x \in Flights : LeasesOf(x)' = LeasesOf(x) /\ SearchesOf(x)' = SearchesOf(x)
    BY DEF LeasesOf, SearchesOf, LeaseInv
  <2>2. \A d \in Callers : OpsOfLease(d)' = OpsOfLease(d)
    BY DEF OpsOfLease
  <2>3. ActiveFlights' = ActiveFlights
    BY DEF ActiveFlights
  <2> QED
    BY <2>1, <2>2, <2>3, CountersUnchanged
<1> QED
  BY <1>1, <1>2, <1>3, <1>4, <1>5, <1>6, <1>7, <1>8

\* The loader returns.
LEMMA LoadStep ==
    ASSUME InductiveInvariant, NEW f \in Flights, Load(f)
    PROVE  InductiveInvariant'
<1> USE ScopeAssumption, NoneAssumption, BoundAssumption DEF InductiveInvariant, TypeOK,
         Load, managerVars, leaseVars, searchVars
<1>1. TypeOK'
  BY SMT
<1>2. LeaseInv'
  BY DEF LeaseInv
<1>3. FlightInv'
  BY DEF FlightInv
<1>4. EntryInv'
  BY DEF EntryInv, FlightInv
<1>5. MapInv'
  BY DEF MapInv, NoOrphanedEntries, IsCurrent
<1>6. SequenceInv'
  BY SMTT(60) DEF SequenceInv, SingleFlight, ActiveFlights
<1>7. DrainInv'
  BY DEF DrainInv
<1>8. CountersExact'
  <2>1. \A x \in Flights : LeasesOf(x)' = LeasesOf(x) /\ SearchesOf(x)' = SearchesOf(x)
    BY DEF LeasesOf, SearchesOf, LeaseInv
  <2>2. \A d \in Callers : OpsOfLease(d)' = OpsOfLease(d)
    BY DEF OpsOfLease
  <2>3. ActiveFlights' = ActiveFlights
    BY DEF ActiveFlights
  <2> QED
    BY <2>1, <2>2, <2>3, CountersUnchanged
<1> QED
  BY <1>1, <1>2, <1>3, <1>4, <1>5, <1>6, <1>7, <1>8

\* A loaded root becomes a pending entry, or is rejected.
LEMMA AdmitStep ==
    ASSUME InductiveInvariant, NEW f \in Flights, Admit(f)
    PROVE  InductiveInvariant'
<1> USE ScopeAssumption, NoneAssumption, BoundAssumption DEF InductiveInvariant, TypeOK,
         Admit, StillCurrent, leaseVars, searchVars
<1>1. TypeOK'
  BY SMT
<1>2. LeaseInv'
  BY DEF LeaseInv
<1>3. FlightInv'
  BY DEF FlightInv
<1>4. EntryInv'
  BY DEF EntryInv, FlightInv
<1>5. MapInv'
  BY DEF MapInv, NoOrphanedEntries, IsCurrent, FlightInv, EntryInv
<1>6. SequenceInv'
  BY SMTT(60) DEF SequenceInv, SingleFlight, ActiveFlights
<1>7. DrainInv'
  BY DEF DrainInv
<1>8. CountersExact'
  <2>1. \A x \in Flights : LeasesOf(x)' = LeasesOf(x) /\ SearchesOf(x)' = SearchesOf(x)
    BY DEF LeasesOf, SearchesOf, LeaseInv
  <2>2. \A d \in Callers : OpsOfLease(d)' = OpsOfLease(d)
    BY DEF OpsOfLease
  <2>3. ActiveFlights' = ActiveFlights
    BY DEF ActiveFlights
  <2> QED
    BY <2>1, <2>2, <2>3, CountersUnchanged
<1> QED
  BY <1>1, <1>2, <1>3, <1>4, <1>5, <1>6, <1>7, <1>8

\* A rejected root is closed.
LEMMA DiscardStep ==
    ASSUME InductiveInvariant, NEW f \in Flights, Discard(f)
    PROVE  InductiveInvariant'
<1> USE ScopeAssumption, NoneAssumption, BoundAssumption DEF InductiveInvariant, TypeOK,
         Discard, Closed, managerVars, leaseVars, searchVars
<1>1. TypeOK'
  BY SMT
<1>2. LeaseInv'
  BY DEF LeaseInv
<1>3. FlightInv'
  BY DEF FlightInv
<1>4. EntryInv'
  BY DEF EntryInv, FlightInv
<1>5. MapInv'
  BY DEF MapInv, NoOrphanedEntries, IsCurrent
<1>6. SequenceInv'
  BY DEF SequenceInv, SingleFlight, ActiveFlights
<1>7. DrainInv'
  BY DEF DrainInv
<1>8. CountersExact'
  <2>1. \A x \in Flights : LeasesOf(x)' = LeasesOf(x) /\ SearchesOf(x)' = SearchesOf(x)
    BY DEF LeasesOf, SearchesOf, LeaseInv
  <2>2. \A d \in Callers : OpsOfLease(d)' = OpsOfLease(d)
    BY DEF OpsOfLease
  <2>3. ActiveFlights' = ActiveFlights
    BY DEF ActiveFlights
  <2> QED
    BY <2>1, <2>2, <2>3, CountersUnchanged
<1> QED
  BY <1>1, <1>2, <1>3, <1>4, <1>5, <1>6, <1>7, <1>8

\* The load releases its guard.
LEMMA ReleaseGuardStep ==
    ASSUME InductiveInvariant, NEW f \in Flights, ReleaseGuard(f)
    PROVE  InductiveInvariant'
<1> USE ScopeAssumption, NoneAssumption, BoundAssumption DEF InductiveInvariant, TypeOK,
         ReleaseGuard, managerVars, entryVars, leaseVars, searchVars
<1>1. TypeOK'
  BY SMT
<1>2. LeaseInv'
  BY DEF LeaseInv
<1>3. FlightInv'
  BY DEF FlightInv
<1>4. EntryInv'
  BY DEF EntryInv
<1>5. MapInv'
  BY DEF MapInv, NoOrphanedEntries, IsCurrent
<1>6. SequenceInv'
  BY DEF SequenceInv, SingleFlight, ActiveFlights
<1>7. DrainInv'
  BY DEF DrainInv
<1>8. CountersExact'
  <2>1. \A x \in Flights : LeasesOf(x)' = LeasesOf(x) /\ SearchesOf(x)' = SearchesOf(x)
    BY DEF LeasesOf, SearchesOf, LeaseInv
  <2>2. \A d \in Callers : OpsOfLease(d)' = OpsOfLease(d)
    BY DEF OpsOfLease
  <2>3. ActiveFlights' = ActiveFlights
    BY DEF ActiveFlights
  <2> QED
    BY <2>1, <2>2, <2>3, CountersUnchanged
<1> QED
  BY <1>1, <1>2, <1>3, <1>4, <1>5, <1>6, <1>7, <1>8

\* A pending entry becomes leasable, or is taken out.
LEMMA PublishStep ==
    ASSUME InductiveInvariant, NEW f \in Flights, Publish(f)
    PROVE  InductiveInvariant'
<1> USE ScopeAssumption, NoneAssumption, BoundAssumption DEF InductiveInvariant, TypeOK,
         Publish, Publishable, StillCurrent, leaseVars, searchVars
<1>1. TypeOK'
  BY SMT
<1>2. LeaseInv'
  BY DEF LeaseInv
<1>3. FlightInv'
  BY DEF FlightInv
<1>4. EntryInv'
  <2>1. CASE Publishable(f)
    BY SMTT(60), <2>1 DEF EntryInv, FlightInv
  <2>2. CASE ~Publishable(f)
    <3>1. LeasesOf(f) = {} /\ SearchesOf(f) = {}
      BY DEF LeasesOf, SearchesOf, LeaseInv
    <3>2. refs[f] = 0 /\ ops[f] = 0
      BY <3>1, FS_EmptySet DEF CountersExact
    <3> QED
      BY <2>2, <3>2 DEF EntryInv, FlightInv
  <2> QED
    BY <2>1, <2>2
<1>5. MapInv'
  BY DEF MapInv, NoOrphanedEntries, IsCurrent, FlightInv, EntryInv
<1>6. SequenceInv'
  BY DEF SequenceInv, SingleFlight, ActiveFlights
<1>7. DrainInv'
  BY DEF DrainInv
<1>8. CountersExact'
  <2>1. \A x \in Flights : LeasesOf(x)' = LeasesOf(x) /\ SearchesOf(x)' = SearchesOf(x)
    BY DEF LeasesOf, SearchesOf, LeaseInv
  <2>2. \A d \in Callers : OpsOfLease(d)' = OpsOfLease(d)
    BY DEF OpsOfLease
  <2>3. ActiveFlights' = ActiveFlights
    BY DEF ActiveFlights
  <2> QED
    BY <2>1, <2>2, <2>3, CountersUnchanged
<1> QED
  BY <1>1, <1>2, <1>3, <1>4, <1>5, <1>6, <1>7, <1>8

\* An unpublished root is closed.
LEMMA DisposeStep ==
    ASSUME InductiveInvariant, NEW f \in Flights, Dispose(f)
    PROVE  InductiveInvariant'
<1> USE ScopeAssumption, NoneAssumption, BoundAssumption DEF InductiveInvariant, TypeOK,
         Dispose, Closed, managerVars, leaseVars, searchVars
<1>1. TypeOK'
  BY SMT
<1>2. LeaseInv'
  BY DEF LeaseInv
<1>3. FlightInv'
  BY DEF FlightInv
<1>4. EntryInv'
  BY DEF EntryInv
<1>5. MapInv'
  BY DEF MapInv, NoOrphanedEntries, IsCurrent
<1>6. SequenceInv'
  BY DEF SequenceInv, SingleFlight, ActiveFlights
<1>7. DrainInv'
  BY DEF DrainInv
<1>8. CountersExact'
  <2>1. \A x \in Flights : LeasesOf(x)' = LeasesOf(x) /\ SearchesOf(x)' = SearchesOf(x)
    BY DEF LeasesOf, SearchesOf, LeaseInv
  <2>2. \A d \in Callers : OpsOfLease(d)' = OpsOfLease(d)
    BY DEF OpsOfLease
  <2>3. ActiveFlights' = ActiveFlights
    BY DEF ActiveFlights
  <2> QED
    BY <2>1, <2>2, <2>3, CountersUnchanged
<1> QED
  BY <1>1, <1>2, <1>3, <1>4, <1>5, <1>6, <1>7, <1>8

\* An unpublished entry is forgotten.
LEMMA DropStep ==
    ASSUME InductiveInvariant, NEW f \in Flights, Drop(f)
    PROVE  InductiveInvariant'
<1> USE ScopeAssumption, NoneAssumption, BoundAssumption DEF InductiveInvariant, TypeOK,
         Drop, CheckDrained, entryVars, leaseVars, searchVars
<1>1. TypeOK'
  BY SMT
<1>2. LeaseInv'
  BY DEF LeaseInv
<1>3. FlightInv'
  BY DEF FlightInv
<1>4. EntryInv'
  BY DEF EntryInv
<1>5. MapInv'
  BY DEF MapInv, NoOrphanedEntries, IsCurrent, FlightInv, EntryInv
<1>6. SequenceInv'
  BY DEF SequenceInv, SingleFlight, ActiveFlights
<1>7. DrainInv'
  BY DEF DrainInv
<1>8. CountersExact'
  <2>1. \A x \in Flights : LeasesOf(x)' = LeasesOf(x) /\ SearchesOf(x)' = SearchesOf(x)
    BY DEF LeasesOf, SearchesOf, LeaseInv
  <2>2. \A d \in Callers : OpsOfLease(d)' = OpsOfLease(d)
    BY DEF OpsOfLease
  <2>3. ActiveFlights' = ActiveFlights
    BY DEF ActiveFlights
  <2> QED
    BY <2>1, <2>2, <2>3, CountersUnchanged
<1> QED
  BY <1>1, <1>2, <1>3, <1>4, <1>5, <1>6, <1>7, <1>8

\* A flight finishes.
LEMMA FinishFlightStep ==
    ASSUME InductiveInvariant, NEW f \in Flights, FinishFlight(f)
    PROVE  InductiveInvariant'
<1> USE ScopeAssumption, NoneAssumption, BoundAssumption DEF InductiveInvariant, TypeOK,
         FinishFlight, UnlinkFlight, CheckDrained, entryVars, searchVars
<1>1. TypeOK'
  <2>1. f \in ActiveFlights
    BY DEF ActiveFlights
  <2>2. loads # 0
    BY <2>1, CountRemove, CountedSetsFinite DEF CountersExact
  <2> QED
    BY <2>2
<1>2. LeaseInv'
  BY DEF LeaseInv
<1>3. FlightInv'
  BY DEF FlightInv
<1>4. EntryInv'
  BY DEF EntryInv
<1>5. MapInv'
  BY DEF MapInv, NoOrphanedEntries, IsCurrent
<1>6. SequenceInv'
  BY DEF SequenceInv, SingleFlight, ActiveFlights, FlightInv
<1>7. DrainInv'
  <2>1. f \in ActiveFlights
    BY DEF ActiveFlights
  <2>2. loads # 0
    BY <2>1, CountRemove, CountedSetsFinite DEF CountersExact
  <2> QED
    BY <2>2 DEF DrainInv
<1>8. CountersExact'
  <2>1. \A x \in Flights : LeasesOf(x)' = LeasesOf(x) /\ SearchesOf(x)' = SearchesOf(x)
    BY DEF LeasesOf, SearchesOf, LeaseInv
  <2>2. \A d \in Callers : OpsOfLease(d)' = OpsOfLease(d)
    BY DEF OpsOfLease
  <2>3. ActiveFlights' = ActiveFlights \ {f} /\ f \in ActiveFlights
    BY DEF ActiveFlights
  <2>4. Cardinality(ActiveFlights') = Cardinality(ActiveFlights) - 1
    BY <2>3, CountRemove, CountedSetsFinite
  <2> QED
    BY <2>1, <2>2, <2>4 DEF CountersExact
<1> QED
  BY <1>1, <1>2, <1>3, <1>4, <1>5, <1>6, <1>7, <1>8

\* The closeEntry goroutine closes its root.
LEMMA CloseEntryStep ==
    ASSUME InductiveInvariant, NEW e \in Flights, CloseEntry(e)
    PROVE  InductiveInvariant'
<1> USE ScopeAssumption, NoneAssumption, BoundAssumption DEF InductiveInvariant, TypeOK,
         CloseEntry, Closed, managerVars, flightVars, leaseVars, searchVars
<1>1. TypeOK'
  BY SMT
<1>2. LeaseInv'
  BY DEF LeaseInv
<1>3. FlightInv'
  BY DEF FlightInv, EntryInv
<1>4. EntryInv'
  BY DEF EntryInv
<1>5. MapInv'
  BY DEF MapInv, NoOrphanedEntries, IsCurrent
<1>6. SequenceInv'
  BY DEF SequenceInv, SingleFlight, ActiveFlights
<1>7. DrainInv'
  BY DEF DrainInv
<1>8. CountersExact'
  <2>1. \A x \in Flights : LeasesOf(x)' = LeasesOf(x) /\ SearchesOf(x)' = SearchesOf(x)
    BY DEF LeasesOf, SearchesOf, LeaseInv
  <2>2. \A d \in Callers : OpsOfLease(d)' = OpsOfLease(d)
    BY DEF OpsOfLease
  <2>3. ActiveFlights' = ActiveFlights
    BY DEF ActiveFlights
  <2> QED
    BY <2>1, <2>2, <2>3, CountersUnchanged
<1> QED
  BY <1>1, <1>2, <1>3, <1>4, <1>5, <1>6, <1>7, <1>8

\* The closeEntry goroutine forgets its entry.
LEMMA ForgetEntryStep ==
    ASSUME InductiveInvariant, NEW e \in Flights, ForgetEntry(e)
    PROVE  InductiveInvariant'
<1> USE ScopeAssumption, NoneAssumption, BoundAssumption DEF InductiveInvariant, TypeOK,
         ForgetEntry, CheckDrained, flightVars, leaseVars, searchVars
<1>1. TypeOK'
  BY SMT
<1>2. LeaseInv'
  BY DEF LeaseInv
<1>3. FlightInv'
  BY DEF FlightInv
<1>4. EntryInv'
  BY DEF EntryInv
<1>5. MapInv'
  BY DEF MapInv, NoOrphanedEntries, IsCurrent, FlightInv, EntryInv
<1>6. SequenceInv'
  BY DEF SequenceInv, SingleFlight, ActiveFlights
<1>7. DrainInv'
  BY DEF DrainInv
<1>8. CountersExact'
  <2>1. \A x \in Flights : LeasesOf(x)' = LeasesOf(x) /\ SearchesOf(x)' = SearchesOf(x)
    BY DEF LeasesOf, SearchesOf, LeaseInv
  <2>2. \A d \in Callers : OpsOfLease(d)' = OpsOfLease(d)
    BY DEF OpsOfLease
  <2>3. ActiveFlights' = ActiveFlights
    BY DEF ActiveFlights
  <2> QED
    BY <2>1, <2>2, <2>3, CountersUnchanged
<1> QED
  BY <1>1, <1>2, <1>3, <1>4, <1>5, <1>6, <1>7, <1>8

\* A waiter gets the entry of its flight, or an error.
LEMMA WaitDoneStep ==
    ASSUME InductiveInvariant, NEW c \in Callers, WaitDone(c)
    PROVE  InductiveInvariant'
<1> USE ScopeAssumption, NoneAssumption, BoundAssumption DEF InductiveInvariant, TypeOK,
         WaitDone, Obtainable, TakeRef, managerVars, flightVars, searchVars
<1>1. TypeOK'
  BY SMT
<1>2. LeaseInv'
  BY DEF LeaseInv
<1>3. FlightInv'
  BY DEF FlightInv
<1>4. EntryInv'
  BY DEF EntryInv
<1>5. MapInv'
  BY DEF MapInv, NoOrphanedEntries, IsCurrent
<1>6. SequenceInv'
  BY DEF SequenceInv, SingleFlight, ActiveFlights
<1>7. DrainInv'
  BY DEF DrainInv
<1>8. CountersExact'
  <2>1. CASE ~Obtainable(cfl[c])
    <3>1. \A x \in Flights : LeasesOf(x)' = LeasesOf(x) /\ SearchesOf(x)' = SearchesOf(x)
      BY <2>1 DEF LeasesOf, SearchesOf, LeaseInv
    <3>2. \A d \in Callers : OpsOfLease(d)' = OpsOfLease(d)
      BY DEF OpsOfLease
    <3>3. ActiveFlights' = ActiveFlights
      BY DEF ActiveFlights
    <3> QED
      BY <2>1, <3>1, <3>2, <3>3, CountersUnchanged
  <2>2. CASE Obtainable(cfl[c])
    <3>1. PICK e \in Flights : e = cfl[c]
      BY <2>2 DEF LeaseInv
    <3>2. LeasesOf(e)' = LeasesOf(e) \cup {c} /\ c \notin LeasesOf(e)
      BY <2>2, <3>1 DEF LeasesOf
    <3>3. \A x \in Flights : x # e => LeasesOf(x)' = LeasesOf(x)
      BY <2>2, <3>1 DEF LeasesOf
    <3>4. \A x \in Flights : SearchesOf(x)' = SearchesOf(x)
      BY <2>2 DEF SearchesOf, LeaseInv
    <3>5. \A d \in Callers : OpsOfLease(d)' = OpsOfLease(d)
      BY DEF OpsOfLease
    <3>6. ActiveFlights' = ActiveFlights
      BY DEF ActiveFlights
    <3>7. Cardinality(LeasesOf(e)') = Cardinality(LeasesOf(e)) + 1
      BY <3>2, CountAdd, CountedSetsFinite
    <3>8. refs' = [refs EXCEPT ![e] = @ + 1]
      BY <2>2, <3>1
    <3>9. \A x \in Flights : refs'[x] = Cardinality(LeasesOf(x)')
      BY <3>3, <3>7, <3>8 DEF CountersExact
    <3> QED
      BY <3>4, <3>5, <3>6, <3>9 DEF CountersExact
  <2> QED
    BY <2>1, <2>2
<1> QED
  BY <1>1, <1>2, <1>3, <1>4, <1>5, <1>6, <1>7, <1>8

\* A waiter gives up.
LEMMA GiveUpStep ==
    ASSUME InductiveInvariant, NEW c \in Callers, GiveUp(c)
    PROVE  InductiveInvariant'
<1> USE ScopeAssumption, NoneAssumption, BoundAssumption DEF InductiveInvariant, TypeOK,
         GiveUp, managerVars, flightVars, entryVars, searchVars
<1>1. TypeOK'
  BY SMT
<1>2. LeaseInv'
  BY DEF LeaseInv
<1>3. FlightInv'
  BY DEF FlightInv
<1>4. EntryInv'
  BY DEF EntryInv
<1>5. MapInv'
  BY DEF MapInv, NoOrphanedEntries, IsCurrent
<1>6. SequenceInv'
  BY DEF SequenceInv, SingleFlight, ActiveFlights
<1>7. DrainInv'
  BY DEF DrainInv
<1>8. CountersExact'
  <2>1. \A x \in Flights : LeasesOf(x)' = LeasesOf(x) /\ SearchesOf(x)' = SearchesOf(x)
    BY DEF LeasesOf, SearchesOf, LeaseInv
  <2>2. \A d \in Callers : OpsOfLease(d)' = OpsOfLease(d)
    BY DEF OpsOfLease
  <2>3. ActiveFlights' = ActiveFlights
    BY DEF ActiveFlights
  <2> QED
    BY <2>1, <2>2, <2>3, CountersUnchanged
<1> QED
  BY <1>1, <1>2, <1>3, <1>4, <1>5, <1>6, <1>7, <1>8

\* A lease is closed while operations run.
LEMMA CloseBusyLeaseStep ==
    ASSUME InductiveInvariant, NEW c \in Callers, CloseBusyLease(c)
    PROVE  InductiveInvariant'
<1> USE ScopeAssumption, NoneAssumption, BoundAssumption DEF InductiveInvariant, TypeOK,
         CloseBusyLease, managerVars, flightVars, entryVars, searchVars
<1>1. TypeOK'
  BY SMT
<1>2. LeaseInv'
  BY DEF LeaseInv
<1>3. FlightInv'
  BY DEF FlightInv
<1>4. EntryInv'
  BY DEF EntryInv
<1>5. MapInv'
  BY DEF MapInv, NoOrphanedEntries, IsCurrent
<1>6. SequenceInv'
  BY DEF SequenceInv, SingleFlight, ActiveFlights
<1>7. DrainInv'
  BY DEF DrainInv
<1>8. CountersExact'
  <2>1. \A x \in Flights : LeasesOf(x)' = LeasesOf(x) /\ SearchesOf(x)' = SearchesOf(x)
    BY DEF LeasesOf, SearchesOf, LeaseInv
  <2>2. \A d \in Callers : OpsOfLease(d)' = OpsOfLease(d)
    BY DEF OpsOfLease
  <2>3. ActiveFlights' = ActiveFlights
    BY DEF ActiveFlights
  <2> QED
    BY <2>1, <2>2, <2>3, CountersUnchanged
<1> QED
  BY <1>1, <1>2, <1>3, <1>4, <1>5, <1>6, <1>7, <1>8

\* A lease is closed and released.
LEMMA CloseLeaseStep ==
    ASSUME InductiveInvariant, NEW c \in Callers, CloseLease(c)
    PROVE  InductiveInvariant'
<1> USE ScopeAssumption, NoneAssumption, BoundAssumption DEF InductiveInvariant, TypeOK,
         CloseLease, ScheduleClose, ToClose, CheckDrained, flightVars, searchVars
<1>1. TypeOK'
  <2>1. refs' \in [Flights -> Nat]
    BY SMTT(60), LeasedFacts
  <2>2. /\ closing' \subseteq Flights
        /\ closer' \in [Flights -> {"none", "close", "drop", "done"}]
        /\ entries' \in [Keys -> Flights \cup {None}]
    BY LeasedFacts
  <2> HIDE DEF ScheduleClose, ToClose
  <2> QED
    BY <2>1, <2>2
<1>2. LeaseInv'
  BY LeasedFacts DEF LeaseInv
<1>3. FlightInv'
  BY DEF FlightInv
<1>4. EntryInv'
  <2>1. PICK e \in Flights : e = cfl[c]
    BY LeasedFacts
  <2>2. closing' = closing \/ (closing' = closing \cup {e} /\ e \in retired /\ refs'[e] = 0 /\ ops[e] = 0)
    BY <2>1
  <2>3. closer' = [x \in Flights |-> IF x \in closing' \ closing THEN "close" ELSE closer[x]]
    BY <2>1
  <2>4. \A x \in Flights : x # e => refs'[x] = refs[x]
    BY <2>1
  <2>5. /\ e \in admitted /\ e \notin closing /\ closer[e] = "none"
        /\ fpc[e] \in {"finish", "done"} /\ e \notin failed
        /\ root[e] = "open" /\ e \in allEntries
    BY <2>1, LeasedFacts
  <2> HIDE DEF CloseLease, ScheduleClose, ToClose
  <2>6. UNCHANGED <<admitted, fpc, failed, root, allEntries, retired, ops>>
    BY DEF CloseLease
  <2> QED
    BY <2>2, <2>3, <2>4, <2>5, <2>6 DEF EntryInv
<1>5. MapInv'
  BY DEF MapInv, NoOrphanedEntries, IsCurrent
<1>6. SequenceInv'
  BY DEF SequenceInv, SingleFlight, ActiveFlights
<1>7. DrainInv'
  BY DEF DrainInv
<1>8. CountersExact'
  <2>1. PICK e \in Flights : e = cfl[c]
    BY DEF LeaseInv
  <2>2. LeasesOf(e)' = LeasesOf(e) \ {c} /\ c \in LeasesOf(e)
    BY <2>1 DEF LeasesOf
  <2>3. \A x \in Flights : x # e => LeasesOf(x)' = LeasesOf(x)
    BY <2>1 DEF LeasesOf
  <2>4. OpsOfLease(c) = {}
    <3>1. Cardinality(OpsOfLease(c)) = 0
      BY DEF CountersExact
    <3> QED
      BY <3>1, CountedSetsFinite, FS_EmptySet
  <2>5. \A x \in Flights : SearchesOf(x)' = SearchesOf(x)
    BY <2>4 DEF SearchesOf, OpsOfLease
  <2>6. \A d \in Callers : OpsOfLease(d)' = OpsOfLease(d)
    BY DEF OpsOfLease
  <2>7. ActiveFlights' = ActiveFlights
    BY DEF ActiveFlights
  <2>8. Cardinality(LeasesOf(e)') = Cardinality(LeasesOf(e)) - 1
    BY <2>2, CountRemove, CountedSetsFinite
  <2>9. \A x \in Flights : refs'[x] = Cardinality(LeasesOf(x)')
    BY <2>1, <2>3, <2>8 DEF CountersExact
  <2> QED
    BY <2>5, <2>6, <2>7, <2>9 DEF CountersExact
<1> QED
  BY <1>1, <1>2, <1>3, <1>4, <1>5, <1>6, <1>7, <1>8

\* A search is admitted.
LEMMA SearchBeginStep ==
    ASSUME InductiveInvariant, NEW s \in Searchers, NEW c \in Callers, SearchBegin(s, c)
    PROVE  InductiveInvariant'
<1> USE ScopeAssumption, NoneAssumption, BoundAssumption DEF InductiveInvariant, TypeOK,
         SearchBegin, managerVars, flightVars
<1>1. TypeOK'
  BY DEF FlightInv, LeaseInv
<1>2. LeaseInv'
  BY DEF LeaseInv
<1>3. FlightInv'
  BY DEF FlightInv
<1>4. EntryInv'
  BY DEF EntryInv
<1>5. MapInv'
  BY DEF MapInv, NoOrphanedEntries, IsCurrent
<1>6. SequenceInv'
  BY DEF SequenceInv, SingleFlight, ActiveFlights
<1>7. DrainInv'
  BY DEF DrainInv
<1>8. CountersExact'
  <2>1. PICK e \in Flights : e = cfl[c]
    BY DEF LeaseInv
  <2>2. SearchesOf(e)' = SearchesOf(e) \cup {s} /\ s \notin SearchesOf(e)
    BY <2>1 DEF SearchesOf
  <2>3. \A x \in Flights : x # e => SearchesOf(x)' = SearchesOf(x)
    BY <2>1 DEF SearchesOf
  <2>4. OpsOfLease(c)' = OpsOfLease(c) \cup {s} /\ s \notin OpsOfLease(c)
    BY DEF OpsOfLease
  <2>5. \A d \in Callers : d # c => OpsOfLease(d)' = OpsOfLease(d)
    BY DEF OpsOfLease
  <2>6. \A x \in Flights : LeasesOf(x)' = LeasesOf(x)
    BY DEF LeasesOf
  <2>7. ActiveFlights' = ActiveFlights
    BY DEF ActiveFlights
  <2>8. Cardinality(SearchesOf(e)') = Cardinality(SearchesOf(e)) + 1
    BY <2>2, CountAdd, CountedSetsFinite
  <2>9. Cardinality(OpsOfLease(c)') = Cardinality(OpsOfLease(c)) + 1
    BY <2>4, CountAdd, CountedSetsFinite
  <2>10. \A x \in Flights : ops'[x] = Cardinality(SearchesOf(x)')
    BY <2>1, <2>3, <2>8 DEF CountersExact
  <2>11. \A d \in Callers : operations'[d] = Cardinality(OpsOfLease(d)')
    BY <2>5, <2>9 DEF CountersExact
  <2> QED
    BY <2>6, <2>7, <2>10, <2>11 DEF CountersExact
<1> QED
  BY <1>1, <1>2, <1>3, <1>4, <1>5, <1>6, <1>7, <1>8

\* A search takes searchMu.
LEMMA SearchLockStep ==
    ASSUME InductiveInvariant, NEW s \in Searchers, SearchLock(s)
    PROVE  InductiveInvariant'
<1> USE ScopeAssumption, NoneAssumption, BoundAssumption DEF InductiveInvariant, TypeOK,
         SearchLock, managerVars, flightVars, leaseVars
<1>1. TypeOK'
  BY DEF FlightInv, LeaseInv
<1>2. LeaseInv'
  BY DEF LeaseInv
<1>3. FlightInv'
  BY DEF FlightInv
<1>4. EntryInv'
  BY DEF EntryInv
<1>5. MapInv'
  BY DEF MapInv, NoOrphanedEntries, IsCurrent
<1>6. SequenceInv'
  BY DEF SequenceInv, SingleFlight, ActiveFlights
<1>7. DrainInv'
  BY DEF DrainInv
<1>8. CountersExact'
  <2>1. \A x \in Flights : LeasesOf(x)' = LeasesOf(x) /\ SearchesOf(x)' = SearchesOf(x)
    BY DEF LeasesOf, SearchesOf, LeaseInv
  <2>2. \A d \in Callers : OpsOfLease(d)' = OpsOfLease(d)
    BY DEF OpsOfLease
  <2>3. ActiveFlights' = ActiveFlights
    BY DEF ActiveFlights
  <2> QED
    BY <2>1, <2>2, <2>3, CountersUnchanged
<1> QED
  BY <1>1, <1>2, <1>3, <1>4, <1>5, <1>6, <1>7, <1>8

\* A search returns.
LEMMA SearchReturnStep ==
    ASSUME InductiveInvariant, NEW s \in Searchers, SearchReturn(s)
    PROVE  InductiveInvariant'
<1> USE ScopeAssumption, NoneAssumption, BoundAssumption DEF InductiveInvariant, TypeOK,
         SearchReturn, managerVars, flightVars, leaseVars
<1>1. TypeOK'
  BY SMT
<1>2. LeaseInv'
  BY DEF LeaseInv
<1>3. FlightInv'
  BY DEF FlightInv
<1>4. EntryInv'
  BY DEF EntryInv
<1>5. MapInv'
  BY DEF MapInv, NoOrphanedEntries, IsCurrent
<1>6. SequenceInv'
  BY DEF SequenceInv, SingleFlight, ActiveFlights
<1>7. DrainInv'
  BY DEF DrainInv
<1>8. CountersExact'
  <2>1. \A x \in Flights : LeasesOf(x)' = LeasesOf(x) /\ SearchesOf(x)' = SearchesOf(x)
    BY DEF LeasesOf, SearchesOf, LeaseInv
  <2>2. \A d \in Callers : OpsOfLease(d)' = OpsOfLease(d)
    BY DEF OpsOfLease
  <2>3. ActiveFlights' = ActiveFlights
    BY DEF ActiveFlights
  <2> QED
    BY <2>1, <2>2, <2>3, CountersUnchanged
<1> QED
  BY <1>1, <1>2, <1>3, <1>4, <1>5, <1>6, <1>7, <1>8

\* An operation ends, and may release its lease.
LEMMA FinishOperationStep ==
    ASSUME InductiveInvariant, NEW s \in Searchers, FinishOperation(s)
    PROVE  InductiveInvariant'
<1> USE ScopeAssumption, NoneAssumption, BoundAssumption DEF InductiveInvariant, TypeOK,
         FinishOperation, LastOperation, ScheduleClose, ToClose, CheckDrained,
         flightVars
<1>1. TypeOK'
  <2>1. PICK c \in Callers : c = slease[s] /\ cpc[c] = "leased"
    BY OperationFacts
  <2>2. PICK e \in Flights : e = cfl[c]
    BY <2>1, LeasedFacts
  <2>3. refs[e] # 0 /\ ops[e] # 0 /\ operations[c] # 0
    BY <2>1, <2>2, OperationFacts, LeasedFacts
  <2>4. refs' \in [Flights -> Nat]
    BY SMTT(60), <2>1, <2>2, <2>3
  <2>5. ops' \in [Flights -> Nat]
    <3>1. ops' = [ops EXCEPT ![e] = @ - 1] /\ ops \in [Flights -> Nat]
      BY <2>1, <2>2
    <3> HIDE DEF FinishOperation, InductiveInvariant, TypeOK
    <3> QED
      BY <2>3, <3>1
  <2>6. /\ closing' \subseteq Flights
        /\ closer' \in [Flights -> {"none", "close", "drop", "done"}]
        /\ entries' \in [Keys -> Flights \cup {None}]
    BY <2>1, <2>2
  <2> HIDE DEF ScheduleClose, ToClose, LastOperation
  <2>7. /\ cpc' \in [Callers -> {"idle", "starting", "waiting", "leased"}]
        /\ cfl' \in [Callers -> Flights \cup {None}]
        /\ lclosed' \subseteq Callers
    BY <2>1
  <2>8. operations' \in [Callers -> Nat]
    <3>1. operations' = [operations EXCEPT ![c] = @ - 1] /\ operations \in [Callers -> Nat]
      BY <2>1
    <3> HIDE DEF FinishOperation, InductiveInvariant, TypeOK
    <3> QED
      BY <2>3, <3>1
  <2>9. /\ spc' \in [Searchers -> {"idle", "queued", "searching", "finishing"}]
        /\ slease' \in [Searchers -> Callers \cup {None}]
        /\ drainedDone' \in BOOLEAN
    OBVIOUS
  <2> HIDE DEF CheckDrained
  <2> QED
    BY <2>4, <2>5, <2>6, <2>7, <2>9, <2>8
<1>2. LeaseInv'
  <2>1. PICK c \in Callers : c = slease[s]
    BY OperationFacts
  <2>2. CASE LastOperation(c)
    BY <2>1, <2>2, OperationFacts DEF LeaseInv
  <2>3. CASE ~LastOperation(c)
    BY <2>1, <2>3, OperationFacts DEF LeaseInv
  <2> QED
    BY <2>2, <2>3
<1>3. FlightInv'
  BY DEF FlightInv
<1>4. EntryInv'
  <2>1. PICK c \in Callers : c = slease[s] /\ cpc[c] = "leased"
    BY OperationFacts
  <2>2. PICK e \in Flights : e = cfl[c]
    BY <2>1, LeasedFacts
  <2>3. closing' = closing \/ (closing' = closing \cup {e} /\ e \in retired /\ refs'[e] = 0 /\ ops'[e] = 0)
    BY <2>1, <2>2
  <2>4. closer' = [x \in Flights |-> IF x \in closing' \ closing THEN "close" ELSE closer[x]]
    BY <2>1, <2>2
  <2>5. \A x \in Flights : x # e => refs'[x] = refs[x] /\ ops'[x] = ops[x]
    BY <2>1, <2>2
  <2>6. /\ e \in admitted /\ e \notin closing /\ closer[e] = "none"
        /\ fpc[e] \in {"finish", "done"} /\ e \notin failed
        /\ root[e] = "open" /\ e \in allEntries
    BY <2>1, <2>2, LeasedFacts
  <2> HIDE DEF FinishOperation, ScheduleClose, ToClose
  <2>7. UNCHANGED <<admitted, fpc, failed, root, allEntries, retired>>
    BY SMTT(60) DEF FinishOperation
  <2> QED
    BY <2>3, <2>4, <2>5, <2>6, <2>7 DEF EntryInv
<1>5. MapInv'
  BY DEF MapInv, NoOrphanedEntries, IsCurrent
<1>6. SequenceInv'
  BY DEF SequenceInv, SingleFlight, ActiveFlights
<1>7. DrainInv'
  BY DEF DrainInv
<1>8. CountersExact'
  <2>1. PICK c \in Callers : c = slease[s] /\ cpc[c] = "leased"
    BY OperationFacts
  <2>2. PICK e \in Flights : e = cfl[c]
    BY <2>1, LeasedFacts
  <2>3. SearchesOf(e)' = SearchesOf(e) \ {s} /\ s \in SearchesOf(e)
    BY <2>1, <2>2, OperationFacts DEF SearchesOf
  <2>4. \A x \in Flights : x # e => SearchesOf(x)' = SearchesOf(x)
    BY <2>1, <2>2, OperationFacts DEF SearchesOf
  <2>5. OpsOfLease(c)' = OpsOfLease(c) \ {s} /\ s \in OpsOfLease(c)
    BY <2>1 DEF OpsOfLease
  <2>6. \A d \in Callers : d # c => OpsOfLease(d)' = OpsOfLease(d)
    BY <2>1 DEF OpsOfLease
  <2>7. ActiveFlights' = ActiveFlights
    BY DEF ActiveFlights
  <2>8. \A x \in Flights : ops'[x] = Cardinality(SearchesOf(x)')
    <3>1. Cardinality(SearchesOf(e)') = Cardinality(SearchesOf(e)) - 1
      BY <2>3, CountRemove, CountedSetsFinite
    <3> QED
      BY <2>1, <2>2, <2>4, <3>1 DEF CountersExact
  <2>9. \A d \in Callers : operations'[d] = Cardinality(OpsOfLease(d)')
    <3>1. Cardinality(OpsOfLease(c)') = Cardinality(OpsOfLease(c)) - 1
      BY <2>5, CountRemove, CountedSetsFinite
    <3> QED
      BY <2>1, <2>6, <3>1 DEF CountersExact
  <2>10. \A x \in Flights : refs'[x] = Cardinality(LeasesOf(x)')
    <3>1. CASE LastOperation(c)
      <4>1. LeasesOf(e)' = LeasesOf(e) \ {c} /\ c \in LeasesOf(e)
        BY <2>1, <2>2, <3>1 DEF LeasesOf
      <4>2. \A x \in Flights : x # e => LeasesOf(x)' = LeasesOf(x)
        BY <2>1, <2>2, <3>1 DEF LeasesOf
      <4>3. Cardinality(LeasesOf(e)') = Cardinality(LeasesOf(e)) - 1
        BY <4>1, CountRemove, CountedSetsFinite
      <4> QED
        BY <2>1, <2>2, <3>1, <4>2, <4>3 DEF CountersExact
    <3>2. CASE ~LastOperation(c)
      <4>1. \A x \in Flights : LeasesOf(x)' = LeasesOf(x)
        BY <2>1, <3>2 DEF LeasesOf
      <4> QED
        BY <2>1, <3>2, <4>1 DEF CountersExact
    <3> QED
      BY <3>1, <3>2
  <2> QED
    BY <2>7, <2>8, <2>9, <2>10 DEF CountersExact
<1> QED
  BY <1>1, <1>2, <1>3, <1>4, <1>5, <1>6, <1>7, <1>8

\* Shutdown retires every entry.
LEMMA ShutdownStep ==
    ASSUME InductiveInvariant, Shutdown
    PROVE  InductiveInvariant'
<1> USE ScopeAssumption, NoneAssumption, BoundAssumption DEF InductiveInvariant, TypeOK,
         Shutdown, ScheduleClose, ToClose, CheckDrained, flightVars, leaseVars,
         searchVars
<1>1. TypeOK'
  BY SMT
<1>2. LeaseInv'
  BY DEF LeaseInv
<1>3. FlightInv'
  BY DEF FlightInv
<1>4. EntryInv'
  BY DEF EntryInv, FlightInv, MapInv, NoOrphanedEntries, IsCurrent
<1>5. MapInv'
  BY DEF MapInv, NoOrphanedEntries, IsCurrent, FlightInv, EntryInv
<1>6. SequenceInv'
  BY DEF SequenceInv, SingleFlight, ActiveFlights
<1>7. DrainInv'
  BY DEF DrainInv
<1>8. CountersExact'
  <2>1. \A x \in Flights : LeasesOf(x)' = LeasesOf(x) /\ SearchesOf(x)' = SearchesOf(x)
    BY DEF LeasesOf, SearchesOf, LeaseInv
  <2>2. \A d \in Callers : OpsOfLease(d)' = OpsOfLease(d)
    BY DEF OpsOfLease
  <2>3. ActiveFlights' = ActiveFlights
    BY DEF ActiveFlights
  <2> QED
    BY <2>1, <2>2, <2>3, CountersUnchanged
<1> QED
  BY <1>1, <1>2, <1>3, <1>4, <1>5, <1>6, <1>7, <1>8

-----------------------------------------------------------------------------
(* The theorems.                                                           *)

\* The initial state satisfies the inductive invariant.
LEMMA InitInvariant == Init => InductiveInvariant
<1> SUFFICES ASSUME Init PROVE InductiveInvariant
  OBVIOUS
<1> USE NoneAssumption, ScopeAssumption DEF Init
<1>1. TypeOK
  BY DEF TypeOK
<1>2. LeaseInv /\ FlightInv /\ EntryInv /\ DrainInv
  BY DEF LeaseInv, FlightInv, EntryInv, DrainInv
<1>3. MapInv /\ SequenceInv
  BY DEF MapInv, NoOrphanedEntries, SequenceInv, SingleFlight, ActiveFlights, IsCurrent
<1>4. CountersExact
  <2>1. ActiveFlights = {} /\ (\A e \in Flights : LeasesOf(e) = {} /\ SearchesOf(e) = {})
                           /\ (\A c \in Callers : OpsOfLease(c) = {})
    BY DEF ActiveFlights, LeasesOf, SearchesOf, OpsOfLease
  <2> QED
    BY <2>1, FS_EmptySet DEF CountersExact
<1> QED
  BY <1>1, <1>2, <1>3, <1>4 DEF InductiveInvariant

\* A step that changes nothing preserves the inductive invariant.
LEMMA StutterStep ==
    ASSUME InductiveInvariant, UNCHANGED vars
    PROVE  InductiveInvariant'
<1> USE DEF InductiveInvariant, vars, managerVars, flightVars, entryVars, leaseVars, searchVars
<1>1. TypeOK'
  BY DEF TypeOK
<1>2. LeaseInv' /\ FlightInv' /\ EntryInv' /\ DrainInv'
  BY DEF LeaseInv, FlightInv, EntryInv, DrainInv
<1>3. MapInv' /\ SequenceInv'
  BY DEF MapInv, NoOrphanedEntries, SequenceInv, SingleFlight, ActiveFlights, IsCurrent
<1>4. CountersExact'
  BY DEF CountersExact, ActiveFlights, LeasesOf, SearchesOf, OpsOfLease
<1> QED
  BY <1>1, <1>2, <1>3, <1>4

\* Every step of the cache preserves the inductive invariant.
LEMMA NextInvariant == InductiveInvariant /\ [Next]_vars => InductiveInvariant'
<1> SUFFICES ASSUME InductiveInvariant, [Next]_vars PROVE InductiveInvariant'
  OBVIOUS
<1>1. CASE \E c \in Callers, k \in Keys :
              \/ AcquireJoin(c, k)
              \/ AcquireHit(c, k)
              \/ AcquireWithoutGuard(c, k)
              \/ \E f \in Flights : AcquireLoad(c, k, f)
  BY <1>1, AcquireJoinStep, AcquireHitStep, AcquireWithoutGuardStep, AcquireLoadStep
<1>2. CASE \E f \in Flights : FlightStep(f)
  BY <1>2, RetainStep, RecheckStep, AbandonStep, LoadStep, AdmitStep, DiscardStep,
     ReleaseGuardStep, PublishStep, DisposeStep, DropStep, FinishFlightStep
  DEF FlightStep
<1>3. CASE \E e \in Flights : CloserStep(e)
  BY <1>3, CloseEntryStep, ForgetEntryStep DEF CloserStep
<1>4. CASE \E c \in Callers : WaitDone(c) \/ GiveUp(c) \/ LeaseClose(c)
  BY <1>4, WaitDoneStep, GiveUpStep, CloseBusyLeaseStep, CloseLeaseStep DEF LeaseClose
<1>5. CASE \E s \in Searchers :
              \/ \E c \in Callers : SearchBegin(s, c)
              \/ SearchLock(s) \/ SearchReturn(s) \/ FinishOperation(s)
  BY <1>5, SearchBeginStep, SearchLockStep, SearchReturnStep, FinishOperationStep
<1>6. CASE Shutdown
  BY <1>6, ShutdownStep
<1>7. CASE Terminated \/ UNCHANGED vars
  BY <1>7, StutterStep DEF Terminated
<1> QED
  BY <1>1, <1>2, <1>3, <1>4, <1>5, <1>6, <1>7 DEF Next

\* The inductive invariant holds in every reachable state.
THEOREM InvariantHolds == Spec => []InductiveInvariant
  BY InitInvariant, NextInvariant, PTL DEF Spec

\* Every variable keeps its type: the hand-kept counters of cache.go never become
\* negative.
THEOREM TypeCorrect == Spec => []TypeOK
<1>1. InductiveInvariant => TypeOK
  BY DEF InductiveInvariant
<1> QED
  BY <1>1, InvariantHolds, PTL

\* entry.refs, entry.ops, l.operations and m.loads are exact counts.
THEOREM CountersAreExact == Spec => []CountersExact
<1>1. InductiveInvariant => CountersExact
  BY DEF InductiveInvariant
<1> QED
  BY <1>1, InvariantHolds, PTL

\* The counters of cache.go are exact and never negative, in any order of closes,
\* searches and loads.
THEOREM CountersAreSound == Spec => []CountersSound
<1>1. TypeOK /\ CountersExact => CountersSound
  BY DEF CountersSound
<1> QED
  BY <1>1, TypeCorrect, CountersAreExact, PTL

\* No search is admitted to, or runs on, a closed or closing native root.
THEOREM NoUseAfterClose == Spec => []SearchesUseOpenRoots
<1>1. InductiveInvariant => SearchesUseOpenRoots
  BY OperationFacts, LeasedFacts DEF SearchesUseOpenRoots
<1> QED
  BY <1>1, InvariantHolds, PTL

\* No native root is closed twice.
THEOREM NoDoubleClose == Spec => []ClosedOnce
<1>1. InductiveInvariant => ClosedOnce
  BY DEF InductiveInvariant, TypeOK, FlightInv, EntryInv, ClosedOnce
<1> QED
  BY <1>1, InvariantHolds, PTL

\* A lease is never held on an entry whose load still retains the generation lock,
\* and an open root is tracked for Shutdown or protected by its retained guard.
THEOREM GuardsAreSound == Spec => []GuardsProtectRoots
<1>1. InductiveInvariant => GuardReleasedBeforeLease
  BY DEF InductiveInvariant, LeaseInv, FlightInv, GuardReleasedBeforeLease
<1>2. InductiveInvariant => RejectedRootsClosedUnderGuard
  BY DEF InductiveInvariant, TypeOK, FlightInv, EntryInv, RejectedRootsClosedUnderGuard
<1>3. InductiveInvariant => GuardsProtectRoots
  BY <1>1, <1>2 DEF GuardsProtectRoots
<1> QED
  BY <1>3, InvariantHolds, PTL

\* From its load to its close a native root is never used closed, closed twice, or
\* left open without the generation lock or an entry that tracks it.
THEOREM RootsStaySafe == Spec => []RootsAreSafe
<1>1. SearchesUseOpenRoots /\ ClosedOnce /\ GuardsProtectRoots => RootsAreSafe
  BY DEF RootsAreSafe
<1> QED
  BY <1>1, NoUseAfterClose, NoDoubleClose, GuardsAreSound, PTL

\* m.entries never offers a root of a generation its scope has left, two loads for
\* one root switch never run at once, and no entry is lost from m.entries.
THEOREM CacheIsCoherent == Spec => []CacheCoherent
<1>1. InductiveInvariant => EntriesAreCurrent
  BY DEF InductiveInvariant, TypeOK, MapInv, EntryInv, EntriesAreCurrent
<1>2. InductiveInvariant => SingleFlight /\ NoOrphanedEntries
  BY DEF InductiveInvariant, SequenceInv, MapInv
<1>3. InductiveInvariant => CacheCoherent
  BY <1>1, <1>2 DEF CacheCoherent
<1> QED
  BY <1>3, InvariantHolds, PTL

\* When Shutdown reports the manager drained, nothing is left open, held or running.
THEOREM DrainLeavesNothing == Spec => []DrainedIsClean
<1>1. InductiveInvariant => DrainedIsClean
  <2> SUFFICES ASSUME InductiveInvariant, drainedDone PROVE DrainedIsClean
    BY DEF DrainedIsClean
  <2>1. loads = 0 /\ allEntries = {}
    BY DEF InductiveInvariant, DrainInv
  <2>2. ActiveFlights = {}
    <3>1. Cardinality(ActiveFlights) = 0
      BY <2>1 DEF InductiveInvariant, CountersExact
    <3> QED
      BY <3>1, CountedSetsFinite, FS_EmptySet
  <2>3. \A f \in Flights : fpc[f] \in {"none", "done"}
    BY <2>2 DEF ActiveFlights
  <2>4. guard = {}
    BY <2>3 DEF InductiveInvariant, TypeOK, FlightInv
  <2>5. \A f \in Flights : root[f] \in {"none", "closed"}
    BY <2>1, <2>3 DEF InductiveInvariant, FlightInv, EntryInv
  <2>6. \A c \in Callers : cpc[c] # "leased"
    BY <2>1, LeasedFacts
  <2> QED
    BY <2>1, <2>3, <2>4, <2>5, <2>6 DEF DrainedIsClean
<1> QED
  BY <1>1, InvariantHolds, PTL

-----------------------------------------------------------------------------
(* The cache implements the lifecycle of native roots.                     *)

\* What a step leaves of the leases and searches.
SameLeases == \A c \in Callers : /\ cpc'[c] = "leased" <=> cpc[c] = "leased"
                                 /\ cpc[c] = "leased" => cfl'[c] = cfl[c]
SameSearches == \A s \in Searchers : /\ spc'[s] = "idle" <=> spc[s] = "idle"
                                     /\ spc[s] # "idle" => slease'[s] = slease[s]

LEMMA HeldStays ==
    ASSUME SameLeases
    PROVE  HeldPairs' = HeldPairs
  BY DEF SameLeases, HeldPairs

LEMMA UsedStays ==
    ASSUME InductiveInvariant, SameLeases, SameSearches
    PROVE  UsedPairs' = UsedPairs
<1>1. \A s \in Searchers : spc[s] # "idle" => cfl'[slease'[s]] = cfl[slease[s]]
  BY OperationFacts DEF SameLeases, SameSearches
<1> QED
  BY <1>1 DEF SameSearches, UsedPairs

\* A step that touches no root, lease or search at most dooms roots.
LEMMA DoomingStep ==
    ASSUME InductiveInvariant, SameLeases, SameSearches, UNCHANGED root,
           Doomed \subseteq Doomed', retired' \subseteq Flights
    PROVE  Lifecycle!Next
<1> DEFINE S == Doomed' \ Doomed
<1>1. S \in SUBSET Flights
  BY DEF Doomed
<1>2. Doomed' = Doomed \cup S
  OBVIOUS
<1> HIDE DEF S
<1>3. Lifecycle!Doom(S)
  BY <1>2, HeldStays, UsedStays DEF Lifecycle!Doom
<1> QED
  BY <1>1, <1>3 DEF Lifecycle!Next

\* Nobody holds or uses a root that is no published entry, or one that is closing.
LEMMA UnusedRoot ==
    ASSUME InductiveInvariant, NEW e \in Flights,
           e \in closing \/ fpc[e] \notin {"finish", "done"}
    PROVE  Lifecycle!HoldersOf(e) = {} /\ Lifecycle!UsersOf(e) = {}
<1>1. ASSUME NEW c \in Callers, cpc[c] = "leased" PROVE cfl[c] # e
  BY <1>1, LeasedFacts
<1>2. \A c \in Callers : <<c, e>> \notin HeldPairs
  BY <1>1 DEF HeldPairs
<1>3. \A s \in Searchers : <<s, e>> \notin UsedPairs
  BY <1>1, OperationFacts DEF UsedPairs
<1> QED
  BY <1>2, <1>3 DEF Lifecycle!HoldersOf, Lifecycle!UsersOf

LEMMA ClosingStep ==
    ASSUME InductiveInvariant, SameLeases, SameSearches, NEW e \in Flights,
           e \in closing \/ fpc[e] \notin {"finish", "done"},
           e \in Doomed, root[e] = "open", root' = [root EXCEPT ![e] = Closed(@)],
           Doomed' = Doomed
    PROVE  Lifecycle!Next
<1>1. root' = [root EXCEPT ![e] = "closed"]
  BY DEF Closed, InductiveInvariant, TypeOK
<1>2. Lifecycle!Close(e)
  BY <1>1, UnusedRoot, HeldStays, UsedStays DEF Lifecycle!Close
<1> QED
  BY <1>2 DEF Lifecycle!Next

\* A published entry that is not closing has an open root.
LEMMA PublishedIsOpen ==
    ASSUME InductiveInvariant, NEW e \in admitted, e \notin pending, e \notin retired
    PROVE  root[e] = "open" /\ e \notin Doomed /\ e \notin closing /\ e \in Flights
<1>1. e \in Flights /\ e \notin closing
  BY DEF InductiveInvariant, TypeOK, EntryInv
<1>2. fpc[e] \in {"finish", "done"} /\ e \notin failed
  BY <1>1 DEF InductiveInvariant, FlightInv, EntryInv
<1>3. root[e] = "open"
  BY <1>1, <1>2 DEF InductiveInvariant, TypeOK, EntryInv
<1> QED
  BY <1>1, <1>3 DEF Doomed

\* A new lease.
LEMMA HoldingStep ==
    ASSUME InductiveInvariant, NEW c \in Callers, NEW e \in Flights, cpc[c] # "leased",
           root[e] = "open", UNCHANGED root, NEW S \in SUBSET Flights, e \notin Doomed \cup S,
           Doomed' = Doomed \cup S,
           cpc' = [cpc EXCEPT ![c] = "leased"], cfl' = [cfl EXCEPT ![c] = e],
           UNCHANGED searchVars
    PROVE  Lifecycle!Next
<1>1. \A q : <<c, q>> \notin HeldPairs
  BY DEF HeldPairs
<1>2. /\ cpc'[c] = "leased" /\ cfl'[c] = e
      /\ \A d \in Callers : d # c => cpc'[d] = cpc[d] /\ cfl'[d] = cfl[d]
  BY DEF InductiveInvariant, TypeOK
<1>3. HeldPairs' = HeldPairs \cup {<<c, e>>}
  BY <1>2 DEF HeldPairs
<1>4. UsedPairs' = UsedPairs
  <2>1. \A s \in Searchers : spc[s] # "idle" => cfl'[slease[s]] = cfl[slease[s]]
    BY <1>2, OperationFacts
  <2> QED
    BY <2>1 DEF UsedPairs, searchVars
<1>5. Lifecycle!Hold(c, e, S)
  BY <1>1, <1>3, <1>4 DEF Lifecycle!Hold
<1> QED
  BY <1>5 DEF Lifecycle!Next

\* A root switch only dooms entries.
LEMMA ObservingDooms ==
    ASSUME InductiveInvariant, NEW k \in Keys, ObserveKey(k),
           UNCHANGED admitted,
           \A f \in Flights : fpc'[f] \in {"discard", "release", "finish", "done"}
                                <=> fpc[f] \in {"discard", "release", "finish", "done"}
    PROVE  retired' \in SUBSET Flights /\ Doomed' = Doomed \cup retired'
<1>1. retired \subseteq retired' /\ retired' \in SUBSET Flights
  BY DEF ObserveKey, OtherKeys, InductiveInvariant, TypeOK
<1> QED
  BY <1>1 DEF Doomed

LEMMA AcquireRefines ==
    ASSUME InductiveInvariant, NEW c \in Callers, NEW k \in Keys,
           \/ AcquireJoin(c, k) \/ AcquireWithoutGuard(c, k)
           \/ \E f \in Flights : AcquireLoad(c, k, f)
    PROVE  Lifecycle!Next
<1>1. ObserveKey(k) /\ UNCHANGED <<admitted, root, spc, slease>> /\ cpc[c] = "idle"
  BY DEF AcquireJoin, AcquireWithoutGuard, AcquireLoad, flightVars, searchVars
<1>2. SameLeases /\ SameSearches
  BY <1>1 DEF AcquireJoin, AcquireWithoutGuard, AcquireLoad, leaseVars, SameLeases, SameSearches,
     InductiveInvariant, TypeOK
<1>3. \A f \in Flights : fpc'[f] \in {"discard", "release", "finish", "done"}
                           <=> fpc[f] \in {"discard", "release", "finish", "done"}
  BY DEF AcquireJoin, AcquireWithoutGuard, AcquireLoad, flightVars, InductiveInvariant, TypeOK
<1> QED
  BY <1>1, <1>2, <1>3, ObservingDooms, DoomingStep

\* The entry that Acquire finds is published, open and stays unretired.
LEMMA HitFacts ==
    ASSUME InductiveInvariant, NEW c \in Callers, NEW k \in Keys, AcquireHit(c, k)
    PROVE  /\ entries[k] \in Flights /\ entries[k] \in admitted /\ root[entries[k]] = "open"
           /\ entries[k] \notin Doomed /\ entries[k] \notin retired' /\ entries[k] \notin pending
           /\ fkey[entries[k]] = k
<1>1. HitsEntry(k) /\ ObserveKey(k)
  BY DEF AcquireHit
<1>2. entries[k] \in admitted /\ entries[k] \notin retired /\ fkey[entries[k]] = k
  BY <1>1 DEF HitsEntry, InductiveInvariant, MapInv
<1>3. entries[k] \notin pending
  BY <1>1 DEF HitsEntry
<1>4. root[entries[k]] = "open" /\ entries[k] \notin Doomed /\ entries[k] \in Flights
  BY <1>2, <1>3, PublishedIsOpen
<1>5. \A j \in OtherKeys(k) : fkey[entries[j]] = j /\ j # k
  BY DEF OtherKeys, InductiveInvariant, MapInv
<1>6. entries[k] \notin retired'
  BY <1>1, <1>2, <1>5 DEF ObserveKey
<1> QED
  BY <1>2, <1>3, <1>4, <1>6

LEMMA HitRefines ==
    ASSUME InductiveInvariant, NEW c \in Callers, NEW k \in Keys, AcquireHit(c, k)
    PROVE  Lifecycle!Next
<1>1. PICK e \in Flights : e = entries[k]
  BY HitFacts
<1>2. /\ ObserveKey(k) /\ UNCHANGED <<admitted, fpc, root>> /\ UNCHANGED searchVars
      /\ cpc[c] = "idle"
      /\ cpc' = [cpc EXCEPT ![c] = "leased"] /\ cfl' = [cfl EXCEPT ![c] = e]
  BY <1>1 DEF AcquireHit, flightVars
<1>3. root[e] = "open" /\ e \notin Doomed /\ e \notin retired'
  BY <1>1, HitFacts
<1>4. retired' \in SUBSET Flights /\ Doomed' = Doomed \cup retired'
  BY <1>2, ObservingDooms
<1> QED
  BY <1>2, <1>3, <1>4, HoldingStep

\* The places at which the root of a flight that is no entry is doomed.
Rejected == {"discard", "release", "finish", "done"}

\* A step of a flight moves it to another place.
LEMMA FlightMoves ==
    ASSUME InductiveInvariant, NEW f \in Flights, NEW place,
           fpc' = [fpc EXCEPT ![f] = place]
    PROVE  fpc'[f] = place /\ \A g \in Flights : g # f => fpc'[g] = fpc[g]
  BY DEF InductiveInvariant, TypeOK

\* A flight before its admission is no entry.
LEMMA NotYetAdmitted ==
    ASSUME InductiveInvariant, NEW f \in Flights,
           fpc[f] \in {"retain", "recheck", "abandon", "load", "admit", "discard"}
    PROVE  f \notin admitted /\ f \notin retired
  BY DEF InductiveInvariant, FlightInv, EntryInv

LEMMA EarlyFlightRefines ==
    ASSUME InductiveInvariant, NEW f \in Flights,
           Retain(f) \/ Recheck(f) \/ Abandon(f) \/ Load(f)
    PROVE  Lifecycle!Next
<1>1. /\ fpc[f] \in {"retain", "recheck", "abandon", "load"}
      /\ UNCHANGED <<admitted, retired, spc, slease, cfl>>
  BY DEF Retain, Recheck, Abandon, Load, entryVars, leaseVars, searchVars
<1>2. PICK place \in {"recheck", "abandon", "load", "admit", "discard", "release", "finish"} :
         fpc' = [fpc EXCEPT ![f] = place]
  BY DEF Retain, Recheck, Abandon, Load
<1>3. f \notin admitted /\ f \notin retired
  BY <1>1, NotYetAdmitted
<1> DEFINE S == IF place \in Rejected THEN {f} ELSE {}
<1>4. Doomed' = Doomed \cup S
  BY <1>1, <1>2, <1>3, FlightMoves DEF Doomed, Rejected
<1>a. S \in SUBSET {f} /\ Doomed \subseteq Doomed' /\ retired' \subseteq Flights
  BY <1>1, <1>4 DEF InductiveInvariant, TypeOK
<1> HIDE DEF S
<1>5. SameLeases /\ SameSearches
  BY <1>1 DEF Retain, Recheck, Abandon, Load, leaseVars, SameLeases, SameSearches,
     InductiveInvariant, TypeOK
<1>6. CASE UNCHANGED root
  BY <1>5, <1>6, <1>a, DoomingStep
<1>7. CASE root' # root
  <2>1. fpc[f] = "load" /\ root' = [root EXCEPT ![f] = "open"]
    BY <1>7 DEF Retain, Recheck, Abandon, Load, entryVars
  <2>2. root[f] = "none"
    BY <2>1 DEF InductiveInvariant, FlightInv
  <2>3. Lifecycle!Open(f, S)
    BY <1>4, <1>5, <2>1, <2>2, HeldStays, UsedStays DEF Lifecycle!Open
  <2> QED
    BY <1>a, <2>3 DEF Lifecycle!Next
<1> QED
  BY <1>6, <1>7

LEMMA AdmitRefines ==
    ASSUME InductiveInvariant, NEW f \in Flights, Admit(f)
    PROVE  Lifecycle!Next
<1>1. /\ fpc[f] = "admit" /\ UNCHANGED <<root, retired>> /\ UNCHANGED <<spc, slease, cpc, cfl>>
  BY DEF Admit, leaseVars, searchVars
<1>2. f \notin admitted /\ f \notin retired
  BY <1>1, NotYetAdmitted
<1>3. Doomed \subseteq Doomed'
  <2>1. CASE fpc' = [fpc EXCEPT ![f] = "release"] /\ admitted' = admitted \cup {f}
    BY <1>1, <1>2, <2>1, FlightMoves DEF Doomed
  <2>2. CASE fpc' = [fpc EXCEPT ![f] = "discard"] /\ admitted' = admitted
    BY <1>1, <1>2, <2>2, FlightMoves DEF Doomed
  <2> QED
    BY <2>1, <2>2 DEF Admit
<1>4. SameLeases /\ SameSearches /\ retired' \subseteq Flights
  BY <1>1 DEF SameLeases, SameSearches, InductiveInvariant, TypeOK
<1> QED
  BY <1>1, <1>3, <1>4, DoomingStep

LEMMA PublishRefines ==
    ASSUME InductiveInvariant, NEW f \in Flights, Publish(f)
    PROVE  Lifecycle!Next
<1>1. fpc[f] = "publish" /\ UNCHANGED <<root, admitted, spc, slease, cpc, cfl>>
  BY DEF Publish, leaseVars, searchVars
<1>2. f \in admitted
  BY <1>1 DEF InductiveInvariant, FlightInv
<1>3. retired \subseteq retired' /\ retired' \subseteq Flights /\ \E place : fpc' = [fpc EXCEPT ![f] = place]
  BY DEF Publish, InductiveInvariant, TypeOK
<1>4. Doomed \subseteq Doomed'
  BY <1>1, <1>2, <1>3, FlightMoves DEF Doomed
<1> QED
  BY <1>1, <1>3, <1>4, DoomingStep DEF SameLeases, SameSearches

\* The flight steps that only move on.
LEMMA LateFlightRefines ==
    ASSUME InductiveInvariant, NEW f \in Flights, ReleaseGuard(f) \/ Drop(f) \/ FinishFlight(f)
    PROVE  Lifecycle!Next
<1>1. UNCHANGED <<root, retired, admitted, spc, slease, cfl>>
  BY DEF ReleaseGuard, Drop, FinishFlight, entryVars, leaseVars, searchVars
<1>2. PICK place : /\ fpc' = [fpc EXCEPT ![f] = place]
                   /\ \/ fpc[f] \in Rejected /\ place \in Rejected
                      \/ f \in admitted
  BY DEF ReleaseGuard, Drop, FinishFlight, Rejected, InductiveInvariant, FlightInv
<1>3. Doomed \subseteq Doomed' /\ retired' \subseteq Flights
  BY <1>1, <1>2, FlightMoves DEF Doomed, Rejected, InductiveInvariant, TypeOK
<1>4. SameLeases /\ SameSearches
  BY <1>1 DEF ReleaseGuard, Drop, FinishFlight, leaseVars, SameLeases, SameSearches,
     InductiveInvariant, TypeOK
<1> QED
  BY <1>1, <1>3, <1>4, DoomingStep

\* The three places that close a native root.
LEMMA CloseRefines ==
    ASSUME InductiveInvariant, NEW f \in Flights, Discard(f) \/ Dispose(f) \/ CloseEntry(f)
    PROVE  Lifecycle!Next
<1>1. /\ UNCHANGED <<retired, admitted, spc, slease, cpc, cfl>>
      /\ root' = [root EXCEPT ![f] = Closed(@)]
  BY DEF Discard, Dispose, CloseEntry, flightVars, leaseVars, searchVars
<1>2. SameLeases /\ SameSearches
  BY <1>1 DEF SameLeases, SameSearches
<1>3. CASE Discard(f)
  <2>1. fpc[f] = "discard" /\ fpc' = [fpc EXCEPT ![f] = "release"]
    BY <1>3 DEF Discard
  <2>2. f \in Doomed /\ root[f] = "open" /\ fpc[f] \notin {"finish", "done"}
    BY <2>1, NotYetAdmitted DEF Doomed, InductiveInvariant, FlightInv
  <2>3. Doomed' = Doomed
    BY <1>1, <2>1, FlightMoves DEF Doomed
  <2> QED
    BY <1>1, <1>2, <2>2, <2>3, ClosingStep
<1>4. CASE Dispose(f)
  <2>1. fpc[f] = "dispose" /\ fpc' = [fpc EXCEPT ![f] = "drop"]
    BY <1>4 DEF Dispose
  <2>2. f \in admitted /\ f \in closing /\ f \in retired /\ root[f] = "open"
    BY <2>1 DEF InductiveInvariant, FlightInv, EntryInv
  <2>3. f \in Doomed /\ Doomed' = Doomed
    BY <1>1, <2>1, <2>2, FlightMoves DEF Doomed
  <2> QED
    BY <1>1, <1>2, <2>2, <2>3, ClosingStep
<1>5. CASE CloseEntry(f)
  <2>1. closer[f] = "close" /\ UNCHANGED fpc
    BY <1>5 DEF CloseEntry, flightVars
  <2>2. f \in admitted /\ fpc[f] \in {"finish", "done"} /\ f \notin failed
    BY <2>1 DEF InductiveInvariant, EntryInv
  <2>3. f \in closing /\ f \in retired /\ root[f] = "open"
    BY <2>1, <2>2 DEF InductiveInvariant, EntryInv
  <2>4. f \in Doomed /\ Doomed' = Doomed
    BY <1>1, <2>1, <2>3 DEF Doomed
  <2> QED
    BY <1>1, <1>2, <2>3, <2>4, ClosingStep
<1> QED
  BY <1>3, <1>4, <1>5

\* The flight's entry that a waiter leases.
LEMMA ObtainedFacts ==
    ASSUME InductiveInvariant, NEW c \in Callers, cpc[c] = "waiting", fpc[cfl[c]] = "done",
           Obtainable(cfl[c])
    PROVE  /\ cfl[c] \in Flights /\ root[cfl[c]] = "open" /\ cfl[c] \notin Doomed
           /\ cfl[c] \notin retired /\ cfl[c] \notin pending
           /\ scopeKey[ScopeOf[fkey[cfl[c]]]] = fkey[cfl[c]]
<1>1. PICK e \in Flights : e = cfl[c]
  BY DEF InductiveInvariant, LeaseInv
<1>2. e \in admitted /\ e \notin retired /\ entries[fkey[e]] = e /\ fpc[e] = "done"
  BY <1>1 DEF Obtainable
<1>3. e \notin pending /\ fkey[e] \in Keys /\ e # None
  BY <1>2, NoneAssumption DEF InductiveInvariant, FlightInv
<1>4. IsCurrent(fkey[e])
  BY <1>2, <1>3 DEF InductiveInvariant, MapInv
<1> QED
  BY <1>1, <1>2, <1>3, <1>4, PublishedIsOpen DEF IsCurrent

LEMMA WaitRefines ==
    ASSUME InductiveInvariant, NEW c \in Callers, WaitDone(c) \/ GiveUp(c)
    PROVE  Lifecycle!Next
<1>1. /\ UNCHANGED <<root, retired, admitted, fpc>> /\ UNCHANGED searchVars /\ cpc[c] = "waiting"
  BY DEF WaitDone, GiveUp, flightVars, entryVars
<1>2. Doomed' = Doomed /\ retired' \subseteq Flights
  BY <1>1 DEF Doomed, InductiveInvariant, TypeOK
<1>3. CASE cpc' = [cpc EXCEPT ![c] = "idle"] /\ cfl' = [cfl EXCEPT ![c] = None]
  <2>1. SameLeases /\ SameSearches
    BY <1>1, <1>3 DEF SameLeases, SameSearches, searchVars, InductiveInvariant, TypeOK
  <2> QED
    BY <1>1, <1>2, <2>1, DoomingStep
<1>4. CASE WaitDone(c) /\ Obtainable(cfl[c]) /\ cpc' = [cpc EXCEPT ![c] = "leased"] /\ UNCHANGED cfl
  <2>1. fpc[cfl[c]] = "done"
    BY <1>4 DEF WaitDone
  <2>2. PICK e \in Flights : e = cfl[c]
    BY <1>1, <1>4, <2>1, ObtainedFacts
  <2>3. root[e] = "open" /\ e \notin Doomed
    BY <1>1, <1>4, <2>1, <2>2, ObtainedFacts
  <2>4. cfl' = [cfl EXCEPT ![c] = e]
    BY <1>4, <2>2 DEF InductiveInvariant, TypeOK
  <2>5. cpc[c] # "leased" /\ {} \in SUBSET Flights /\ Doomed' = Doomed \cup {} /\ e \notin Doomed \cup {}
    BY <1>1, <1>2, <2>3
  <2> QED
    BY <1>1, <1>4, <2>3, <2>4, <2>5, HoldingStep
<1> QED
  BY <1>3, <1>4 DEF WaitDone, GiveUp

LEMMA CloseLeaseRefines ==
    ASSUME InductiveInvariant, NEW c \in Callers, CloseLease(c)
    PROVE  Lifecycle!Next
<1>1. /\ cpc[c] = "leased" /\ operations[c] = 0
      /\ UNCHANGED <<root, retired, admitted, fpc, spc, slease>>
      /\ cpc' = [cpc EXCEPT ![c] = "idle"] /\ cfl' = [cfl EXCEPT ![c] = None]
  BY DEF CloseLease, flightVars, searchVars
<1>2. PICK e \in Flights : e = cfl[c]
  BY <1>1, LeasedFacts
<1>3. /\ cpc'[c] = "idle"
      /\ \A d \in Callers : d # c => cpc'[d] = cpc[d] /\ cfl'[d] = cfl[d]
  BY <1>1 DEF InductiveInvariant, TypeOK
<1>4. <<c, e>> \in HeldPairs /\ HeldPairs' = HeldPairs \ {<<c, e>>}
  BY <1>1, <1>2, <1>3 DEF HeldPairs
<1>5. UsedPairs' = UsedPairs
  <2>1. \A s \in Searchers : spc[s] # "idle" => slease[s] \in Callers /\ slease[s] # c
    BY <1>1, LeasedFacts, OperationFacts
  <2>2. \A s \in Searchers : spc[s] # "idle" => cfl'[slease[s]] = cfl[slease[s]]
    BY <1>3, <2>1
  <2> QED
    BY <1>1, <2>2 DEF UsedPairs
<1>6. Doomed' = Doomed
  BY <1>1 DEF Doomed
<1>7. Lifecycle!Unhold(c, e)
  BY <1>1, <1>4, <1>5, <1>6 DEF Lifecycle!Unhold
<1> QED
  BY <1>7 DEF Lifecycle!Next

\* Nothing changes but the place of a search or the mark of a closed lease.
LEMMA QuietRefines ==
    ASSUME InductiveInvariant,
           \/ \E s \in Searchers : SearchLock(s) \/ SearchReturn(s)
           \/ \E c \in Callers : CloseBusyLease(c)
           \/ \E e \in Flights : ForgetEntry(e)
           \/ UNCHANGED vars
    PROVE  Lifecycle!Next
<1>1. UNCHANGED <<root, retired, admitted, fpc, cpc, cfl, slease>>
  BY DEF SearchLock, SearchReturn, CloseBusyLease, ForgetEntry, vars, flightVars, entryVars,
     leaseVars, searchVars
<1>2. SameLeases
  BY <1>1 DEF SameLeases
<1>3. SameSearches
  <2>1. ASSUME NEW s \in Searchers, SearchLock(s) \/ SearchReturn(s)
        PROVE  SameSearches
    BY <1>1, <2>1 DEF SearchLock, SearchReturn, SameSearches, InductiveInvariant, TypeOK
  <2>2. CASE UNCHANGED spc
    BY <1>1, <2>2 DEF SameSearches
  <2> QED
    BY <2>1, <2>2 DEF CloseBusyLease, ForgetEntry, vars, searchVars
<1>4. Doomed' = Doomed /\ retired' \subseteq Flights
  BY <1>1 DEF Doomed, InductiveInvariant, TypeOK
<1> QED
  BY <1>1, <1>2, <1>3, <1>4, DoomingStep

LEMMA SearchBeginRefines ==
    ASSUME InductiveInvariant, NEW s \in Searchers, NEW c \in Callers, SearchBegin(s, c)
    PROVE  Lifecycle!Next
<1>1. /\ cpc[c] = "leased" /\ spc[s] = "idle" /\ cfl[c] \notin retired
      /\ UNCHANGED <<root, retired, admitted, fpc, cpc, cfl>>
      /\ spc' = [spc EXCEPT ![s] = "queued"] /\ slease' = [slease EXCEPT ![s] = c]
  BY DEF SearchBegin, flightVars
<1>2. PICK e \in Flights : e = cfl[c]
  BY <1>1, LeasedFacts
<1>3. root[e] = "open" /\ e \in admitted /\ e \notin Doomed
  BY <1>1, <1>2, LeasedFacts DEF Doomed
<1>4. <<c, e>> \in HeldPairs /\ Lifecycle!HoldersOf(e) # {}
  BY <1>1, <1>2 DEF HeldPairs, Lifecycle!HoldersOf
<1>5. /\ spc'[s] = "queued" /\ slease'[s] = c
      /\ \A t \in Searchers : t # s => spc'[t] = spc[t] /\ slease'[t] = slease[t]
  BY <1>1 DEF InductiveInvariant, TypeOK
<1>6. \A q : <<s, q>> \notin UsedPairs
  BY <1>1 DEF UsedPairs
<1>7. UsedPairs' = UsedPairs \cup {<<s, e>>}
  BY <1>1, <1>2, <1>5 DEF UsedPairs
<1>8. HeldPairs' = HeldPairs /\ Doomed' = Doomed
  BY <1>1 DEF HeldPairs, Doomed
<1>9. Lifecycle!Use(s, e)
  BY <1>1, <1>3, <1>4, <1>6, <1>7, <1>8 DEF Lifecycle!Use
<1> QED
  BY <1>9 DEF Lifecycle!Next

\* The last search under a closed lease gives up the lease as well.
LEMMA FinishOperationRefines ==
    ASSUME InductiveInvariant, NEW s \in Searchers, FinishOperation(s)
    PROVE  Lifecycle!Next
<1>1. spc[s] = "finishing"
  BY DEF FinishOperation
<1>2. PICK c \in Callers : c = slease[s]
  BY <1>1, OperationFacts
<1>3. cpc[c] = "leased"
  BY <1>1, <1>2, OperationFacts
<1>4. PICK e \in Flights : e = cfl[c]
  BY <1>3, LeasedFacts
<1> DEFINE H == IF LastOperation(c) THEN {c} ELSE {}
<1>5. /\ UNCHANGED <<root, retired, admitted, fpc>>
      /\ spc' = [spc EXCEPT ![s] = "idle"] /\ slease' = [slease EXCEPT ![s] = None]
      /\ cpc' = [cpc EXCEPT ![c] = IF LastOperation(c) THEN "idle" ELSE @]
      /\ cfl' = [cfl EXCEPT ![c] = IF LastOperation(c) THEN None ELSE @]
  BY <1>2 DEF FinishOperation, flightVars
<1>6. /\ cpc'[c] = IF LastOperation(c) THEN "idle" ELSE "leased"
      /\ ~LastOperation(c) => cfl'[c] = e
      /\ \A d \in Callers : d # c => cpc'[d] = cpc[d] /\ cfl'[d] = cfl[d]
  BY <1>3, <1>4, <1>5 DEF InductiveInvariant, TypeOK
<1>7. /\ spc'[s] = "idle"
      /\ \A t \in Searchers : t # s => spc'[t] = spc[t] /\ slease'[t] = slease[t]
  BY <1>5 DEF InductiveInvariant, TypeOK
<1>8. LastOperation(c) => \A t \in Searchers : t # s /\ spc[t] # "idle" => slease[t] # c
  BY <1>1, <1>2, OperationFacts DEF LastOperation
<1>9. HeldPairs' = HeldPairs \ (H \X {e})
  <2>1. CASE LastOperation(c)
    <3>1. HeldPairs' = HeldPairs \ {<<c, e>>}
      BY <1>3, <1>4, <1>6, <2>1 DEF HeldPairs
    <3>2. H \X {e} = {<<c, e>>}
      BY <2>1
    <3> QED
      BY <3>1, <3>2
  <2>2. CASE ~LastOperation(c)
    <3>1. HeldPairs' = HeldPairs
      BY <1>3, <1>4, <1>6, <2>2 DEF HeldPairs
    <3>2. H \X {e} = {}
      BY <2>2
    <3> QED
      BY <3>1, <3>2
  <2> QED
    BY <2>1, <2>2
<1>10. <<s, e>> \in UsedPairs /\ UsedPairs' = UsedPairs \ {<<s, e>>}
  <2>1. \A t \in Searchers : t # s /\ spc[t] # "idle" => cfl'[slease[t]] = cfl[slease[t]]
    <3> TAKE t \in Searchers
    <3> HAVE t # s /\ spc[t] # "idle"
    <3>1. slease[t] \in Callers
      BY OperationFacts
    <3> QED
      BY <1>4, <1>6, <1>8, <3>1
  <2> QED
    BY <1>1, <1>2, <1>4, <1>7, <2>1 DEF UsedPairs
<1>11. Doomed' = Doomed
  BY <1>5 DEF Doomed
<1>12. H \in SUBSET Callers
  OBVIOUS
<1> HIDE DEF H
<1>13. Lifecycle!Unuse(s, e, H)
  BY <1>5, <1>9, <1>10, <1>11 DEF Lifecycle!Unuse
<1> QED
  BY <1>12, <1>13 DEF Lifecycle!Next

LEMMA ShutdownRefines ==
    ASSUME InductiveInvariant, Shutdown
    PROVE  Lifecycle!Next
<1>1. /\ UNCHANGED <<root, admitted, fpc, cpc, cfl, spc, slease>>
      /\ retired \subseteq retired'
  BY DEF Shutdown, flightVars, leaseVars, searchVars
<1>2. SameLeases /\ SameSearches /\ Doomed \subseteq Doomed'
  BY <1>1 DEF SameLeases, SameSearches, Doomed
<1>3. retired' \subseteq Flights
  BY DEF Shutdown, InductiveInvariant, TypeOK
<1> QED
  BY <1>1, <1>2, <1>3, DoomingStep

\* Every step of the cache is a step of the lifecycle; many doom nothing.
LEMMA NextRefines ==
    ASSUME InductiveInvariant, [Next]_vars
    PROVE  Lifecycle!Next
<1>1. CASE \E c \in Callers, k \in Keys :
              \/ AcquireJoin(c, k)
              \/ AcquireHit(c, k)
              \/ AcquireWithoutGuard(c, k)
              \/ \E f \in Flights : AcquireLoad(c, k, f)
  BY <1>1, AcquireRefines, HitRefines
<1>2. CASE \E f \in Flights : FlightStep(f)
  BY <1>2, EarlyFlightRefines, AdmitRefines, PublishRefines, LateFlightRefines, CloseRefines
  DEF FlightStep
<1>3. CASE \E e \in Flights : CloserStep(e)
  BY <1>3, CloseRefines, QuietRefines DEF CloserStep
<1>4. CASE \E c \in Callers : WaitDone(c) \/ GiveUp(c) \/ LeaseClose(c)
  BY <1>4, WaitRefines, CloseLeaseRefines, QuietRefines DEF LeaseClose
<1>5. CASE \E s \in Searchers :
              \/ \E c \in Callers : SearchBegin(s, c)
              \/ SearchLock(s) \/ SearchReturn(s) \/ FinishOperation(s)
  BY <1>5, SearchBeginRefines, QuietRefines, FinishOperationRefines
<1>6. CASE Shutdown
  BY <1>6, ShutdownRefines
<1>7. CASE Terminated \/ UNCHANGED vars
  BY <1>7, QuietRefines DEF Terminated
<1> QED
  BY <1>1, <1>2, <1>3, <1>4, <1>5, <1>6, <1>7 DEF Next

\* The cache implements the lifecycle of native roots: flights, maps, counters and
\* detached goroutines together open a root once, lease and search it only while
\* it is open and not withdrawn, and close it once, when nobody has it.
THEOREM CacheImplementsLifecycle == Spec => ImplementsLifecycle
<1>1. Init => Lifecycle!Init
  BY DEF Init, Lifecycle!Init, Doomed, HeldPairs, UsedPairs
<1>2. InductiveInvariant /\ [Next]_vars => [Lifecycle!Next]_Lifecycle!vars
  BY NextRefines
<1> QED
  BY <1>1, <1>2, InvariantHolds, PTL DEF Spec, ImplementsLifecycle, Lifecycle!Spec

-----------------------------------------------------------------------------
(* What a new lease is on.                                                 *)

\* Only a hit and the end of a wait create a lease.
LEMMA OnlyTwoGrants ==
    ASSUME InductiveInvariant, [Next]_vars, NEW c \in Callers,
           cpc[c] # "leased", cpc'[c] = "leased"
    PROVE  (\E k \in Keys : AcquireHit(c, k)) \/ (WaitDone(c) /\ Obtainable(cfl[c]))
<1> USE DEF InductiveInvariant, TypeOK
<1>1. ASSUME NEW d \in Callers, NEW k \in Keys,
             \/ AcquireJoin(d, k) \/ AcquireWithoutGuard(d, k)
             \/ \E f \in Flights : AcquireLoad(d, k, f)
      PROVE  FALSE
  BY <1>1 DEF AcquireJoin, AcquireWithoutGuard, AcquireLoad, leaseVars
<1>2. ASSUME NEW d \in Callers, NEW k \in Keys, AcquireHit(d, k)
      PROVE  d = c
  BY <1>2 DEF AcquireHit
<1>3. ASSUME NEW f \in Flights, FlightStep(f) \/ CloserStep(f)
      PROVE  FALSE
  BY <1>3 DEF FlightStep, CloserStep, Retain, Recheck, Abandon, Load, Admit, Discard,
     ReleaseGuard, Publish, Dispose, Drop, FinishFlight, CloseEntry, ForgetEntry, leaseVars
<1>4. ASSUME NEW d \in Callers, WaitDone(d) \/ GiveUp(d) \/ LeaseClose(d)
      PROVE  WaitDone(c) /\ Obtainable(cfl[c])
  BY <1>4 DEF WaitDone, GiveUp, LeaseClose, CloseBusyLease, CloseLease
<1>5. ASSUME NEW s \in Searchers,
             \/ \E d \in Callers : SearchBegin(s, d)
             \/ SearchLock(s) \/ SearchReturn(s) \/ FinishOperation(s)
      PROVE  FALSE
  BY <1>5 DEF SearchBegin, SearchLock, SearchReturn, FinishOperation, leaseVars
<1>6. ~Shutdown /\ ~Terminated /\ ~UNCHANGED vars
  BY DEF Shutdown, Terminated, vars, leaseVars
<1> QED
  BY <1>1, <1>2, <1>3, <1>4, <1>5, <1>6 DEF Next

\* Acquire and acquireFlightEntry lease only published roots of the generation that
\* the scope follows, however often it switched during the load.
THEOREM LeasesAreGrantedOnCurrentRoots == Spec => LeasesGrantedOnCurrentRoot
<1>1. ASSUME InductiveInvariant, [Next]_vars, NEW c \in Callers,
             cpc[c] # "leased", cpc'[c] = "leased"
      PROVE  /\ root[cfl'[c]] = "open"
             /\ cfl'[c] \notin retired' \cup pending'
             /\ scopeKey'[ScopeOf[fkey[cfl'[c]]]] = fkey[cfl'[c]]
  <2>1. ASSUME NEW k \in Keys, AcquireHit(c, k)
        PROVE  /\ root[cfl'[c]] = "open"
               /\ cfl'[c] \notin retired' \cup pending'
               /\ scopeKey'[ScopeOf[fkey[cfl'[c]]]] = fkey[cfl'[c]]
    <3>1. cfl'[c] = entries[k] /\ pending' = pending /\ ObserveKey(k)
      BY <1>1, <2>1 DEF AcquireHit, InductiveInvariant, TypeOK
    <3>2. scopeKey'[ScopeOf[k]] = k
      BY <1>1, <3>1, ObserveKeyScope, ScopeAssumption DEF InductiveInvariant, TypeOK
    <3> QED
      BY <1>1, <2>1, <3>1, <3>2, HitFacts
  <2>2. CASE WaitDone(c) /\ Obtainable(cfl[c])
    <3>1. /\ cpc[c] = "waiting" /\ fpc[cfl[c]] = "done"
          /\ UNCHANGED <<pending, retired, scopeKey, cfl>>
      BY <2>2 DEF WaitDone, managerVars
    <3> QED
      BY <1>1, <2>2, <3>1, ObtainedFacts
  <2> QED
    BY <1>1, <2>1, <2>2, OnlyTwoGrants
<1>2. InductiveInvariant /\ [Next]_vars =>
        \A c \in Callers : (cpc[c] # "leased" /\ cpc'[c] = "leased") =>
            LET e == cfl'[c] IN
            /\ root[e] = "open"
            /\ e \notin retired' \cup pending'
            /\ scopeKey'[ScopeOf[fkey[e]]] = fkey[e]
  BY <1>1
<1> QED
  BY <1>2, InvariantHolds, PTL DEF Spec, LeasesGrantedOnCurrentRoot

=============================================================================
