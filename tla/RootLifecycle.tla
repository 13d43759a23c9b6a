---------------------------- MODULE RootLifecycle ----------------------------
(***************************************************************************)
(* What the semantic runtime promises about native roots, without caches,  *)
(* flights or counters: a root is opened at most once; leases and searches  *)
(* start only on an open root that is not doomed; a root is closed at most  *)
(* once, only after it is doomed, and only when nobody holds or uses it.    *)
(***************************************************************************)
CONSTANTS Roots, Holders, Users

VARIABLES
    native,    \* the native resource: "none", "open" or "closed"
    doomed,    \* roots that may not be leased or searched any more
    holds,     \* <<holder, root>> pairs: outstanding leases
    uses       \* <<user, root>> pairs: running searches

vars == <<native, doomed, holds, uses>>

HoldersOf(r) == {h \in Holders : <<h, r>> \in holds}
UsersOf(r)   == {u \in Users : <<u, r>> \in uses}

Init ==
    /\ native = [r \in Roots |-> "none"]
    /\ doomed = {}
    /\ holds = {}
    /\ uses = {}

\* A load returns a root, usable or (with an error) only to be closed.
Open(r, S) ==
    /\ native[r] = "none"
    /\ native' = [native EXCEPT ![r] = "open"]
    /\ doomed' = doomed \cup S
    /\ UNCHANGED <<holds, uses>>

\* Any number of roots is withdrawn at once; opened or not.
Doom(S) ==
    /\ doomed' = doomed \cup S
    /\ UNCHANGED <<native, holds, uses>>

\* A lease starts; a root switch may withdraw other roots in the same step.
Hold(h, r, S) ==
    /\ native[r] = "open"
    /\ r \notin doomed \cup S
    /\ \A q \in Roots : <<h, q>> \notin holds
    /\ holds' = holds \cup {<<h, r>>}
    /\ doomed' = doomed \cup S
    /\ UNCHANGED <<native, uses>>

Unhold(h, r) ==
    /\ <<h, r>> \in holds
    /\ holds' = holds \ {<<h, r>>}
    /\ UNCHANGED <<native, doomed, uses>>

Use(u, r) ==
    /\ native[r] = "open"
    /\ r \notin doomed
    /\ HoldersOf(r) # {}
    /\ \A q \in Roots : <<u, q>> \notin uses
    /\ uses' = uses \cup {<<u, r>>}
    /\ UNCHANGED <<native, doomed, holds>>

\* A search ends, and with it possibly the lease it ran under.
Unuse(u, r, H) ==
    /\ <<u, r>> \in uses
    /\ uses' = uses \ {<<u, r>>}
    /\ holds' = holds \ (H \X {r})
    /\ UNCHANGED <<native, doomed>>

Close(r) ==
    /\ native[r] = "open"
    /\ r \in doomed
    /\ HoldersOf(r) = {} /\ UsersOf(r) = {}
    /\ native' = [native EXCEPT ![r] = "closed"]
    /\ UNCHANGED <<doomed, holds, uses>>

Next ==
    \/ \E r \in Roots : Close(r) \/ \E S \in SUBSET {r} : Open(r, S)
    \/ \E S \in SUBSET Roots : Doom(S)
    \/ \E h \in Holders, r \in Roots :
          Unhold(h, r) \/ \E S \in SUBSET Roots : Hold(h, r, S)
    \/ \E u \in Users, r \in Roots :
          Use(u, r) \/ \E H \in SUBSET Holders : Unuse(u, r, H)

Spec == Init /\ [][Next]_vars
=============================================================================
