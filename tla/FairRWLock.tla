----------------------------- MODULE FairRWLock ------------------------------
(***************************************************************************)
(* What runlock promises to its users: a reader/writer lock in which a      *)
(* writer first publishes its intent; published intents are served in       *)
(* order, keep new readers out, and vanish with a cancelled or crashed      *)
(* owner.                                                                   *)
(***************************************************************************)
EXTENDS Naturals

CONSTANT Clients

VARIABLES
    intent,    \* position of a client's published intent, 0 without one
    readers,   \* clients that hold the lock shared
    writers    \* clients that hold it exclusively

vars == <<intent, readers, writers>>

Waiting == {c \in Clients : intent[c] # 0}

Init == intent = [c \in Clients |-> 0] /\ readers = {} /\ writers = {}

\* A client publishes its intent behind all others, at position n.
PublishAt(c, n) ==
    /\ c \notin Waiting
    /\ n \in Nat \ {0}
    /\ \A d \in Waiting : intent[d] < n
    /\ intent' = [intent EXCEPT ![c] = n]
    /\ UNCHANGED <<readers, writers>>

Publish(c) == PublishAt(c, intent'[c])

AdmitReader(c) ==
    /\ Waiting = {} /\ writers = {}
    /\ readers' = readers \cup {c}
    /\ UNCHANGED <<intent, writers>>

AdmitWriter(c) ==
    /\ readers = {} /\ writers = {}
    /\ c \in Waiting
    /\ \A d \in Waiting : intent[c] <= intent[d]
    /\ writers' = {c}
    /\ UNCHANGED <<intent, readers>>

\* A client that only tries, without intent, may overtake the line.
AdmitTry(c) ==
    /\ readers = {} /\ writers = {}
    /\ c \notin Waiting
    /\ writers' = {c}
    /\ UNCHANGED <<intent, readers>>

Leave(c) ==
    /\ readers' = readers \ {c}
    /\ writers' = writers \ {c}
    /\ UNCHANGED intent

\* An intent ends only after its owner has left the lock.
Withdraw(c) ==
    /\ c \notin writers
    /\ intent' = [intent EXCEPT ![c] = 0]
    /\ UNCHANGED <<readers, writers>>

Crash(S) ==
    /\ intent' = [c \in Clients |-> IF c \in S THEN 0 ELSE intent[c]]
    /\ readers' = readers \ S
    /\ writers' = writers \ S

Next ==
    \/ \E c \in Clients : \/ Publish(c) \/ AdmitReader(c) \/ AdmitWriter(c) \/ AdmitTry(c)
                          \/ Leave(c) \/ Withdraw(c)
    \/ \E S \in SUBSET Clients : Crash(S)

Spec == Init /\ [][Next]_vars
=============================================================================
