---------------------------- MODULE RunLockProofs ----------------------------
(***************************************************************************)
(* Proofs about RunLock for any number of clients and processes, any number *)
(* of crashes and intents, and any size of the sequence numbers.            *)
(***************************************************************************)
EXTENDS RunLock, TLAPS

\* The coordinator is held exactly while a client scans, publishes or acquires.
CoordInv ==
    \A c \in Clients :
        coord = c <=> pc[c] \in {"sScan", "sGate", "sFlock", "sRecheck", "iScan", "iWrite",
                                 "iTicket", "xScan", "xGate", "xFlock", "cScan"}

\* A locked ticket file belongs to a published intent, and the number a writer is
\* about to publish is above every published one.
TicketInv ==
    /\ IntentsAreKept
    /\ \A n \in Sequences : ticketOf[n] # None =>
          ticketOf[n] \in Intents /\ ticket[ticketOf[n]] = n
    /\ \A c \in Clients : pc[c] \in {"iWrite", "iTicket"} =>
          ticket[c] \in Sequences /\ \A d \in Intents : ticket[d] < ticket[c]
    /\ \A c \in Intents : arrival[c] # 0 /\ arrival[c] <= arrivals
    /\ \A c \in Clients : c \notin Intents => arrival[c] = 0
    /\ TicketsFollowArrival

\* Where a client stands decides which gate and flock it holds.
HoldInv ==
    /\ \A c \in Clients :
          /\ c \in lockR <=> pc[c] \in {"sRecheck", "shared"}
          /\ c \in lockW <=> pc[c] \in {"exclusive", "tried"}
          /\ c \in gateR <=> pc[c] \in {"sFlock", "sRecheck", "shared", "sRelease"}
          /\ c \in gateW <=> pc[c] \in {"xFlock", "exclusive", "xRelease",
                                        "tFlock", "tried", "tRelease"}
    /\ \A c \in gateW, d \in gateR \cup gateW : ProcOf[c] = ProcOf[d] => c = d
    /\ \A c \in lockW : lockW = {c} /\ lockR = {}

\* A writer that passed its scan stays first while it holds the coordinator.
FirstInv ==
    \A c \in Clients : pc[c] \in {"xGate", "xFlock"} => \A d \in Intents : ticket[c] <= ticket[d]

\* A reader that passed its scan sees no intent while it holds the coordinator.
NoIntentInv ==
    \A c \in Clients : pc[c] \in {"sGate", "sFlock", "sRecheck"} => Intents = {}

InductiveInvariant ==
    TypeOK /\ CoordInv /\ TicketInv /\ HoldInv /\ FirstInv /\ NoIntentInv

-----------------------------------------------------------------------------
\* A step that publishes and withdraws no intent and picks no number keeps the
\* facts about tickets, provided it removes only abandoned ticket files.
LEMMA TicketsKept ==
    ASSUME TypeOK, TicketInv, Intents' = Intents, LiveTickets \subseteq files',
           UNCHANGED <<ticketOf, ticket, history>>,
           \A x \in Clients :
               pc'[x] \in {"iWrite", "iTicket"} => pc[x] \in {"iWrite", "iTicket"}
    PROVE  TicketInv'
<1> USE DEF TypeOK, TicketInv, history, Sequences
<1>1. IntentsAreKept'
  BY ClientAssumption DEF IntentsAreKept, LiveTickets, Intents
<1>2. TicketsFollowArrival'
  BY SMT DEF TicketsFollowArrival
<1>3. \A c \in Clients : c \notin Intents => c \notin Intents'
  OBVIOUS
<1> QED
  BY <1>1, <1>2, <1>3 DEF Intents

-----------------------------------------------------------------------------
(* One lemma per action: the action preserves the inductive invariant.     *)

\* AcquireContext is called for a shared lock.
LEMMA StartSharedStep ==
    ASSUME InductiveInvariant, NEW c \in Clients, StartShared(c)
    PROVE  InductiveInvariant'
<1> USE DEF InductiveInvariant
<1>1. TypeOK'
  BY ClientAssumption, LimitAssumption DEF TypeOK, Places, Sequences, StartShared, Goto,
         fileVars, lockVars, history
<1>2. CoordInv'
  BY ClientAssumption, LimitAssumption DEF TypeOK, Sequences, CoordInv, StartShared,
         Goto, fileVars, lockVars, history
<1>3. TicketInv'
  BY ClientAssumption, LimitAssumption DEF TypeOK, Sequences, TicketInv, IntentsAreKept,
         TicketsFollowArrival, Intents, StartShared, Goto, fileVars, lockVars, history
<1>4. HoldInv'
  BY ClientAssumption, LimitAssumption DEF TypeOK, Sequences, HoldInv, StartShared, Goto,
         fileVars, lockVars, history
<1>5. FirstInv'
  BY ClientAssumption, LimitAssumption DEF TypeOK, Sequences, FirstInv, Intents,
         StartShared, Goto, fileVars, lockVars, history
<1>6. NoIntentInv'
  BY ClientAssumption, LimitAssumption DEF TypeOK, Sequences, NoIntentInv, Intents,
         StartShared, Goto, fileVars, lockVars, history
<1> QED
  BY <1>1, <1>2, <1>3, <1>4, <1>5, <1>6

\* A reader gets the coordinator.
LEMMA SharedCoordinatorStep ==
    ASSUME InductiveInvariant, NEW c \in Clients, SharedCoordinator(c)
    PROVE  InductiveInvariant'
<1> USE DEF InductiveInvariant
<1>1. TypeOK'
  BY ClientAssumption, LimitAssumption DEF TypeOK, Places, Sequences, SharedCoordinator,
         TakeCoordinator, Goto, fileVars, lockVars, history
<1>2. CoordInv'
  BY ClientAssumption, LimitAssumption DEF TypeOK, Sequences, CoordInv,
         SharedCoordinator, TakeCoordinator, Goto, fileVars, lockVars, history
<1>3. TicketInv'
  BY ClientAssumption, LimitAssumption DEF TypeOK, Sequences, TicketInv, IntentsAreKept,
         TicketsFollowArrival, Intents, SharedCoordinator, TakeCoordinator, Goto,
         fileVars, lockVars, history
<1>4. HoldInv'
  BY ClientAssumption, LimitAssumption DEF TypeOK, Sequences, HoldInv, SharedCoordinator,
         TakeCoordinator, Goto, fileVars, lockVars, history
<1>5. FirstInv'
  BY ClientAssumption, LimitAssumption DEF TypeOK, Sequences, FirstInv, Intents,
         SharedCoordinator, TakeCoordinator, Goto, fileVars, lockVars, history
<1>6. NoIntentInv'
  BY ClientAssumption, LimitAssumption DEF TypeOK, Sequences, NoIntentInv, Intents,
         SharedCoordinator, TakeCoordinator, Goto, fileVars, lockVars, history
<1> QED
  BY <1>1, <1>2, <1>3, <1>4, <1>5, <1>6

\* A reader's first scan.
LEMMA SharedScanStep ==
    ASSUME InductiveInvariant, NEW c \in Clients, SharedScan(c)
    PROVE  InductiveInvariant'
<1> USE DEF InductiveInvariant
<1>1. TypeOK'
  <2>1. pc' \in [Clients -> Places]
    BY DEF TypeOK, Places, SharedScan
  <2>2. files' \subseteq Sequences
    BY DEF TypeOK, SharedScan, Clean, LiveTickets
  <2>3. coord' \in Clients \cup {None}
    BY DEF TypeOK, SharedScan
  <2>4. /\ gateR' \subseteq Clients /\ gateW' \subseteq Clients
        /\ lockR' \subseteq Clients /\ lockW' \subseteq Clients
    BY DEF TypeOK, lockVars, SharedScan
  <2> QED
    BY <2>1, <2>2, <2>3, <2>4 DEF TypeOK, fileVars, history, SharedScan
<1>2. CoordInv'
  BY ClientAssumption, LimitAssumption DEF TypeOK, Sequences, CoordInv, SharedScan,
         Clean, LiveTickets, NoLiveIntent, lockVars, history
<1>3. TicketInv'
  <2>1. Intents' = Intents
    BY DEF TypeOK, Intents, SharedScan
  <2> QED
    BY <2>1, TicketsKept DEF TypeOK, history, SharedScan, Clean
<1>4. HoldInv'
  BY ClientAssumption, LimitAssumption DEF TypeOK, Sequences, HoldInv, CoordInv,
         SharedScan, Clean, LiveTickets, NoLiveIntent, lockVars, history
<1>5. FirstInv'
  BY SMTT(60), ClientAssumption, LimitAssumption DEF TypeOK, Sequences, FirstInv, Intents,
         CoordInv, SharedScan, Clean, LiveTickets, NoLiveIntent, lockVars, history
<1>6. NoIntentInv'
  BY ClientAssumption, LimitAssumption DEF TypeOK, Sequences, NoIntentInv, Intents,
         CoordInv, TicketInv, IntentsAreKept, TicketsFollowArrival, SharedScan, Clean,
         LiveTickets, NoLiveIntent, lockVars, history
<1> QED
  BY <1>1, <1>2, <1>3, <1>4, <1>5, <1>6

\* A reader tries its process gate.
LEMMA SharedGateStep ==
    ASSUME InductiveInvariant, NEW c \in Clients, SharedGate(c)
    PROVE  InductiveInvariant'
<1> USE DEF InductiveInvariant
<1>1. TypeOK'
  <2>1. pc' \in [Clients -> Places]
    BY DEF TypeOK, Places, SharedGate
  <2>2. files' \subseteq Sequences
    BY DEF TypeOK, SharedGate, fileVars
  <2>3. coord' \in Clients \cup {None}
    BY DEF TypeOK, SharedGate
  <2>4. /\ gateR' \subseteq Clients /\ gateW' \subseteq Clients
        /\ lockR' \subseteq Clients /\ lockW' \subseteq Clients
    BY DEF TypeOK, lockVars, SharedGate
  <2> QED
    BY <2>1, <2>2, <2>3, <2>4 DEF TypeOK, fileVars, history, SharedGate
<1>2. CoordInv'
  BY ClientAssumption, LimitAssumption DEF TypeOK, Sequences, CoordInv, SharedGate,
         GateFreeForReader, fileVars, history
<1>3. TicketInv'
  BY ClientAssumption, LimitAssumption DEF TypeOK, Sequences, TicketInv, IntentsAreKept,
         TicketsFollowArrival, Intents, CoordInv, HoldInv, FirstInv, NoIntentInv,
         SharedGate, GateFreeForReader, fileVars, history
<1>4. HoldInv'
  BY ClientAssumption, LimitAssumption DEF TypeOK, Sequences, HoldInv, CoordInv,
         SharedGate, GateFreeForReader, fileVars, history
<1>5. FirstInv'
  BY ClientAssumption, LimitAssumption DEF TypeOK, Sequences, FirstInv, Intents,
         CoordInv, SharedGate, GateFreeForReader, fileVars, history
<1>6. NoIntentInv'
  BY ClientAssumption, LimitAssumption DEF TypeOK, Sequences, NoIntentInv, Intents,
         SharedGate, GateFreeForReader, fileVars, history
<1> QED
  BY <1>1, <1>2, <1>3, <1>4, <1>5, <1>6

\* A reader tries the flock.
LEMMA SharedFlockStep ==
    ASSUME InductiveInvariant, NEW c \in Clients, SharedFlock(c)
    PROVE  InductiveInvariant'
<1> USE DEF InductiveInvariant
<1>1. TypeOK'
  <2>1. pc' \in [Clients -> Places]
    BY DEF TypeOK, Places, SharedFlock
  <2>2. files' \subseteq Sequences
    BY DEF TypeOK, SharedFlock, fileVars
  <2>3. coord' \in Clients \cup {None}
    BY DEF TypeOK, SharedFlock
  <2>4. /\ gateR' \subseteq Clients /\ gateW' \subseteq Clients
        /\ lockR' \subseteq Clients /\ lockW' \subseteq Clients
    BY DEF TypeOK, lockVars, SharedFlock
  <2> QED
    BY <2>1, <2>2, <2>3, <2>4 DEF TypeOK, fileVars, history, SharedFlock
<1>2. CoordInv'
  BY ClientAssumption, LimitAssumption DEF TypeOK, Sequences, CoordInv, SharedFlock,
         FlockFreeForReader, fileVars, history
<1>3. TicketInv'
  BY ClientAssumption, LimitAssumption DEF TypeOK, Sequences, TicketInv, IntentsAreKept,
         TicketsFollowArrival, Intents, CoordInv, HoldInv, FirstInv, NoIntentInv,
         SharedFlock, FlockFreeForReader, fileVars, history
<1>4. HoldInv'
  BY ClientAssumption, LimitAssumption DEF TypeOK, Sequences, HoldInv, SharedFlock,
         FlockFreeForReader, fileVars, history
<1>5. FirstInv'
  BY ZenonT(90), ClientAssumption, LimitAssumption DEF TypeOK, Sequences, FirstInv, Intents,
         SharedFlock, FlockFreeForReader, fileVars, history
<1>6. NoIntentInv'
  BY ClientAssumption, LimitAssumption DEF TypeOK, Sequences, NoIntentInv, Intents,
         SharedFlock, FlockFreeForReader, fileVars, history
<1> QED
  BY <1>1, <1>2, <1>3, <1>4, <1>5, <1>6

\* A reader's second scan.
LEMMA SharedRecheckStep ==
    ASSUME InductiveInvariant, NEW c \in Clients, SharedRecheck(c)
    PROVE  InductiveInvariant'
<1> USE DEF InductiveInvariant
<1>1. TypeOK'
  <2>1. pc' \in [Clients -> Places]
    BY DEF TypeOK, Places, SharedRecheck
  <2>2. files' \subseteq Sequences
    BY DEF TypeOK, SharedRecheck, Clean, LiveTickets
  <2>3. coord' \in Clients \cup {None}
    BY DEF TypeOK, SharedRecheck
  <2>4. /\ gateR' \subseteq Clients /\ gateW' \subseteq Clients
        /\ lockR' \subseteq Clients /\ lockW' \subseteq Clients
    BY DEF TypeOK, lockVars, SharedRecheck
  <2> QED
    BY <2>1, <2>2, <2>3, <2>4 DEF TypeOK, fileVars, history, SharedRecheck
<1>2. CoordInv'
  BY ZenonT(90), ClientAssumption, LimitAssumption DEF TypeOK, Sequences, CoordInv, SharedRecheck,
         Clean, LiveTickets, NoLiveIntent, history
<1>3. TicketInv'
  BY ClientAssumption, LimitAssumption DEF TypeOK, Sequences, TicketInv, IntentsAreKept,
         TicketsFollowArrival, Intents, CoordInv, HoldInv, FirstInv, NoIntentInv,
         SharedRecheck, Clean, LiveTickets, NoLiveIntent, history
<1>4. HoldInv'
  BY ClientAssumption, LimitAssumption DEF TypeOK, Sequences, HoldInv, CoordInv,
         SharedRecheck, Clean, LiveTickets, NoLiveIntent, history
<1>5. FirstInv'
  BY SMTT(60), ClientAssumption, LimitAssumption DEF TypeOK, Sequences, FirstInv, Intents,
         CoordInv, SharedRecheck, Clean, LiveTickets, NoLiveIntent, history
<1>6. NoIntentInv'
  BY ClientAssumption, LimitAssumption DEF TypeOK, Sequences, NoIntentInv, Intents,
         SharedRecheck, Clean, LiveTickets, NoLiveIntent, history
<1> QED
  BY <1>1, <1>2, <1>3, <1>4, <1>5, <1>6

\* A reader drops the flock.
LEMMA SharedCloseStep ==
    ASSUME InductiveInvariant, NEW c \in Clients, SharedClose(c)
    PROVE  InductiveInvariant'
<1> USE DEF InductiveInvariant
<1>1. TypeOK'
  BY ClientAssumption, LimitAssumption DEF TypeOK, Places, Sequences, SharedClose, Goto,
         fileVars, history
<1>2. CoordInv'
  BY ClientAssumption, LimitAssumption DEF TypeOK, Sequences, CoordInv, SharedClose,
         Goto, fileVars, history
<1>3. TicketInv'
  BY ClientAssumption, LimitAssumption DEF TypeOK, Sequences, TicketInv, IntentsAreKept,
         TicketsFollowArrival, Intents, SharedClose, Goto, fileVars, history
<1>4. HoldInv'
  BY ClientAssumption, LimitAssumption DEF TypeOK, Sequences, HoldInv, SharedClose, Goto,
         fileVars, history
<1>5. FirstInv'
  BY ClientAssumption, LimitAssumption DEF TypeOK, Sequences, FirstInv, Intents,
         SharedClose, Goto, fileVars, history
<1>6. NoIntentInv'
  BY ClientAssumption, LimitAssumption DEF TypeOK, Sequences, NoIntentInv, Intents,
         SharedClose, Goto, fileVars, history
<1> QED
  BY <1>1, <1>2, <1>3, <1>4, <1>5, <1>6

\* A reader leaves its gate.
LEMMA SharedReleaseStep ==
    ASSUME InductiveInvariant, NEW c \in Clients, SharedRelease(c)
    PROVE  InductiveInvariant'
<1> USE DEF InductiveInvariant
<1>1. TypeOK'
  BY ClientAssumption, LimitAssumption DEF TypeOK, Places, Sequences, SharedRelease,
         Goto, fileVars, history
<1>2. CoordInv'
  BY ClientAssumption, LimitAssumption DEF TypeOK, Sequences, CoordInv, SharedRelease,
         Goto, fileVars, history
<1>3. TicketInv'
  BY ClientAssumption, LimitAssumption DEF TypeOK, Sequences, TicketInv, IntentsAreKept,
         TicketsFollowArrival, Intents, SharedRelease, Goto, fileVars, history
<1>4. HoldInv'
  BY ClientAssumption, LimitAssumption DEF TypeOK, Sequences, HoldInv, SharedRelease,
         Goto, fileVars, history
<1>5. FirstInv'
  BY ClientAssumption, LimitAssumption DEF TypeOK, Sequences, FirstInv, Intents,
         SharedRelease, Goto, fileVars, history
<1>6. NoIntentInv'
  BY ClientAssumption, LimitAssumption DEF TypeOK, Sequences, NoIntentInv, Intents,
         SharedRelease, Goto, fileVars, history
<1> QED
  BY <1>1, <1>2, <1>3, <1>4, <1>5, <1>6

\* AcquireContext is called for an exclusive lock.
LEMMA StartExclusiveStep ==
    ASSUME InductiveInvariant, NEW c \in Clients, StartExclusive(c)
    PROVE  InductiveInvariant'
<1> USE DEF InductiveInvariant
<1>1. TypeOK'
  BY ClientAssumption, LimitAssumption DEF TypeOK, Places, Sequences, StartExclusive,
         Goto, fileVars, lockVars, history
<1>2. CoordInv'
  BY ClientAssumption, LimitAssumption DEF TypeOK, Sequences, CoordInv, StartExclusive,
         Goto, fileVars, lockVars, history
<1>3. TicketInv'
  BY ClientAssumption, LimitAssumption DEF TypeOK, Sequences, TicketInv, IntentsAreKept,
         TicketsFollowArrival, Intents, StartExclusive, Goto, fileVars, lockVars,
         history
<1>4. HoldInv'
  BY ClientAssumption, LimitAssumption DEF TypeOK, Sequences, HoldInv, StartExclusive,
         Goto, fileVars, lockVars, history
<1>5. FirstInv'
  BY ClientAssumption, LimitAssumption DEF TypeOK, Sequences, FirstInv, Intents,
         StartExclusive, Goto, fileVars, lockVars, history
<1>6. NoIntentInv'
  BY ClientAssumption, LimitAssumption DEF TypeOK, Sequences, NoIntentInv, Intents,
         StartExclusive, Goto, fileVars, lockVars, history
<1> QED
  BY <1>1, <1>2, <1>3, <1>4, <1>5, <1>6

\* A writer gets the coordinator to publish its intent.
LEMMA IntentCoordinatorStep ==
    ASSUME InductiveInvariant, NEW c \in Clients, IntentCoordinator(c)
    PROVE  InductiveInvariant'
<1> USE DEF InductiveInvariant
<1>1. TypeOK'
  BY ClientAssumption, LimitAssumption DEF TypeOK, Places, Sequences, IntentCoordinator,
         TakeCoordinator, Goto, fileVars, lockVars, history
<1>2. CoordInv'
  BY ClientAssumption, LimitAssumption DEF TypeOK, Sequences, CoordInv,
         IntentCoordinator, TakeCoordinator, Goto, fileVars, lockVars, history
<1>3. TicketInv'
  BY ClientAssumption, LimitAssumption DEF TypeOK, Sequences, TicketInv, IntentsAreKept,
         TicketsFollowArrival, Intents, IntentCoordinator, TakeCoordinator, Goto,
         fileVars, lockVars, history
<1>4. HoldInv'
  BY ClientAssumption, LimitAssumption DEF TypeOK, Sequences, HoldInv, IntentCoordinator,
         TakeCoordinator, Goto, fileVars, lockVars, history
<1>5. FirstInv'
  BY ClientAssumption, LimitAssumption DEF TypeOK, Sequences, FirstInv, Intents,
         IntentCoordinator, TakeCoordinator, Goto, fileVars, lockVars, history
<1>6. NoIntentInv'
  BY ClientAssumption, LimitAssumption DEF TypeOK, Sequences, NoIntentInv, Intents,
         IntentCoordinator, TakeCoordinator, Goto, fileVars, lockVars, history
<1> QED
  BY <1>1, <1>2, <1>3, <1>4, <1>5, <1>6

\* A writer picks its ticket number: above all live tickets, because a scan sees them all.
LEMMA IntentScanStep ==
    ASSUME InductiveInvariant, NEW c \in Clients, IntentScan(c)
    PROVE  InductiveInvariant'
<1> USE DEF InductiveInvariant
<1>1. TypeOK'
  <2> PICK last \in {counter} \cup LiveTickets : IntentScan(c)!3!(last)
    BY DEF IntentScan
  <2> USE DEF TypeOK, LiveTickets, Sequences
  <2>1. last \in 0..MaxSequence
    OBVIOUS
  <2>2. CASE SequenceLeft(last)
    <3>1. last + 1 \in 0..MaxSequence
      BY <2>1, <2>2, LimitAssumption DEF SequenceLeft
    <3>2. ticket' \in [Clients -> 0..MaxSequence] /\ counter' = 0 /\ coord' = coord
      BY <3>1, <2>2
    <3>3. pc' \in [Clients -> Places]
      BY <2>2 DEF Places
    <3>4. files' \subseteq Sequences
      BY DEF IntentScan, Clean
    <3> QED
      BY <3>2, <3>3, <3>4, LimitAssumption DEF IntentScan, lockVars, history
  <2>3. CASE ~SequenceLeft(last)
    <3>1. pc' \in [Clients -> Places] /\ coord' = None
      BY <2>3 DEF Places
    <3>2. files' \subseteq Sequences
      BY DEF IntentScan, Clean
    <3> QED
      BY <3>1, <3>2, <2>3 DEF IntentScan, lockVars, history
  <2> QED
    BY <2>2, <2>3
<1>2. CoordInv'
  BY ClientAssumption, LimitAssumption DEF TypeOK, Sequences, CoordInv, IntentScan,
         Clean, LiveTickets, IsLastSequence, SequenceLeft, lockVars, history
<1>3. TicketInv'
  <2> USE DEF TypeOK
  <2>1. Intents' = Intents
    BY DEF IntentScan, Intents
  <2>2. UNCHANGED <<ticketOf, history>> /\ files' = LiveTickets
    BY DEF IntentScan, Clean
  <2> PICK last \in {counter} \cup LiveTickets : IntentScan(c)!3!(last)
    BY DEF IntentScan
  <2>3. CASE ~SequenceLeft(last)
    BY <2>1, <2>2, <2>3, TicketsKept
  <2>4. CASE SequenceLeft(last)
    <3>1. \A n \in LiveTickets : n <= last
      BY DEF IsLastSequence
    <3>2. \A x \in Intents : ticket[x] \in LiveTickets
      BY ClientAssumption DEF TicketInv, IntentsAreKept, LiveTickets, Intents
    <3>3. ticket' = [ticket EXCEPT ![c] = last + 1] /\ last + 1 \in Sequences
      BY <2>4, LimitAssumption DEF SequenceLeft, Sequences, LiveTickets
    <3>4. \A x \in Intents : ticket'[x] = ticket[x] /\ ticket[x] < last + 1
      BY <3>1, <3>2, <3>3 DEF IntentScan, Intents, LiveTickets, Sequences
    <3>5. \A x \in Clients : pc'[x] \in {"iWrite", "iTicket"} => x = c
      BY <2>4 DEF IntentScan, CoordInv
    <3>6. IntentsAreKept' /\ TicketsFollowArrival'
      BY <2>1, <2>2, <3>2, <3>4 DEF TicketInv, IntentsAreKept, TicketsFollowArrival, history
    <3>7. \A n \in Sequences : ticketOf'[n] # None =>
              ticketOf'[n] \in Intents' /\ ticket'[ticketOf'[n]] = n
      BY <2>1, <2>2, <3>4 DEF TicketInv
    <3>8. \A x \in Clients : pc'[x] \in {"iWrite", "iTicket"} =>
              ticket'[x] \in Sequences /\ \A y \in Intents' : ticket'[y] < ticket'[x]
      BY <2>1, <3>3, <3>4, <3>5
    <3> QED
      BY <2>1, <2>2, <3>6, <3>7, <3>8 DEF TicketInv, history
  <2> QED
    BY <2>3, <2>4
<1>4. HoldInv'
  <2>1. pc[c] \in {"iScan"} /\ pc'[c] \in {"iWrite", "idle"}
    BY DEF TypeOK, IntentScan
  <2>2. \A x \in Clients : x # c => pc'[x] = pc[x]
    BY DEF TypeOK, IntentScan
  <2>3. UNCHANGED <<gateR, gateW, lockR, lockW>>
    BY DEF lockVars, IntentScan
  <2> QED
    BY <2>1, <2>2, <2>3 DEF HoldInv
<1>5. FirstInv'
  BY ClientAssumption, LimitAssumption DEF TypeOK, Sequences, FirstInv, Intents,
         CoordInv, TicketInv, IntentsAreKept, TicketsFollowArrival, IntentScan, Clean,
         LiveTickets, IsLastSequence, SequenceLeft, lockVars, history
<1>6. NoIntentInv'
  BY ClientAssumption, LimitAssumption DEF TypeOK, Sequences, NoIntentInv, Intents,
         IntentScan, Clean, LiveTickets, IsLastSequence, SequenceLeft, lockVars, history
<1> QED
  BY <1>1, <1>2, <1>3, <1>4, <1>5, <1>6

\* The counter file is written.
LEMMA IntentWriteStep ==
    ASSUME InductiveInvariant, NEW c \in Clients, IntentWrite(c)
    PROVE  InductiveInvariant'
<1> USE DEF InductiveInvariant
<1>1. TypeOK'
  BY ClientAssumption, LimitAssumption DEF TypeOK, Places, Sequences, IntentWrite, Goto,
         lockVars, history
<1>2. CoordInv'
  BY ClientAssumption, LimitAssumption DEF TypeOK, Sequences, CoordInv, IntentWrite,
         Goto, lockVars, history
<1>3. TicketInv'
  BY ClientAssumption, LimitAssumption DEF TypeOK, Sequences, TicketInv, IntentsAreKept,
         TicketsFollowArrival, Intents, IntentWrite, Goto, lockVars, history
<1>4. HoldInv'
  BY ClientAssumption, LimitAssumption DEF TypeOK, Sequences, HoldInv, IntentWrite, Goto,
         lockVars, history
<1>5. FirstInv'
  BY ClientAssumption, LimitAssumption DEF TypeOK, Sequences, FirstInv, Intents,
         IntentWrite, Goto, lockVars, history
<1>6. NoIntentInv'
  BY ClientAssumption, LimitAssumption DEF TypeOK, Sequences, NoIntentInv, Intents,
         IntentWrite, Goto, lockVars, history
<1> QED
  BY <1>1, <1>2, <1>3, <1>4, <1>5, <1>6

\* The intent is published: the new ticket is the highest and the latest.
LEMMA IntentTicketStep ==
    ASSUME InductiveInvariant, NEW c \in Clients, IntentTicket(c)
    PROVE  InductiveInvariant'
<1> USE DEF InductiveInvariant
<1>1. TypeOK'
  <2>1. pc' \in [Clients -> Places]
    BY DEF IntentTicket, TypeOK, Places
  <2>2. ticket' \in [Clients -> 0..MaxSequence]
    BY LimitAssumption DEF IntentTicket, TypeOK
  <2>3. ticket[c] \in Sequences
    BY DEF IntentTicket, TicketInv
  <2> QED
    BY <2>1, <2>2, <2>3 DEF IntentTicket, TypeOK, lockVars, history
<1>2. CoordInv'
  <2>1. coord = c /\ coord' = None /\ pc'[c] \in {"xWait", "idle"}
    BY DEF TypeOK, CoordInv, IntentTicket
  <2>2. \A x \in Clients : x # c => pc'[x] = pc[x]
    BY DEF TypeOK, IntentTicket
  <2> QED
    BY <2>1, <2>2, ClientAssumption DEF CoordInv
<1>3. TicketInv'
  <2> USE DEF TypeOK
  <2>0. \A x \in Clients : x # c => pc[x] \notin {"iWrite", "iTicket"}
    BY DEF IntentTicket, CoordInv
  <2>1. ticket[c] \in Sequences /\ c \notin Intents /\ \A x \in Intents : ticket[x] < ticket[c]
    BY DEF IntentTicket, TicketInv, Intents
  <2>2. CASE pc'[c] = "xWait"
    <3>1. /\ files' = files \cup {ticket[c]}
          /\ ticketOf' = [ticketOf EXCEPT ![ticket[c]] = c]
          /\ arrivals' = arrivals + 1
          /\ arrival' = [arrival EXCEPT ![c] = arrivals + 1]
          /\ ticket' = ticket
      BY <2>2 DEF IntentTicket
    <3>2. Intents' = Intents \cup {c} /\ Intents \subseteq Clients
      BY <2>2 DEF IntentTicket, Intents
    <3>3. \A x \in Intents : arrival[x] # 0 /\ arrival[x] <= arrivals /\ arrival'[x] = arrival[x]
      BY <2>1, <3>1, <3>2 DEF TicketInv
    <3>4. IntentsAreKept'
      BY <2>1, <3>1, <3>2 DEF TicketInv, IntentsAreKept
    <3>5. TicketsFollowArrival'
      BY <2>1, <3>1, <3>2, <3>3 DEF TicketInv, TicketsFollowArrival
    <3>6. \A n \in Sequences : ticketOf'[n] # None =>
              ticketOf'[n] \in Intents' /\ ticket'[ticketOf'[n]] = n
      BY <2>1, <3>1, <3>2 DEF TicketInv
    <3>7. \A x \in Clients : pc'[x] \notin {"iWrite", "iTicket"}
      BY <2>0, <2>2 DEF IntentTicket
    <3>8. \A x \in Intents' : arrival'[x] # 0 /\ arrival'[x] <= arrivals'
      BY <3>1, <3>2, <3>3
    <3>9. \A x \in Clients : x \notin Intents' => arrival'[x] = 0
      BY <3>1, <3>2 DEF TicketInv
    <3> QED
      BY <3>4, <3>5, <3>6, <3>7, <3>8, <3>9 DEF TicketInv
  <2>3. CASE pc'[c] # "xWait"
    <3>1. UNCHANGED <<ticketOf, history>> /\ ticket' = [ticket EXCEPT ![c] = 0] /\ files \subseteq files'
      BY <2>3 DEF IntentTicket
    <3>2. Intents' = Intents
      BY <2>3 DEF IntentTicket, Intents
    <3>3. \A x \in Intents : ticket'[x] = ticket[x]
      BY <2>1, <3>1 DEF Intents
    <3>4. IntentsAreKept' /\ TicketsFollowArrival'
      BY <3>1, <3>2, <3>3 DEF TicketInv, IntentsAreKept, TicketsFollowArrival, history
    <3>5. \A n \in Sequences : ticketOf'[n] # None =>
              ticketOf'[n] \in Intents' /\ ticket'[ticketOf'[n]] = n
      BY <3>1, <3>2, <3>3 DEF TicketInv
    <3>6. \A x \in Clients : pc'[x] \notin {"iWrite", "iTicket"}
      BY <2>0, <2>3 DEF IntentTicket
    <3> QED
      BY <3>1, <3>2, <3>4, <3>5, <3>6 DEF TicketInv, history
  <2> QED
    BY <2>2, <2>3
<1>4. HoldInv'
  BY ClientAssumption, LimitAssumption DEF TypeOK, Sequences, HoldInv, CoordInv,
         IntentTicket, lockVars, history
<1>5. FirstInv'
  <2>1. \A x \in Clients : pc'[x] \notin {"xGate", "xFlock"}
    BY DEF TypeOK, CoordInv, IntentTicket
  <2> QED
    BY <2>1 DEF FirstInv
<1>6. NoIntentInv'
  <2>1. \A x \in Clients : pc'[x] \notin {"sGate", "sFlock", "sRecheck"}
    BY DEF TypeOK, CoordInv, IntentTicket
  <2> QED
    BY <2>1 DEF NoIntentInv
<1> QED
  BY <1>1, <1>2, <1>3, <1>4, <1>5, <1>6

\* A writer with a ticket gets the coordinator.
LEMMA ExclusiveCoordinatorStep ==
    ASSUME InductiveInvariant, NEW c \in Clients, ExclusiveCoordinator(c)
    PROVE  InductiveInvariant'
<1> USE DEF InductiveInvariant
<1>1. TypeOK'
  BY ClientAssumption, LimitAssumption DEF TypeOK, Places, Sequences,
         ExclusiveCoordinator, TakeCoordinator, Goto, fileVars, lockVars, history
<1>2. CoordInv'
  BY ClientAssumption, LimitAssumption DEF TypeOK, Sequences, CoordInv,
         ExclusiveCoordinator, TakeCoordinator, Goto, fileVars, lockVars, history
<1>3. TicketInv'
  BY ClientAssumption, LimitAssumption DEF TypeOK, Sequences, TicketInv, IntentsAreKept,
         TicketsFollowArrival, Intents, ExclusiveCoordinator, TakeCoordinator, Goto,
         fileVars, lockVars, history
<1>4. HoldInv'
  BY ClientAssumption, LimitAssumption DEF TypeOK, Sequences, HoldInv,
         ExclusiveCoordinator, TakeCoordinator, Goto, fileVars, lockVars, history
<1>5. FirstInv'
  BY ClientAssumption, LimitAssumption DEF TypeOK, Sequences, FirstInv, Intents,
         ExclusiveCoordinator, TakeCoordinator, Goto, fileVars, lockVars, history
<1>6. NoIntentInv'
  BY ClientAssumption, LimitAssumption DEF TypeOK, Sequences, NoIntentInv, Intents,
         ExclusiveCoordinator, TakeCoordinator, Goto, fileVars, lockVars, history
<1> QED
  BY <1>1, <1>2, <1>3, <1>4, <1>5, <1>6

\* A writer checks that its ticket is first.
LEMMA ExclusiveScanStep ==
    ASSUME InductiveInvariant, NEW c \in Clients, ExclusiveScan(c)
    PROVE  InductiveInvariant'
<1> USE DEF InductiveInvariant
<1>1. TypeOK'
  <2>1. pc' \in [Clients -> Places]
    BY DEF TypeOK, Places, ExclusiveScan
  <2>2. files' \subseteq Sequences
    BY DEF TypeOK, ExclusiveScan, Clean, LiveTickets
  <2>3. coord' \in Clients \cup {None}
    BY DEF TypeOK, ExclusiveScan
  <2>4. /\ gateR' \subseteq Clients /\ gateW' \subseteq Clients
        /\ lockR' \subseteq Clients /\ lockW' \subseteq Clients
    BY DEF TypeOK, lockVars, ExclusiveScan
  <2> QED
    BY <2>1, <2>2, <2>3, <2>4 DEF TypeOK, fileVars, history, ExclusiveScan
<1>2. CoordInv'
  BY ClientAssumption, LimitAssumption DEF TypeOK, Sequences, CoordInv, ExclusiveScan,
         Clean, LiveTickets, IsFirstTicket, lockVars, history
<1>3. TicketInv'
  <2>1. Intents' = Intents
    BY DEF TypeOK, Intents, ExclusiveScan
  <2> QED
    BY <2>1, TicketsKept DEF TypeOK, history, ExclusiveScan, Clean
<1>4. HoldInv'
  <2>1. pc[c] \in {"xScan"} /\ pc'[c] \in {"xGate", "xWait"}
    BY DEF TypeOK, ExclusiveScan
  <2>2. \A x \in Clients : x # c => pc'[x] = pc[x]
    BY DEF TypeOK, ExclusiveScan
  <2>3. UNCHANGED <<gateR, gateW, lockR, lockW>>
    BY DEF lockVars, ExclusiveScan
  <2> QED
    BY <2>1, <2>2, <2>3 DEF HoldInv
<1>5. FirstInv'
  BY ClientAssumption, LimitAssumption DEF TypeOK, Sequences, FirstInv, Intents,
         CoordInv, TicketInv, IntentsAreKept, TicketsFollowArrival, ExclusiveScan, Clean,
         LiveTickets, IsFirstTicket, lockVars, history
<1>6. NoIntentInv'
  BY ClientAssumption, LimitAssumption DEF TypeOK, Sequences, NoIntentInv, Intents,
         ExclusiveScan, Clean, LiveTickets, IsFirstTicket, lockVars, history
<1> QED
  BY <1>1, <1>2, <1>3, <1>4, <1>5, <1>6

\* A writer tries its process gate.
LEMMA ExclusiveGateStep ==
    ASSUME InductiveInvariant, NEW c \in Clients, ExclusiveGate(c)
    PROVE  InductiveInvariant'
<1> USE DEF InductiveInvariant
<1>1. TypeOK'
  <2>1. pc' \in [Clients -> Places]
    BY DEF TypeOK, Places, ExclusiveGate
  <2>2. files' \subseteq Sequences
    BY DEF TypeOK, ExclusiveGate, fileVars
  <2>3. coord' \in Clients \cup {None}
    BY DEF TypeOK, ExclusiveGate
  <2>4. /\ gateR' \subseteq Clients /\ gateW' \subseteq Clients
        /\ lockR' \subseteq Clients /\ lockW' \subseteq Clients
    BY DEF TypeOK, lockVars, ExclusiveGate
  <2> QED
    BY <2>1, <2>2, <2>3, <2>4 DEF TypeOK, fileVars, history, ExclusiveGate
<1>2. CoordInv'
  BY ClientAssumption, LimitAssumption DEF TypeOK, Sequences, CoordInv, ExclusiveGate,
         GateFreeForWriter, fileVars, history
<1>3. TicketInv'
  <2>1. Intents' = Intents
    BY DEF TypeOK, Intents, ExclusiveGate
  <2> QED
    BY <2>1, TicketsKept DEF TypeOK, history, ExclusiveGate, LiveTickets, fileVars
<1>4. HoldInv'
  <2> USE DEF TypeOK, HoldInv
  <2>1. CASE GateFreeForWriter(c)
    <3>1. gateW' = gateW \cup {c} /\ pc' = [pc EXCEPT ![c] = "xFlock"] /\ pc[c] = "xGate"
      BY <2>1 DEF ExclusiveGate
    <3>2. UNCHANGED <<gateR, lockR, lockW>>
      BY DEF ExclusiveGate
    <3>3. \A x \in gateR \cup gateW : ProcOf[x] # ProcOf[c]
      BY <2>1 DEF GateFreeForWriter
    <3> QED
      BY <3>1, <3>2, <3>3
  <2>2. CASE ~GateFreeForWriter(c)
    <3>1. pc' = [pc EXCEPT ![c] = "xWait"] /\ pc[c] = "xGate"
      BY <2>2 DEF ExclusiveGate
    <3>2. UNCHANGED lockVars
      BY <2>2 DEF ExclusiveGate, lockVars
    <3> QED
      BY <3>1, <3>2 DEF lockVars
  <2> QED
    BY <2>1, <2>2
<1>5. FirstInv'
  BY ClientAssumption, LimitAssumption DEF TypeOK, Sequences, FirstInv, Intents,
         CoordInv, ExclusiveGate, GateFreeForWriter, fileVars, history
<1>6. NoIntentInv'
  BY ClientAssumption, LimitAssumption DEF TypeOK, Sequences, NoIntentInv, Intents,
         CoordInv, TicketInv, IntentsAreKept, TicketsFollowArrival, ExclusiveGate,
         GateFreeForWriter, fileVars, history
<1> QED
  BY <1>1, <1>2, <1>3, <1>4, <1>5, <1>6

\* A writer tries the flock.
LEMMA ExclusiveFlockStep ==
    ASSUME InductiveInvariant, NEW c \in Clients, ExclusiveFlock(c)
    PROVE  InductiveInvariant'
<1> USE DEF InductiveInvariant
<1>1. TypeOK'
  <2>1. pc' \in [Clients -> Places]
    BY DEF TypeOK, Places, ExclusiveFlock
  <2>2. files' \subseteq Sequences
    BY DEF TypeOK, ExclusiveFlock, fileVars
  <2>3. coord' \in Clients \cup {None}
    BY DEF TypeOK, ExclusiveFlock
  <2>4. /\ gateR' \subseteq Clients /\ gateW' \subseteq Clients
        /\ lockR' \subseteq Clients /\ lockW' \subseteq Clients
    BY DEF TypeOK, lockVars, ExclusiveFlock
  <2> QED
    BY <2>1, <2>2, <2>3, <2>4 DEF TypeOK, fileVars, history, ExclusiveFlock
<1>2. CoordInv'
  <2>1. coord = c /\ coord' = None /\ pc'[c] \in {"exclusive", "xWait"}
    BY DEF TypeOK, CoordInv, ExclusiveFlock
  <2>2. \A x \in Clients : x # c => pc'[x] = pc[x]
    BY DEF TypeOK, ExclusiveFlock
  <2> QED
    BY <2>1, <2>2, ClientAssumption DEF CoordInv
<1>3. TicketInv'
  <2>1. Intents' = Intents
    BY DEF TypeOK, Intents, ExclusiveFlock
  <2> QED
    BY <2>1, TicketsKept DEF TypeOK, history, ExclusiveFlock, LiveTickets, fileVars
<1>4. HoldInv'
  BY ClientAssumption, LimitAssumption DEF TypeOK, Sequences, HoldInv, ExclusiveFlock,
         FlockFreeForWriter, fileVars, history
<1>5. FirstInv'
  BY ClientAssumption, LimitAssumption DEF TypeOK, Sequences, FirstInv, Intents,
         CoordInv, ExclusiveFlock, FlockFreeForWriter, fileVars, history
<1>6. NoIntentInv'
  BY ClientAssumption, LimitAssumption DEF TypeOK, Sequences, NoIntentInv, Intents,
         CoordInv, TicketInv, IntentsAreKept, TicketsFollowArrival, ExclusiveFlock,
         FlockFreeForWriter, fileVars, history
<1> QED
  BY <1>1, <1>2, <1>3, <1>4, <1>5, <1>6

\* A writer drops the flock.
LEMMA ExclusiveCloseStep ==
    ASSUME InductiveInvariant, NEW c \in Clients, ExclusiveClose(c)
    PROVE  InductiveInvariant'
<1> USE DEF InductiveInvariant
<1>1. TypeOK'
  BY ClientAssumption, LimitAssumption DEF TypeOK, Places, Sequences, ExclusiveClose,
         Goto, fileVars, history
<1>2. CoordInv'
  BY ClientAssumption, LimitAssumption DEF TypeOK, Sequences, CoordInv, ExclusiveClose,
         Goto, fileVars, history
<1>3. TicketInv'
  BY ClientAssumption, LimitAssumption DEF TypeOK, Sequences, TicketInv, IntentsAreKept,
         TicketsFollowArrival, Intents, ExclusiveClose, Goto, fileVars, history
<1>4. HoldInv'
  BY ClientAssumption, LimitAssumption DEF TypeOK, Sequences, HoldInv, ExclusiveClose,
         Goto, fileVars, history
<1>5. FirstInv'
  BY ClientAssumption, LimitAssumption DEF TypeOK, Sequences, FirstInv, Intents,
         ExclusiveClose, Goto, fileVars, history
<1>6. NoIntentInv'
  BY ClientAssumption, LimitAssumption DEF TypeOK, Sequences, NoIntentInv, Intents,
         ExclusiveClose, Goto, fileVars, history
<1> QED
  BY <1>1, <1>2, <1>3, <1>4, <1>5, <1>6

\* A writer leaves its gate.
LEMMA ExclusiveReleaseStep ==
    ASSUME InductiveInvariant, NEW c \in Clients, ExclusiveRelease(c)
    PROVE  InductiveInvariant'
<1> USE DEF InductiveInvariant
<1>1. TypeOK'
  BY ClientAssumption, LimitAssumption DEF TypeOK, Places, Sequences, ExclusiveRelease,
         Goto, fileVars, history
<1>2. CoordInv'
  BY ClientAssumption, LimitAssumption DEF TypeOK, Sequences, CoordInv, ExclusiveRelease,
         Goto, fileVars, history
<1>3. TicketInv'
  BY ClientAssumption, LimitAssumption DEF TypeOK, Sequences, TicketInv, IntentsAreKept,
         TicketsFollowArrival, Intents, ExclusiveRelease, Goto, fileVars, history
<1>4. HoldInv'
  BY ClientAssumption, LimitAssumption DEF TypeOK, Sequences, HoldInv, ExclusiveRelease,
         Goto, fileVars, history
<1>5. FirstInv'
  BY ClientAssumption, LimitAssumption DEF TypeOK, Sequences, FirstInv, Intents,
         ExclusiveRelease, Goto, fileVars, history
<1>6. NoIntentInv'
  BY ClientAssumption, LimitAssumption DEF TypeOK, Sequences, NoIntentInv, Intents,
         ExclusiveRelease, Goto, fileVars, history
<1> QED
  BY <1>1, <1>2, <1>3, <1>4, <1>5, <1>6

\* A writer drops its ticket.
LEMMA ReleaseTicketStep ==
    ASSUME InductiveInvariant, NEW c \in Clients, ReleaseTicket(c)
    PROVE  InductiveInvariant'
<1> USE DEF InductiveInvariant
<1>1. TypeOK'
  BY ClientAssumption, LimitAssumption DEF TypeOK, Places, Sequences, TicketInv,
         IntentsAreKept, TicketsFollowArrival, Intents, ReleaseTicket, DropTicket, Goto,
         lockVars
<1>2. CoordInv'
  BY ClientAssumption, LimitAssumption DEF TypeOK, Sequences, CoordInv, ReleaseTicket,
         DropTicket, Goto, lockVars
<1>3. TicketInv'
  BY ClientAssumption, LimitAssumption DEF TypeOK, Sequences, TicketInv, IntentsAreKept,
         TicketsFollowArrival, Intents, ReleaseTicket, DropTicket, Goto, lockVars
<1>4. HoldInv'
  BY ClientAssumption, LimitAssumption DEF TypeOK, Sequences, HoldInv, ReleaseTicket,
         DropTicket, Goto, lockVars
<1>5. FirstInv'
  BY ClientAssumption, LimitAssumption DEF TypeOK, Sequences, FirstInv, Intents,
         ReleaseTicket, DropTicket, Goto, lockVars
<1>6. NoIntentInv'
  BY ClientAssumption, LimitAssumption DEF TypeOK, Sequences, NoIntentInv, Intents,
         ReleaseTicket, DropTicket, Goto, lockVars
<1> QED
  BY <1>1, <1>2, <1>3, <1>4, <1>5, <1>6

\* A closing writer gets the coordinator for its cleanup.
LEMMA CleanupCoordinatorStep ==
    ASSUME InductiveInvariant, NEW c \in Clients, CleanupCoordinator(c)
    PROVE  InductiveInvariant'
<1> USE DEF InductiveInvariant
<1>1. TypeOK'
  BY ClientAssumption, LimitAssumption DEF TypeOK, Places, Sequences, CleanupCoordinator,
         TakeCoordinator, Goto, fileVars, lockVars, history
<1>2. CoordInv'
  BY ClientAssumption, LimitAssumption DEF TypeOK, Sequences, CoordInv,
         CleanupCoordinator, TakeCoordinator, Goto, fileVars, lockVars, history
<1>3. TicketInv'
  BY ClientAssumption, LimitAssumption DEF TypeOK, Sequences, TicketInv, IntentsAreKept,
         TicketsFollowArrival, Intents, CleanupCoordinator, TakeCoordinator, Goto,
         fileVars, lockVars, history
<1>4. HoldInv'
  BY ClientAssumption, LimitAssumption DEF TypeOK, Sequences, HoldInv,
         CleanupCoordinator, TakeCoordinator, Goto, fileVars, lockVars, history
<1>5. FirstInv'
  BY ClientAssumption, LimitAssumption DEF TypeOK, Sequences, FirstInv, Intents,
         CleanupCoordinator, TakeCoordinator, Goto, fileVars, lockVars, history
<1>6. NoIntentInv'
  BY ClientAssumption, LimitAssumption DEF TypeOK, Sequences, NoIntentInv, Intents,
         CleanupCoordinator, TakeCoordinator, Goto, fileVars, lockVars, history
<1> QED
  BY <1>1, <1>2, <1>3, <1>4, <1>5, <1>6

\* The cleanup scan.
LEMMA CleanupScanStep ==
    ASSUME InductiveInvariant, NEW c \in Clients, CleanupScan(c)
    PROVE  InductiveInvariant'
<1> USE DEF InductiveInvariant
<1>1. TypeOK'
  <2>1. pc' \in [Clients -> Places]
    BY DEF TypeOK, Places, CleanupScan, Goto
  <2>2. files' \subseteq Sequences
    BY DEF TypeOK, CleanupScan, Clean, LiveTickets, Goto
  <2>3. coord' \in Clients \cup {None}
    BY DEF TypeOK, CleanupScan, Goto
  <2>4. /\ gateR' \subseteq Clients /\ gateW' \subseteq Clients
        /\ lockR' \subseteq Clients /\ lockW' \subseteq Clients
    BY DEF TypeOK, lockVars, CleanupScan, Goto
  <2> QED
    BY <2>1, <2>2, <2>3, <2>4 DEF TypeOK, fileVars, history, CleanupScan, Goto
<1>2. CoordInv'
  BY ClientAssumption, LimitAssumption DEF TypeOK, Sequences, CoordInv, CleanupScan,
         Goto, Clean, LiveTickets, lockVars, history
<1>3. TicketInv'
  BY ClientAssumption, LimitAssumption DEF TypeOK, Sequences, TicketInv, IntentsAreKept,
         TicketsFollowArrival, Intents, CleanupScan, Goto, Clean, LiveTickets, lockVars,
         history
<1>4. HoldInv'
  BY ClientAssumption, LimitAssumption DEF TypeOK, Sequences, HoldInv, CleanupScan, Goto,
         Clean, LiveTickets, lockVars, history
<1>5. FirstInv'
  BY ClientAssumption, LimitAssumption DEF TypeOK, Sequences, FirstInv, Intents,
         CleanupScan, Goto, Clean, LiveTickets, lockVars, history
<1>6. NoIntentInv'
  BY ClientAssumption, LimitAssumption DEF TypeOK, Sequences, NoIntentInv, Intents,
         CleanupScan, Goto, Clean, LiveTickets, lockVars, history
<1> QED
  BY <1>1, <1>2, <1>3, <1>4, <1>5, <1>6

\* A scan fails.
LEMMA FailedScanStep ==
    ASSUME InductiveInvariant, NEW c \in Clients, FailedScan(c)
    PROVE  InductiveInvariant'
<1> USE DEF InductiveInvariant
<1>1. TypeOK'
  BY SMTT(60), ClientAssumption, LimitAssumption DEF TypeOK, Places, Sequences, FailedScan, Fail,
         LiveTickets, history
<1>2. CoordInv'
  <2>1. coord = c /\ coord' = None /\ pc'[c] \in {"idle", "xFail"}
    BY DEF TypeOK, CoordInv, FailedScan, Fail
  <2>2. \A x \in Clients : x # c => pc'[x] = pc[x]
    BY DEF TypeOK, FailedScan, Fail
  <2> QED
    BY <2>1, <2>2, ClientAssumption DEF CoordInv
<1>3. TicketInv'
  <2>1. Intents' = Intents
    BY DEF TypeOK, Intents, FailedScan, Fail
  <2> QED
    BY <2>1, TicketsKept DEF TypeOK, history, FailedScan, LiveTickets, Fail
<1>4. HoldInv'
  BY ClientAssumption, LimitAssumption DEF TypeOK, Sequences, HoldInv, FailedScan, Fail,
         LiveTickets, history
<1>5. FirstInv'
  BY ClientAssumption, LimitAssumption DEF TypeOK, Sequences, FirstInv, Intents,
         CoordInv, FailedScan, Fail, LiveTickets, history
<1>6. NoIntentInv'
  BY ClientAssumption, LimitAssumption DEF TypeOK, Sequences, NoIntentInv, Intents,
         FailedScan, Fail, LiveTickets, history
<1> QED
  BY <1>1, <1>2, <1>3, <1>4, <1>5, <1>6

\* A file operation fails.
LEMMA FailedCallStep ==
    ASSUME InductiveInvariant, NEW c \in Clients, FailedCall(c)
    PROVE  InductiveInvariant'
<1> USE DEF InductiveInvariant
<1>1. TypeOK'
   <2>1. pc' \in [Clients -> Places]
    BY DEF FailedCall, TypeOK, Places, Fail
   <2>3. coord' \in Clients \cup {None}
    BY DEF FailedCall, TypeOK, Fail
   <2>4. /\ gateR' \subseteq Clients /\ gateW' \subseteq Clients
         /\ lockR' \subseteq Clients /\ lockW' \subseteq Clients
    BY DEF FailedCall, TypeOK, Fail
   <2>5. ticket' \in [Clients -> 0..MaxSequence]
    BY LimitAssumption DEF FailedCall, TypeOK
   <2>6. UNCHANGED <<counter, files, ticketOf, history, crashes>>
    BY DEF FailedCall, Fail
   <2> QED BY <2>1, <2>3, <2>4, <2>5, <2>6 DEF TypeOK, history
<1>2. CoordInv'
  <2>1. coord = c /\ coord' = None /\ pc'[c] \in {"idle", "xFail"}
    BY DEF TypeOK, CoordInv, FailedCall, Fail
  <2>2. \A x \in Clients : x # c => pc'[x] = pc[x]
    BY DEF TypeOK, FailedCall, Fail
  <2> QED
    BY <2>1, <2>2, ClientAssumption DEF CoordInv
<1>3. TicketInv'
  <2> USE DEF TypeOK
  <2>1. Intents' = Intents
    BY DEF FailedCall, Fail, Intents
  <2>2. UNCHANGED <<files, ticketOf, history>>
    BY DEF FailedCall, Fail
  <2>3. \A x \in Clients : pc'[x] \in {"iWrite", "iTicket"} => pc[x] \in {"iWrite", "iTicket"} /\ x # c
    BY DEF FailedCall, Fail
  <2>4. \A x \in Clients : x # c => ticket'[x] = ticket[x]
    BY DEF FailedCall
  <2>5. \A x \in Intents : ticket'[x] = ticket[x]
    BY DEF FailedCall, Intents
  <2>6. IntentsAreKept' /\ TicketsFollowArrival'
    BY <2>1, <2>2, <2>5 DEF TicketInv, IntentsAreKept, TicketsFollowArrival, history
  <2>7. \A n \in Sequences : ticketOf'[n] # None =>
            ticketOf'[n] \in Intents' /\ ticket'[ticketOf'[n]] = n
    BY <2>1, <2>2, <2>5 DEF TicketInv
  <2>8. \A x \in Clients : pc'[x] \in {"iWrite", "iTicket"} =>
            ticket'[x] \in Sequences /\ \A y \in Intents' : ticket'[y] < ticket'[x]
    BY <2>1, <2>3, <2>4, <2>5 DEF TicketInv
  <2> QED
    BY <2>1, <2>2, <2>6, <2>7, <2>8 DEF TicketInv, history
<1>4. HoldInv'
  BY ClientAssumption, LimitAssumption DEF TypeOK, Sequences, HoldInv, FailedCall, Fail,
         history
<1>5. FirstInv'
  BY ClientAssumption, LimitAssumption DEF TypeOK, Sequences, FirstInv, Intents,
         CoordInv, TicketInv, IntentsAreKept, TicketsFollowArrival, FailedCall, Fail,
         history
<1>6. NoIntentInv'
  BY ClientAssumption, LimitAssumption DEF TypeOK, Sequences, NoIntentInv, Intents,
         FailedCall, Fail, history
<1> QED
  BY <1>1, <1>2, <1>3, <1>4, <1>5, <1>6

\* A failed writer drops its ticket.
LEMMA FailTicketStep ==
    ASSUME InductiveInvariant, NEW c \in Clients, FailTicket(c)
    PROVE  InductiveInvariant'
<1> USE DEF InductiveInvariant
<1>1. TypeOK'
  BY ClientAssumption, LimitAssumption DEF TypeOK, Places, Sequences, TicketInv,
         IntentsAreKept, TicketsFollowArrival, Intents, FailTicket, DropTicket, Goto,
         lockVars
<1>2. CoordInv'
  BY ClientAssumption, LimitAssumption DEF TypeOK, Sequences, CoordInv, FailTicket,
         DropTicket, Goto, lockVars
<1>3. TicketInv'
  BY ClientAssumption, LimitAssumption DEF TypeOK, Sequences, TicketInv, IntentsAreKept,
         TicketsFollowArrival, Intents, FailTicket, DropTicket, Goto, lockVars
<1>4. HoldInv'
  BY ClientAssumption, LimitAssumption DEF TypeOK, Sequences, HoldInv, FailTicket,
         DropTicket, Goto, lockVars
<1>5. FirstInv'
  BY ClientAssumption, LimitAssumption DEF TypeOK, Sequences, FirstInv, Intents,
         FailTicket, DropTicket, Goto, lockVars
<1>6. NoIntentInv'
  BY ClientAssumption, LimitAssumption DEF TypeOK, Sequences, NoIntentInv, Intents,
         FailTicket, DropTicket, Goto, lockVars
<1> QED
  BY <1>1, <1>2, <1>3, <1>4, <1>5, <1>6

\* A waiting client without intent is cancelled.
LEMMA CancelWaitStep ==
    ASSUME InductiveInvariant, NEW c \in Clients, CancelWait(c)
    PROVE  InductiveInvariant'
<1> USE DEF InductiveInvariant
<1>1. TypeOK'
  <2>1. pc' \in [Clients -> Places]
    BY DEF TypeOK, Places, CancelWait, Goto
  <2> QED
    BY <2>1 DEF TypeOK, CancelWait, fileVars, lockVars, history
<1>2. CoordInv'
  BY ClientAssumption, LimitAssumption DEF TypeOK, Sequences, CoordInv, CancelWait, Goto,
         fileVars, lockVars, history
<1>3. TicketInv'
  <2>1. Intents' = Intents
    BY DEF TypeOK, Intents, CancelWait, Goto
  <2> QED
    BY <2>1, TicketsKept DEF TypeOK, history, CancelWait, LiveTickets, fileVars, Goto
<1>4. HoldInv'
  <2>1. pc[c] \in {"sWait", "iWait"} /\ pc'[c] \in {"idle"}
    BY DEF TypeOK, CancelWait, Goto
  <2>2. \A x \in Clients : x # c => pc'[x] = pc[x]
    BY DEF TypeOK, CancelWait, Goto
  <2>3. UNCHANGED <<gateR, gateW, lockR, lockW>>
    BY DEF lockVars, CancelWait
  <2> QED
    BY <2>1, <2>2, <2>3 DEF HoldInv
<1>5. FirstInv'
  BY ClientAssumption, LimitAssumption DEF TypeOK, Sequences, FirstInv, Intents,
         CoordInv, CancelWait, Goto, fileVars, lockVars, history
<1>6. NoIntentInv'
  BY ZenonT(60), ClientAssumption, LimitAssumption DEF TypeOK, Sequences, NoIntentInv, Intents,
         CoordInv, CancelWait, Goto, fileVars, lockVars, history
<1> QED
  BY <1>1, <1>2, <1>3, <1>4, <1>5, <1>6

\* A waiting writer is cancelled and drops its ticket.
LEMMA CancelExclusiveStep ==
    ASSUME InductiveInvariant, NEW c \in Clients, CancelExclusive(c)
    PROVE  InductiveInvariant'
<1> USE DEF InductiveInvariant
<1>1. TypeOK'
  BY ClientAssumption, LimitAssumption DEF TypeOK, Places, Sequences, TicketInv,
         IntentsAreKept, TicketsFollowArrival, Intents, CancelExclusive, DropTicket,
         Goto, lockVars
<1>2. CoordInv'
  BY ClientAssumption, LimitAssumption DEF TypeOK, Sequences, CoordInv, CancelExclusive,
         DropTicket, Goto, lockVars
<1>3. TicketInv'
  BY ClientAssumption, LimitAssumption DEF TypeOK, Sequences, TicketInv, IntentsAreKept,
         TicketsFollowArrival, Intents, CancelExclusive, DropTicket, Goto, lockVars
<1>4. HoldInv'
  BY ClientAssumption, LimitAssumption DEF TypeOK, Sequences, HoldInv, CancelExclusive,
         DropTicket, Goto, lockVars
<1>5. FirstInv'
  BY ClientAssumption, LimitAssumption DEF TypeOK, Sequences, FirstInv, Intents,
         CancelExclusive, DropTicket, Goto, lockVars
<1>6. NoIntentInv'
  BY ClientAssumption, LimitAssumption DEF TypeOK, Sequences, NoIntentInv, Intents,
         CancelExclusive, DropTicket, Goto, lockVars
<1> QED
  BY <1>1, <1>2, <1>3, <1>4, <1>5, <1>6

\* The cancelled writer's cleanup gets the coordinator.
LEMMA FailureCoordinatorStep ==
    ASSUME InductiveInvariant, NEW c \in Clients, FailureCoordinator(c)
    PROVE  InductiveInvariant'
<1> USE DEF InductiveInvariant
<1>1. TypeOK'
  BY ClientAssumption, LimitAssumption DEF TypeOK, Places, Sequences, FailureCoordinator,
         TakeCoordinator, Goto, fileVars, lockVars, history
<1>2. CoordInv'
  BY ClientAssumption, LimitAssumption DEF TypeOK, Sequences, CoordInv,
         FailureCoordinator, TakeCoordinator, Goto, fileVars, lockVars, history
<1>3. TicketInv'
  BY ClientAssumption, LimitAssumption DEF TypeOK, Sequences, TicketInv, IntentsAreKept,
         TicketsFollowArrival, Intents, FailureCoordinator, TakeCoordinator, Goto,
         fileVars, lockVars, history
<1>4. HoldInv'
  BY ClientAssumption, LimitAssumption DEF TypeOK, Sequences, HoldInv,
         FailureCoordinator, TakeCoordinator, Goto, fileVars, lockVars, history
<1>5. FirstInv'
  BY ClientAssumption, LimitAssumption DEF TypeOK, Sequences, FirstInv, Intents,
         FailureCoordinator, TakeCoordinator, Goto, fileVars, lockVars, history
<1>6. NoIntentInv'
  BY ClientAssumption, LimitAssumption DEF TypeOK, Sequences, NoIntentInv, Intents,
         FailureCoordinator, TakeCoordinator, Goto, fileVars, lockVars, history
<1> QED
  BY <1>1, <1>2, <1>3, <1>4, <1>5, <1>6

\* The cancelled writer's cleanup runs out of time.
LEMMA FailureTimeoutStep ==
    ASSUME InductiveInvariant, NEW c \in Clients, FailureTimeout(c)
    PROVE  InductiveInvariant'
<1> USE DEF InductiveInvariant
<1>1. TypeOK'
  BY ClientAssumption, LimitAssumption DEF TypeOK, Places, Sequences, FailureTimeout,
         Goto, fileVars, lockVars, history
<1>2. CoordInv'
  BY ClientAssumption, LimitAssumption DEF TypeOK, Sequences, CoordInv, FailureTimeout,
         Goto, fileVars, lockVars, history
<1>3. TicketInv'
  BY ClientAssumption, LimitAssumption DEF TypeOK, Sequences, TicketInv, IntentsAreKept,
         TicketsFollowArrival, Intents, FailureTimeout, Goto, fileVars, lockVars,
         history
<1>4. HoldInv'
  BY ClientAssumption, LimitAssumption DEF TypeOK, Sequences, HoldInv, FailureTimeout,
         Goto, fileVars, lockVars, history
<1>5. FirstInv'
  BY ClientAssumption, LimitAssumption DEF TypeOK, Sequences, FirstInv, Intents,
         FailureTimeout, Goto, fileVars, lockVars, history
<1>6. NoIntentInv'
  BY ClientAssumption, LimitAssumption DEF TypeOK, Sequences, NoIntentInv, Intents,
         FailureTimeout, Goto, fileVars, lockVars, history
<1> QED
  BY <1>1, <1>2, <1>3, <1>4, <1>5, <1>6

\* Acquire takes the process gate.
LEMMA TryGateStep ==
    ASSUME InductiveInvariant, NEW c \in Clients, TryGate(c)
    PROVE  InductiveInvariant'
<1> USE DEF InductiveInvariant
<1>1. TypeOK'
  BY ClientAssumption, LimitAssumption DEF TypeOK, Places, Sequences, TryGate,
         GateFreeForWriter, Goto, fileVars, history
<1>2. CoordInv'
  BY ClientAssumption, LimitAssumption DEF TypeOK, Sequences, CoordInv, TryGate,
         GateFreeForWriter, Goto, fileVars, history
<1>3. TicketInv'
  BY ClientAssumption, LimitAssumption DEF TypeOK, Sequences, TicketInv, IntentsAreKept,
         TicketsFollowArrival, Intents, TryGate, GateFreeForWriter, Goto, fileVars,
         history
<1>4. HoldInv'
  BY ClientAssumption, LimitAssumption DEF TypeOK, Sequences, HoldInv, TryGate,
         GateFreeForWriter, Goto, fileVars, history
<1>5. FirstInv'
  BY ClientAssumption, LimitAssumption DEF TypeOK, Sequences, FirstInv, Intents, TryGate,
         GateFreeForWriter, Goto, fileVars, history
<1>6. NoIntentInv'
  BY ClientAssumption, LimitAssumption DEF TypeOK, Sequences, NoIntentInv, Intents,
         TryGate, GateFreeForWriter, Goto, fileVars, history
<1> QED
  BY <1>1, <1>2, <1>3, <1>4, <1>5, <1>6

\* Acquire tries the flock.
LEMMA TryFlockStep ==
    ASSUME InductiveInvariant, NEW c \in Clients, TryFlock(c)
    PROVE  InductiveInvariant'
<1> USE DEF InductiveInvariant
<1>1. TypeOK'
  BY ClientAssumption, LimitAssumption DEF TypeOK, Places, Sequences, TryFlock,
         FlockFreeForWriter, fileVars, history
<1>2. CoordInv'
  BY ZenonT(60), ClientAssumption, LimitAssumption DEF TypeOK, Sequences, CoordInv, TryFlock,
         FlockFreeForWriter, fileVars, history
<1>3. TicketInv'
  <2>1. Intents' = Intents
    BY DEF TypeOK, Intents, TryFlock
  <2> QED
    BY <2>1, TicketsKept DEF TypeOK, history, TryFlock, LiveTickets, fileVars
<1>4. HoldInv'
  <2>1. CASE FlockFreeForWriter /\ lockW' = lockW \cup {c}
             /\ pc' = [pc EXCEPT ![c] = "tried"] /\ UNCHANGED gateW
    <3>1. pc[c] = "tFlock" /\ lockW' = {c}
      BY <2>1 DEF TryFlock, FlockFreeForWriter
    <3>2. UNCHANGED <<gateR, gateW, lockR>> /\ lockR = {} /\ lockW = {}
      BY <2>1 DEF TryFlock, FlockFreeForWriter
    <3> QED
      BY <2>1, <3>1, <3>2 DEF TypeOK, HoldInv
  <2>2. CASE gateW' = gateW \ {c} /\ pc' = [pc EXCEPT ![c] = "idle"] /\ UNCHANGED lockW
    <3>1. pc[c] = "tFlock" /\ UNCHANGED <<gateR, lockR, lockW>>
      BY <2>2 DEF TryFlock
    <3> QED
      BY <2>2, <3>1 DEF TypeOK, HoldInv
  <2> QED
    BY <2>1, <2>2 DEF TryFlock
<1>5. FirstInv'
  BY ZenonT(90), ClientAssumption, LimitAssumption DEF TypeOK, Sequences, FirstInv, Intents,
         TryFlock, FlockFreeForWriter, fileVars, history
<1>6. NoIntentInv'
  BY SMTT(60), ClientAssumption, LimitAssumption DEF TypeOK, Sequences, NoIntentInv, Intents,
         CoordInv, TryFlock, FlockFreeForWriter, fileVars, history
<1> QED
  BY <1>1, <1>2, <1>3, <1>4, <1>5, <1>6

\* The holder of a tried lock drops the flock.
LEMMA TryCloseStep ==
    ASSUME InductiveInvariant, NEW c \in Clients, TryClose(c)
    PROVE  InductiveInvariant'
<1> USE DEF InductiveInvariant
<1>1. TypeOK'
  BY ClientAssumption, LimitAssumption DEF TypeOK, Places, Sequences, TryClose, Goto,
         fileVars, history
<1>2. CoordInv'
  BY ClientAssumption, LimitAssumption DEF TypeOK, Sequences, CoordInv, TryClose, Goto,
         fileVars, history
<1>3. TicketInv'
  BY ClientAssumption, LimitAssumption DEF TypeOK, Sequences, TicketInv, IntentsAreKept,
         TicketsFollowArrival, Intents, TryClose, Goto, fileVars, history
<1>4. HoldInv'
  BY ClientAssumption, LimitAssumption DEF TypeOK, Sequences, HoldInv, TryClose, Goto,
         fileVars, history
<1>5. FirstInv'
  BY ClientAssumption, LimitAssumption DEF TypeOK, Sequences, FirstInv, Intents,
         TryClose, Goto, fileVars, history
<1>6. NoIntentInv'
  BY ClientAssumption, LimitAssumption DEF TypeOK, Sequences, NoIntentInv, Intents,
         TryClose, Goto, fileVars, history
<1> QED
  BY <1>1, <1>2, <1>3, <1>4, <1>5, <1>6

\* The holder of a tried lock leaves its gate.
LEMMA TryReleaseStep ==
    ASSUME InductiveInvariant, NEW c \in Clients, TryRelease(c)
    PROVE  InductiveInvariant'
<1> USE DEF InductiveInvariant
<1>1. TypeOK'
  BY ClientAssumption, LimitAssumption DEF TypeOK, Places, Sequences, TryRelease, Goto,
         fileVars, history
<1>2. CoordInv'
  BY ClientAssumption, LimitAssumption DEF TypeOK, Sequences, CoordInv, TryRelease, Goto,
         fileVars, history
<1>3. TicketInv'
  BY ClientAssumption, LimitAssumption DEF TypeOK, Sequences, TicketInv, IntentsAreKept,
         TicketsFollowArrival, Intents, TryRelease, Goto, fileVars, history
<1>4. HoldInv'
  BY ClientAssumption, LimitAssumption DEF TypeOK, Sequences, HoldInv, TryRelease, Goto,
         fileVars, history
<1>5. FirstInv'
  BY ClientAssumption, LimitAssumption DEF TypeOK, Sequences, FirstInv, Intents,
         TryRelease, Goto, fileVars, history
<1>6. NoIntentInv'
  BY ClientAssumption, LimitAssumption DEF TypeOK, Sequences, NoIntentInv, Intents,
         TryRelease, Goto, fileVars, history
<1> QED
  BY <1>1, <1>2, <1>3, <1>4, <1>5, <1>6

\* A process dies and the kernel drops its flocks.
LEMMA CrashStep ==
    ASSUME InductiveInvariant, NEW p \in Procs, Crash(p)
    PROVE  InductiveInvariant'
<1> USE DEF InductiveInvariant
<1>1. TypeOK'
  BY ClientAssumption, LimitAssumption DEF TypeOK, Places, Sequences, Crash
<1>2. CoordInv'
  BY ClientAssumption, LimitAssumption DEF TypeOK, Sequences, CoordInv, Crash
<1>3. TicketInv'
  BY ClientAssumption, LimitAssumption DEF TypeOK, Sequences, TicketInv, IntentsAreKept,
         TicketsFollowArrival, Intents, Crash
<1>4. HoldInv'
  BY ClientAssumption, LimitAssumption DEF TypeOK, Sequences, HoldInv, Crash
<1>5. FirstInv'
  BY ClientAssumption, LimitAssumption DEF TypeOK, Sequences, FirstInv, Intents, Crash
<1>6. NoIntentInv'
  BY ClientAssumption, LimitAssumption DEF TypeOK, Sequences, NoIntentInv, Intents,
         Crash
<1> QED
  BY <1>1, <1>2, <1>3, <1>4, <1>5, <1>6

-----------------------------------------------------------------------------
\* The invariant holds initially.
LEMMA InitInvariant ==
    ASSUME Init PROVE InductiveInvariant
<1> USE ClientAssumption, LimitAssumption DEF Init, Sequences
<1>1. TypeOK
  BY DEF TypeOK, Places
<1>2. CoordInv
  BY DEF CoordInv
<1>3. Intents = {}
  BY DEF Intents
<1>4. TicketInv
  BY <1>3 DEF TicketInv, IntentsAreKept, TicketsFollowArrival
<1>5. HoldInv
  BY DEF HoldInv
<1>6. FirstInv /\ NoIntentInv
  BY <1>3 DEF FirstInv, NoIntentInv
<1> QED
  BY <1>1, <1>2, <1>4, <1>5, <1>6 DEF InductiveInvariant

\* Every step preserves the invariant.
LEMMA NextInvariant ==
    ASSUME InductiveInvariant, [Next]_vars PROVE InductiveInvariant'
<1>1. ASSUME NEW c \in Clients,
             StartShared(c) \/ SharedCoordinator(c) \/ SharedStep(c)
      PROVE  InductiveInvariant'
  BY <1>1, StartSharedStep, SharedCoordinatorStep, SharedScanStep, SharedGateStep,
     SharedFlockStep, SharedRecheckStep DEF SharedStep
<1>2. ASSUME NEW c \in Clients,
             StartExclusive(c) \/ IntentCoordinator(c) \/ IntentStep(c)
      PROVE  InductiveInvariant'
  BY <1>2, StartExclusiveStep, IntentCoordinatorStep, IntentScanStep, IntentWriteStep,
     IntentTicketStep DEF IntentStep
<1>3. ASSUME NEW c \in Clients, ExclusiveCoordinator(c) \/ ExclusiveStep(c)
      PROVE  InductiveInvariant'
  BY <1>3, ExclusiveCoordinatorStep, ExclusiveScanStep, ExclusiveGateStep,
     ExclusiveFlockStep DEF ExclusiveStep
<1>4. ASSUME NEW c \in Clients, CloseStep(c) \/ CleanupCoordinator(c)
      PROVE  InductiveInvariant'
  BY <1>4, SharedCloseStep, SharedReleaseStep, ExclusiveCloseStep, ExclusiveReleaseStep,
     ReleaseTicketStep, CleanupScanStep, FailTicketStep, CleanupCoordinatorStep DEF CloseStep
<1>5. ASSUME NEW c \in Clients,
             \/ FailedScan(c) \/ FailedCall(c) \/ CancelWait(c) \/ CancelExclusive(c)
             \/ FailureCoordinator(c) \/ FailureTimeout(c)
      PROVE  InductiveInvariant'
  BY <1>5, FailedScanStep, FailedCallStep, CancelWaitStep, CancelExclusiveStep,
     FailureCoordinatorStep, FailureTimeoutStep
<1>6. ASSUME NEW c \in Clients, TryGate(c) \/ TryStep(c)
      PROVE  InductiveInvariant'
  BY <1>6, TryGateStep, TryFlockStep, TryCloseStep, TryReleaseStep DEF TryStep
<1>7. ASSUME NEW p \in Procs, Crash(p)
      PROVE  InductiveInvariant'
  BY <1>7, CrashStep
<1>8. ASSUME UNCHANGED vars
      PROVE  InductiveInvariant'
  BY <1>8 DEF vars, fileVars, lockVars, history, InductiveInvariant, TypeOK, CoordInv,
     TicketInv, IntentsAreKept, TicketsFollowArrival, HoldInv, FirstInv, NoIntentInv, Intents
<1> QED
  BY <1>1, <1>2, <1>3, <1>4, <1>5, <1>6, <1>7, <1>8 DEF Next

\* The invariant holds in every reachable state.
THEOREM InvariantHolds == Spec => []InductiveInvariant
  BY InitInvariant, NextInvariant, PTL DEF Spec

\* All variables keep their types; ticket numbers never leave the counter's range
\* because createWriterIntent refuses the last one.
THEOREM TypeCorrect == Spec => []TypeOK
<1>1. InductiveInvariant => TypeOK
  BY DEF InductiveInvariant
<1> QED
  BY InvariantHolds, <1>1, PTL

\* A published intent is never lost, no two writers share a ticket, and ticket
\* numbers follow the order of publication, whatever crashes do to the counter file.
THEOREM IntentsStayInOrder == Spec => []IntentsKeepTheirPlace
<1>1. InductiveInvariant => IntentsKeepTheirPlace
  BY DEF InductiveInvariant, TicketInv, IntentsKeepTheirPlace
<1> QED
  BY InvariantHolds, <1>1, PTL

\* The line of writers stays sound, even at the end of the range of ticket numbers.
THEOREM LineStaysSound == Spec => []LineIsSound
<1>1. TypeOK /\ IntentsKeepTheirPlace => LineIsSound
  BY DEF LineIsSound
<1> QED
  BY <1>1, TypeCorrect, IntentsStayInOrder, PTL

\* A writer holds the lock alone, across processes and within one; process gates
\* exclude like the lock does, and every flock is held under a gate.
THEOREM HoldersExclude == Spec => []MutualExclusion
<1>1. InductiveInvariant => WritersAlone
  BY DEF InductiveInvariant, HoldInv, WritersAlone, Writers, Readers
<1>2. InductiveInvariant => GatesCoverLocks
  BY DEF InductiveInvariant, TypeOK, HoldInv, GatesCoverLocks
<1>3. InductiveInvariant => MutualExclusion
  BY <1>1, <1>2 DEF MutualExclusion
<1> QED
  BY InvariantHolds, <1>3, PTL

-----------------------------------------------------------------------------
(* Refinement: every step is a step of the abstract lock or invisible to it. *)

\* What the users of the lock can see.
Visible == <<arrival, Readers, Writers>>

\* Waiting for, trying and preparing the lock is invisible.
LEMMA QuietSteps ==
    ASSUME InductiveInvariant, NEW c \in Clients,
           \/ StartShared(c) \/ SharedCoordinator(c) \/ SharedScan(c) \/ SharedGate(c)
           \/ SharedFlock(c) \/ SharedRelease(c)
           \/ StartExclusive(c) \/ IntentCoordinator(c) \/ IntentScan(c) \/ IntentWrite(c)
           \/ ExclusiveCoordinator(c) \/ ExclusiveScan(c) \/ ExclusiveGate(c)
           \/ ExclusiveRelease(c) \/ CleanupCoordinator(c) \/ CleanupScan(c)
           \/ FailedScan(c) \/ FailedCall(c) \/ CancelWait(c) \/ FailureCoordinator(c)
           \/ FailureTimeout(c) \/ TryGate(c) \/ TryRelease(c)
    PROVE  UNCHANGED Visible
<1> USE DEF InductiveInvariant, TypeOK, Visible, Readers, Writers, Goto, history
<1>1. CASE \/ StartShared(c) \/ SharedCoordinator(c) \/ SharedScan(c) \/ SharedGate(c)
           \/ SharedFlock(c) \/ SharedRelease(c)
  BY <1>1 DEF StartShared, SharedCoordinator, TakeCoordinator, SharedScan, SharedGate,
     SharedFlock, SharedRelease
<1>2. CASE \/ StartExclusive(c) \/ IntentCoordinator(c) \/ IntentScan(c) \/ IntentWrite(c)
  BY <1>2 DEF StartExclusive, IntentCoordinator, TakeCoordinator, IntentScan, IntentWrite
<1>3. CASE \/ ExclusiveCoordinator(c) \/ ExclusiveScan(c) \/ ExclusiveGate(c)
           \/ ExclusiveRelease(c) \/ CleanupCoordinator(c) \/ CleanupScan(c)
  BY <1>3 DEF ExclusiveCoordinator, TakeCoordinator, ExclusiveScan, ExclusiveGate,
     ExclusiveRelease, CleanupCoordinator, CleanupScan
<1>4. CASE \/ FailedScan(c) \/ FailedCall(c) \/ CancelWait(c) \/ FailureCoordinator(c)
           \/ FailureTimeout(c)
  BY <1>4 DEF FailedScan, FailedCall, Fail, CancelWait, FailureCoordinator, TakeCoordinator,
     FailureTimeout
<1>5. CASE TryGate(c) \/ TryRelease(c)
  BY <1>5 DEF TryGate, TryRelease
<1> QED
  BY <1>1, <1>2, <1>3, <1>4, <1>5

\* The abstract lock's waiting clients are the clients with a published intent.
LEMMA WaitingAreIntents ==
    ASSUME InductiveInvariant PROVE Lock!Waiting = Intents
  BY DEF InductiveInvariant, TicketInv, Lock!Waiting, Intents

\* Holders of the lock are the clients with a flock that is in use.
LEMMA HoldersHaveFlocks ==
    ASSUME InductiveInvariant
    PROVE  Readers \subseteq lockR /\ Writers = lockW
  BY DEF InductiveInvariant, TypeOK, HoldInv, Readers, Writers

\* A reader that passes its second scan is admitted while no intent is published
\* and no writer holds the lock.
LEMMA ReaderRefines ==
    ASSUME InductiveInvariant, NEW c \in Clients, SharedRecheck(c)
    PROVE  Lock!AdmitReader(c) \/ UNCHANGED Visible
<1> USE DEF InductiveInvariant, TypeOK
<1>1. Intents = {} /\ Lock!Waiting = {}
  BY WaitingAreIntents DEF SharedRecheck, NoIntentInv
<1>2. Writers = {}
  BY HoldersHaveFlocks DEF SharedRecheck, HoldInv
<1>3. UNCHANGED <<arrival, Writers>>
  BY DEF SharedRecheck, history, Writers
<1>4. Readers' = Readers \cup {c} \/ Readers' = Readers
  BY DEF SharedRecheck, Readers
<1> QED
  BY <1>1, <1>2, <1>3, <1>4 DEF Lock!AdmitReader, Visible

\* A writer that gets the flock holds the first intent, and nobody has the lock.
LEMMA WriterRefines ==
    ASSUME InductiveInvariant, NEW c \in Clients, ExclusiveFlock(c)
    PROVE  Lock!AdmitWriter(c) \/ UNCHANGED Visible
<1> USE DEF InductiveInvariant, TypeOK
<1>1. c \in Intents /\ \A d \in Intents : ticket[c] <= ticket[d]
  BY DEF ExclusiveFlock, FirstInv, Intents
<1>2. \A d \in Intents : arrival[c] <= arrival[d]
  BY <1>1 DEF TicketInv, TicketsFollowArrival, Intents
<1>3. UNCHANGED <<arrival, Readers>>
  BY DEF ExclusiveFlock, history, Readers
<1>4. CASE FlockFreeForWriter
  <2>1. Readers = {} /\ Writers = {}
    BY <1>4, HoldersHaveFlocks DEF FlockFreeForWriter
  <2>2. Writers' = {c}
    BY <1>4, <2>1 DEF ExclusiveFlock, Writers
  <2> QED
    BY <1>1, <1>2, <1>3, <2>1, <2>2, WaitingAreIntents DEF Lock!AdmitWriter
<1>5. CASE ~FlockFreeForWriter
  <2>1. Writers' = Writers
    BY <1>5 DEF ExclusiveFlock, Writers
  <2> QED
    BY <1>3, <2>1 DEF Visible
<1> QED
  BY <1>4, <1>5

\* Acquire gets the flock while nobody has the lock.
LEMMA TryRefines ==
    ASSUME InductiveInvariant, NEW c \in Clients, TryFlock(c)
    PROVE  Lock!AdmitTry(c) \/ UNCHANGED Visible
<1> USE DEF InductiveInvariant, TypeOK
<1>1. UNCHANGED <<arrival, Readers>>
  BY DEF TryFlock, history, Readers
<1>2. CASE FlockFreeForWriter /\ pc' = [pc EXCEPT ![c] = "tried"]
  <2>1. Readers = {} /\ Writers = {}
    BY <1>2, HoldersHaveFlocks DEF FlockFreeForWriter
  <2>2. Writers' = {c}
    BY <1>2, <2>1 DEF TryFlock, Writers
  <2>3. c \notin Lock!Waiting
    BY WaitingAreIntents DEF TryFlock, Intents
  <2> QED
    BY <1>1, <2>1, <2>2, <2>3 DEF Lock!AdmitTry
<1>3. CASE pc' = [pc EXCEPT ![c] = "idle"]
  <2>1. Writers' = Writers
    BY <1>3 DEF TryFlock, Writers
  <2> QED
    BY <1>1, <2>1 DEF Visible
<1> QED
  BY <1>2, <1>3 DEF TryFlock

\* A new intent comes after all published ones.
LEMMA PublishRefines ==
    ASSUME InductiveInvariant, NEW c \in Clients, IntentTicket(c)
    PROVE  Lock!Publish(c) \/ UNCHANGED Visible
<1> USE DEF InductiveInvariant, TypeOK
<1>1. UNCHANGED <<Readers, Writers>>
  BY DEF IntentTicket, Readers, Writers
<1>2. CASE pc'[c] = "xWait"
  <2>1. arrival' = [arrival EXCEPT ![c] = arrivals + 1]
    BY <1>2 DEF IntentTicket
  <2>2. c \notin Intents
    BY DEF IntentTicket, Intents
  <2>3. \A d \in Intents : arrival[d] < arrivals + 1
    BY DEF TicketInv, Intents
  <2>4. arrival'[c] = arrivals + 1 /\ arrivals + 1 \in Nat \ {0}
    BY <2>1
  <2> QED
    BY <1>1, <2>1, <2>2, <2>3, <2>4, WaitingAreIntents DEF Lock!Publish, Lock!PublishAt
<1>3. CASE pc'[c] # "xWait"
  <2>1. UNCHANGED arrival
    BY <1>3 DEF IntentTicket, history
  <2> QED
    BY <1>1, <2>1 DEF Visible
<1> QED
  BY <1>2, <1>3

\* Closing a lock is leaving it.
LEMMA CloseRefines ==
    ASSUME InductiveInvariant, NEW c \in Clients,
           SharedClose(c) \/ ExclusiveClose(c) \/ TryClose(c)
    PROVE  Lock!Leave(c)
<1> USE DEF InductiveInvariant, TypeOK, Goto
<1>1. UNCHANGED arrival
  BY DEF SharedClose, ExclusiveClose, TryClose, history
<1>2. Readers' = Readers \ {c} /\ Writers' = Writers \ {c}
  BY DEF SharedClose, ExclusiveClose, TryClose, Readers, Writers
<1> QED
  BY <1>1, <1>2 DEF Lock!Leave

\* A ticket is dropped by a client that does not hold the lock.
LEMMA WithdrawRefines ==
    ASSUME InductiveInvariant, NEW c \in Clients,
           ReleaseTicket(c) \/ FailTicket(c) \/ CancelExclusive(c)
    PROVE  Lock!Withdraw(c)
<1> USE DEF InductiveInvariant, TypeOK, Goto
<1>1. arrival' = [arrival EXCEPT ![c] = 0]
  BY DEF ReleaseTicket, FailTicket, CancelExclusive, DropTicket
<1>2. UNCHANGED <<Readers, Writers>> /\ c \notin Writers
  BY DEF ReleaseTicket, FailTicket, CancelExclusive, DropTicket, Readers, Writers
<1> QED
  BY <1>1, <1>2 DEF Lock!Withdraw

\* A crash takes the clients of one process out of the lock.
LEMMA CrashRefines ==
    ASSUME InductiveInvariant, NEW p \in Procs, Crash(p)
    PROVE  \E S \in SUBSET Clients : Lock!Crash(S)
<1> DEFINE dead == {c \in Clients : ProcOf[c] = p}
<1> USE DEF InductiveInvariant, TypeOK
<1>1. arrival' = [c \in Clients |-> IF c \in dead THEN 0 ELSE arrival[c]]
  BY DEF Crash
<1>2. Readers' = Readers \ dead /\ Writers' = Writers \ dead
  BY DEF Crash, Readers, Writers
<1>3. Lock!Crash(dead)
  BY <1>1, <1>2 DEF Lock!Crash
<1> QED
  BY <1>3

\* Every step of the lock files is a step of the abstract lock or invisible.
LEMMA NextRefines ==
    ASSUME InductiveInvariant, [Next]_vars PROVE [Lock!Next]_Lock!vars
<1>1. ASSUME NEW c \in Clients,
             StartShared(c) \/ SharedCoordinator(c) \/ SharedStep(c)
      PROVE  Lock!AdmitReader(c) \/ UNCHANGED Visible
  BY <1>1, QuietSteps, ReaderRefines DEF SharedStep
<1>2. ASSUME NEW c \in Clients,
             StartExclusive(c) \/ IntentCoordinator(c) \/ IntentStep(c)
      PROVE  Lock!Publish(c) \/ UNCHANGED Visible
  BY <1>2, QuietSteps, PublishRefines DEF IntentStep
<1>3. ASSUME NEW c \in Clients, ExclusiveCoordinator(c) \/ ExclusiveStep(c)
      PROVE  Lock!AdmitWriter(c) \/ UNCHANGED Visible
  BY <1>3, QuietSteps, WriterRefines DEF ExclusiveStep
<1>4. ASSUME NEW c \in Clients, CloseStep(c) \/ CleanupCoordinator(c)
      PROVE  Lock!Leave(c) \/ Lock!Withdraw(c) \/ UNCHANGED Visible
  BY <1>4, QuietSteps, CloseRefines, WithdrawRefines DEF CloseStep
<1>5. ASSUME NEW c \in Clients,
             \/ FailedScan(c) \/ FailedCall(c) \/ CancelWait(c) \/ CancelExclusive(c)
             \/ FailureCoordinator(c) \/ FailureTimeout(c)
      PROVE  Lock!Withdraw(c) \/ UNCHANGED Visible
  BY <1>5, QuietSteps, WithdrawRefines
<1>6. ASSUME NEW c \in Clients, TryGate(c) \/ TryStep(c)
      PROVE  Lock!AdmitTry(c) \/ Lock!Leave(c) \/ UNCHANGED Visible
  BY <1>6, QuietSteps, TryRefines, CloseRefines DEF TryStep
<1>7. ASSUME NEW p \in Procs, Crash(p)
      PROVE  \E S \in SUBSET Clients : Lock!Crash(S)
  BY <1>7, CrashRefines
<1>8. ASSUME UNCHANGED vars
      PROVE  UNCHANGED Visible
  BY <1>8 DEF vars, history, Visible, Readers, Writers
<1>9. UNCHANGED Visible => UNCHANGED Lock!vars
  BY DEF Visible, Lock!vars
<1> QED
  BY <1>1, <1>2, <1>3, <1>4, <1>5, <1>6, <1>7, <1>8, <1>9 DEF Next, Lock!Next

\* The lock files implement the abstract fair lock, for any number of clients,
\* processes, crashes and failures.
THEOREM LockIsFair == Spec => ImplementsFairLock
<1>1. Init => Lock!Init
  BY DEF Init, Lock!Init, Readers, Writers
<1> QED
  BY <1>1, InvariantHolds, NextRefines, PTL DEF Spec, ImplementsFairLock, Lock!Spec

\* While an intent is published nobody becomes a reader: later queries cannot
\* keep an activation waiting.
THEOREM IntentsBlockReaders == Spec => IntentBlocksReaders
<1>1. ASSUME InductiveInvariant, [Lock!Next]_Lock!vars
      PROVE  Intents # {} => Readers' \subseteq Readers
  BY <1>1, WaitingAreIntents DEF Lock!Next, Lock!vars, Lock!Publish, Lock!PublishAt,
     Lock!AdmitReader,
     Lock!AdmitWriter, Lock!AdmitTry, Lock!Leave, Lock!Withdraw, Lock!Crash
<1>2. ASSUME InductiveInvariant, [Next]_vars
      PROVE  [Intents # {} => Readers' \subseteq Readers]_vars
  BY <1>1, <1>2, NextRefines
<1> QED
  BY <1>2, InvariantHolds, PTL DEF Spec, IntentBlocksReaders

\* Only tryAcquireFileLock makes a waiting writer the holder.
LEMMA OnlyFlockAdmits ==
    ASSUME TypeOK, [Next]_vars, NEW c \in Clients, pc[c] # "exclusive", pc'[c] = "exclusive"
    PROVE  ExclusiveFlock(c)
<1> USE DEF TypeOK, Goto, TakeCoordinator
<1>1. ASSUME NEW d \in Clients, StartShared(d) \/ SharedCoordinator(d) \/ SharedStep(d)
      PROVE  FALSE
  BY <1>1 DEF StartShared, SharedCoordinator, SharedStep, SharedScan, SharedGate,
     SharedFlock, SharedRecheck
<1>2. ASSUME NEW d \in Clients, StartExclusive(d) \/ IntentCoordinator(d) \/ IntentStep(d)
      PROVE  FALSE
  BY <1>2 DEF StartExclusive, IntentCoordinator, IntentStep, IntentScan, IntentWrite,
     IntentTicket
<1>3. ASSUME NEW d \in Clients, ExclusiveCoordinator(d) \/ ExclusiveStep(d)
      PROVE  ExclusiveFlock(c)
  BY <1>3 DEF ExclusiveCoordinator, ExclusiveStep, ExclusiveScan, ExclusiveGate,
     ExclusiveFlock
<1>4. ASSUME NEW d \in Clients, CloseStep(d) \/ CleanupCoordinator(d)
      PROVE  FALSE
  BY <1>4 DEF CloseStep, SharedClose, SharedRelease, ExclusiveClose, ExclusiveRelease,
     ReleaseTicket, CleanupScan, FailTicket, DropTicket, CleanupCoordinator
<1>5. ASSUME NEW d \in Clients,
             \/ FailedScan(d) \/ FailedCall(d) \/ CancelWait(d) \/ CancelExclusive(d)
             \/ FailureCoordinator(d) \/ FailureTimeout(d)
      PROVE  FALSE
  BY <1>5 DEF FailedScan, FailedCall, Fail, CancelWait, CancelExclusive, DropTicket,
     FailureCoordinator, FailureTimeout
<1>6. ASSUME NEW d \in Clients, TryGate(d) \/ TryStep(d)
      PROVE  FALSE
  BY <1>6 DEF TryGate, TryStep, TryFlock, TryClose, TryRelease
<1>7. ASSUME NEW p \in Procs, Crash(p)
      PROVE  FALSE
  BY <1>7 DEF Crash
<1>8. ~ UNCHANGED vars
  BY DEF vars
<1> QED
  BY <1>1, <1>2, <1>3, <1>4, <1>5, <1>6, <1>7, <1>8 DEF Next

\* Whoever becomes the exclusive holder published its intent before every other
\* writer still waiting: later writers cannot overtake.
THEOREM WritersServedInOrder == Spec => WritersInOrder
<1>1. ASSUME InductiveInvariant, NEW c \in Clients, ExclusiveFlock(c)
      PROVE  \A d \in Intents : arrival[c] <= arrival[d]
  <2>1. c \in Intents /\ \A d \in Intents : ticket[c] <= ticket[d]
    BY <1>1 DEF InductiveInvariant, ExclusiveFlock, FirstInv, Intents
  <2> QED
    BY <1>1, <2>1 DEF InductiveInvariant, TypeOK, TicketInv, TicketsFollowArrival, Intents
<1>2. ASSUME InductiveInvariant, [Next]_vars
      PROVE  [\A c \in Clients : (pc[c] # "exclusive" /\ pc'[c] = "exclusive") =>
                  \A d \in Intents : arrival[c] <= arrival[d]]_vars
  BY <1>1, <1>2, OnlyFlockAdmits DEF InductiveInvariant
<1> QED
  BY <1>2, InvariantHolds, PTL DEF Spec, WritersInOrder
=============================================================================
