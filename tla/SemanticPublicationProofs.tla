----------------------- MODULE SemanticPublicationProofs -----------------------
(***************************************************************************)
(* Nothing the catalog or a query refers to is ever missing on disk, for   *)
(* every number of builders, queries, segments, generations and faults.    *)
(***************************************************************************)
EXTENDS SemanticPublication, FiniteSetTheorems, TLAPS

Publishing(b) == builder[b].pc \in {"segment", "root", "activate"}

(* Who is at work under the exclusive leases holds them, and a query reads a
   catalogued generation only while nobody does. *)
Held ==
    /\ \A b \in Builders : Publishing(b) => holder = b
    /\ collector.pc # "idle" => holder = Collector
    /\ \A r \in Readers : reading[r] # None => holder = None /\ reading[r] \in catalog

(* A catalogued generation is whole, and not empty, so that no root is published
   over it; an active one is catalogued. *)
Catalogued ==
    /\ \A g \in catalog : Intact(g) /\ contents[g] \subseteq rows /\ contents[g] # {}
    /\ active \in catalog \cup {0}

(* A stage writes a generation that did not exist; what it activates is whole. *)
Built ==
    \A b \in Builders :
        /\ builder[b].pc \in {"segment", "root"} =>
              builder[b].gen \in Generations /\ contents[builder[b].gen] = {}
              /\ builder[b].contents # {}
        /\ builder[b].pc = "activate" =>
              builder[b].gen \in Generations /\ contents[builder[b].gen] # {}
              /\ Intact(builder[b].gen)

(* From the pruning on, the collector's plan keeps all that is catalogued. *)
Planned ==
    /\ collector.pc \in {"scan", "remove"} =>
          catalog \subseteq collector.retained
          /\ \A g \in catalog : contents[g] \subseteq collector.retained
    /\ collector.todo \cap collector.retained = {}
    /\ collector.todo # {} => collector.pc = "remove"

IInv == TypeOK /\ Held /\ Catalogued /\ Built /\ Planned

(* What is only added to, on disk, stays whole. *)
LEMMA IntactStays ==
    ASSUME TypeOK, NEW g \in Generations, Intact(g), contents'[g] = contents[g],
           \A a \in Artifacts : disk[a] = "whole" => disk'[a] = "whole"
    PROVE  Intact(g)'
<1>1. g \in Artifacts /\ contents[g] \subseteq Artifacts
    BY DEF TypeOK, Artifacts
<1> QED
    BY <1>1 DEF Intact

(* What the collector has yet to remove is part of no catalogued generation. *)
LEMMA TodoIsForeign ==
    ASSUME IInv, NEW a \in collector.todo, NEW g \in catalog,
           disk' = [disk EXCEPT ![a] = "absent"] \/ disk' = [disk EXCEPT ![a] = "torn"],
           contents' = contents
    PROVE  Intact(g)'
<1>1. collector.pc = "remove"
    BY DEF IInv, Planned
<1>2. a \notin collector.retained
    BY DEF IInv, Planned
<1>3. g \in collector.retained /\ contents[g] \subseteq collector.retained
    BY <1>1 DEF IInv, Planned
<1>4. Intact(g) /\ g \in Artifacts /\ contents[g] \subseteq Artifacts
    BY DEF IInv, TypeOK, Catalogued, Artifacts
<1>5. a # g /\ a \notin contents[g]
    BY <1>2, <1>3
<1> QED
    BY <1>4, <1>5 DEF Intact, IInv, TypeOK

(* The generations a pruning keeps are among the catalogued ones. *)
LEMMA RetainedIsCatalogued ==
    ASSUME IInv, pointer \in catalog \cup {0}
    PROVE  Retained \subseteq catalog /\ active \in Retained \cup {0}
    BY DEF IInv, TypeOK, Catalogued, Retained, Newest

(* The clock changes no reference. *)
LEMMA TimePassesStep ==
    ASSUME IInv, TimePasses
    PROVE  IInv'
<1>1. TypeOK'
    BY DEF IInv, TypeOK, Generations, Artifacts, TimePasses,
       files, database, runs
<1>2. Held'
    BY PublicationAssumption DEF IInv, TypeOK, Held, Publishing, TimePasses,
       files, database, runs
<1>3. Catalogued'
    BY DEF IInv, TypeOK, Catalogued, Intact, TimePasses,
       files, database, runs
<1>4. Built'
    BY DEF IInv, TypeOK, Built, Intact, TimePasses,
       files, database, runs
<1>5. Planned'
    BY DEF IInv, TypeOK, Planned, TimePasses,
       files, database, runs
<1> QED
    BY <1>1, <1>2, <1>3, <1>4, <1>5 DEF IInv

(* A purge gives up references only. *)
LEMMA PurgeItemStep ==
    ASSUME IInv, PurgeItem
    PROVE  IInv'
<1>1. TypeOK'
    BY PublicationAssumption DEF IInv, TypeOK, Generations, Artifacts, PurgeItem, Unlocked, Disturbed,
       files, database, runs
<1>2. Held'
    BY PublicationAssumption DEF IInv, TypeOK, Held, Publishing, PurgeItem, Unlocked, Disturbed,
       files, database, runs
<1>3. Catalogued'
    BY DEF IInv, TypeOK, Catalogued, Intact, PurgeItem, Unlocked, Disturbed,
       files, database, runs
<1>4. Built'
    BY DEF IInv, TypeOK, Built, Intact, PurgeItem, Unlocked, Disturbed,
       files, database, runs
<1>5. Planned'
    BY DEF IInv, TypeOK, Planned, PurgeItem, Unlocked, Disturbed,
       files, database, runs
<1> QED
    BY <1>1, <1>2, <1>3, <1>4, <1>5 DEF IInv

(* A query opens the active generation, which is catalogued. *)
LEMMA OpenActiveStep ==
    ASSUME IInv, NEW r \in Readers, OpenActive(r)
    PROVE  IInv'
<1>1. TypeOK'
    BY DEF IInv, TypeOK, Generations, Artifacts, OpenActive,
       files, database, runs
<1>2. Held'
    BY PublicationAssumption DEF IInv, TypeOK, Held, Publishing, Catalogued, OpenActive,
       files, database, runs
<1>3. Catalogued'
    BY DEF IInv, TypeOK, Catalogued, Intact, OpenActive,
       files, database, runs
<1>4. Built'
    BY DEF IInv, TypeOK, Built, Intact, OpenActive,
       files, database, runs
<1>5. Planned'
    BY DEF IInv, TypeOK, Planned, OpenActive,
       files, database, runs
<1> QED
    BY <1>1, <1>2, <1>3, <1>4, <1>5 DEF IInv

(* A query ends. *)
LEMMA CloseRootStep ==
    ASSUME IInv, NEW r \in Readers, CloseRoot(r)
    PROVE  IInv'
<1>1. TypeOK'
    BY DEF IInv, TypeOK, Generations, Artifacts, CloseRoot,
       files, database, runs
<1>2. Held'
    BY PublicationAssumption DEF IInv, TypeOK, Held, Publishing, CloseRoot,
       files, database, runs
<1>3. Catalogued'
    BY DEF IInv, TypeOK, Catalogued, Intact, CloseRoot,
       files, database, runs
<1>4. Built'
    BY DEF IInv, TypeOK, Built, Intact, CloseRoot,
       files, database, runs
<1>5. Planned'
    BY DEF IInv, TypeOK, Planned, CloseRoot,
       files, database, runs
<1> QED
    BY <1>1, <1>2, <1>3, <1>4, <1>5 DEF IInv

(* A refresh that starts publishes nothing yet. *)
LEMMA StartRunStep ==
    ASSUME IInv, NEW b \in Builders, StartRun(b)
    PROVE  IInv'
<1>1. TypeOK'
    BY DEF IInv, TypeOK, Generations, Artifacts, StartRun, At, NoBuild,
       files, database, runs
<1>2. Held'
    BY PublicationAssumption DEF IInv, TypeOK, Held, Publishing, StartRun, At, NoBuild,
       files, database, runs
<1>3. Catalogued'
    BY DEF IInv, TypeOK, Catalogued, Intact, StartRun, At, NoBuild,
       files, database, runs
<1>4. Built'
    BY DEF IInv, TypeOK, Built, Intact, StartRun, At, NoBuild,
       files, database, runs
<1>5. Planned'
    BY DEF IInv, TypeOK, Planned, StartRun, At, NoBuild,
       files, database, runs
<1> QED
    BY <1>1, <1>2, <1>3, <1>4, <1>5 DEF IInv

(* A refresh that ends publishes nothing any more. *)
LEMMA CompleteRunStep ==
    ASSUME IInv, NEW b \in Builders, CompleteRun(b)
    PROVE  IInv'
<1>1. TypeOK'
    BY DEF IInv, TypeOK, Generations, Artifacts, CompleteRun, At, NoBuild,
       files, database, runs
<1>2. Held'
    BY PublicationAssumption DEF IInv, TypeOK, Held, Publishing, CompleteRun, At, NoBuild,
       files, database, runs
<1>3. Catalogued'
    BY DEF IInv, TypeOK, Catalogued, Intact, CompleteRun, At, NoBuild,
       files, database, runs
<1>4. Built'
    BY DEF IInv, TypeOK, Built, Intact, CompleteRun, At, NoBuild,
       files, database, runs
<1>5. Planned'
    BY DEF IInv, TypeOK, Planned, CompleteRun, At, NoBuild,
       files, database, runs
<1> QED
    BY <1>1, <1>2, <1>3, <1>4, <1>5 DEF IInv

(* A stage begins with a generation that does not exist yet. *)
LEMMA BeginStageStep ==
    ASSUME IInv, NEW b \in Builders, BeginStage(b)
    PROVE  IInv'
<1>1. Current \subseteq Segments
    BY DEF IInv, TypeOK, Current
<1>2. PICK g \in Generations : IsNext(g) /\ (Flush(b, g) \/ Compact(b, g))
    BY DEF BeginStage
<1>3. PICK s \in Segments \cup {None}, new \in (SUBSET Segments) \ {{}} : Publishes(b, g, s, new)
    <2>1. CASE Flush(b, g)
        <3>1. PICK s \in Segments \ Current : Publishes(b, g, s, Current \cup {s})
            BY <2>1 DEF Flush
        <3>2. Current \cup {s} \in (SUBSET Segments) \ {{}}
            BY <1>1
        <3> QED
            BY <3>1, <3>2
    <2>2. CASE Compact(b, g)
        <3>1. PICK selected \in (SUBSET Current) \ {{}} :
                  \/ \E s \in Segments \ Current : Publishes(b, g, s, (Current \ selected) \cup {s})
                  \/ Current # selected /\ Publishes(b, g, None, Current \ selected)
            BY <2>2 DEF Compact
        <3>2. /\ \A s \in Segments : (Current \ selected) \cup {s} \in (SUBSET Segments) \ {{}}
              /\ Current # selected => Current \ selected \in (SUBSET Segments) \ {{}}
            BY <1>1
        <3> QED
            BY <3>1, <3>2
    <2> QED
        BY <1>2, <2>1, <2>2
<1>4. PICK pc \in {"segment", "root"} :
          builder' = [builder EXCEPT ![b] = [pc |-> pc, segment |-> s, contents |-> new, gen |-> g]]
    BY <1>3 DEF Publishes
<1>5. TypeOK'
    BY <1>4 DEF IInv, TypeOK, BeginStage, files, database, runs
<1>6. Held'
    BY <1>4, PublicationAssumption
       DEF IInv, TypeOK, Held, Publishing, BeginStage, Unlocked, files, database, runs
<1>7. Catalogued'
    BY DEF IInv, Catalogued, Intact, BeginStage, files, database, runs
<1>8. Built'
    <2>1. UNCHANGED <<contents, disk>> /\ contents[g] = {} /\ new # {}
        BY <1>2, <1>3 DEF IsNext, BeginStage, files, database
    <2>2. \A c \in Builders \ {b} : builder'[c] = builder[c]
        BY <1>4 DEF IInv, TypeOK
    <2>3. builder'[b].pc = pc /\ builder'[b].gen = g /\ builder'[b].contents = new
        BY <1>4 DEF IInv, TypeOK
    <2> QED
        BY <1>2, <2>1, <2>2, <2>3 DEF IInv, Built, Intact
<1>9. Planned'
    BY DEF IInv, Planned, BeginStage, files, database, runs
<1> QED
    BY <1>5, <1>6, <1>7, <1>8, <1>9 DEF IInv

(* A segment is added on disk. *)
LEMMA PublishSegmentStep ==
    ASSUME IInv, NEW b \in Builders, PublishSegment(b)
    PROVE  IInv'
<1>1. /\ UNCHANGED <<database, runs, reading, collector, used>> /\ builder[b].pc = "segment"
      /\ \/ /\ builder' = [builder EXCEPT ![b] = [builder[b] EXCEPT !.pc = "root"]]
            /\ holder' = holder
         \/ /\ builder' = [builder EXCEPT ![b] = [builder[b] EXCEPT !.pc = "stage"]]
            /\ holder' = None
    BY DEF PublishSegment, Leaves, At
<1>2. /\ disk' \in [Artifacts -> {"absent", "whole", "torn"}] /\ old' \subseteq Artifacts
      /\ \A a \in Artifacts : disk[a] = "whole" => disk'[a] = "whole"
    BY DEF IInv, TypeOK, PublishSegment, Put, files
<1>3. TypeOK'
    BY <1>1, <1>2 DEF IInv, TypeOK, database, runs
<1>4. Held'
    BY <1>1, PublicationAssumption DEF IInv, TypeOK, Held, Publishing, database
<1>5. Catalogued'
    BY <1>1, <1>2, IntactStays DEF IInv, TypeOK, Catalogued, database
<1>6. Built'
    BY <1>1, <1>2, IntactStays DEF IInv, TypeOK, Built, database
<1>7. Planned'
    BY <1>1 DEF IInv, Planned, database
<1> QED
    BY <1>3, <1>4, <1>5, <1>6, <1>7 DEF IInv

(* A root is added on disk, over no catalogued generation. *)
LEMMA PublishRootStep ==
    ASSUME IInv, NEW b \in Builders, PublishRoot(b)
    PROVE  IInv'
<1> DEFINE g == builder[b].gen
           new == builder[b].contents
<1>1. /\ UNCHANGED <<catalog, stale, recent, rows, active, runs, reading, collector, used>>
      /\ contents' = [contents EXCEPT ![g] = new] /\ builder[b].pc = "root"
    BY DEF PublishRoot, At
<1>2. /\ g \in Generations /\ contents[g] = {} /\ new # {} /\ new \subseteq Segments
      /\ holder = b /\ g \notin catalog
    BY <1>1 DEF IInv, TypeOK, Held, Publishing, Built, Catalogued
<1>3. PICK pc \in {"activate", "stage"} :
          /\ builder' = [builder EXCEPT ![b] = [builder[b] EXCEPT !.pc = pc]]
          /\ \/ /\ pc = "activate" /\ holder' = holder
                /\ \A s \in new : disk[s] = "whole"
                /\ disk' = [disk EXCEPT ![g] = "whole"] /\ old' = old \ {g}
             \/ pc = "stage" /\ holder' = None /\ disk' = disk /\ old' = old
    BY DEF PublishRoot, Leaves, Put, files
<1>4. /\ disk' \in [Artifacts -> {"absent", "whole", "torn"}] /\ old' \subseteq Artifacts
      /\ \A a \in Artifacts : disk[a] = "whole" => disk'[a] = "whole"
    BY <1>3 DEF IInv, TypeOK
<1>5. TypeOK'
    BY <1>1, <1>2, <1>3, <1>4 DEF IInv, TypeOK, runs
<1>6. Held'
    BY <1>1, <1>2, <1>3, PublicationAssumption DEF IInv, TypeOK, Held, Publishing
<1>7. \A h \in Generations \ {g} : contents'[h] = contents[h]
    BY <1>1 DEF IInv, TypeOK
<1>8. Catalogued'
    BY <1>1, <1>2, <1>4, <1>7, IntactStays DEF IInv, TypeOK, Catalogued
<1>9. Built'
    <2> SUFFICES ASSUME NEW c \in Builders, Publishing(c)'
                 PROVE  c = b /\ builder'[c].pc = "activate" /\ builder'[c].gen = g
                        /\ contents'[g] # {} /\ Intact(g)'
        BY <1>2 DEF Built, Publishing
    <2>1. c = b
        BY <1>2, <1>3 DEF IInv, TypeOK, Held, Publishing
    <2>2. builder'[b].pc = pc /\ builder'[b].gen = g
        BY <1>3 DEF IInv, TypeOK
    <2>3. pc = "activate"
        BY <2>1, <2>2 DEF Publishing
    <2>4. contents'[g] = new
        BY <1>1, <1>2 DEF IInv, TypeOK
    <2>5. g \in Artifacts /\ new \subseteq Artifacts
        BY <1>2 DEF Artifacts
    <2>6. disk'[g] = "whole" /\ \A s \in new : disk'[s] = "whole"
        BY <1>3, <2>3, <2>5 DEF IInv, TypeOK
    <2> QED
        BY <1>2, <2>1, <2>2, <2>3, <2>4, <2>6 DEF Intact
<1>10. Planned'
    BY <1>1, <1>2, PublicationAssumption DEF IInv, Held, Planned
<1> QED
    BY <1>5, <1>6, <1>8, <1>9, <1>10 DEF IInv

(* Only a whole generation is activated. *)
LEMMA ActivateStep ==
    ASSUME IInv, NEW b \in Builders, Activate(b)
    PROVE  IInv'
<1> DEFINE g == builder[b].gen
<1>1. /\ g \in Generations /\ contents[g] # {} /\ Intact(g) /\ holder = b
      /\ builder[b].pc = "activate"
    BY DEF Activate, At, IInv, Built, Held, Publishing
<1>2. /\ UNCHANGED <<files, contents, stale, runs, reading, collector, used>>
      /\ catalog' = catalog \cup {g} /\ recent' = recent \cup {g} \cup ({active} \ {0})
      /\ rows' = rows \cup contents[g] /\ active' = g /\ holder' = None
      /\ builder' = [builder EXCEPT ![b] = [builder[b] EXCEPT !.pc = "record"]]
    BY DEF Activate, Leaves
<1>3. TypeOK'
    BY <1>1, <1>2 DEF IInv, TypeOK, Catalogued, files, runs
<1>4. Held'
    BY <1>1, <1>2, PublicationAssumption DEF IInv, TypeOK, Held, Publishing
<1>5. Catalogued'
    BY <1>1, <1>2 DEF IInv, Catalogued, Intact, files
<1>6. Built'
    BY <1>2 DEF IInv, TypeOK, Built, Intact, files
<1>7. Planned'
    BY <1>1, <1>2, PublicationAssumption DEF IInv, Held, Planned
<1> QED
    BY <1>3, <1>4, <1>5, <1>6, <1>7 DEF IInv

(* The record of a stage changes the run only. *)
LEMMA RecordStageStep ==
    ASSUME IInv, NEW b \in Builders, RecordStage(b)
    PROVE  IInv'
<1>1. /\ UNCHANGED <<files, database, owner, holder, reading, collector, used>>
      /\ builder' = [builder EXCEPT ![b] = [NoBuild EXCEPT !.pc = "stage"]]
         \/ builder' = [builder EXCEPT ![b] = NoBuild]
      /\ pointer' \in Generations \cup {0}
    BY DEF RecordStage, IInv, TypeOK
<1>2. TypeOK'
    BY <1>1 DEF IInv, TypeOK, NoBuild, files, database
<1>3. Held'
    BY <1>1 DEF IInv, TypeOK, Held, Publishing, NoBuild, database
<1>4. Catalogued'
    BY <1>1 DEF IInv, Catalogued, Intact, files, database
<1>5. Built'
    BY <1>1 DEF IInv, TypeOK, Built, Intact, NoBuild, files, database
<1>6. Planned'
    BY <1>1 DEF IInv, Planned, database
<1> QED
    BY <1>2, <1>3, <1>4, <1>5, <1>6 DEF IInv

(* A crash of a builder gives back its leases and adds to the disk at most. *)
LEMMA CrashBuilderStep ==
    ASSUME IInv, NEW b \in Builders, CrashBuilder(b)
    PROVE  IInv'
<1>1. /\ UNCHANGED <<database, runs, reading, collector>> /\ used' \in 0 .. MaxDisturbances
      /\ builder' = [builder EXCEPT ![b] = NoBuild]
      /\ holder' = IF holder = b THEN None ELSE holder
    BY PublicationAssumption DEF CrashBuilder, Disturbed, IInv, TypeOK
<1>2. /\ disk' \in [Artifacts -> {"absent", "whole", "torn"}] /\ old' \subseteq Artifacts
      /\ \A a \in Artifacts : disk[a] = "whole" => disk'[a] = "whole"
    BY DEF CrashBuilder, Put, IInv, TypeOK, files
<1>3. TypeOK'
    BY <1>1, <1>2 DEF IInv, TypeOK, NoBuild, database, runs
<1>4. Held'
    BY <1>1, PublicationAssumption DEF IInv, TypeOK, Held, Publishing, NoBuild, database
<1>5. Catalogued'
    BY <1>1, <1>2, IntactStays DEF IInv, TypeOK, Catalogued, database
<1>6. Built'
    BY <1>1, <1>2, IntactStays DEF IInv, TypeOK, Built, NoBuild, database
<1>7. Planned'
    BY <1>1 DEF IInv, Planned, database
<1> QED
    BY <1>3, <1>4, <1>5, <1>6, <1>7 DEF IInv

(* A collection begins when no query reads. *)
LEMMA BeginCollectionStep ==
    ASSUME IInv, BeginCollection
    PROVE  IInv'
<1>1. TypeOK'
    BY DEF IInv, TypeOK, Generations, Artifacts, BeginCollection, Unlocked, NoPlan,
       files, database, runs
<1>2. Held'
    BY PublicationAssumption DEF IInv, TypeOK, Held, Publishing, BeginCollection, Unlocked, NoPlan,
       files, database, runs
<1>3. Catalogued'
    BY DEF IInv, TypeOK, Catalogued, Intact, BeginCollection, Unlocked, NoPlan,
       files, database, runs
<1>4. Built'
    BY DEF IInv, TypeOK, Built, Intact, BeginCollection, Unlocked, NoPlan,
       files, database, runs
<1>5. Planned'
    BY DEF IInv, TypeOK, Planned, BeginCollection, Unlocked, NoPlan,
       files, database, runs
<1> QED
    BY <1>1, <1>2, <1>3, <1>4, <1>5 DEF IInv

(* A pruning keeps the segments of every generation it keeps. *)
LEMMA PruneStep ==
    ASSUME IInv, Prune
    PROVE  IInv'
<1> DEFINE kept == UNION {contents[g] : g \in Retained}
<1>1. /\ UNCHANGED <<files, runs, reading, builder, used>>
      /\ collector.pc = "prune" /\ holder = Collector /\ collector.todo = {}
    BY DEF Prune, IInv, Held, Planned
<1>2. CASE pointer \notin catalog \cup {0}
    <2>1. UNCHANGED database /\ EndCollection
        BY <1>2 DEF Prune
    <2>2. TypeOK'
        BY <1>1, <2>1 DEF IInv, TypeOK, EndCollection, NoPlan, files, database, runs
    <2>3. Held'
        BY <1>1, <2>1, PublicationAssumption
           DEF IInv, Held, Publishing, EndCollection, NoPlan, database
    <2>4. Catalogued' /\ Built' /\ Planned'
        BY <1>1, <2>1 DEF IInv, Catalogued, Built, Intact, Planned, EndCollection, NoPlan,
                          files, database
    <2> QED
        BY <2>2, <2>3, <2>4 DEF IInv
<1>3. CASE pointer \in catalog \cup {0}
    <2>1. /\ catalog' = Retained /\ stale' = stale \cap Retained /\ recent' = recent \cap Retained
          /\ rows' = kept /\ UNCHANGED <<contents, active, holder>>
          /\ collector' = [pc |-> "scan", retained |-> Retained \cup kept,
                           prunable |-> (catalog \ Retained) \cup (rows \ kept), todo |-> {}]
        BY <1>3 DEF Prune
    <2>2. Retained \subseteq catalog /\ active \in Retained \cup {0}
        BY <1>3, RetainedIsCatalogued
    <2>3. kept \subseteq Segments /\ \A g \in Retained : contents[g] \subseteq kept
        BY <2>2 DEF IInv, TypeOK
    <2>4. TypeOK'
        <3>1. collector' \in [pc : {"idle", "prune", "scan", "remove"}, retained : SUBSET Artifacts,
                              prunable : SUBSET Artifacts, todo : SUBSET Artifacts]
            <4> HIDE DEF kept
            <4> QED
                BY <2>1, <2>2, <2>3 DEF IInv, TypeOK, Artifacts
        <3> HIDE DEF kept
        <3> QED
            BY <1>1, <2>1, <2>2, <2>3, <3>1 DEF IInv, TypeOK, files, runs
    <2> HIDE DEF kept
    <2>5. Held'
        BY <1>1, <2>1, PublicationAssumption DEF IInv, Held, Publishing
    <2>6. Catalogued'
        BY <1>1, <2>1, <2>2, <2>3 DEF IInv, Catalogued, Intact, files
    <2>7. Built' /\ Planned'
        BY <1>1, <2>1, <2>3 DEF IInv, Built, Intact, Planned, files
    <2> QED
        BY <2>4, <2>5, <2>6, <2>7 DEF IInv
<1> QED
    BY <1>2, <1>3

(* The scan plans nothing that is retained. *)
LEMMA ScanStep ==
    ASSUME IInv, Scan
    PROVE  IInv'
<1>1. TypeOK'
    BY DEF IInv, TypeOK, Generations, Artifacts, Scan,
       files, database, runs
<1>2. Held'
    BY PublicationAssumption DEF IInv, TypeOK, Held, Publishing, Scan,
       files, database, runs
<1>3. Catalogued'
    BY DEF IInv, TypeOK, Catalogued, Intact, Scan,
       files, database, runs
<1>4. Built'
    BY DEF IInv, TypeOK, Built, Intact, Scan,
       files, database, runs
<1>5. Planned'
    BY DEF IInv, TypeOK, Planned, Scan,
       files, database, runs
<1> QED
    BY <1>1, <1>2, <1>3, <1>4, <1>5 DEF IInv

(* A removal concerns nothing the catalog refers to. *)
LEMMA RemoveStep ==
    ASSUME IInv, NEW a \in Artifacts, Remove(a)
    PROVE  IInv'
<1>1. /\ UNCHANGED <<database, runs, holder, reading, builder, used>>
      /\ collector.pc = "remove" /\ a \in collector.todo /\ holder = Collector
      /\ disk' = [disk EXCEPT ![a] = "absent"] /\ old' = old \ {a}
      /\ collector' = [collector EXCEPT !.todo = collector.todo \ {a}]
    BY DEF Remove, Put, IInv, Held
<1>2. TypeOK'
    BY <1>1 DEF IInv, TypeOK, database, runs
<1>3. Held'
    BY <1>1 DEF IInv, TypeOK, Held, Publishing, database
<1>4. Catalogued'
    BY <1>1, TodoIsForeign DEF IInv, Catalogued, database
<1>5. Built'
    BY <1>1, PublicationAssumption DEF IInv, Held, Publishing, Built
<1>6. Planned'
    BY <1>1 DEF IInv, TypeOK, Planned, database
<1> QED
    BY <1>2, <1>3, <1>4, <1>5, <1>6 DEF IInv

(* A removal that fails half way tears nothing the catalog refers to. *)
LEMMA CollectionFailsStep ==
    ASSUME IInv, CollectionFails
    PROVE  IInv'
<1>1. /\ UNCHANGED <<database, runs, reading, builder>> /\ used' \in 0 .. MaxDisturbances
      /\ holder = Collector /\ holder' = None /\ collector' = NoPlan
    BY PublicationAssumption DEF CollectionFails, EndCollection, Disturbed, IInv, TypeOK, Held
<1>2. \/ UNCHANGED files
      \/ \E a \in collector.todo : disk' = [disk EXCEPT ![a] = "torn"] /\ old' = old \ {a}
    BY DEF CollectionFails, Put
<1>3. TypeOK'
    BY <1>1, <1>2 DEF IInv, TypeOK, NoPlan, files, database, runs
<1>4. Held'
    BY <1>1, PublicationAssumption DEF IInv, Held, Publishing, NoPlan, database
<1>5. Catalogued'
    <2>1. CASE UNCHANGED files
        BY <1>1, <2>1 DEF IInv, Catalogued, Intact, files, database
    <2>2. CASE \E a \in collector.todo : disk' = [disk EXCEPT ![a] = "torn"]
        BY <1>1, <2>2, TodoIsForeign DEF IInv, Catalogued, database
    <2> QED
        BY <1>2, <2>1, <2>2
<1>6. Built'
    BY <1>1, PublicationAssumption DEF IInv, Held, Publishing, Built
<1>7. Planned'
    BY <1>1 DEF Planned, NoPlan
<1> QED
    BY <1>3, <1>4, <1>5, <1>6, <1>7 DEF IInv

(* A collection ends. *)
LEMMA CollectionEndsStep ==
    ASSUME IInv, CollectionEnds
    PROVE  IInv'
<1>1. TypeOK'
    BY DEF IInv, TypeOK, Generations, Artifacts, CollectionEnds, EndCollection, NoPlan,
       files, database, runs
<1>2. Held'
    BY PublicationAssumption DEF IInv, TypeOK, Held, Publishing, CollectionEnds, EndCollection, NoPlan,
       files, database, runs
<1>3. Catalogued'
    BY DEF IInv, TypeOK, Catalogued, Intact, CollectionEnds, EndCollection, NoPlan,
       files, database, runs
<1>4. Built'
    BY DEF IInv, TypeOK, Built, Intact, CollectionEnds, EndCollection, NoPlan,
       files, database, runs
<1>5. Planned'
    BY DEF IInv, TypeOK, Planned, CollectionEnds, EndCollection, NoPlan,
       files, database, runs
<1> QED
    BY <1>1, <1>2, <1>3, <1>4, <1>5 DEF IInv

(* No step changes anything: the invariant stays. *)
LEMMA StutterStep ==
    ASSUME IInv, UNCHANGED vars
    PROVE  IInv'
<1>1. TypeOK'
    BY DEF IInv, TypeOK, vars, files, database, runs
<1>2. Held' /\ Catalogued'
    BY DEF IInv, Held, Publishing, Catalogued, Intact, vars, files, database, runs
<1>3. Built' /\ Planned'
    BY DEF IInv, Built, Intact, Planned, vars, files, database, runs
<1> QED
    BY <1>1, <1>2, <1>3 DEF IInv

(* Before anything is built, nothing is referred to. *)
LEMMA InitHolds == Init => IInv
<1> SUFFICES ASSUME Init PROVE IInv
    OBVIOUS
<1>1. TypeOK
    BY PublicationAssumption DEF Init, TypeOK, NoBuild, NoPlan
<1>2. Held /\ Catalogued
    BY DEF Init, Held, Publishing, Catalogued, NoBuild, NoPlan
<1>3. Built /\ Planned
    BY DEF Init, Built, Planned, NoBuild, NoPlan
<1> QED
    BY <1>1, <1>2, <1>3 DEF IInv

(* IInv is inductive: every action of builders, queries, purges and the collector
   keeps it. *)
LEMMA NextKeeps == IInv /\ [Next]_vars => IInv'
<1> SUFFICES ASSUME IInv, [Next]_vars PROVE IInv'
    OBVIOUS
<1>1. CASE TimePasses \/ PurgeItem \/ BeginCollection \/ CollectionFails
    BY <1>1, TimePassesStep, PurgeItemStep, BeginCollectionStep, CollectionFailsStep
<1>2. CASE \E r \in Readers : OpenActive(r) \/ CloseRoot(r)
    BY <1>2, OpenActiveStep, CloseRootStep
<1>3. ASSUME NEW b \in Builders,
             StartRun(b) \/ CompleteRun(b) \/ BeginStage(b) \/ Build(b) \/ CrashBuilder(b)
      PROVE  IInv'
    <2>1. CASE StartRun(b) \/ CompleteRun(b) \/ BeginStage(b) \/ CrashBuilder(b)
        BY <2>1, StartRunStep, CompleteRunStep, BeginStageStep, CrashBuilderStep
    <2>2. CASE Build(b)
        BY <2>2, PublishSegmentStep, PublishRootStep, ActivateStep, RecordStageStep DEF Build
    <2> QED
        BY <1>3, <2>1, <2>2
<1>4. CASE Collect
    BY <1>4, PruneStep, ScanStep, CollectionEndsStep, RemoveStep DEF Collect
<1>5. CASE UNCHANGED vars
    BY <1>5, StutterStep
<1> QED
    BY <1>1, <1>2, <1>3, <1>4, <1>5 DEF Next

(* However publication, activation, purge, collection, queries and crashes
   interleave, every catalogued generation and every generation a query has open
   is whole on disk, root and segments, and its segments are catalogued. *)
THEOREM NothingIsMissing == Spec => []NothingMissing
<1>1. IInv => NothingMissing
    BY DEF IInv, Held, Catalogued, NothingMissing
<1> QED
    BY InitHolds, NextKeeps, <1>1, PTL DEF Spec

-----------------------------------------------------------------------------
(***************************************************************************)
(* Pointers.  A run's pointer can only be late by the generations that the *)
(* other refreshes under way publish before their records fail, one each.  *)
(***************************************************************************)

(* Older generations of the same second that the collector takes for newer. *)
Misplaced(g) == {h \in Generations : h < g /\ Position[h] > Position[g]}

(* No more refreshes run at once than published generations are retained, less those
   that are misplaced: none when every generation has a second of its own. *)
EnoughRetained ==
    /\ IsFiniteSet(Builders)
    /\ \A g \in Generations : Cardinality(Builders) + Cardinality(Misplaced(g)) <= RetainPublished

Newer(gs, g) == {h \in gs : h > g}

(* The other refreshes that have published since, or will not. *)
Spent(b) == {c \in Builders \ {b} : builder[c].pc \in {"record", "idle"}}

(* Generations are built in the order of their numbers. *)
Numbered ==
    /\ \A g, h \in Generations : contents[h] # {} /\ g < h => contents[g] # {}
    /\ \A b \in Builders :
          /\ builder[b].pc \in {"segment", "root"} =>
                \A h \in Generations : h < builder[b].gen => contents[h] # {}
          /\ builder[b].pc = "activate" =>
                \A h \in Generations : h > builder[b].gen => contents[h] = {}

(* What the run's owner has yet to record is catalogued, and each newer generation
   has cost another refresh its turn. *)
Recording ==
    \A b \in Builders : owner = b /\ builder[b].pc = "record" =>
        /\ builder[b].gen \in catalog
        /\ Cardinality(Newer(catalog, builder[b].gen)) <= Cardinality(Spent(b))

PInv == Numbered /\ Recording /\ pointer \in catalog \cup {0}

(* There are finitely many generations. *)
LEMMA FiniteNewer ==
    ASSUME NEW gs, gs \subseteq Generations, NEW g
    PROVE  IsFiniteSet(Newer(gs, g)) /\ Cardinality(Newer(gs, g)) \in Nat
<1>1. IsFiniteSet(Generations)
    BY PublicationAssumption, FS_Interval DEF Generations
<1>2. Newer(gs, g) \subseteq Generations
    BY DEF Newer
<1> QED
    BY <1>1, <1>2, FS_Subset, FS_CardinalityType

(* Fewer refreshes than there are can be spent on another's account. *)
LEMMA SpentIsFew ==
    ASSUME EnoughRetained, NEW b \in Builders
    PROVE  /\ IsFiniteSet(Spent(b)) /\ Cardinality(Spent(b)) \in Nat
           /\ Cardinality(Builders) \in Nat
           /\ Cardinality(Spent(b)) < Cardinality(Builders)
<1>1. IsFiniteSet(Builders \ {b}) /\ Cardinality(Builders \ {b}) = Cardinality(Builders) - 1
    BY FS_RemoveElement DEF EnoughRetained
<1>2. Spent(b) \subseteq Builders \ {b}
    BY DEF Spent
<1>3. IsFiniteSet(Spent(b)) /\ Cardinality(Spent(b)) <= Cardinality(Builders \ {b})
    BY <1>1, <1>2, FS_Subset
<1>4. Cardinality(Spent(b)) \in Nat /\ Cardinality(Builders) \in Nat
    BY <1>3, FS_CardinalityType DEF EnoughRetained
<1> QED
    BY <1>1, <1>3, <1>4, PublicationAssumption DEF EnoughRetained

(* A step that adds nothing to the catalog, and gives no spent refresh another turn,
   keeps the bound. *)
LEMMA RecordingKept ==
    ASSUME EnoughRetained, IInv, Recording, catalog' \subseteq catalog,
           \A b \in Builders : owner' = b /\ builder'[b].pc = "record" =>
               /\ owner = b /\ builder[b].pc = "record" /\ builder'[b].gen = builder[b].gen
               /\ builder[b].gen \in catalog'
               /\ \A c \in Builders \ {b} : builder[c].pc \in {"record", "idle"} =>
                     builder'[c].pc \in {"record", "idle"}
    PROVE  Recording'
<1> SUFFICES ASSUME NEW b \in Builders, owner' = b, builder'[b].pc = "record"
             PROVE  /\ builder'[b].gen \in catalog'
                    /\ Cardinality(Newer(catalog', builder'[b].gen)) <= Cardinality(Spent(b)')
    BY DEF Recording
<1> DEFINE g == builder[b].gen
<1>1. /\ g \in catalog' /\ builder'[b].gen = g
      /\ Cardinality(Newer(catalog, g)) <= Cardinality(Spent(b))
    BY DEF Recording
<1>2. catalog \subseteq Generations
    BY DEF IInv, TypeOK
<1> HIDE DEF g
<1>3. /\ IsFiniteSet(Newer(catalog, g)) /\ Cardinality(Newer(catalog, g)) \in Nat
      /\ Cardinality(Newer(catalog', g)) \in Nat
    BY <1>2, FiniteNewer
<1>4. Newer(catalog', g) \subseteq Newer(catalog, g)
    BY DEF Newer
<1>5. Cardinality(Newer(catalog', g)) <= Cardinality(Newer(catalog, g))
    BY <1>3, <1>4, FS_Subset
<1>6. IsFiniteSet(Builders) /\ Spent(b)' \subseteq Builders
    BY DEF EnoughRetained, Spent
<1>7. IsFiniteSet(Spent(b)') /\ Cardinality(Spent(b)') \in Nat
    BY <1>6, FS_Subset, FS_CardinalityType
<1>8. Spent(b) \subseteq Spent(b)'
    BY DEF Spent
<1>9. Cardinality(Spent(b)) <= Cardinality(Spent(b)')
    BY <1>7, <1>8, FS_Subset
<1>10. Cardinality(Spent(b)) \in Nat
    BY SpentIsFew
<1> QED
    BY <1>1, <1>3, <1>5, <1>7, <1>9, <1>10

(* Steps that leave the builders where they are, and the order of the generations. *)
LEMMA NumberedKept ==
    ASSUME Numbered, contents' = contents,
           \A b \in Builders :
               /\ builder'[b].pc \in {"segment", "root"} => builder[b].pc \in {"segment", "root"}
               /\ builder'[b].pc = "activate" => builder[b].pc = "activate"
               /\ builder'[b].pc \in {"segment", "root", "activate"} =>
                     builder'[b].gen = builder[b].gen
    PROVE  Numbered'
    BY DEF Numbered

(* A new generation gets the next number. *)
LEMMA BeginStagePointers ==
    ASSUME EnoughRetained, IInv, PInv, NEW b \in Builders, BeginStage(b)
    PROVE  PInv'
<1>1. PICK g \in Generations : IsNext(g) /\ (Flush(b, g) \/ Compact(b, g))
    BY DEF BeginStage
<1>2. \E s, new, pc : pc \in {"segment", "root"} /\ builder' =
          [builder EXCEPT ![b] = [pc |-> pc, segment |-> s, contents |-> new, gen |-> g]]
    <2>1. \E s, new : Publishes(b, g, s, new)
        BY <1>1 DEF Flush, Compact
    <2> QED
        BY <2>1 DEF Publishes
<1>3. /\ builder'[b].gen = g /\ builder'[b].pc \in {"segment", "root"}
      /\ \A c \in Builders \ {b} : builder'[c] = builder[c]
    BY <1>2 DEF IInv, TypeOK
<1>4. UNCHANGED <<contents, catalog, owner, pointer>> /\ builder[b].pc = "stage"
    BY DEF BeginStage, At, database, runs
<1>5. Numbered'
    BY <1>1, <1>3, <1>4 DEF PInv, Numbered, IsNext
<1>6. Recording'
    BY <1>3, <1>4, RecordingKept DEF PInv, Recording
<1> QED
    BY <1>4, <1>5, <1>6 DEF PInv

(* The root of the next generation is published. *)
LEMMA PublishRootPointers ==
    ASSUME EnoughRetained, IInv, PInv, NEW b \in Builders, PublishRoot(b)
    PROVE  PInv'
<1> DEFINE g == builder[b].gen
<1>1. /\ contents' = [contents EXCEPT ![g] = builder[b].contents]
      /\ UNCHANGED <<catalog, owner, pointer>> /\ builder[b].pc = "root"
      /\ \/ builder' = [builder EXCEPT ![b] = [builder[b] EXCEPT !.pc = "activate"]]
         \/ builder' = [builder EXCEPT ![b] = [builder[b] EXCEPT !.pc = "stage"]]
    BY DEF PublishRoot, Leaves, At, runs
<1>2. /\ g \in Generations /\ contents[g] = {} /\ contents'[g] # {} /\ holder = b
      /\ \A h \in Generations \ {g} : contents'[h] = contents[h]
    BY <1>1 DEF IInv, TypeOK, Built, Held, Publishing
<1>3. /\ builder'[b].pc \in {"activate", "stage"} /\ builder'[b].gen = g
      /\ \A c \in Builders \ {b} : builder'[c] = builder[c] /\ ~Publishing(c)
    BY <1>1, <1>2 DEF IInv, TypeOK, Held
<1>4. Numbered'
    <2>1. \A h \in Generations : (h < g => contents[h] # {}) /\ (h > g => contents[h] = {})
        BY <1>1, <1>2 DEF PInv, Numbered
    <2>2. \A i, h \in Generations : contents'[h] # {} /\ i < h => contents'[i] # {}
        BY <1>2, <2>1 DEF PInv, Numbered, Generations
    <2> QED
        BY <1>2, <1>3, <2>1, <2>2 DEF Numbered, Publishing, Generations
<1>5. Recording'
    BY <1>1, <1>3, RecordingKept DEF PInv, Recording
<1> QED
    BY <1>1, <1>4, <1>5 DEF PInv

(* An activation costs the refresh its turn, unless it is the owner's: then there is
   nothing newer. *)
LEMMA ActivatePointers ==
    ASSUME EnoughRetained, IInv, PInv, NEW b \in Builders, Activate(b)
    PROVE  PInv'
<1> DEFINE g == builder[b].gen
<1>1. /\ catalog' = catalog \cup {g} /\ builder[b].pc = "activate"
      /\ UNCHANGED <<contents, owner, pointer>>
      /\ builder' = [builder EXCEPT ![b] = [builder[b] EXCEPT !.pc = "record"]]
    BY DEF Activate, Leaves, At, runs
<1>2. /\ g \in Generations /\ catalog \subseteq Generations
      /\ builder'[b].pc = "record" /\ builder'[b].gen = g
      /\ \A c \in Builders \ {b} : builder'[c] = builder[c]
    BY <1>1 DEF IInv, TypeOK, Built
<1>3. Numbered'
    BY <1>1, <1>2, NumberedKept DEF PInv
<1>4. Recording'
    <2> SUFFICES ASSUME NEW c \in Builders, owner' = c, builder'[c].pc = "record"
                 PROVE  /\ builder'[c].gen \in catalog'
                        /\ Cardinality(Newer(catalog', builder'[c].gen)) <= Cardinality(Spent(c)')
        BY DEF Recording
    <2>0. IsFiniteSet(Builders) /\ Spent(c)' \subseteq Builders
        BY DEF EnoughRetained, Spent
    <2>1. IsFiniteSet(Spent(c)') /\ Cardinality(Spent(c)') \in Nat
        BY <2>0, FS_Subset, FS_CardinalityType
    <2>2. CASE c = b
        <3>1. Newer(catalog', g) = {}
            BY <1>1, <1>2 DEF Newer, IInv, Catalogued, PInv, Numbered, Generations
        <3>2. Cardinality(Newer(catalog', g)) = 0
            BY <3>1, FS_EmptySet
        <3>3. builder'[c].gen = g /\ g \in catalog'
            BY <1>1, <1>2, <2>2
        <3> QED
            BY <2>1, <3>2, <3>3
    <2>3. CASE c # b
        <3> DEFINE f == builder[c].gen
        <3>1. /\ f \in catalog /\ builder'[c].gen = f
              /\ Cardinality(Newer(catalog, f)) <= Cardinality(Spent(c))
            BY <1>1, <1>2, <2>3 DEF PInv, Recording
        <3> HIDE DEF f
        <3>2. Newer(catalog', f) \subseteq Newer(catalog, f) \cup {g}
            BY <1>1 DEF Newer
        <3>3. Spent(c)' = Spent(c) \cup {b} /\ b \notin Spent(c)
            BY <1>1, <1>2, <2>3 DEF Spent
        <3>4. IsFiniteSet(Newer(catalog, f)) /\ Cardinality(Newer(catalog, f)) \in Nat
            BY <1>2, FiniteNewer
        <3>5. /\ IsFiniteSet(Newer(catalog, f) \cup {g})
              /\ Cardinality(Newer(catalog, f) \cup {g}) <= Cardinality(Newer(catalog, f)) + 1
            BY <3>4, FS_AddElement
        <3>6. Cardinality(Newer(catalog', f)) <= Cardinality(Newer(catalog, f) \cup {g})
            BY <3>2, <3>5, FS_Subset
        <3>7. IsFiniteSet(Spent(c)) /\ Cardinality(Spent(c)) \in Nat
            BY SpentIsFew
        <3>8. Cardinality(Spent(c)') = Cardinality(Spent(c)) + 1
            BY <3>3, <3>7, FS_AddElement
        <3>9. Cardinality(Newer(catalog', f)) \in Nat /\ Cardinality(Newer(catalog, f) \cup {g}) \in Nat
            BY <1>1, <1>2, FiniteNewer, <3>5, FS_CardinalityType
        <3>10. Cardinality(Newer(catalog', f)) <= Cardinality(Spent(c)')
            BY <3>1, <3>4, <3>5, <3>6, <3>7, <3>8, <3>9
        <3> QED
            BY <1>1, <3>1, <3>10
    <2> QED
        BY <2>2, <2>3
<1> QED
    BY <1>1, <1>3, <1>4 DEF PInv

(* What the owner has yet to record is among the newest generations that a pruning
   retains, and what it has recorded is retained as the pointer. *)
LEMMA PrunePointers ==
    ASSUME EnoughRetained, IInv, PInv, Prune
    PROVE  PInv'
<1>1. UNCHANGED <<builder, owner, pointer, contents>> /\ catalog' = Retained
    BY DEF Prune, PInv, runs
<1>2. Retained \subseteq catalog /\ pointer \in Retained \cup {0}
    BY RetainedIsCatalogued DEF PInv, Retained
<1>3. \A b \in Builders : owner = b /\ builder[b].pc = "record" => builder[b].gen \in Retained
    <2> SUFFICES ASSUME NEW b \in Builders, owner = b, builder[b].pc = "record"
                 PROVE  builder[b].gen \in Newest(RetainPublished, catalog)
        BY DEF Retained
    <2>1. /\ builder[b].gen \in catalog
          /\ Cardinality(Newer(catalog, builder[b].gen)) <= Cardinality(Spent(b))
        BY DEF PInv, Recording
    <2> DEFINE g == builder[b].gen
               before == {h \in catalog : Position[h] > Position[g]}
    <2>2. /\ Cardinality(Spent(b)) \in Nat /\ Cardinality(Builders) \in Nat
          /\ Cardinality(Spent(b)) < Cardinality(Builders)
        BY SpentIsFew
    <2>3. /\ catalog \subseteq Generations /\ g \in Generations
          /\ IsFiniteSet(Newer(catalog, g)) /\ Cardinality(Newer(catalog, g)) \in Nat
        BY <2>1, FiniteNewer DEF IInv, TypeOK
    <2>4. IsFiniteSet(Misplaced(g)) /\ Cardinality(Misplaced(g)) \in Nat
        <3>1. IsFiniteSet(Generations) /\ Misplaced(g) \subseteq Generations
            BY PublicationAssumption, FS_Interval DEF Generations, Misplaced
        <3> QED
            BY <3>1, FS_Subset, FS_CardinalityType
    <2>5. before \subseteq Newer(catalog, g) \cup Misplaced(g)
        <3>1. ASSUME NEW h \in catalog, Position[h] > Position[g] PROVE h > g \/ h < g
            BY <2>3, <3>1, PositionAssumption DEF Injection, Generations
        <3> QED
            BY <2>3, <3>1 DEF Newer, Misplaced
    <2> HIDE DEF g
    <2>6. /\ IsFiniteSet(Newer(catalog, g) \cup Misplaced(g))
          /\ Cardinality(Newer(catalog, g) \cup Misplaced(g)) <=
                Cardinality(Newer(catalog, g)) + Cardinality(Misplaced(g))
        <3>1. /\ IsFiniteSet(Newer(catalog, g) \cup Misplaced(g))
              /\ Cardinality(Newer(catalog, g) \cup Misplaced(g)) =
                    Cardinality(Newer(catalog, g)) + Cardinality(Misplaced(g))
                    - Cardinality(Newer(catalog, g) \cap Misplaced(g))
            BY <2>3, <2>4, FS_Union
        <3>2. Cardinality(Newer(catalog, g) \cap Misplaced(g)) \in Nat
            BY <2>3, FS_Subset, FS_CardinalityType
        <3> QED
            BY <2>3, <2>4, <3>1, <3>2
    <2>7. /\ Cardinality(before) <= Cardinality(Newer(catalog, g) \cup Misplaced(g))
          /\ IsFiniteSet(before)
        BY <2>5, <2>6, FS_Subset
    <2>8. /\ Cardinality(before) \in Nat
          /\ Cardinality(Newer(catalog, g) \cup Misplaced(g)) \in Nat
        BY <2>6, <2>7, FS_CardinalityType
    <2>9. Cardinality(Builders) + Cardinality(Misplaced(g)) <= RetainPublished
        BY <2>3 DEF EnoughRetained
    <2>10. Cardinality(Newer(catalog, g)) <= Cardinality(Spent(b))
        BY <2>1 DEF g
    <2>11. Cardinality(before) < RetainPublished
        BY <2>2, <2>3, <2>4, <2>6, <2>7, <2>8, <2>9, <2>10, PublicationAssumption
    <2> QED
        BY <2>1, <2>11 DEF Newest, g
<1>4. Numbered'
    BY <1>1, NumberedKept DEF PInv
<1>5. Recording'
    BY <1>1, <1>2, <1>3, RecordingKept DEF PInv
<1> QED
    BY <1>1, <1>2, <1>4, <1>5 DEF PInv

(* The other steps of a builder: it starts, ends, crashes or records, and publishes a
   segment at most. *)
LEMMA BuilderPointers ==
    ASSUME EnoughRetained, IInv, PInv, NEW b \in Builders,
           StartRun(b) \/ CompleteRun(b) \/ PublishSegment(b) \/ RecordStage(b) \/ CrashBuilder(b)
    PROVE  PInv'
<1>1. /\ UNCHANGED <<contents, catalog>>
      /\ \A c \in Builders \ {b} : builder'[c] = builder[c]
    BY DEF StartRun, CompleteRun, PublishSegment, RecordStage, CrashBuilder, Leaves, database,
           IInv, TypeOK
<1>2. \/ builder'[b].pc = "stage" /\ owner' = b
      \/ builder'[b].pc = "idle" /\ owner' \in {owner, None}
      \/ builder[b].pc = "segment" /\ builder'[b].pc \in {"root", "stage"} /\ owner' = owner
    BY DEF StartRun, CompleteRun, PublishSegment, RecordStage, CrashBuilder, Leaves, At, NoBuild,
           runs, IInv, TypeOK
<1>3. pointer' \in catalog \cup {0}
    BY DEF StartRun, CompleteRun, PublishSegment, RecordStage, CrashBuilder, At, runs, PInv, Recording
<1>4. builder'[b].pc \in {"segment", "root", "activate"} =>
          builder[b].pc = "segment" /\ builder'[b].pc = "root" /\ builder'[b].gen = builder[b].gen
    BY DEF StartRun, CompleteRun, PublishSegment, RecordStage, CrashBuilder, Leaves, At, NoBuild,
           IInv, TypeOK
<1>5. Numbered'
    BY <1>1, <1>4, NumberedKept DEF PInv
<1>6. Recording'
    <2>1. \A c \in Builders : owner' = c /\ builder'[c].pc = "record" =>
              /\ c # b /\ owner = c
              /\ builder[b].pc \in {"record", "idle"} => builder'[b].pc \in {"record", "idle"}
        BY <1>2, PublicationAssumption
    <2>2. \A c \in Builders : owner = c /\ builder[c].pc = "record" => builder[c].gen \in catalog'
        BY <1>1 DEF PInv, Recording
    <2> QED
        BY <1>1, <2>1, <2>2, RecordingKept DEF PInv
<1> QED
    BY <1>1, <1>3, <1>5, <1>6 DEF PInv

(* No other step changes the catalog, a generation, the run or a builder. *)
LEMMA OtherPointers ==
    ASSUME EnoughRetained, IInv, PInv, UNCHANGED <<contents, catalog, owner, pointer, builder>>
    PROVE  PInv'
    BY DEF PInv, Numbered, Recording, Spent

(* IInv and PInv together are inductive. *)
LEMMA NextKeepsPointers ==
    ASSUME EnoughRetained, IInv, PInv, [Next]_vars
    PROVE  PInv'
<1> USE DEF files, database, runs
<1>1. CASE TimePasses \/ PurgeItem \/ BeginCollection \/ CollectionFails
    BY <1>1, OtherPointers DEF TimePasses, PurgeItem, BeginCollection, CollectionFails
<1>2. CASE \E r \in Readers : OpenActive(r) \/ CloseRoot(r)
    BY <1>2, OtherPointers DEF OpenActive, CloseRoot
<1>3. CASE \E b \in Builders : StartRun(b) \/ CompleteRun(b) \/ CrashBuilder(b)
    BY <1>3, BuilderPointers
<1>4. CASE \E b \in Builders : BeginStage(b)
    BY <1>4, BeginStagePointers
<1>5. CASE \E b \in Builders : Build(b)
    BY <1>5, BuilderPointers, PublishRootPointers, ActivatePointers DEF Build
<1>6. CASE Prune
    BY <1>6, PrunePointers
<1>7. CASE Scan \/ CollectionEnds \/ \E a \in Artifacts : Remove(a)
    BY <1>7, OtherPointers DEF Scan, CollectionEnds, Remove
<1>8. CASE UNCHANGED vars
    BY <1>8, OtherPointers DEF vars
<1> QED
    BY <1>1, <1>2, <1>3, <1>4, <1>5, <1>6, <1>7, <1>8 DEF Next, Collect

(* The active generation and the one a resumable run notes are always catalogued,
   however late a runner records, provided that no more refreshes run at once than
   generations are retained for rollback. *)
THEOREM PointersAlwaysResolve ==
    ASSUME EnoughRetained
    PROVE  Spec => []PointersResolve
<1>1. Init => PInv
    BY PublicationAssumption DEF Init, PInv, Numbered, Recording, NoBuild
<1>2. IInv /\ PInv /\ [Next]_vars => PInv'
    BY NextKeepsPointers
<1>3. IInv /\ PInv => PointersResolve
    BY DEF IInv, Catalogued, PInv, PointersResolve
<1> QED
    BY InitHolds, NextKeeps, <1>1, <1>2, <1>3, PTL DEF Spec
================================================================================
