-------------------------- MODULE SemanticPublication --------------------------
(***************************************************************************)
(* What a semantic generation is made of, on disk and in the catalog:      *)
(* PublishSegment and PublishRoot (internal/semanticsegment/publish.go),   *)
(* the activation of a generation (internal/store/                         *)
(* retrieval_index_segments.go) as Flush and Compact use them              *)
(* (internal/semanticbuild), and the garbage collector                     *)
(* (internal/semanticgc/gc.go, internal/store/retrieval_semantic_gc.go).   *)
(*                                                                         *)
(* Publishing writes directories first and the catalog last; collecting    *)
(* deletes catalog rows first and directories last; a crash may come       *)
(* between any two of these steps.  A segment is named by the hash of its  *)
(* contents, so a segment published again is the same directory.           *)
(* The leases are those of SemanticLock; here they are one holder of the   *)
(* exclusive leases and a set of readers of the generation.  Catalogs of   *)
(* different profiles share nothing, so there is one.                      *)
(***************************************************************************)
EXTENDS Naturals, FiniteSets, Functions

CONSTANTS
    Segments,        \* segment contents, named by their hashes
    Builders,        \* processes that refresh
    Collector,       \* the process that collects garbage
    Readers,         \* queries
    Temporary,       \* the directory a publication writes into before it renames it
    None,
    RetainPublished, \* generations kept for rollback
    Position,        \* Position[g]: g's place in the order by created_at and, within one
                     \* second, by ID, which is a hash
    MaxGenerations,  \* bound: generations built
    MaxDisturbances  \* bound: crashes, failed removals and purged items

ASSUME PublicationAssumption ==
    /\ RetainPublished \in Nat /\ MaxGenerations \in Nat /\ MaxDisturbances \in Nat
    /\ Collector \notin Builders /\ None \notin Builders \cup {Collector}

Generations == 1 .. MaxGenerations

ASSUME PositionAssumption == Position \in Injection(Generations, Nat)

Artifacts == Segments \cup Generations \cup {Temporary}

VARIABLES
    disk,       \* disk[a]: "absent", "whole" or "torn" (partly removed)
    old,        \* directories last modified before the grace period
    contents,   \* contents[g]: the segments of generation g, {} until it is built
    catalog,    \* catalogued generations (retrieval_index_generations)
    stale,      \* those of them marked stale
    recent,     \* those of them updated within the grace period
    rows,       \* catalogued segments (retrieval_index_segments)
    active,     \* the profile's active_generation_id, 0 for none
    pointer,    \* the resumable run's current_generation_id, 0 for none
    owner,      \* the builder whose copy of the run is the latest
    holder,     \* who holds the maintenance and generation leases exclusively
    reading,    \* reading[r]: the generation r opens under its shared lease, or None
    builder,    \* builder[b]: where a stage is, and what it publishes
    collector,  \* where the collector is, and what it has planned
    used        \* disturbances so far

files == <<disk, old>>
database == <<contents, catalog, stale, recent, rows, active>>
runs == <<pointer, owner>>
vars == <<files, database, runs, holder, reading, builder, collector, used>>

NoBuild == [pc |-> "idle", segment |-> None, contents |-> {}, gen |-> 0]
NoPlan == [pc |-> "idle", retained |-> {}, prunable |-> {}, todo |-> {}]

TypeOK ==
    /\ disk \in [Artifacts -> {"absent", "whole", "torn"}] /\ old \subseteq Artifacts
    /\ contents \in [Generations -> SUBSET Segments]
    /\ stale \subseteq catalog /\ recent \subseteq catalog /\ catalog \subseteq Generations
    /\ rows \subseteq Segments
    /\ active \in Generations \cup {0} /\ pointer \in Generations \cup {0}
    /\ owner \in Builders \cup {None} /\ holder \in Builders \cup {Collector, None}
    /\ reading \in [Readers -> Generations \cup {None}]
    /\ builder \in [Builders -> [pc : {"idle", "stage", "segment", "root", "activate", "record"},
                                 segment : Segments \cup {None}, contents : SUBSET Segments,
                                 gen : Generations \cup {0}]]
    /\ collector \in [pc : {"idle", "prune", "scan", "remove"}, retained : SUBSET Artifacts,
                      prunable : SUBSET Artifacts, todo : SUBSET Artifacts]
    /\ used \in 0 .. MaxDisturbances

Init ==
    /\ disk = [a \in Artifacts |-> "absent"] /\ old = {}
    /\ contents = [g \in Generations |-> {}]
    /\ catalog = {} /\ stale = {} /\ recent = {} /\ rows = {} /\ active = 0
    /\ pointer = 0 /\ owner = None /\ holder = None
    /\ reading = [r \in Readers |-> None]
    /\ builder = [b \in Builders |-> NoBuild]
    /\ collector = NoPlan
    /\ used = 0

Disturbed == used < MaxDisturbances /\ used' = used + 1

\* More than the grace period passes.
TimePasses ==
    /\ recent # {} \/ \E a \in Artifacts \ old : disk[a] # "absent"
    /\ old' = {a \in Artifacts : disk[a] # "absent"}
    /\ recent' = {}
    /\ UNCHANGED <<disk, contents, catalog, stale, rows, active, runs, holder, reading,
                   builder, collector, used>>

\* a is written, or something in it is removed: its modification time is now.
Put(a, state) == disk' = [disk EXCEPT ![a] = state] /\ old' = old \ {a}

Unlocked == holder = None /\ \A r \in Readers : reading[r] = None

--------------------------------------------------------------------------------
(* Queries and purges. *)

\* A query takes the shared lease, reads which generation is active and opens it.
\* (Without one it opens no root.)
OpenActive(r) ==
    /\ reading[r] = None /\ holder = None /\ active # 0
    /\ reading' = [reading EXCEPT ![r] = active]
    /\ UNCHANGED <<files, database, runs, holder, builder, collector, used>>

CloseRoot(r) ==
    /\ reading[r] # None
    /\ reading' = [reading EXCEPT ![r] = None]
    /\ UNCHANGED <<files, database, runs, holder, builder, collector, used>>

\* PurgeItemIndexedContent, one transaction under both exclusive leases: the
\* profile's generations are marked stale and none is active.
PurgeItem ==
    /\ Unlocked /\ Disturbed
    /\ stale' = catalog
    /\ recent' = recent \cup (catalog \ stale)
    /\ active' = 0
    /\ UNCHANGED <<files, contents, catalog, rows, runs, holder, reading, builder, collector>>

--------------------------------------------------------------------------------
(* Publication. *)

At(b, pc) == builder[b].pc = pc

\* A refresh starts or resumes the run, which makes every other copy stale.
StartRun(b) ==
    /\ At(b, "idle")
    /\ owner' = b
    /\ builder' = [builder EXCEPT ![b] = [NoBuild EXCEPT !.pc = "stage"]]
    /\ UNCHANGED <<files, database, pointer, holder, reading, collector, used>>

\* The run is completed, or superseded by the other profile's: its pointer no
\* longer counts.
CompleteRun(b) ==
    /\ At(b, "stage")
    /\ IF owner = b THEN pointer' = 0 /\ owner' = None ELSE UNCHANGED runs
    /\ builder' = [builder EXCEPT ![b] = NoBuild]
    /\ UNCHANGED <<files, database, holder, reading, collector, used>>

Current == IF active = 0 THEN {} ELSE contents[active]

\* The stage is to publish the segment, if there is one, and a root g of the new contents.
Publishes(b, g, segment, new) ==
    builder' = [builder EXCEPT ![b] = [pc |-> IF segment = None THEN "root" ELSE "segment",
                                       segment |-> segment, contents |-> new, gen |-> g]]

\* Flush adds a segment to those of the active generation.
Flush(b, g) == \E s \in Segments \ Current : Publishes(b, g, s, Current \cup {s})

\* Compact replaces some of them, by one segment or by none, and leaves at least one.
Compact(b, g) ==
    \E selected \in (SUBSET Current) \ {{}} :
        \/ \E s \in Segments \ Current : Publishes(b, g, s, (Current \ selected) \cup {s})
        \/ Current # selected /\ Publishes(b, g, None, Current \ selected)

\* A new generation; the numbers stand for the order in which they are built.
IsNext(g) == contents[g] = {} /\ \A h \in Generations : h < g => contents[h] # {}

\* A stage begins under the exclusive leases.
BeginStage(b) ==
    /\ At(b, "stage") /\ Unlocked
    /\ holder' = b
    /\ \E g \in Generations : IsNext(g) /\ (Flush(b, g) \/ Compact(b, g))
    /\ UNCHANGED <<files, database, runs, reading, collector, used>>

Leaves(b, pc) == holder' = None /\ builder' = [builder EXCEPT ![b] = [@ EXCEPT !.pc = pc]]

\* PublishSegment: renamed into place, unless the hash is there already: then it
\* must be valid.
PublishSegment(b) ==
    LET s == builder[b].segment IN
    /\ At(b, "segment")
    /\ \/ /\ disk[s] = "absent"
          /\ Put(s, "whole") /\ builder' = [builder EXCEPT ![b].pc = "root"] /\ UNCHANGED holder
       \/ /\ disk[s] = "whole"
          /\ builder' = [builder EXCEPT ![b].pc = "root"] /\ UNCHANGED <<files, holder>>
       \/ /\ disk[s] = "torn"
          /\ Leaves(b, "stage") /\ UNCHANGED files
    /\ UNCHANGED <<database, runs, reading, collector, used>>

\* PublishRoot opens every segment, and OpenRoot does again.
PublishRoot(b) ==
    LET new == builder[b].contents IN
    /\ At(b, "root")
    /\ contents' = [contents EXCEPT ![builder[b].gen] = new]
    /\ IF \A s \in new : disk[s] = "whole"
       THEN /\ Put(builder[b].gen, "whole")
            /\ builder' = [builder EXCEPT ![b].pc = "activate"] /\ UNCHANGED holder
       ELSE Leaves(b, "stage") /\ UNCHANGED files
    /\ UNCHANGED <<catalog, stale, recent, rows, active, runs, reading, collector, used>>

\* CompleteRetrievalIndexGeneration, one transaction.
Activate(b) ==
    LET g == builder[b].gen IN
    /\ At(b, "activate")
    /\ catalog' = catalog \cup {g}
    /\ recent' = recent \cup {g} \cup ({active} \ {0})
    /\ rows' = rows \cup contents[g]
    /\ active' = g
    /\ Leaves(b, "record")
    /\ UNCHANGED <<files, contents, stale, runs, reading, collector, used>>

\* The runner records the stage's outcome: a stale copy fails, and its refresh ends.
RecordStage(b) ==
    /\ At(b, "record")
    /\ IF owner = b
       THEN pointer' = builder[b].gen /\ builder' = [builder EXCEPT ![b] = [NoBuild EXCEPT !.pc = "stage"]]
       ELSE builder' = [builder EXCEPT ![b] = NoBuild] /\ UNCHANGED pointer
    /\ UNCHANGED <<files, database, owner, holder, reading, collector, used>>

\* A crash, or an error that ends the refresh, gives the leases back and leaves
\* what was being written behind.
CrashBuilder(b) ==
    /\ ~At(b, "idle") /\ Disturbed
    /\ builder' = [builder EXCEPT ![b] = NoBuild]
    /\ holder' = IF holder = b THEN None ELSE holder
    /\ \/ UNCHANGED files
       \/ (At(b, "segment") \/ At(b, "root")) /\ Put(Temporary, "whole")
    /\ UNCHANGED <<database, runs, reading, collector>>

--------------------------------------------------------------------------------
(* Collection. *)

\* Run with Apply takes both leases.
BeginCollection ==
    /\ collector.pc = "idle" /\ Unlocked
    /\ holder' = Collector
    /\ collector' = [NoPlan EXCEPT !.pc = "prune"]
    /\ UNCHANGED <<files, database, runs, reading, builder, used>>

\* retainRetrievalSemanticGCPublished sorts by created_at, which has seconds only,
\* then by ID: generations of one second may come in any order.
Newest(n, gs) == {g \in gs : Cardinality({h \in gs : Position[h] > Position[g]}) < n}

\* Mutant: a resumable run's generation is not kept.
MutantRetained == ({active} \ {0}) \cup recent \cup Newest(RetainPublished, catalog)

\* planRetrievalSemanticGCTx: what stays.
Retained == ({active, pointer} \ {0}) \cup recent \cup Newest(RetainPublished, catalog)

EndCollection == holder' = None /\ collector' = NoPlan

\* PruneRetrievalSemanticCatalog, one transaction.  A run that points to a
\* generation that is not there stops it.
Prune ==
    LET kept == UNION {contents[g] : g \in Retained} IN
    /\ collector.pc = "prune"
    /\ IF pointer \notin catalog \cup {0}
       THEN EndCollection /\ UNCHANGED database
       ELSE /\ catalog' = Retained /\ stale' = stale \cap Retained /\ recent' = recent \cap Retained
            /\ rows' = kept
            /\ collector' = [pc |-> "scan", retained |-> Retained \cup kept,
                             prunable |-> (catalog \ Retained) \cup (rows \ kept), todo |-> {}]
            /\ UNCHANGED <<contents, active, holder>>
    /\ UNCHANGED <<files, runs, reading, builder, used>>

\* Mutant: only what the catalog gave up is removed.
MutantScanWithoutOrphans ==
    /\ collector.pc = "scan"
    /\ collector' = [collector EXCEPT !.pc = "remove", !.todo =
           {a \in collector.prunable : disk[a] # "absent"}]
    /\ UNCHANGED <<files, database, runs, holder, reading, builder, used>>

\* Mutant: age alone decides about a segment that this collection did not prune.
MutantScanByAge ==
    /\ collector.pc = "scan"
    /\ collector' = [collector EXCEPT !.pc = "remove", !.todo =
           {a \in Artifacts \ (collector.retained \cap Generations) :
               disk[a] # "absent" /\ (a \in collector.prunable \/ a \in old)}]
    /\ UNCHANGED <<files, database, runs, holder, reading, builder, used>>

\* scanPrunableFilesystem: what the catalog gave up, and what it does not know
\* and the grace period no longer protects.
Scan ==
    /\ collector.pc = "scan"
    /\ collector' = [collector EXCEPT !.pc = "remove", !.todo =
           {a \in Artifacts \ collector.retained :
               disk[a] # "absent" /\ (a \in collector.prunable \/ a \in old)}]
    /\ UNCHANGED <<files, database, runs, holder, reading, builder, used>>

Remove(a) ==
    /\ collector.pc = "remove" /\ a \in collector.todo
    /\ Put(a, "absent")
    /\ collector' = [collector EXCEPT !.todo = @ \ {a}]
    /\ UNCHANGED <<database, runs, holder, reading, builder, used>>

\* removeArtifact fails, or the collector crashes: in the middle of a directory,
\* or between two steps.
CollectionFails ==
    /\ collector.pc # "idle" /\ Disturbed
    /\ \/ UNCHANGED files
       \/ \E a \in collector.todo : Put(a, "torn")
    /\ EndCollection
    /\ UNCHANGED <<database, runs, reading, builder>>

CollectionEnds ==
    /\ collector.pc = "remove" /\ collector.todo = {}
    /\ EndCollection
    /\ UNCHANGED <<files, database, runs, reading, builder, used>>

--------------------------------------------------------------------------------

Build(b) == PublishSegment(b) \/ PublishRoot(b) \/ Activate(b) \/ RecordStage(b)
Collect == Prune \/ Scan \/ CollectionEnds \/ \E a \in Artifacts : Remove(a)

Next ==
    \/ TimePasses \/ PurgeItem
    \/ \E r \in Readers : OpenActive(r) \/ CloseRoot(r)
    \/ \E b \in Builders :
          StartRun(b) \/ CompleteRun(b) \/ BeginStage(b) \/ Build(b) \/ CrashBuilder(b)
    \/ BeginCollection \/ Collect \/ CollectionFails

Spec == Init /\ [][Next]_vars

\* Steps under a lease go on, the clock goes on, queries close, and the collector,
\* started again and again, gets its leases (SemanticLock's EveryoneProceeds).
FairSpec ==
    /\ Spec
    /\ WF_vars(TimePasses) /\ WF_vars(Collect) /\ SF_vars(BeginCollection)
    /\ \A r \in Readers : WF_vars(CloseRoot(r))
    /\ \A b \in Builders : WF_vars(Build(b))

--------------------------------------------------------------------------------

Intact(g) == disk[g] = "whole" /\ \A s \in contents[g] : disk[s] = "whole"

(* Neither the catalog nor a query ever refers to an artifact that is missing or
   partly removed: every catalogued generation has its root and all its segments
   on disk, and the generation a query opens under its lease stays whole,
   although publishing and collecting each change disk and catalog in separate
   steps, fail or crash in between, and segments are shared, given up and
   published again. *)
NothingMissing ==
    /\ TypeOK
    /\ \A g \in catalog : Intact(g) /\ contents[g] \subseteq rows
    /\ \A r \in Readers : reading[r] # None => Intact(reading[r])

(* The profile's active generation and the generation a resumable run notes are
   in the catalog, so that no pruning stops at a pointer to nothing: not even a
   runner that records its generation late, after another one's stage and a
   collection, leaves such a pointer, as long as generations are created in
   different seconds and no more refreshes run at once than are retained. *)
PointersResolve == active \in catalog \cup {0} /\ pointer \in catalog \cup {0}

Leftover(a) == disk[a] # "absent" /\ a \notin catalog \cup rows

(* What a crash, a failed stage or a failed removal leaves on disk is removed by
   a later collection, or taken up by a generation that needs it: again and
   again there is nothing on disk that the catalog does not know. *)
LeftoversAreCollected == []<>(\A a \in Artifacts : ~Leftover(a))
================================================================================
