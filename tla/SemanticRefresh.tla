---------------------------- MODULE SemanticRefresh ----------------------------
(***************************************************************************)
(* The semantic refresh: the durable run ledger                            *)
(* (internal/store/semantic_refresh_runs.go), the runner that drives a run *)
(* through its stages (internal/semanticrefresh/runner.go), and what each  *)
(* stage does to the retrieval state (pipeline.go, locked_pipeline.go).    *)
(*                                                                         *)
(* A stage executes under the exclusive maintenance lease (SemanticLock),  *)
(* which excludes source writes and every other stage, so Execute is one   *)
(* step; the ledger is updated after the lease is released, so anything    *)
(* may happen between a stage and its record.  The ledger keeps one        *)
(* resumable row per profile (a unique index); a row that is completed or  *)
(* superseded is never read again and is represented by its absence.  The  *)
(* row's version is represented by who holds the latest one: a runner is   *)
(* `fresh' while its copy has the row's version, and `attached' while its  *)
(* run_id is still the profile's resumable row.  A parent stands for its   *)
(* one chunk, and a segment for the vectors it holds.  Left out: the purge *)
(* epoch, which nothing in the program raises; the cap of a segment at     *)
(* forty targets, which no instance reaches; and the repair of generations *)
(* left dangling by releases before schema 29.                             *)
(***************************************************************************)
EXTENDS Naturals, FiniteSets, FiniteSetsExt, Functions, SequencesExt

CONSTANTS
    Parents,         \* items and sources with retrievable text
    Profiles,        \* embedding profiles
    Backlog,         \* parents written before the first refresh
    Runners,         \* processes that call the refresh
    Scheduled,       \* the one among them that runs it after every sync
    None,
    SegmentTarget,   \* RetrievalSegmentTarget
    SegmentHardLimit,\* RetrievalSegmentHardLimit
    EmbeddingBatch,
    MaxRevision,     \* bound: source writes
    MaxDisturbances  \* bound: faults, crashes, cancellations, outages of the
                     \* embedding provider, changes of profile, refreshes by hand

ASSUME RefreshAssumption ==
    /\ SegmentTarget \in Nat \ {0} /\ EmbeddingBatch \in 1 .. SegmentTarget
    /\ SegmentHardLimit \in Nat /\ SegmentTarget <= SegmentHardLimit
    /\ Scheduled \in Runners /\ Backlog \subseteq Parents /\ Profiles # {}
    /\ IsFiniteSet(Parents)
    /\ MaxRevision \in Nat /\ Cardinality(Backlog) <= MaxRevision
    /\ MaxDisturbances \in Nat

VARIABLES
    workRevision,   \* retrieval_state.projection_work_revision
    dirty,          \* dirty[p]: dirty_revision, or 0 once it has been projected
    embedding,      \* embedding[f][p]: p's row of retrieval_embeddings for profile f
    revision,       \* revision[f][p]: the revision of p's ready vector, 0 without one
    segments,       \* segments[f]: those of the active generation, oldest first: the
                    \* vectors each holds and the number that no longer exist
    generation,     \* generation[f]: active_generation_id, 0 for none
    snapshot,       \* snapshot[f]: active_snapshot_revision
    run,            \* run[f]: f's resumable row of semantic_refresh_runs, or None
    runner,         \* runner[r]: where Run is, and its copy of the row
    profile,        \* the configured embedding profile
    provider,       \* "up" or "down"
    used,           \* disturbances so far
    lost            \* history: a crash, a failed update or a collision left a run behind

index == <<segments, generation, snapshot>>
retrieval == <<workRevision, dirty, embedding, revision, index>>
world == <<profile, provider>>
vars == <<retrieval, run, runner, world, used, lost>>

Stages == {"projection", "embedding", "flush", "compaction", "verify", "readiness"}
Row == [watermark : 0 .. MaxRevision, stage : Stages, gen : Nat,
        state : {"running", "failed", "cancelled"}]
Segment == [held : SUBSET Parents, gone : Nat]

ASSUME NoneAssumption == None \notin Profiles \cup Stages \cup Row

NoOutcome == [next |-> None, gen |-> 0, failed |-> FALSE, complete |-> FALSE, successor |-> 0]
Idle == [pc |-> "idle", profile |-> None, watermark |-> 0, stage |-> None, gen |-> 0,
         attached |-> FALSE, fresh |-> FALSE, cancelled |-> FALSE, out |-> NoOutcome]

TypeOK ==
    /\ workRevision \in 0 .. MaxRevision
    /\ dirty \in [Parents -> 0 .. MaxRevision]
    /\ embedding \in [Profiles -> [Parents -> {"none", "due", "ready", "cooling"}]]
    /\ revision \in [Profiles -> [Parents -> Nat]]
    /\ \A f \in Profiles :
         /\ segments[f] \in Seq(Segment)
         /\ \A p \in Parents : (revision[f][p] > 0) = (embedding[f][p] = "ready")
         /\ \A i, j \in DOMAIN segments[f] :
              i # j => segments[f][i].held \cap segments[f][j].held = {}
    /\ generation \in [Profiles -> Nat] /\ snapshot \in [Profiles -> Nat]
    /\ \A f \in Profiles : run[f] \in Row \cup {None}
    /\ \A r \in Runners :
         /\ runner[r].pc \in {"idle", "start", "emit", "stage", "record",
                              "complete", "successor", "cancel", "fail"}
         /\ runner[r].fresh => runner[r].attached
         /\ runner[r].attached => run[runner[r].profile] # None
    /\ profile \in Profiles /\ provider \in {"up", "down"} /\ lost \in BOOLEAN
    /\ used \in 0 .. MaxDisturbances

Init ==
    /\ workRevision = Cardinality(Backlog)
    /\ LET order == CHOOSE o \in Bijection(Backlog, 1 .. workRevision) : TRUE
       IN  dirty = [p \in Parents |-> IF p \in Backlog THEN order[p] ELSE 0]
    /\ embedding = [f \in Profiles |-> [p \in Parents |-> "none"]]
    /\ revision = [f \in Profiles |-> [p \in Parents |-> 0]]
    /\ segments = [f \in Profiles |-> <<>>]
    /\ generation = [f \in Profiles |-> 0]
    /\ snapshot = [f \in Profiles |-> 0]
    /\ run = [f \in Profiles |-> None]
    /\ runner = [r \in Runners |-> Idle]
    /\ profile = CHOOSE f \in Profiles : TRUE
    /\ provider = "up"
    /\ used = 0
    /\ lost = FALSE

Disturbed == used < MaxDisturbances /\ used' = used + 1

--------------------------------------------------------------------------------
(* The world around the refresh. *)

\* A source write commits under the shared maintenance lease; its trigger
\* raises the work revision and marks the parent dirty.
SourceWrite(p) ==
    /\ workRevision < MaxRevision
    /\ workRevision' = workRevision + 1
    /\ dirty' = [dirty EXCEPT ![p] = workRevision']
    /\ UNCHANGED <<embedding, revision, index, run, runner, world, used, lost>>

\* The retry cooldown of a failed embedding passes.
CooldownEnds(f, p) ==
    /\ embedding[f][p] = "cooling"
    /\ embedding' = [embedding EXCEPT ![f][p] = "due"]
    /\ UNCHANGED <<workRevision, dirty, revision, index, run, runner, world, used, lost>>

ProviderFails ==
    /\ provider = "up" /\ Disturbed
    /\ provider' = "down"
    /\ UNCHANGED <<retrieval, run, runner, profile, lost>>

ProviderRecovers ==
    /\ provider = "down"
    /\ provider' = "up"
    /\ UNCHANGED <<retrieval, run, runner, profile, used, lost>>

SwitchProfile(f) ==
    /\ f # profile /\ Disturbed
    /\ profile' = f
    /\ UNCHANGED <<retrieval, run, runner, provider, lost>>

--------------------------------------------------------------------------------
(* The ledger. *)

\* The rows of the profiles in gone leave the resumable states: nobody's copy
\* of them counts any more.
Detach(copies, gone) ==
    [r \in Runners |-> IF copies[r].profile \in gone
                       THEN [copies[r] EXCEPT !.attached = FALSE, !.fresh = FALSE]
                       ELSE copies[r]]

\* Mutant: a resumed run takes the new watermark and keeps its stage.
MutantStartOrResumeRun(r, f, watermark) ==
    LET row == IF run[f] # None THEN [run[f] EXCEPT !.state = "running", !.watermark = watermark]
               ELSE [watermark |-> watermark, stage |-> "projection", gen |-> 0, state |-> "running"]
        stale == [s \in Runners |-> IF runner[s].profile = f
                                    THEN [runner[s] EXCEPT !.fresh = FALSE] ELSE runner[s]]
    IN  /\ run' = [g \in Profiles |-> IF g = f THEN row ELSE None]
        /\ runner' = [Detach(stale, Profiles \ {f}) EXCEPT
             ![r] = [Idle EXCEPT !.pc = "emit", !.profile = f, !.watermark = row.watermark,
                       !.stage = row.stage, !.gen = row.gen, !.attached = TRUE, !.fresh = TRUE,
                       !.cancelled = runner[r].cancelled]]

\* StartOrResumeSemanticRefreshRun, one transaction: the resumable runs of the
\* other profiles are superseded; the profile's own is resumed as it stands,
\* with a new version, or a run is inserted at the given watermark.
StartOrResumeRun(r, f, watermark) ==
    LET row == IF run[f] # None THEN [run[f] EXCEPT !.state = "running"]
               ELSE [watermark |-> watermark, stage |-> "projection", gen |-> 0, state |-> "running"]
        stale == [s \in Runners |-> IF runner[s].profile = f
                                    THEN [runner[s] EXCEPT !.fresh = FALSE] ELSE runner[s]]
    IN  /\ run' = [g \in Profiles |-> IF g = f THEN row ELSE None]
        /\ runner' = [Detach(stale, Profiles \ {f}) EXCEPT
             ![r] = [Idle EXCEPT !.pc = "emit", !.profile = f, !.watermark = row.watermark,
                       !.stage = row.stage, !.gen = row.gen, !.attached = TRUE, !.fresh = TRUE,
                       !.cancelled = runner[r].cancelled]]

\* The compare-and-set of UpdateSemanticRefreshRun on run_id, version and state.
CanUpdate(r) == runner[r].fresh

\* An update that succeeds leaves the row in the given state with the copy's
\* stage and generation.
SaveState(r, state) ==
    run' = [run EXCEPT ![runner[r].profile].state = state]

\* An update fails when the copy is stale, or by a fault of the database; a
\* fault leaves the run running with nobody on it.
UpdateFails(r) ==
    \/ ~CanUpdate(r) /\ UNCHANGED <<used, lost>>
    \/ CanUpdate(r) /\ Disturbed /\ lost' = TRUE

Returns(r) == runner' = [runner EXCEPT ![r] = Idle]
Goes(r, pc) == runner' = [runner EXCEPT ![r].pc = pc]

--------------------------------------------------------------------------------
(* The runner. *)

\* runConfiguredSemanticRefresh reads the work revision and calls Run.
Refresh(r) ==
    /\ runner[r].pc = "idle"
    /\ \/ r = Scheduled /\ UNCHANGED used
       \/ r # Scheduled /\ Disturbed
    /\ runner' = [runner EXCEPT ![r] = [Idle EXCEPT !.pc = "start", !.profile = profile,
                                            !.watermark = workRevision]]
    /\ UNCHANGED <<retrieval, run, world, lost>>

Start(r) ==
    /\ runner[r].pc = "start"
    /\ IF runner[r].cancelled
       THEN Returns(r) /\ UNCHANGED run
       ELSE StartOrResumeRun(r, runner[r].profile, runner[r].watermark)
    /\ UNCHANGED <<retrieval, world, used, lost>>

\* TouchSemanticRefreshRunProgress finds the row: still this run, running.
Touchable(r) == runner[r].attached /\ run[runner[r].profile].state = "running"

\* StartProgressEmitter touches the row before anything is done.
StartEmitter(r) ==
    /\ runner[r].pc = "emit"
    /\ \/ runner[r].cancelled /\ Goes(r, "cancel") /\ UNCHANGED used
       \/ ~runner[r].cancelled /\ Touchable(r) /\ Goes(r, "stage") /\ UNCHANGED used
       \/ ~runner[r].cancelled /\ ~Touchable(r) /\ Returns(r) /\ UNCHANGED used
       \/ ~runner[r].cancelled /\ Disturbed /\ Goes(r, "fail")
    /\ UNCHANGED <<retrieval, run, world, lost>>

\* The stage ended with outcome o; failed: with an error, at the stage it began.
Ends(r, o) == runner' = [runner EXCEPT ![r].pc = "record", ![r].out = o]
Outcome(next, gen) == [NoOutcome EXCEPT !.next = next, !.gen = gen]

\* The stage breaks off with an error, by a fault or because its context is done
\* (cancelled, or a heartbeat found the row gone or put down).
Breaks(r, next, gen) ==
    /\ Disturbed \/ ((runner[r].cancelled \/ ~Touchable(r)) /\ UNCHANGED used)
    /\ Ends(r, [Outcome(next, gen) EXCEPT !.failed = TRUE])

\* A stage is done, or it breaks off after its work was committed (its progress
\* report, the lease's release): the outcome names the stage again or already
\* the next, with the generation it had or the new one.
Done(r, o) ==
    \/ Ends(r, o) /\ UNCHANGED used
    \/ \E next \in {runner[r].stage, o.next}, gen \in {runner[r].gen, o.gen} : Breaks(r, next, gen)

At(r, stage) == runner[r].pc = "stage" /\ runner[r].stage = stage

\* The stage does nothing: the locks are not to be had (no outcome), its first
\* reads fail, the context is done before it starts, or a heartbeat found the
\* row gone or put down and cancelled the work.
StageFails(r) ==
    /\ runner[r].pc = "stage"
    /\ \/ Disturbed /\ \E o \in {NoOutcome, Outcome(runner[r].stage, runner[r].gen)} :
                                 Ends(r, [o EXCEPT !.failed = TRUE])
       \/ runner[r].cancelled /\ Goes(r, "cancel") /\ UNCHANGED used
       \/ ~runner[r].cancelled /\ ~Touchable(r) /\ Goes(r, "fail") /\ UNCHANGED used
    /\ UNCHANGED <<retrieval, run, world, lost>>

\* ApplyRetrievalProjection: the parent is clean.  Text that changed is due in
\* every profile, and its vector is gone from L0 and from the segment that holds it.
ApplyProjection(p) ==
    LET Without(segment) == IF p \notin segment.held THEN segment
                            ELSE [held |-> segment.held \ {p}, gone |-> segment.gone + 1]
    IN
    /\ dirty' = [dirty EXCEPT ![p] = 0]
    /\ \/ /\ \A f \in Profiles : embedding[f][p] # "none"
          /\ UNCHANGED <<embedding, revision, segments>>
       \/ /\ embedding' = [f \in Profiles |-> [embedding[f] EXCEPT ![p] = "due"]]
          /\ revision' = [f \in Profiles |-> [revision[f] EXCEPT ![p] = 0]]
          /\ segments' = [f \in Profiles |-> [i \in DOMAIN segments[f] |-> Without(segments[f][i])]]
    /\ UNCHANGED <<workRevision, generation, snapshot>>

\* executeProjection: the page's parent, the oldest dirty one at or below the
\* watermark, is chunked again.  An empty page ends the stage.
ExecuteProjection(r) ==
    LET page == {p \in Parents : dirty[p] \in 1 .. runner[r].watermark} IN
    /\ At(r, "projection")
    /\ IF page = {}
       THEN Done(r, Outcome("embedding", runner[r].gen)) /\ UNCHANGED retrieval
       ELSE /\ ApplyProjection(CHOOSE q \in page : \A o \in page : dirty[q] <= dirty[o])
            /\ Done(r, Outcome("projection", runner[r].gen))
    /\ UNCHANGED <<run, world, lost>>

Held(f) == UNION {segments[f][i].held : i \in DOMAIN segments[f]}
L0(f) == {p \in Parents : embedding[f][p] = "ready"} \ Held(f)

\* NextRetrievalFlushWindow: the oldest SegmentTarget vectors of L0 whose
\* parents are clean.  validateFlushWindow wants them all, and the last of them
\* no older than the active snapshot.
FlushWindow(f) ==
    LET clean == {p \in L0(f) : dirty[p] = 0}
        oldest == {w \in kSubset(SegmentTarget, clean) :
                      \A p \in w, q \in clean \ w : revision[f][p] <= revision[f][q]}
    IN  {w \in oldest : Max({revision[f][p] : p \in w}) >= snapshot[f]}

\* Flush: the window becomes a segment of a new active generation.
Flushes(f, window) ==
    /\ segments' = [segments EXCEPT ![f] = Append(@, [held |-> window, gone |-> 0])]
    /\ generation' = [generation EXCEPT ![f] = @ + 1]
    /\ snapshot' = [snapshot EXCEPT ![f] = Max({revision[f][p] : p \in window})]

Candidates(f) == {p \in Parents : dirty[p] = 0 /\ embedding[f][p] = "due"}

\* Mutant: the flush ahead of a batch waits until L0 is over its limit.
MutantMustFlushFirst(f, batch) == Cardinality(L0(f)) > SegmentHardLimit

\* The batch would take L0 over its hard limit.
MustFlushFirst(f, batch) == Cardinality(L0(f)) > SegmentHardLimit - Cardinality(batch)

\* The stage fails where it stands, having done what the generation shows.
FailsAt(r, gen) ==
    Ends(r, [Outcome(runner[r].stage, gen) EXCEPT !.failed = TRUE]) /\ UNCHANGED used

Marked(f, batch, status) ==
    [embedding EXCEPT ![f] = [p \in Parents |-> IF p \in batch THEN status ELSE @[p]]]

\* PutRetrievalEmbeddingBatch: the vectors of a batch share one new revision.
PutReady(f, batch) ==
    LET latest == Max({snapshot'[f]} \cup Range(revision[f])) IN
    /\ embedding' = Marked(f, batch, "ready")
    /\ revision' = [revision EXCEPT ![f] =
           [p \in Parents |-> IF p \in batch THEN latest + 1 ELSE @[p]]]

\* persistFailedEmbedBatch: the batch cools down.
PutFailed(f, batch) == embedding' = Marked(f, batch, "cooling") /\ UNCHANGED revision

\* RunEmbedBatch past its flush: the provider embeds the batch, or fails three
\* times and the circuit opens, or the stage breaks off before the batch is put.
EmbedBatch(r, f, batch, gen) ==
    \/ /\ provider = "up" \/ batch = {}
       /\ PutReady(f, batch)
       /\ Done(r, Outcome(IF Candidates(f) = batch THEN "flush" ELSE "embedding", gen))
    \/ /\ provider = "down" /\ batch # {}
       /\ PutFailed(f, batch)
       /\ FailsAt(r, gen)
    \/ /\ Breaks(r, "embedding", gen)
       /\ UNCHANGED <<embedding, revision>>

\* executeEmbedding: one batch of due chunks of clean parents, behind a flush
\* when L0 is full.  The stage ends when no chunk is due.
ExecuteEmbedding(r) ==
    LET f == runner[r].profile
        size == Min({Cardinality(Candidates(f)), EmbeddingBatch})
    IN
    /\ At(r, "embedding")
    /\ \E batch \in kSubset(size, Candidates(f)) :
         IF batch = {} \/ ~MustFlushFirst(f, batch)
         THEN UNCHANGED index /\ EmbedBatch(r, f, batch, runner[r].gen)
         ELSE \/ \E window \in FlushWindow(f) :
                     Flushes(f, window) /\ EmbedBatch(r, f, batch, generation'[f])
              \/ /\ FlushWindow(f) = {}
                 /\ FailsAt(r, runner[r].gen) /\ UNCHANGED <<embedding, revision, index>>
    /\ UNCHANGED <<workRevision, dirty, run, world, lost>>

\* executeFlush: one segment while L0 is over its target.
ExecuteFlush(r) ==
    LET f == runner[r].profile IN
    /\ At(r, "flush")
    /\ IF Cardinality(L0(f)) <= SegmentTarget
       THEN Done(r, Outcome("compaction", runner[r].gen)) /\ UNCHANGED index
       ELSE \/ \E window \in FlushWindow(f) :
                   Flushes(f, window) /\ Done(r, Outcome("flush", generation'[f]))
            \/ FlushWindow(f) = {} /\ FailsAt(r, runner[r].gen) /\ UNCHANGED index
    /\ UNCHANGED <<workRevision, dirty, embedding, revision, run, world, lost>>

Live(segment) == {p \in segment.held : dirty[p] = 0}
OverOnePercent(segment) ==
    LET tombstones == segment.gone + Cardinality(segment.held \ Live(segment))
    IN  100 * tombstones > Cardinality(Live(segment)) + tombstones

\* ClassifySegmentCompactionCount: classes double from the target; class 0 is
\* exact L0, class 6 is capped.
Class(n) == Cardinality({k \in 0 .. 5 : n >= SegmentTarget * 2^k})

\* PlanSegmentCompaction: the indices of the segments to rewrite.  One with too
\* many tombstones comes first, then the two oldest of the lowest class that
\* has two.
CompactionPlan(f) ==
    LET sorted == segments[f]
        over == {i \in DOMAIN sorted : OverOnePercent(sorted[i])}
        InClass(k) == {i \in DOMAIN sorted : Class(Cardinality(Live(sorted[i]))) = k}
        pairs == {k \in 1 .. 5 : Cardinality(InClass(k)) >= 2}
        oldest == Min(InClass(Min(pairs)))
    IN  IF over # {} THEN {Min(over)}
        ELSE IF pairs # {} THEN {oldest, Min(InClass(Min(pairs)) \ {oldest})}
        ELSE {}

\* Compact: what the active generation's segments become.  Live vectors too few
\* for a segment return to L0.
Compacted(f) ==
    LET live == UNION {Live(segments[f][i]) : i \in CompactionPlan(f)}
        others == RemoveAt(segments[f], Max(CompactionPlan(f)))
        retained == IF Cardinality(CompactionPlan(f)) = 1 THEN others
                    ELSE RemoveAt(others, Min(CompactionPlan(f)))
    IN  IF Class(Cardinality(live)) = 0 THEN retained
        ELSE Append(retained, [held |-> live, gone |-> 0])

\* A segment without a live vector is no input of a plan, and a root keeps a segment.
CompactionFails(f) ==
    \/ \E i \in DOMAIN segments[f] : Live(segments[f][i]) = {}
    \/ CompactionPlan(f) # {} /\ Compacted(f) = <<>>

\* executeCompaction: one plan at a time, then verify.
ExecuteCompaction(r) ==
    LET f == runner[r].profile IN
    /\ At(r, "compaction")
    /\ \/ CompactionFails(f) /\ FailsAt(r, runner[r].gen) /\ UNCHANGED index
       \/ /\ ~CompactionFails(f) /\ CompactionPlan(f) = {}
          /\ Done(r, Outcome("verify", runner[r].gen)) /\ UNCHANGED index
       \/ /\ ~CompactionFails(f) /\ CompactionPlan(f) # {}
          /\ segments' = [segments EXCEPT ![f] = Compacted(f)]
          /\ generation' = [generation EXCEPT ![f] = @ + 1]
          /\ Done(r, Outcome("compaction", generation'[f]))
          /\ UNCHANGED snapshot
    /\ UNCHANGED <<workRevision, dirty, embedding, revision, run, world, lost>>

\* Mutant: the run keeps the generation it had.
MutantExecuteVerify(r) ==
    /\ At(r, "verify")
    /\ Done(r, Outcome("readiness", runner[r].gen))
    /\ UNCHANGED <<retrieval, run, world, lost>>

\* executeVerify proves the root of the active generation and notes it.
ExecuteVerify(r) ==
    /\ At(r, "verify")
    /\ Done(r, Outcome("readiness", generation[runner[r].profile]))
    /\ UNCHANGED <<retrieval, run, world, lost>>

\* Everything is projected, and what has text is embedded.
WorkDone(f) == \A p \in Parents : dirty[p] = 0 /\ embedding[f][p] \in {"none", "ready"}

\* Evaluate says ready: the work is done, L0 within its target and at most one
\* vector in a hundred gone from the active generation.
Ready(f) ==
    LET gone == FoldLeft(LAMBDA n, segment : n + segment.gone, 0, segments[f]) IN
    /\ WorkDone(f)
    /\ Cardinality(L0(f)) <= SegmentTarget
    /\ 100 * gone <= Cardinality(Held(f)) + gone

\* Mutant: the readiness gates are not consulted.
MutantExecuteReadiness(r) ==
    LET f == runner[r].profile IN
    /\ At(r, "readiness")
    /\ Done(r, [Outcome("readiness", runner[r].gen) EXCEPT !.complete = TRUE])
    /\ UNCHANGED <<retrieval, run, world, lost>>

\* Mutant: writes after the watermark call for no successor.
MutantReadinessWithoutSuccessor(r) ==
    LET f == runner[r].profile
        here == Outcome("readiness", runner[r].gen)
    IN
    /\ At(r, "readiness")
    /\ IF generation[f] # runner[r].gen
       THEN Done(r, Outcome("compaction", 0))
       ELSE IF Ready(f)
       THEN Done(r, [here EXCEPT !.complete = TRUE])
       ELSE Ends(r, [here EXCEPT !.failed = TRUE]) /\ UNCHANGED used
    /\ UNCHANGED <<retrieval, run, world, lost>>

\* executeReadiness: back to compaction when the active generation is not the
\* one that was verified; complete, with a successor when the work revision has
\* moved on; otherwise complete only if ready.
ExecuteReadiness(r) ==
    LET f == runner[r].profile
        here == Outcome("readiness", runner[r].gen)
    IN
    /\ At(r, "readiness")
    /\ IF generation[f] # runner[r].gen
       THEN Done(r, Outcome("compaction", 0))
       ELSE IF workRevision > runner[r].watermark
       THEN Done(r, [here EXCEPT !.complete = TRUE, !.successor = workRevision])
       ELSE IF Ready(f)
       THEN Done(r, [here EXCEPT !.complete = TRUE])
       ELSE Ends(r, [here EXCEPT !.failed = TRUE]) /\ UNCHANGED used
    /\ UNCHANGED <<retrieval, run, world, lost>>

Execute(r) ==
    \/ ExecuteProjection(r) \/ ExecuteEmbedding(r) \/ ExecuteFlush(r)
    \/ ExecuteCompaction(r) \/ ExecuteVerify(r) \/ ExecuteReadiness(r)

\* What the runner does with outcome o once it is recorded: the context is looked
\* at first, then the error, then a successor that does not move on.
Decides(r, o) ==
    IF runner[r].cancelled THEN "cancel"
    ELSE IF o.failed \/ (o.complete /\ o.successor \in 1 .. runner[r].watermark) THEN "fail"
    ELSE IF o.complete THEN "complete" ELSE "stage"

\* An outcome is recorded, cancelled or not (updateRunDurably).  When the update
\* fails the refresh returns with a conflict; if the context is done by then,
\* before the update or in the midst of it, the run is still put down.
Record(r) ==
    LET o == runner[r].out IN
    /\ runner[r].pc = "record"
    /\ \/ /\ o.next = None
          /\ Goes(r, Decides(r, o)) /\ UNCHANGED <<run, used, lost>>
       \/ /\ o.next # None /\ CanUpdate(r)
          /\ run' = [run EXCEPT ![runner[r].profile] =
                 [run[runner[r].profile] EXCEPT !.stage = o.next, !.gen = o.gen, !.state = "running"]]
          /\ runner' = [runner EXCEPT ![r] = [runner[r] EXCEPT !.pc = Decides(r, o),
                !.stage = o.next, !.gen = o.gen, !.out = IF o.complete THEN o ELSE NoOutcome]]
          /\ UNCHANGED <<used, lost>>
       \/ /\ o.next # None /\ ~runner[r].cancelled
          /\ UpdateFails(r) /\ Returns(r) /\ UNCHANGED run
       \/ /\ o.next # None
          /\ Disturbed \/ (runner[r].cancelled /\ ~CanUpdate(r) /\ UNCHANGED used)
          /\ runner' = [runner EXCEPT ![r].pc = "cancel", ![r].cancelled = TRUE]
          /\ UNCHANGED <<run, lost>>
    /\ UNCHANGED <<retrieval, world>>

\* The run is completed: it leaves the resumable rows.  Cancelled on the way,
\* the completion's own context is done and its update fails, or it succeeded
\* first and the runner reports the cancellation.
Complete(r) ==
    LET f == runner[r].profile IN
    /\ runner[r].pc = "complete"
    /\ \/ /\ runner[r].cancelled
          /\ Goes(r, "cancel") /\ UNCHANGED <<run, used, lost>>
       \/ /\ ~runner[r].cancelled /\ CanUpdate(r)
          /\ run' = [run EXCEPT ![f] = None]
          /\ runner' = [Detach(runner, {f}) EXCEPT ![r] =
                 IF runner[r].out.successor = 0 THEN Idle
                 ELSE [runner[r] EXCEPT !.pc = "successor", !.attached = FALSE, !.fresh = FALSE]]
          /\ UNCHANGED <<used, lost>>
       \/ /\ ~runner[r].cancelled /\ UpdateFails(r)
          /\ Returns(r) /\ UNCHANGED run
    /\ UNCHANGED <<retrieval, world>>

\* startSuccessor.  Finding a run of the profile already there, it has resumed
\* (and so taken) it, and gives up.
StartSuccessor(r) ==
    LET f == runner[r].profile IN
    /\ runner[r].pc = "successor"
    /\ IF runner[r].cancelled
       THEN Returns(r) /\ UNCHANGED <<run, lost>>
       ELSE IF run[f] = None
       THEN StartOrResumeRun(r, f, runner[r].out.successor) /\ UNCHANGED lost
       ELSE /\ run' = [g \in Profiles |-> IF g = f THEN [run[f] EXCEPT !.state = "running"] ELSE None]
            /\ runner' = [s \in Runners |->
                   IF s = r THEN Idle
                   ELSE IF runner[s].profile = f THEN [runner[s] EXCEPT !.fresh = FALSE]
                   ELSE Detach(runner, Profiles \ {f})[s]]
            /\ lost' = TRUE
    /\ UNCHANGED <<retrieval, world, used>>

\* Mutant: a cancelled refresh returns without marking its run.
MutantPersistCancelled(r) ==
    /\ runner[r].pc = "cancel"
    /\ Returns(r)
    /\ UNCHANGED <<retrieval, run, world, used, lost>>

\* persistCancelled and persistTerminalCode: the run is put down for a later
\* refresh to resume; a stale copy changes nothing.
Persist(r, pc, state) ==
    /\ runner[r].pc = pc
    /\ \/ CanUpdate(r) /\ SaveState(r, state) /\ UNCHANGED <<used, lost>>
       \/ UpdateFails(r) /\ UNCHANGED run
    /\ Returns(r)
    /\ UNCHANGED <<retrieval, world>>

PersistCancelled(r) == Persist(r, "cancel", "cancelled")
PersistFailed(r) == Persist(r, "fail", "failed")

Cancel(r) ==
    /\ runner[r].pc # "idle" /\ ~runner[r].cancelled
    /\ Disturbed
    /\ runner' = [runner EXCEPT ![r].cancelled = TRUE]
    /\ UNCHANGED <<retrieval, run, world, lost>>

Crash(r) ==
    /\ runner[r].pc # "idle"
    /\ Disturbed
    /\ Returns(r)
    /\ lost' = TRUE
    /\ UNCHANGED <<retrieval, run, world>>

Step(r) ==
    \/ Start(r) \/ StartEmitter(r) \/ Execute(r) \/ Record(r)
    \/ Complete(r) \/ StartSuccessor(r) \/ PersistCancelled(r) \/ PersistFailed(r)

Next ==
    \/ \E r \in Runners : Refresh(r) \/ Step(r) \/ StageFails(r) \/ Cancel(r) \/ Crash(r)
    \/ \E p \in Parents : SourceWrite(p) \/ \E f \in Profiles : CooldownEnds(f, p)
    \/ ProviderFails \/ ProviderRecovers
    \/ \E f \in Profiles : SwitchProfile(f)

Spec == Init /\ [][Next]_vars

\* A refresh goes on until it returns; the scheduler starts one after every
\* sync; cooldowns and outages end.
FairSpec ==
    /\ Spec
    /\ \A r \in Runners : WF_vars(Step(r))
    /\ WF_vars(Refresh(Scheduled))
    /\ \A f \in Profiles, p \in Parents : WF_vars(CooldownEnds(f, p))
    /\ WF_vars(ProviderRecovers)

--------------------------------------------------------------------------------

(* A run past its projection stage has projected everything up to its
   watermark, whoever executed and recorded its stages: a stale runner, a crash
   between a stage and its record, a retried or repeated page never let it
   advance early. *)
StageIsEarned ==
    /\ TypeOK
    /\ \A f \in Profiles :
         (run[f] # None /\ run[f].stage # "projection") =>
             \A p \in Parents : dirty[p] \notin 1 .. run[f].watermark

(* No batch of embeddings takes the exact-search tail over the limit that a
   query can scan, whatever was flushed, left over or given back by compaction
   before: the flush ahead of the batch makes room for it or the batch waits. *)
EmbeddingKeepsL0Bounded ==
    [][\A f \in Profiles :
         ( /\ \E p \in Parents : embedding[f][p] = "due" /\ embedding'[f][p] = "ready"
           /\ Cardinality(L0(f)) <= SegmentHardLimit ) =>
             Cardinality(L0(f)') <= SegmentHardLimit]_vars

(* A run in state running is some runner's: however a refresh ends, by success,
   error, cancellation or conflict, it does not leave its run marked running,
   unless it crashed, its last update failed or its successor collided. *)
RunningHasARunner ==
    \A f \in Profiles :
        (run[f] # None /\ run[f].state = "running" /\ ~lost) =>
            \E r \in Runners : runner[r].fresh /\ runner[r].profile = f

(* Whatever a run is completed with, up to its watermark, is searchable at that
   moment: each parent is projected unless it changed after the watermark, and,
   when no successor follows, everything projected is embedded.  (Which root is
   active is not settled: a stale runner may compact it between the readiness
   stage and the completion.) *)
CompletionIsEarned ==
    [][\A f \in Profiles :
         \A r \in Runners :
           ( /\ runner[r].fresh /\ runner[r].profile = f
             /\ runner[r].pc = "complete" /\ runner'[r].pc \in {"idle", "successor"}
             /\ run'[f] = None ) =>
             /\ \A p \in Parents : dirty[p] \notin 1 .. run[f].watermark
             /\ runner[r].out.successor = 0 =>
                  \A p \in Parents : dirty[p] = 0 => embedding[f][p] \in {"none", "ready"}
             /\ runner[r].out.successor # 0 => runner[r].out.successor > run[f].watermark]_vars

(* Every refresh returns: no stage repeats for ever, two runners never keep
   each other from finishing, and a cancelled refresh stops. *)
EveryRefreshReturns ==
    \A r \in Runners : runner[r].pc # "idle" ~> runner[r].pc = "idle"

Debt == ~WorkDone(profile)

(* The run of the configured profile will fail at its stage however often it is
   resumed: the flush is short of clean or recent vectors, the compaction would
   leave no segment, or the work is unfinished, nothing was written since the
   watermark, and the stages that would do it lie behind. *)
Stuck ==
    LET row == run[profile] IN
    /\ row # None
    /\ \/ /\ row.stage = "embedding" /\ FlushWindow(profile) = {}
          /\ \E p \in Candidates(profile) : MustFlushFirst(profile, {p})
       \/ /\ row.stage = "flush" /\ FlushWindow(profile) = {}
          /\ Cardinality(L0(profile)) > SegmentTarget
       \/ row.stage = "compaction" /\ CompactionFails(profile)
       \/ /\ row.stage = "readiness" /\ row.gen = generation[profile]
          /\ row.watermark = workRevision /\ ~Ready(profile)

(* Everything written is projected and embedded in the end by the refreshes
   after later syncs, whatever crashed, failed, was cancelled or was written in
   between, unless the run is stuck in one of the ways that Stuck names. *)
DebtIsWorkedOff == Debt ~> (~Debt \/ Stuck)

(* What docs/semantic-retrieval.md says: a later successful sync automatically
   resumes a refresh interrupted by cancellation or failure, so that in the end
   everything is embedded. *)
AutomaticallyResumed == Debt ~> ~Debt
================================================================================
