-------------------------------- MODULE StageRun --------------------------------
(***************************************************************************)
(* A materialization stage: generate_database_instances and its workers    *)
(* (stage 02), or generate_tasks and its workers (stage 03).  A run of a   *)
(* shard selects its entries of the previous stage's manifest, a pool of   *)
(* worker processes generates and commits their artifacts, and the parent  *)
(* process writes the shard's manifest when all of them succeeded.  A      *)
(* stage 02 entry has one artifact; a stage 03 entry has one per task.     *)
(* Runs fail and are started again on what the last one left on disk, and  *)
(* beside the workers a killed parent left running: they are processes of  *)
(* their own, and no lock keeps two runs out of one directory.             *)
(***************************************************************************)
EXTENDS ArtifactDirectory

CONSTANTS
  NumEntries, StartIndex, Count, NumShards,
  Slots,        \* the worker processes of a shard's pool (num_workers)
  PerEntry,     \* artifacts per entry
  Attempts,     \* max_materialization_attempts; 1 for legacy plans, stage 03
  Overwrites,   \* the values of the overwrite flag runs are started with
  MaxRuns,      \* bound: runs of a shard
  MaxFaults,    \* bound: faults over all runs
  Crashes       \* whether processes may be killed

ASSUME StageConfigured ==
  /\ NumEntries \in Nat /\ StartIndex \in Nat /\ Count \in Nat \ {0}
  /\ NumShards \in Nat \ {0} /\ PerEntry \in Nat \ {0} /\ Attempts \in Nat \ {0}
  /\ Slots # {} /\ Overwrites \subseteq BOOLEAN /\ Crashes \in BOOLEAN
  /\ MaxRuns \in Nat /\ MaxFaults \in Nat

Runs == 1..MaxRuns
Items == 0..(NumEntries - 1)
Shards == 0..(NumShards - 1)
Pools == Shards \X Runs            \* every run of a shard starts a pool
Workers == Shards \X Runs \X Slots
Artifacts == Items \X (1..PerEntry)

(* One worker process per shard means no pool: the parent works itself.    *)
Sequential == \E k \in Slots : Slots = {k}

SelectedAroundStart(s) ==
  {i \in Items : StartIndex < i /\ i < StartIndex + Count /\ i % NumShards = s}

(* The slice [start_index:][:count], then the entries whose manifest       *)
(* position modulo num_shards is shard_id.                                 *)
Selected(s) ==
  {i \in Items : StartIndex <= i /\ i < StartIndex + Count /\ i % NumShards = s}

VARIABLES
  target,      \* artifact -> the directory under its final name
  temp,        \* artifact -> the directory .<name>.tmp
  manifest,    \* shard -> its manifest: run (0: none) and artifacts in order
  run,         \* shard -> number of the last run started
  mode,        \* shard -> what that run's parent process is doing
  overwrite,   \* pool -> the overwrite flag of its run
  queue,       \* pool -> items no worker of it has taken yet
  outcome,     \* item -> the state of its future in the shard's last run
  results,     \* shard -> items whose result the parent has, in arrival order
  worker,      \* worker -> what it is doing
  faults,      \* faults so far
  shared       \* history, read by properties only: the <<run, item>> pairs
               \* that workers of two runs had to do at the same time

disk == <<target, temp>>
parent == <<manifest, run, mode, overwrite, shared>>
futures == <<queue, outcome>>
vars == <<target, temp, manifest, run, mode, overwrite, queue, outcome, results,
          worker, faults, shared>>

Idle == [step |-> "idle", item |-> 0, part |-> 1, attempt |-> 1, file |-> 0]
Dead == [step |-> "dead", item |-> 0, part |-> 1, attempt |-> 1, file |-> 0]
Starting(i) == [step |-> "generate", item |-> i, part |-> 1, attempt |-> 1, file |-> 0]

Init ==
  /\ target = [a \in Artifacts |-> NoDirectory]
  /\ temp = [a \in Artifacts |-> NoDirectory]
  /\ manifest = [s \in Shards |-> [run |-> 0, entries |-> <<>>]]
  /\ run = [s \in Shards |-> 0]
  /\ mode = [s \in Shards |-> "new"]
  /\ overwrite = [p \in Pools |-> FALSE]
  /\ queue = [p \in Pools |-> {}]
  /\ outcome = [i \in Items |-> "none"]
  /\ results = [s \in Shards |-> <<>>]
  /\ worker = [w \in Workers |-> Idle]
  /\ faults = 0
  /\ shared = {}

Active(s) == mode[s] \in {"running", "raising"}
Fault == faults < MaxFaults /\ faults' = faults + 1
-----------------------------------------------------------------------------
(* A worker process.  Operators whose name ends in a fault (...Unchecked,  *)
(* ...Early and the like) are deliberately wrong variants of the operator  *)
(* that follows; nothing in the specification uses them.                   *)

At(w, step) == worker[w].step = step
Busy(w) == ~At(w, "idle") /\ ~At(w, "dead")
Artifact(w) == <<worker[w].item, worker[w].part>>
Goto(w, step) == worker' = [worker EXCEPT ![w].step = step]
RunOf(w) == w[2]
PoolOf(w) == <<w[1], w[2]>>
LastPool(s) == <<s, run[s]>>
InLastRun(w) == RunOf(w) = run[w[1]]

(* The items w is at or may still take.                                    *)
Holds(w, i) ==
  /\ ~At(w, "dead")
  /\ i \in queue[PoolOf(w)] \/ (Busy(w) /\ worker[w].item = i)

(* A worker of another run is at the same artifact.                        *)
Meets(w) == \E v \in Workers \ {w} : Busy(v) /\ Artifact(v) = Artifact(w)

(* The future of w's item is settled; nobody is left to see the future of  *)
(* a worker whose parent is gone.  Without a pool the loop ends at the     *)
(* first exception; a pool goes on with the futures it was given.          *)
Settle(w, result) ==
  /\ outcome' = IF InLastRun(w) THEN [outcome EXCEPT ![worker[w].item] = result]
                ELSE outcome
  /\ worker' = [worker EXCEPT ![w] = Idle]
  /\ queue' = IF result = "failed" /\ Sequential
              THEN [queue EXCEPT ![PoolOf(w)] = {}] ELSE queue

(* The pool hands out the items in the order they were submitted.  Workers *)
(* left behind go on with the items already handed to the pool's pipe.     *)
TakeItem(w) ==
  /\ At(w, "idle")
  /\ \E i \in queue[PoolOf(w)] :
       /\ \A j \in queue[PoolOf(w)] : i <= j
       /\ queue' = [queue EXCEPT ![PoolOf(w)] = @ \ {i}]
       /\ worker' = [worker EXCEPT ![w] = Starting(i)]
  /\ UNCHANGED <<disk, parent, outcome, results, faults>>

RetryUnbounded(w) ==
  /\ At(w, "generate") /\ worker[w].part = 1 /\ worker[w].attempt <= Attempts
  /\ worker' = [worker EXCEPT ![w].attempt = @ + 1]
  /\ UNCHANGED <<disk, parent, futures, results, faults>>

(* A ValueError uses up an attempt of the retry loop.                      *)
Retry(w) ==
  /\ At(w, "generate") /\ worker[w].part = 1 /\ worker[w].attempt < Attempts
  /\ worker' = [worker EXCEPT ![w].attempt = @ + 1]
  /\ UNCHANGED <<disk, parent, futures, results, faults>>

(* The last attempt is used up, or another exception is raised.            *)
GiveUp(w) ==
  /\ At(w, "generate") /\ worker[w].part = 1 /\ Fault
  /\ Settle(w, "failed")
  /\ UNCHANGED <<disk, parent, results>>

(* A later task of the entry does not validate: the ones before it have    *)
(* been committed.                                                         *)
InvalidTask(w) ==
  /\ At(w, "generate") /\ worker[w].part > 1 /\ Fault
  /\ Settle(w, "failed")
  /\ UNCHANGED <<disk, parent, results>>

CheckUnguarded(w) ==
  /\ At(w, "generate")
  /\ Goto(w, "clear") /\ UNCHANGED futures
  /\ UNCHANGED <<disk, parent, results, faults>>

CheckIgnoringOverwrite(w) ==
  /\ At(w, "generate")
  /\ IF target[Artifact(w)].there
     THEN Settle(w, "failed")
     ELSE Goto(w, "clear") /\ UNCHANGED futures
  /\ UNCHANGED <<disk, parent, results, faults>>

(* The artifact is generated, in memory, and valid, and commit() begins:   *)
(* an existing artifact is an error unless overwriting.                    *)
Check(w) ==
  /\ At(w, "generate")
  /\ IF target[Artifact(w)].there /\ ~overwrite[PoolOf(w)]
     THEN Settle(w, "failed")
     ELSE Goto(w, "clear") /\ UNCHANGED futures
  /\ UNCHANGED <<disk, parent, results, faults>>

(* With exist_ok and nothing removed.                                      *)
LookForTempReusing(w) ==
  /\ At(w, "clear")
  /\ temp' = [temp EXCEPT ![Artifact(w)].there = TRUE]
  /\ worker' = [worker EXCEPT ![w].step = "write", ![w].file = FirstFile(RunOf(w))]
  /\ UNCHANGED <<target, parent, futures, results, faults>>

(* temporary.exists(): a run that was killed may have left one.            *)
LookForTemp(w) ==
  /\ At(w, "clear")
  /\ Goto(w, IF temp[Artifact(w)].there THEN "clearing" ELSE "make")
  /\ UNCHANGED <<disk, parent, futures, results, faults>>

ClearTemp(w) ==
  /\ At(w, "clearing") /\ temp[Artifact(w)].there
  /\ \E d \in Shrunk(temp[Artifact(w)]) :
       /\ temp' = [temp EXCEPT ![Artifact(w)] = d]
       /\ IF d.there THEN UNCHANGED worker ELSE Goto(w, "make")
  /\ UNCHANGED <<target, parent, futures, results, faults>>

MakeTemp(w) ==
  /\ At(w, "make") /\ ~temp[Artifact(w)].there
  /\ temp' = [temp EXCEPT ![Artifact(w)] = EmptyDirectory]
  /\ worker' = [worker EXCEPT ![w].step = "write", ![w].file = FirstFile(RunOf(w))]
  /\ UNCHANGED <<target, parent, futures, results, faults>>

WriteFileLeavingFirst(w) ==
  /\ At(w, "write")
  /\ temp' = [temp EXCEPT ![Artifact(w)] = WithFile(@, LastFile, RunOf(w))]
  /\ worker' = [worker EXCEPT ![w].step = "retire", ![w].file = 0]
  /\ UNCHANGED <<target, parent, futures, results, faults>>

(* The files are written in order, artifact.json last.  Writing one makes  *)
(* the directory again when it is gone.                                    *)
WriteFile(w) ==
  /\ At(w, "write")
  /\ temp' = [temp EXCEPT ![Artifact(w)] = WithFile(@, worker[w].file, RunOf(w))]
  /\ worker' = IF worker[w].file = LastFile
               THEN [worker EXCEPT ![w].step = "retire", ![w].file = 0]
               ELSE [worker EXCEPT ![w].file = @ + 1]
  /\ UNCHANGED <<target, parent, futures, results, faults>>

(* target.exists()                                                         *)
LookForTarget(w) ==
  /\ At(w, "retire")
  /\ Goto(w, IF target[Artifact(w)].there THEN "retiring" ELSE "move")
  /\ UNCHANGED <<disk, parent, futures, results, faults>>

(* The artifact to be replaced is removed.                                 *)
RemoveTarget(w) ==
  /\ At(w, "retiring") /\ target[Artifact(w)].there
  /\ \E d \in Shrunk(target[Artifact(w)]) :
       /\ target' = [target EXCEPT ![Artifact(w)] = d]
       /\ IF d.there THEN UNCHANGED worker ELSE Goto(w, "move")
  /\ UNCHANGED <<temp, parent, futures, results, faults>>

(* temporary.replace(target), which an empty directory does not stop.  The *)
(* worker goes on with the entry's next task, or returns its result.       *)
Publish(w) ==
  /\ At(w, "move") /\ temp[Artifact(w)].there /\ target[Artifact(w)].has = {}
  /\ target' = [target EXCEPT ![Artifact(w)] = temp[Artifact(w)]]
  /\ temp' = [temp EXCEPT ![Artifact(w)] = NoDirectory]
  /\ IF worker[w].part < PerEntry
     THEN /\ worker' = [worker EXCEPT ![w].part = @ + 1, ![w].step = "generate"]
          /\ UNCHANGED futures
     ELSE Settle(w, "ok")
  /\ UNCHANGED <<parent, results, faults>>

(* An exception while the files are written, the old artifact is removed   *)
(* or the new one is moved into place.                                     *)
DiskError(w) ==
  /\ At(w, "write") \/ At(w, "retiring") \/ At(w, "move")
  /\ Fault
  /\ Goto(w, "cleanup")
  /\ UNCHANGED <<disk, parent, futures, results>>

(* except Exception: the temporary directory is removed and the exception  *)
(* becomes the result of the future.                                       *)
CleanUp(w) ==
  /\ At(w, "cleanup") /\ temp[Artifact(w)].there
  /\ \E d \in Shrunk(temp[Artifact(w)]) :
       /\ temp' = [temp EXCEPT ![Artifact(w)] = d]
       /\ IF d.there THEN UNCHANGED <<futures, worker>> ELSE Settle(w, "failed")
  /\ UNCHANGED <<target, parent, results, faults>>

(* An operation finds its directory as another process left it, or while   *)
(* one is at it, and raises: before the try (the first two) ...            *)
FailToMake(w) ==
  /\ \/ At(w, "clearing") /\ (Meets(w) \/ ~temp[Artifact(w)].there)
     \/ At(w, "make") /\ temp[Artifact(w)].there
     \/ At(w, "cleanup") /\ (Meets(w) \/ ~temp[Artifact(w)].there)
  /\ Settle(w, "failed")
  /\ UNCHANGED <<disk, parent, results, faults>>

(* ... or within it.                                                       *)
FailToCommit(w) ==
  /\ \/ /\ At(w, "write")
        /\ Meets(w) \/ temp[Artifact(w)] # Begun(worker[w].file, RunOf(w))
     \/ At(w, "retiring") /\ (Meets(w) \/ ~target[Artifact(w)].there)
     \/ /\ At(w, "move")
        /\ ~temp[Artifact(w)].there \/ target[Artifact(w)].has # {}
  /\ Goto(w, "cleanup")
  /\ UNCHANGED <<disk, parent, futures, results, faults>>

(* rmtree holds the directory it removes open: when another process moves  *)
(* it into place, the files go on disappearing, from the artifact.         *)
RemoveMoved(w) ==
  /\ At(w, "clearing") \/ At(w, "cleanup")
  /\ ~temp[Artifact(w)].there
  /\ \E x \in target[Artifact(w)].has : target' = [target EXCEPT ![Artifact(w)].has = @ \ {x}]
  /\ UNCHANGED <<temp, parent, futures, results, worker, faults>>
-----------------------------------------------------------------------------
(* The parent process *)

(* The pairs workers of earlier runs still have to do.                     *)
Lingering(s) ==
  {x \in Runs \X Items : \E k \in Slots : Holds(<<s, x[1], k>>, x[2])}

Select(s, flag) ==
  /\ run' = [run EXCEPT ![s] = @ + 1]
  /\ mode' = [mode EXCEPT ![s] = "running"]
  /\ overwrite' = [overwrite EXCEPT ![<<s, run[s] + 1>>] = flag]
  /\ queue' = [queue EXCEPT ![<<s, run[s] + 1>>] = Selected(s)]
  /\ outcome' = [i \in Items |-> IF i \in Selected(s) THEN "none" ELSE outcome[i]]
  /\ results' = [results EXCEPT ![s] = <<>>]

(* The stage is started, for the first time or again.                      *)
StartRun(s) ==
  /\ ~Active(s) /\ run[s] < MaxRuns
  /\ \E flag \in Overwrites : Select(s, flag)
  /\ shared' = shared \cup Lingering(s) \cup {<<run[s] + 1, x[2]>> : x \in Lingering(s)}
  /\ UNCHANGED <<disk, manifest, worker, faults>>

Collected(s) == {results[s][k] : k \in DOMAIN results[s]}

CollectIgnoringErrors(s) ==
  /\ mode[s] = "running"
  /\ \E i \in Selected(s) \ Collected(s) :
       /\ outcome[i] # "none"
       /\ results' = [results EXCEPT ![s] = Append(@, i)]
  /\ UNCHANGED <<disk, parent, futures, worker, faults>>

(* as_completed yields the finished futures in any order.                  *)
Collect(s) ==
  /\ mode[s] = "running"
  /\ \E i \in Selected(s) \ Collected(s) :
       /\ outcome[i] = "ok"
       /\ results' = [results EXCEPT ![s] = Append(@, i)]
  /\ UNCHANGED <<disk, parent, futures, worker, faults>>

RaiseAfterAllResults(s) ==
  /\ mode[s] = "running" /\ \E i \in Selected(s) : outcome[i] = "failed"
  /\ Collected(s) = Selected(s)
  /\ mode' = [mode EXCEPT ![s] = "raising"]
  /\ UNCHANGED <<disk, manifest, run, overwrite, shared, futures, results, worker, faults>>

(* future.result() raises: the parent leaves the loop ...                  *)
Raise(s) ==
  /\ mode[s] = "running" /\ \E i \in Selected(s) : outcome[i] = "failed"
  /\ mode' = [mode EXCEPT ![s] = "raising"]
  /\ UNCHANGED <<disk, manifest, run, overwrite, shared, futures, results, worker, faults>>

LeavePoolEarly(s) ==
  /\ mode[s] = "raising"
  /\ mode' = [mode EXCEPT ![s] = "raised"]
  /\ UNCHANGED <<disk, manifest, run, overwrite, shared, futures, results, worker, faults>>

(* ... and leaving the executor's with block waits for the pool to run dry. *)
LeavePool(s) ==
  /\ mode[s] = "raising" /\ queue[LastPool(s)] = {}
  /\ \A k \in Slots : ~Busy(<<s, run[s], k>>)
  /\ mode' = [mode EXCEPT ![s] = "raised"]
  /\ UNCHANGED <<disk, manifest, run, overwrite, shared, futures, results, worker, faults>>

ListingUnsorted(s) ==
  [k \in 1..(Len(results[s]) * PerEntry) |->
     <<results[s][((k - 1) \div PerEntry) + 1], ((k - 1) % PerEntry) + 1>>]

(* The results sorted by their position in the previous stage's manifest.  *)
Sorted(s) ==
  CHOOSE f \in [1..Len(results[s]) -> Collected(s)] :
    /\ \A i \in Collected(s) : \E k \in DOMAIN f : f[k] = i
    /\ \A j, k \in DOMAIN f : j < k => f[j] < f[k]

(* The manifest's entries: the sorted results, the tasks of an entry in    *)
(* their order.                                                            *)
Listing(s) ==
  [k \in 1..(Len(results[s]) * PerEntry) |->
     <<Sorted(s)[((k - 1) \div PerEntry) + 1], ((k - 1) % PerEntry) + 1>>]

(* write_manifest: every item succeeded; an existing manifest is an error  *)
(* unless overwriting.                                                     *)
WriteManifest(s) ==
  /\ mode[s] = "running" /\ Collected(s) = Selected(s)
  /\ IF manifest[s].run # 0 /\ ~overwrite[LastPool(s)]
     THEN mode' = [mode EXCEPT ![s] = "raised"] /\ UNCHANGED manifest
     ELSE /\ mode' = [mode EXCEPT ![s] = "done"]
          /\ manifest' = [manifest EXCEPT ![s] = [run |-> run[s], entries |-> Listing(s)]]
  /\ UNCHANGED <<disk, run, overwrite, shared, futures, results, worker, faults>>

(* The parent is killed and nothing is cleaned up.  Its workers are other  *)
(* processes: they stay where they are, with the first of the items, those *)
(* in the pipe, one more than there are workers.  Without a pool the       *)
(* worker is the parent.                                                   *)
Crash(s) ==
  /\ Crashes /\ Active(s) /\ Fault
  /\ mode' = [mode EXCEPT ![s] = "crashed"]
  /\ \E kept \in SUBSET queue[LastPool(s)] :
       /\ \A i \in kept, j \in queue[LastPool(s)] \ kept : i < j
       /\ Cardinality(kept) <= Cardinality(Slots) + 1
       /\ queue' = [queue EXCEPT ![LastPool(s)] = IF Sequential THEN {} ELSE kept]
  /\ worker' = [w \in Workers |->
                  IF Sequential /\ w[1] = s /\ InLastRun(w) THEN Dead ELSE worker[w]]
  /\ UNCHANGED <<disk, manifest, run, overwrite, shared, outcome, results>>

(* A worker is killed.  The executor ends the others wherever they are,    *)
(* waits for them, and the futures that are left raise BrokenProcessPool.  *)
BreakPool(s) ==
  /\ Crashes /\ Active(s) /\ ~Sequential /\ Fault
  /\ worker' = [w \in Workers |-> IF w[1] = s /\ InLastRun(w) THEN Dead ELSE worker[w]]
  /\ queue' = [queue EXCEPT ![LastPool(s)] = {}]
  /\ outcome' = [i \in Items |-> IF i \in Selected(s) /\ outcome[i] = "none" THEN "failed"
                                 ELSE outcome[i]]
  /\ UNCHANGED <<disk, parent, results>>

(* A worker without a parent is killed: nobody notices.                    *)
LoseWorker(w) ==
  /\ Crashes /\ Busy(w) /\ ~(InLastRun(w) /\ Active(w[1])) /\ Fault
  /\ worker' = [worker EXCEPT ![w] = Dead]
  /\ UNCHANGED <<disk, parent, futures, results>>
-----------------------------------------------------------------------------
Commit(w) ==
  \/ Check(w) \/ LookForTemp(w) \/ ClearTemp(w) \/ MakeTemp(w) \/ WriteFile(w)
  \/ LookForTarget(w) \/ RemoveTarget(w) \/ Publish(w) \/ CleanUp(w)
  \/ FailToMake(w) \/ FailToCommit(w) \/ RemoveMoved(w)
WorkerStep(w) == TakeItem(w) \/ Commit(w)
WorkerFault(w) == Retry(w) \/ GiveUp(w) \/ InvalidTask(w) \/ DiskError(w) \/ LoseWorker(w)
ParentStep(s) == Collect(s) \/ Raise(s) \/ LeavePool(s) \/ WriteManifest(s)
ParentFault(s) == Crash(s) \/ BreakPool(s)

Next ==
  \/ \E w \in Workers : WorkerStep(w) \/ WorkerFault(w)
  \/ \E s \in Shards : StartRun(s) \/ ParentStep(s) \/ ParentFault(s)

Spec == Init /\ [][Next]_vars

(* The operating system schedules every process that can run.              *)
FairSpec ==
  /\ Spec
  /\ \A w \in Workers : WF_vars(WorkerStep(w))
  /\ \A s \in Shards : WF_vars(ParentStep(s))
-----------------------------------------------------------------------------
(* Properties *)

WorkerType ==
  [step : {"idle", "dead", "generate", "clear", "clearing", "make", "write",
           "retire", "retiring", "move", "cleanup"},
   item : Nat, part : 1..PerEntry, attempt : 1..Attempts, file : Files]

(* Every variable keeps its type.                                          *)
TypeOK ==
  /\ target \in [Artifacts -> Directory] /\ temp \in [Artifacts -> Directory]
  /\ \A s \in Shards : manifest[s].run \in 0..run[s] /\ manifest[s].entries \in Seq(Artifacts)
  /\ run \in [Shards -> 0..MaxRuns] /\ overwrite \in [Pools -> BOOLEAN]
  /\ mode \in [Shards -> {"new", "running", "raising", "raised", "done", "crashed"}]
  /\ queue \in [Pools -> SUBSET Items] /\ shared \subseteq Runs \X Items
  /\ \A p \in Pools : queue[p] \subseteq Selected(p[1])
  /\ \A s \in Shards : results[s] \in Seq(Selected(s))
  /\ outcome \in [Items -> {"none", "ok", "failed"}]
  /\ worker \in [Workers -> WorkerType]
  /\ faults \in 0..MaxFaults

(* No worker of an earlier run had item i to do while run r had it.        *)
Alone(r, i) == <<r, i>> \notin shared

(* Until the shard is run again, what its manifest lists is on disk, whole *)
(* and from the run the manifest is of, but for items a worker that an     *)
(* earlier, killed run left behind still had to do when that run began: no *)
(* failed item, retry, pool schedule or leftover of a crash lets a run     *)
(* publish a manifest over artifacts missing, stale or half written.       *)
ManifestedArtifactsWhole ==
  \A s \in Shards :
    manifest[s].run # 0 /\ manifest[s].run = run[s] =>
      \A k \in DOMAIN manifest[s].entries :
        Alone(run[s], manifest[s].entries[k][1]) =>
          Whole(target[manifest[s].entries[k]], manifest[s].run)

(* "Results are sorted back into schema-manifest order": a manifest lists  *)
(* the artifacts of exactly the selected entries, in the order of the      *)
(* entries, whatever order the pool finished them in.                      *)
ManifestInOrder ==
  \A s \in Shards :
    manifest[s].run # 0 =>
      LET e == manifest[s].entries IN
        /\ {e[k] : k \in DOMAIN e} = Selected(s) \X (1..PerEntry)
        /\ \A j, k \in DOMAIN e :
             j < k => e[j][1] < e[k][1] \/ (e[j][1] = e[k][1] /\ e[j][2] < e[k][2])

(* Once every shard has its manifest, each artifact of the slice that was  *)
(* asked for is listed by exactly one of them.                             *)
ShardsCoverSlice ==
  (\A s \in Shards : manifest[s].run # 0) =>
    \A a \in Artifacts :
      Cardinality({s \in Shards : \E k \in DOMAIN manifest[s].entries : manifest[s].entries[k] = a})
        = IF StartIndex <= a[1] /\ a[1] < StartIndex + Count THEN 1 ELSE 0

(* The result a worker returns is on disk: an item whose future succeeded  *)
(* has every one of its artifacts, whole, from the current run, unless it  *)
(* was also an item of a worker left behind.                               *)
SucceededItemsWhole ==
  \A s \in Shards : \A i \in Selected(s) :
    outcome[i] = "ok" /\ Alone(run[s], i) =>
      \A p \in 1..PerEntry : Whole(target[<<i, p>>], run[s])

(* An artifact under its final name that has a file of a run which had the *)
(* item for itself has only files of that run, and only files it was to    *)
(* write: neither what a killed run left in a temporary directory nor what *)
(* the workers of other runs do later gets mixed with them.                *)
NoLeftoversPublished ==
  \A a \in Artifacts : \A x \in target[a].has :
    Alone(x[2], a[1]) => target[a].has \subseteq FilesOf(x[2]) \X {x[2]}

(* A run that was not killed leaves no worker behind: when its parent has  *)
(* written the manifest or raised, by itself or because its pool broke,    *)
(* none of its workers is at work or has an item to take, so the next run  *)
(* does not meet them in a directory.                                      *)
NoOrphanWorkers ==
  \A s \in Shards : mode[s] \in {"raised", "done"} =>
    \A w \in Workers : w[1] = s /\ InLastRun(w) => \A i \in Items : ~Holds(w, i)

(* Every run that is not killed ends: the parent writes its manifest or    *)
(* raises, and never waits for a future nobody works on.                   *)
RunsEnd == \A s \in Shards : Active(s) ~> ~Active(s)

(* A run started with overwrite succeeds unless something new goes wrong   *)
(* or a worker of an earlier run is at its items: no half written, half    *)
(* removed or abandoned directory of earlier runs stops it.                *)
OverwritingRunRecovers ==
  \A s \in Shards :
    (/\ mode[s] = "running" /\ overwrite[LastPool(s)] /\ faults = MaxFaults
     /\ \A i \in Selected(s) : outcome[i] # "failed" /\ Alone(run[s], i)
     /\ \A k \in Slots : ~At(<<s, run[s], k>>, "cleanup"))
      ~> mode[s] = "done"

(* "each worker generates, validates, and atomically stores one database": *)
(* a whole artifact is only ever replaced by a whole artifact, in one step. *)
ReplacementAtomic ==
  [][\A a \in Artifacts :
       (\E r \in 1..MaxRuns : Whole(target[a], r)) =>
         (\E r \in 1..MaxRuns : Whole(target'[a], r))]_vars

(* The stage implements the artifact store; the whole artifacts are the    *)
(* ones the store has, only a worker of a run with overwrite withdraws     *)
(* any, and nothing is promised of the items two runs are at.              *)
Published(d) == IF \E r \in RunsIn(d) : Whole(d, r)
                THEN CHOOSE r \in RunsIn(d) : Whole(d, r) ELSE 0

AtomicStore == INSTANCE ArtifactStore WITH
  Names <- Artifacts,
  Lists <- Shards,
  store <- [a \in Artifacts |-> Published(target[a])],
  index <- manifest,
  replacing <- \E w \in Workers : Busy(w) /\ overwrite[PoolOf(w)],
  contested <- {a \in Artifacts : ~Alone(run[a[1] % NumShards], a[1])}

ImplementsStore == AtomicStore!Store
=============================================================================
