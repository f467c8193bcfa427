---------------------------- MODULE StageRunProofs ----------------------------
(***************************************************************************)
(* Safety of a materialization stage for every number of entries, shards,  *)
(* workers, runs, faults and files.                                        *)
(***************************************************************************)
EXTENDS StageRun, TLAPS

Modes == {"new", "running", "raising", "raised", "done", "crashed"}

Typed ==
  /\ target \in [Artifacts -> Directory]
  /\ temp \in [Artifacts -> Directory]
  /\ run \in [Shards -> 0..MaxRuns]
  /\ mode \in [Shards -> Modes]
  /\ overwrite \in [Pools -> BOOLEAN]
  /\ queue \in [Pools -> SUBSET Items]
  /\ outcome \in [Items -> {"none", "ok", "failed"}]
  /\ results \in [Shards -> Seq(Items)]
  /\ worker \in [Workers -> WorkerType]
  /\ shared \in SUBSET (Runs \X Items)

(* The last run of the shard may still have work: it is on, or was killed. *)
Unfinished(s) == mode[s] \in {"running", "raising", "crashed"}

(* An item nobody has finished is in its pool's queue or at one worker.    *)
WorkersOwn ==
  \A w \in Workers : Busy(w) =>
    /\ worker[w].item \in Selected(w[1]) \ queue[PoolOf(w)]
    /\ RunOf(w) <= run[w[1]]
    /\ InLastRun(w) => outcome[worker[w].item] = "none" /\ Unfinished(w[1])

ItemsApart ==
  \A u, v \in Workers :
    Busy(u) /\ Busy(v) /\ PoolOf(u) = PoolOf(v) /\ worker[u].item = worker[v].item => u = v

PoolsOwn ==
  \A p \in Pools :
    /\ queue[p] \subseteq Selected(p[1])
    /\ queue[p] # {} => p[2] <= run[p[1]]
    /\ p[2] = run[p[1]] => \A j \in queue[p] : outcome[j] = "none" /\ Unfinished(p[1])

ResultsOwn ==
  \A s \in Shards : /\ Active(s) => run[s] >= 1
                    /\ \A j \in Collected(s) : j \in Selected(s) /\ outcome[j] = "ok"

(* What workers of an earlier run still have to do is known to be shared.  *)
OldShared ==
  \A w \in Workers, i \in Items :
    Holds(w, i) /\ ~InLastRun(w) => <<RunOf(w), i>> \in shared /\ <<run[w[1]], i>> \in shared

Owned == WorkersOwn /\ ItemsApart /\ PoolsOwn /\ ResultsOwn /\ OldShared

(* The worker is at an item its run has for itself.                        *)
Mine(w) == Busy(w) /\ Alone(RunOf(w), worker[w].item)

Committing(w) == At(w, "write") \/ At(w, "retire") \/ At(w, "retiring") \/ At(w, "move")

(* What the temporary directory of such a worker holds.                    *)
Stamped(w) ==
  Mine(w) =>
    /\ At(w, "write") => /\ worker[w].file \in FilesOf(RunOf(w))
                         /\ temp[Artifact(w)] = Begun(worker[w].file, RunOf(w))
    /\ At(w, "retire") \/ At(w, "retiring") \/ At(w, "move") => Whole(temp[Artifact(w)], RunOf(w))
    /\ At(w, "clearing") \/ At(w, "cleanup") => temp[Artifact(w)].there

(* No worker moves a file into place that another run wrote for itself.    *)
Clean(w) ==
  Committing(w) => \A x \in temp[Artifact(w)].has : Alone(x[2], worker[w].item) => x[2] = RunOf(w)

(* The artifacts a worker has behind it are finished.                      *)
Behind(w) ==
  Mine(w) => \A p \in 1..(worker[w].part - 1) : Whole(target[<<worker[w].item, p>>], RunOf(w))

Stored ==
  /\ NoLeftoversPublished /\ SucceededItemsWhole
  /\ \A w \in Workers : Stamped(w) /\ Clean(w) /\ Behind(w)

StageInv == Typed /\ Owned /\ Stored

ShardOf(a) == a[1] % NumShards
-----------------------------------------------------------------------------
(* A worker's shard, run and, while it is busy, its artifact. *)
LEMMA WorkerPlace ==
  ASSUME NEW w \in Workers
  PROVE  /\ w[1] \in Shards /\ w[2] \in Runs /\ w[3] \in Slots /\ w = <<w[1], w[2], w[3]>>
         /\ PoolOf(w) \in Pools /\ RunOf(w) \in Runs /\ RunOf(w) = w[2]
         /\ Typed => worker[w] \in WorkerType
         /\ Typed /\ Owned /\ Busy(w) => /\ worker[w].item \in Items
                                         /\ worker[w].item \in Selected(w[1])
                                         /\ Artifact(w) \in Artifacts
                                         /\ ShardOf(Artifact(w)) = w[1]
<1>1. /\ w[1] \in Shards /\ w[2] \in Runs /\ w[3] \in Slots /\ w = <<w[1], w[2], w[3]>>
  BY DEF Workers
<1>2. PoolOf(w) \in Pools /\ RunOf(w) \in Runs /\ RunOf(w) = w[2]
  BY <1>1 DEF PoolOf, Pools, RunOf
<1>3. Typed => worker[w] \in WorkerType
  BY DEF Typed
<1>4. ASSUME Typed, Owned, Busy(w)
      PROVE  /\ worker[w].item \in Items /\ worker[w].item \in Selected(w[1])
             /\ Artifact(w) \in Artifacts /\ ShardOf(Artifact(w)) = w[1]
  <2>1. worker[w].item \in Selected(w[1])
    BY <1>4 DEF Owned, WorkersOwn
  <2>2. worker[w].item \in Items /\ worker[w].item % NumShards = w[1]
    BY <2>1 DEF Selected
  <2>3. worker[w].part \in 1..PerEntry
    BY <1>3, <1>4 DEF WorkerType
  <2> QED
    BY <2>1, <2>2, <2>3 DEF Artifact, Artifacts, ShardOf
<1> QED
  BY <1>1, <1>2, <1>3, <1>4

(* No item is selected by two shards. *)
LEMMA SelectedApart ==
  \A s \in Shards : Selected(s) \subseteq Items /\ \A i \in Selected(s) : i % NumShards = s
BY DEF Selected

LEMMA DirectoriesAreDirectories ==
  /\ NoDirectory \in Directory /\ EmptyDirectory \in Directory
  /\ \A d \in Directory : Shrunk(d) \subseteq Directory
  /\ \A d \in Directory, f \in Files, r \in Nat : WithFile(d, f, r) \in Directory
  /\ \A d \in Directory : \A x : [d EXCEPT !.has = @ \ {x}] \in Directory
<1>1. NoDirectory \in Directory /\ EmptyDirectory \in Directory
  BY DEF NoDirectory, EmptyDirectory, Directory
<1>2. ASSUME NEW d \in Directory, NEW h \in SUBSET (Files \X Nat)
      PROVE  [d EXCEPT !.has = h] \in Directory
  BY DEF Directory
<1>3. ASSUME NEW d \in Directory
      PROVE  d.has \in SUBSET (Files \X Nat)
  BY DEF Directory
<1>4. ASSUME NEW d \in Directory, NEW x
      PROVE  [d EXCEPT !.has = @ \ {x}] \in Directory
  <2>1. d.has \ {x} \in SUBSET (Files \X Nat)
    BY <1>3
  <2> QED
    BY <1>2, <2>1
<1>5. ASSUME NEW d \in Directory
      PROVE  Shrunk(d) \subseteq Directory
  BY <1>1, <1>4 DEF Shrunk
<1>6. ASSUME NEW d \in Directory, NEW f \in Files, NEW r \in Nat
      PROVE  WithFile(d, f, r) \in Directory
  <2>1. {x \in d.has : x[1] # f} \cup {<<f, r>>} \in SUBSET (Files \X Nat)
    BY <1>3
  <2> QED
    BY <2>1 DEF WithFile, Directory
<1> QED
  BY <1>1, <1>4, <1>5, <1>6

LEMMA IdleIsTyped == Idle \in WorkerType /\ Dead \in WorkerType
BY StageConfigured, ArtifactHasFiles DEF Idle, Dead, WorkerType, Files

Steps == {"idle", "dead", "generate", "clear", "clearing", "make", "write", "retire", "retiring",
          "move", "cleanup"}

LEMMA WorkerUpdates ==
  ASSUME NEW rec \in WorkerType
  PROVE  /\ \A x \in Steps : [rec EXCEPT !.step = x] \in WorkerType
         /\ \A x \in 1..PerEntry : [rec EXCEPT !.part = x] \in WorkerType
         /\ \A x \in 1..Attempts : [rec EXCEPT !.attempt = x] \in WorkerType
         /\ \A x \in Files : [rec EXCEPT !.file = x] \in WorkerType
         /\ rec.part \in 1..PerEntry /\ rec.attempt \in 1..Attempts /\ rec.file \in Files
<1>1. PICK a \in Steps, b \in Nat, c \in 1..PerEntry, d \in 1..Attempts, f \in Files :
        rec = [step |-> a, item |-> b, part |-> c, attempt |-> d, file |-> f]
  BY DEF WorkerType, Steps
<1>2. ASSUME NEW x \in Steps PROVE [rec EXCEPT !.step = x] \in WorkerType
  <2>1. [rec EXCEPT !.step = x] = [step |-> x, item |-> b, part |-> c, attempt |-> d, file |-> f]
    BY <1>1
  <2> QED BY <2>1 DEF WorkerType, Steps
<1>3. ASSUME NEW x \in 1..PerEntry PROVE [rec EXCEPT !.part = x] \in WorkerType
  <2>1. [rec EXCEPT !.part = x] = [step |-> a, item |-> b, part |-> x, attempt |-> d, file |-> f]
    BY <1>1
  <2> QED BY <2>1 DEF WorkerType, Steps
<1>4. ASSUME NEW x \in 1..Attempts PROVE [rec EXCEPT !.attempt = x] \in WorkerType
  <2>1. [rec EXCEPT !.attempt = x] = [step |-> a, item |-> b, part |-> c, attempt |-> x, file |-> f]
    BY <1>1
  <2> QED BY <2>1 DEF WorkerType, Steps
<1>5. ASSUME NEW x \in Files PROVE [rec EXCEPT !.file = x] \in WorkerType
  <2>1. [rec EXCEPT !.file = x] = [step |-> a, item |-> b, part |-> c, attempt |-> d, file |-> x]
    BY <1>1
  <2> QED BY <2>1 DEF WorkerType, Steps
<1> QED
  BY <1>1, <1>2, <1>3, <1>4, <1>5

(* What becomes of the workers in each kind of step of worker w.           *)
Kept(w, step, part) ==
  /\ \A v \in Workers \ {w} : worker'[v] = worker[v]
  /\ worker'[w].item = worker[w].item /\ worker'[w].part = part /\ worker'[w].step = step
  /\ worker' \in [Workers -> WorkerType]

LEMMA GotoKeeps ==
  ASSUME Typed, NEW w \in Workers, NEW step \in Steps, Goto(w, step)
  PROVE  Kept(w, step, worker[w].part)
<1>1. worker[w] \in WorkerType
  BY DEF Typed
<1>2. worker' = [worker EXCEPT ![w] = [worker[w] EXCEPT !.step = step]]
  BY DEF Goto
<1>3. worker'[w] = [worker[w] EXCEPT !.step = step] /\ \A v \in Workers \ {w} : worker'[v] = worker[v]
  BY <1>2 DEF Typed
<1>4. [worker[w] EXCEPT !.step = step] \in WorkerType
  BY <1>1, WorkerUpdates
<1>5. worker' \in [Workers -> WorkerType]
  BY <1>2, <1>4 DEF Typed
<1> QED
  BY <1>1, <1>3, <1>5 DEF WorkerType, Kept

LEMMA GotoFileKeeps ==
  ASSUME Typed, NEW w \in Workers, NEW step \in Steps, NEW f \in Files,
         worker' = [worker EXCEPT ![w].step = step, ![w].file = f]
  PROVE  Kept(w, step, worker[w].part) /\ worker'[w].file = f
<1>1. worker[w] \in WorkerType
  BY DEF Typed
<1> DEFINE a == [worker[w] EXCEPT !.step = step]
           b == [a EXCEPT !.file = f]
<1>2. worker' = [worker EXCEPT ![w] = b]
  BY DEF Typed
<1>3. a \in WorkerType
  BY <1>1, WorkerUpdates
<1>4. b \in WorkerType /\ a.item = worker[w].item /\ a.part = worker[w].part /\ a.step = step
  <2>1. a.item = worker[w].item /\ a.part = worker[w].part /\ a.step = step
    BY <1>1 DEF WorkerType
  <2> HIDE DEF a
  <2> QED
    BY <1>3, <2>1, WorkerUpdates
<1>5. b.item = a.item /\ b.part = a.part /\ b.step = a.step /\ b.file = f
  <2> HIDE DEF a
  <2> QED BY <1>3 DEF WorkerType
<1> HIDE DEF a, b
<1>6. worker'[w] = b /\ (\A v \in Workers \ {w} : worker'[v] = worker[v])
      /\ worker' \in [Workers -> WorkerType]
  BY <1>2, <1>4 DEF Typed
<1> QED
  BY <1>4, <1>5, <1>6 DEF Kept

LEMMA FileKeeps ==
  ASSUME Typed, NEW w \in Workers, NEW f \in Files, worker' = [worker EXCEPT ![w].file = f]
  PROVE  Kept(w, worker[w].step, worker[w].part) /\ worker'[w].file = f
<1>1. worker[w] \in WorkerType
  BY DEF Typed
<1> DEFINE b == [worker[w] EXCEPT !.file = f]
<1>2. worker' = [worker EXCEPT ![w] = b]
  OBVIOUS
<1>3. b \in WorkerType
  BY <1>1, WorkerUpdates
<1>4. b.item = worker[w].item /\ b.part = worker[w].part /\ b.step = worker[w].step /\ b.file = f
  BY <1>1 DEF WorkerType
<1> HIDE DEF b
<1>5. worker'[w] = b /\ (\A v \in Workers \ {w} : worker'[v] = worker[v])
      /\ worker' \in [Workers -> WorkerType]
  BY <1>2, <1>3 DEF Typed
<1> QED
  BY <1>4, <1>5 DEF Kept

LEMMA StayKeeps ==
  ASSUME Typed, NEW w \in Workers, UNCHANGED worker
  PROVE  Kept(w, worker[w].step, worker[w].part)
BY DEF Typed, Kept

LEMMA RetryKeeps ==
  ASSUME Typed, NEW w \in Workers, Retry(w)
  PROVE  Kept(w, "generate", worker[w].part)
<1>1. worker[w] \in WorkerType
  BY DEF Typed
<1>2. worker[w].attempt + 1 \in 1..Attempts
  BY <1>1, WorkerUpdates, StageConfigured DEF Retry
<1> DEFINE b == [worker[w] EXCEPT !.attempt = worker[w].attempt + 1]
<1>3. worker' = [worker EXCEPT ![w] = b]
  BY DEF Retry
<1>4. b \in WorkerType
  BY <1>1, <1>2, WorkerUpdates
<1>5. b.item = worker[w].item /\ b.part = worker[w].part /\ b.step = "generate"
  BY <1>1 DEF WorkerType, Retry, At
<1> HIDE DEF b
<1>6. worker'[w] = b /\ (\A v \in Workers \ {w} : worker'[v] = worker[v])
      /\ worker' \in [Workers -> WorkerType]
  BY <1>3, <1>4 DEF Typed
<1> QED
  BY <1>5, <1>6 DEF Kept

LEMMA NextPartKeeps ==
  ASSUME Typed, NEW w \in Workers, worker[w].part < PerEntry,
         worker' = [worker EXCEPT ![w].part = @ + 1, ![w].step = "generate"]
  PROVE  Kept(w, "generate", worker[w].part + 1)
<1>1. worker[w] \in WorkerType /\ worker[w].part + 1 \in 1..PerEntry
  <2>1. worker[w] \in WorkerType
    BY DEF Typed
  <2> QED
    BY <2>1, WorkerUpdates, StageConfigured
<1> DEFINE a == [worker[w] EXCEPT !.part = worker[w].part + 1]
           b == [a EXCEPT !.step = "generate"]
<1>2. worker' = [worker EXCEPT ![w] = b]
  BY DEF Typed
<1>3. a \in WorkerType
  BY <1>1, WorkerUpdates
<1>4. a.item = worker[w].item /\ a.part = worker[w].part + 1
  BY <1>1 DEF WorkerType
<1> HIDE DEF a
<1>5. b \in WorkerType /\ b.item = a.item /\ b.part = a.part /\ b.step = "generate"
  <2>1. "generate" \in Steps
    BY DEF Steps
  <2>2. b \in WorkerType
    BY <1>3, <2>1, WorkerUpdates
  <2> QED
    BY <1>3, <2>2 DEF WorkerType
<1> HIDE DEF b
<1>6. worker'[w] = b /\ (\A v \in Workers \ {w} : worker'[v] = worker[v])
      /\ worker' \in [Workers -> WorkerType]
  BY <1>2, <1>5 DEF Typed
<1> QED
  BY <1>4, <1>5, <1>6 DEF Kept

LEMMA SettleGivesUp ==
  ASSUME Typed, Owned, NEW w \in Workers, Busy(w), NEW o \in {"ok", "failed"}, Settle(w, o)
  PROVE  /\ outcome' \in [Items -> {"none", "ok", "failed"}]
         /\ worker' \in [Workers -> WorkerType]
         /\ queue' \in [Pools -> SUBSET Items]
         /\ worker'[w] = Idle /\ \A v \in Workers \ {w} : worker'[v] = worker[v]
         /\ \A p \in Pools : queue'[p] \subseteq queue[p]
         /\ \A j \in Items : j # worker[w].item \/ ~InLastRun(w) => outcome'[j] = outcome[j]
         /\ InLastRun(w) => outcome'[worker[w].item] = o
<1>1. worker[w].item \in Items /\ PoolOf(w) \in Pools
  BY WorkerPlace
<1>2. worker' = [worker EXCEPT ![w] = Idle]
  BY DEF Settle
<1>3. /\ queue' = queue \/ queue' = [queue EXCEPT ![PoolOf(w)] = {}]
  BY DEF Settle
<1>4. outcome' = IF InLastRun(w) THEN [outcome EXCEPT ![worker[w].item] = o] ELSE outcome
  BY DEF Settle
<1>5. worker' \in [Workers -> WorkerType] /\ worker'[w] = Idle
      /\ \A v \in Workers \ {w} : worker'[v] = worker[v]
  BY <1>2, IdleIsTyped DEF Typed
<1>6. queue' \in [Pools -> SUBSET Items] /\ \A p \in Pools : queue'[p] \subseteq queue[p]
  BY <1>1, <1>3 DEF Typed
<1>7. /\ outcome' \in [Items -> {"none", "ok", "failed"}]
      /\ \A j \in Items : j # worker[w].item \/ ~InLastRun(w) => outcome'[j] = outcome[j]
      /\ InLastRun(w) => outcome'[worker[w].item] = o
  BY <1>1, <1>4 DEF Typed
<1> QED
  BY <1>5, <1>6, <1>7
-----------------------------------------------------------------------------
LEMMA TypedInit == Init => Typed
BY DirectoriesAreDirectories, IdleIsTyped, StageConfigured DEF Init, Typed, Modes

(* A step of a worker that changes its record and at most its directories. *)
LEMMA KeptTyped ==
  ASSUME Typed, NEW w \in Workers, NEW step, NEW part, Kept(w, step, part),
         UNCHANGED <<run, mode, overwrite, queue, outcome, results, shared>>,
         target' \in [Artifacts -> Directory], temp' \in [Artifacts -> Directory]
  PROVE  Typed'
BY DEF Kept, Typed

LEMMA SettleTyped ==
  ASSUME Typed, Owned, NEW w \in Workers, Busy(w), NEW o \in {"ok", "failed"}, Settle(w, o),
         UNCHANGED <<run, mode, overwrite, results, shared>>,
         target' \in [Artifacts -> Directory], temp' \in [Artifacts -> Directory]
  PROVE  Typed'
BY SettleGivesUp DEF Typed

(* Each worker action keeps the worker's item, changes no more than its    *)
(* directories, or settles its item.                                       *)
LEMMA WriteFileKeeps ==
  ASSUME Typed, NEW w \in Workers, WriteFile(w)
  PROVE  /\ worker[w].file = LastFile => Kept(w, "retire", worker[w].part)
         /\ worker[w].file # LastFile =>
              Kept(w, "write", worker[w].part) /\ worker'[w].file = worker[w].file + 1
<1>1. worker[w].file \in Files /\ 0 \in Files
  BY WorkerUpdates, ArtifactHasFiles DEF Typed, Files
<1>2. CASE worker[w].file = LastFile
  <2>1. worker' = [worker EXCEPT ![w].step = "retire", ![w].file = 0] /\ "retire" \in Steps
    BY <1>2 DEF WriteFile, Steps
  <2> QED
    BY <1>1, <1>2, <2>1, GotoFileKeeps
<1>3. CASE worker[w].file # LastFile
  <2>1. worker' = [worker EXCEPT ![w].file = worker[w].file + 1] /\ worker[w].step = "write"
    BY <1>3 DEF WriteFile, At
  <2>2. worker[w].file + 1 \in Files
    BY <1>1, <1>3, ArtifactHasFiles DEF Files
  <2> QED
    BY <1>3, <2>1, <2>2, FileKeeps
<1> QED
  BY <1>2, <1>3

LEMMA FirstFileIsAFile ==
  ASSUME NEW r \in Nat
  PROVE  FirstFile(r) \in FilesOf(r) /\ FirstFile(r) \in Files /\ LastFile \in FilesOf(r)
BY ArtifactHasFiles DEF FirstFile, FilesOf, Files

LEMMA MakeTempKeeps ==
  ASSUME Typed, NEW w \in Workers, MakeTemp(w)
  PROVE  Kept(w, "write", worker[w].part) /\ worker'[w].file = FirstFile(RunOf(w))
<1>1. RunOf(w) \in Nat
  BY WorkerPlace DEF Runs
<1>2. "write" \in Steps /\ FirstFile(RunOf(w)) \in Files
  BY <1>1, FirstFileIsAFile DEF Steps
<1> QED
  BY <1>2, GotoFileKeeps DEF MakeTemp

LEMMA TypedWorker ==
  ASSUME Typed, Owned, NEW w \in Workers, WorkerStep(w) \/ WorkerFault(w)
  PROVE  Typed'
<1>1. /\ w[1] \in Shards /\ PoolOf(w) \in Pools /\ RunOf(w) \in Nat /\ worker[w] \in WorkerType
  BY WorkerPlace DEF Runs
<1>2. Busy(w) => /\ Artifact(w) \in Artifacts
                 /\ temp[Artifact(w)] \in Directory /\ target[Artifact(w)] \in Directory
  BY WorkerPlace DEF Typed
<1>3. target \in [Artifacts -> Directory] /\ temp \in [Artifacts -> Directory]
  BY DEF Typed
<1>4. {"clear", "clearing", "make", "write", "retire", "retiring", "move", "cleanup"} \subseteq Steps
  BY DEF Steps
<1>a. CASE TakeItem(w)
  <2>1. \A i \in Items : Starting(i) \in WorkerType
    BY StageConfigured, ArtifactHasFiles DEF Starting, WorkerType, Items, Files
  <2>2. PICK i \in queue[PoolOf(w)] :
          /\ queue' = [queue EXCEPT ![PoolOf(w)] = @ \ {i}]
          /\ worker' = [worker EXCEPT ![w] = Starting(i)]
    BY <1>a DEF TakeItem
  <2>3. i \in Items
    BY <1>1 DEF Typed
  <2>4. queue' \in [Pools -> SUBSET Items] /\ worker' \in [Workers -> WorkerType]
    BY <1>1, <2>1, <2>2, <2>3 DEF Typed
  <2> QED
    BY <1>a, <2>4 DEF TakeItem, Typed, disk, parent
<1>b. CASE Retry(w)
  BY <1>b, <1>3, RetryKeeps, KeptTyped DEF Retry, disk, parent, futures
<1>c. CASE GiveUp(w) \/ InvalidTask(w) \/ FailToMake(w)
  BY <1>c, <1>3, SettleTyped DEF GiveUp, InvalidTask, FailToMake, disk, parent, Busy, At
<1>d. CASE Check(w)
  <2>1. CASE Settle(w, "failed")
    BY <1>d, <1>3, <2>1, SettleTyped DEF Check, disk, parent, Busy, At
  <2>2. CASE Goto(w, "clear") /\ UNCHANGED futures
    BY <1>d, <1>3, <1>4, <2>2, GotoKeeps, KeptTyped DEF Check, disk, parent, futures
  <2> QED
    BY <1>d, <2>1, <2>2 DEF Check
<1>e. CASE LookForTemp(w)
  BY <1>e, <1>3, <1>4, GotoKeeps, KeptTyped DEF LookForTemp, disk, parent, futures
<1>f. CASE LookForTarget(w)
  BY <1>f, <1>3, <1>4, GotoKeeps, KeptTyped DEF LookForTarget, disk, parent, futures
<1>g. CASE DiskError(w) \/ FailToCommit(w)
  BY <1>g, <1>3, <1>4, GotoKeeps, KeptTyped DEF DiskError, FailToCommit, disk, parent, futures
<1>h. CASE ClearTemp(w)
  <2>1. temp' \in [Artifacts -> Directory]
    BY <1>h, <1>2, <1>3, DirectoriesAreDirectories DEF ClearTemp, Busy, At
  <2>2. Goto(w, "make") \/ UNCHANGED worker
    BY <1>h DEF ClearTemp
  <2> QED
    BY <1>h, <1>3, <1>4, <2>1, <2>2, GotoKeeps, StayKeeps, KeptTyped DEF ClearTemp, parent, futures
<1>i. CASE MakeTemp(w)
  <2>1. temp' \in [Artifacts -> Directory]
    BY <1>i, <1>2, <1>3, DirectoriesAreDirectories DEF MakeTemp, Busy, At
  <2> QED
    BY <1>i, <1>3, <2>1, MakeTempKeeps, KeptTyped DEF MakeTemp, parent, futures
<1>j. CASE WriteFile(w)
  <2>1. worker[w].file \in Files /\ Busy(w)
    BY <1>j, <1>1, WorkerUpdates DEF WriteFile, Busy, At
  <2>2. temp' \in [Artifacts -> Directory]
    BY <1>j, <1>1, <1>2, <1>3, <2>1, DirectoriesAreDirectories DEF WriteFile
  <2> QED
    BY <1>j, <1>3, <2>2, WriteFileKeeps, KeptTyped DEF WriteFile, parent, futures
<1>k. CASE RemoveTarget(w)
  <2>1. target' \in [Artifacts -> Directory]
    BY <1>k, <1>2, <1>3, DirectoriesAreDirectories DEF RemoveTarget, Busy, At
  <2>2. Goto(w, "move") \/ UNCHANGED worker
    BY <1>k DEF RemoveTarget
  <2> QED
    BY <1>k, <1>3, <1>4, <2>1, <2>2, GotoKeeps, StayKeeps, KeptTyped
    DEF RemoveTarget, parent, futures
<1>l. CASE Publish(w)
  <2>1. target' \in [Artifacts -> Directory] /\ temp' \in [Artifacts -> Directory] /\ Busy(w)
    BY <1>l, <1>2, <1>3, DirectoriesAreDirectories DEF Publish, Busy, At
  <2>2. CASE worker[w].part < PerEntry
    BY <1>l, <2>1, <2>2, NextPartKeeps, KeptTyped DEF Publish, parent, futures
  <2>3. CASE ~(worker[w].part < PerEntry)
    BY <1>l, <2>1, <2>3, SettleTyped DEF Publish, parent
  <2> QED
    BY <2>2, <2>3
<1>m. CASE CleanUp(w)
  <2>1. temp' \in [Artifacts -> Directory] /\ Busy(w)
    BY <1>m, <1>2, <1>3, DirectoriesAreDirectories DEF CleanUp, Busy, At
  <2>2. CASE Settle(w, "failed")
    BY <1>m, <1>3, <2>1, <2>2, SettleTyped DEF CleanUp, parent
  <2>3. CASE UNCHANGED <<futures, worker>>
    BY <1>m, <1>3, <2>1, <2>3, StayKeeps, KeptTyped DEF CleanUp, parent, futures
  <2> QED
    BY <1>m, <2>2, <2>3 DEF CleanUp
<1>n. CASE RemoveMoved(w)
  <2>1. target' \in [Artifacts -> Directory]
    BY <1>n, <1>2, <1>3, DirectoriesAreDirectories DEF RemoveMoved, Busy, At
  <2> QED
    BY <1>n, <1>3, <2>1, StayKeeps, KeptTyped DEF RemoveMoved, parent, futures
<1>o. CASE LoseWorker(w)
  BY <1>o, IdleIsTyped DEF LoseWorker, Typed, disk, parent, futures
<1> QED
  BY <1>a, <1>b, <1>c, <1>d, <1>e, <1>f, <1>g, <1>h, <1>i, <1>j, <1>k, <1>l, <1>m, <1>n, <1>o
  DEF WorkerStep, WorkerFault, Commit

LEMMA LastPoolIsAPool ==
  ASSUME Typed, Owned, NEW s \in Shards, Active(s)
  PROVE  LastPool(s) \in Pools
<1>1. run[s] \in 1..MaxRuns
  BY StageConfigured DEF Owned, ResultsOwn, Typed
<1> QED
  BY <1>1 DEF LastPool, Pools, Runs

LEMMA TypedParent ==
  ASSUME Typed, Owned, NEW s \in Shards, StartRun(s) \/ ParentStep(s) \/ ParentFault(s)
  PROVE  Typed'
<1>1. CASE StartRun(s)
  <2>1. PICK flag \in Overwrites : Select(s, flag)
    BY <1>1 DEF StartRun
  <2>2. Selected(s) \subseteq Items /\ flag \in BOOLEAN /\ run[s] \in Nat /\ run[s] + 1 \in Runs
        /\ run[s] + 1 \in 0..MaxRuns
    BY <1>1, SelectedApart, StageConfigured DEF StartRun, Typed, Runs
  <2>3. <<s, run[s] + 1>> \in Pools
    BY <2>2 DEF Pools
  <2>4. /\ run' \in [Shards -> 0..MaxRuns] /\ mode' \in [Shards -> Modes]
        /\ overwrite' \in [Pools -> BOOLEAN] /\ queue' \in [Pools -> SUBSET Items]
    BY <2>1, <2>2, <2>3 DEF Select, Typed, Modes
  <2>5. outcome' \in [Items -> {"none", "ok", "failed"}] /\ results' \in [Shards -> Seq(Items)]
    BY <2>1, <2>2 DEF Select, Typed
  <2>6. shared' \in SUBSET (Runs \X Items)
    <3>1. Lingering(s) \subseteq Runs \X Items
      BY DEF Lingering
    <3>2. {<<run[s] + 1, x[2]>> : x \in Lingering(s)} \subseteq Runs \X Items
      BY <2>2, <3>1
    <3> QED
      BY <1>1, <3>1, <3>2 DEF StartRun, Typed
  <2> QED
    BY <1>1, <2>4, <2>5, <2>6 DEF StartRun, Typed, disk
<1>2. CASE Collect(s)
  BY <1>2, SelectedApart DEF Collect, Typed, disk, parent, futures
<1>3. CASE Raise(s) \/ LeavePool(s)
  BY <1>3 DEF Raise, LeavePool, Typed, Modes, disk, futures
<1>4. CASE WriteManifest(s)
  BY <1>4 DEF WriteManifest, Typed, Modes, disk, futures
<1>5. CASE Crash(s)
  <2>1. LastPool(s) \in Pools
    BY <1>5, LastPoolIsAPool DEF Crash
  <2>2. PICK kept \in SUBSET queue[LastPool(s)] :
          queue' = [queue EXCEPT ![LastPool(s)] = IF Sequential THEN {} ELSE kept]
    BY <1>5 DEF Crash
  <2>3. queue' \in [Pools -> SUBSET Items]
    BY <2>1, <2>2 DEF Typed
  <2>4. worker' \in [Workers -> WorkerType]
    BY <1>5, IdleIsTyped DEF Crash, Typed
  <2> QED
    BY <1>5, <2>3, <2>4 DEF Crash, Typed, Modes, disk
<1>6. CASE BreakPool(s)
  <2>1. LastPool(s) \in Pools
    BY <1>6, LastPoolIsAPool DEF BreakPool
  <2>2. queue' \in [Pools -> SUBSET Items]
    BY <1>6, <2>1 DEF BreakPool, Typed
  <2>3. worker' \in [Workers -> WorkerType]
    BY <1>6, IdleIsTyped DEF BreakPool, Typed
  <2>4. outcome' \in [Items -> {"none", "ok", "failed"}]
    BY <1>6 DEF BreakPool, Typed
  <2> QED
    BY <1>6, <2>2, <2>3, <2>4 DEF BreakPool, Typed, disk, parent
<1> QED
  BY <1>1, <1>2, <1>3, <1>4, <1>5, <1>6 DEF ParentStep, ParentFault
-----------------------------------------------------------------------------
(* Workers of one pool, and the pool's queue, have different items. *)
LEMMA PoolItemsApart ==
  ASSUME Typed, Owned, NEW w \in Workers, Busy(w)
  PROVE  /\ \A v \in Workers \ {w} : Busy(v) /\ InLastRun(v) /\ InLastRun(w) =>
              worker[v].item # worker[w].item
         /\ \A p \in Pools : p[2] = run[p[1]] /\ InLastRun(w) => worker[w].item \notin queue[p]
         /\ InLastRun(w) => \A s \in Shards : worker[w].item \notin Collected(s)
<1>1. w[1] \in Shards /\ worker[w].item \in Selected(w[1]) \ queue[PoolOf(w)]
  BY WorkerPlace DEF Owned, WorkersOwn
<1>2. ASSUME NEW v \in Workers \ {w}, Busy(v), InLastRun(v), InLastRun(w),
             worker[v].item = worker[w].item
      PROVE  FALSE
  <2>1. v[1] \in Shards /\ worker[v].item \in Selected(v[1])
    BY <1>2, WorkerPlace
  <2>2. v[1] = w[1]
    BY <1>1, <1>2, <2>1, SelectedApart
  <2>3. PoolOf(v) = PoolOf(w)
    BY <1>2, <2>2 DEF InLastRun, RunOf, PoolOf
  <2> QED
    BY <1>2, <2>3 DEF Owned, ItemsApart
<1>3. ASSUME NEW p \in Pools, p[2] = run[p[1]], InLastRun(w), worker[w].item \in queue[p]
      PROVE  FALSE
  <2>1. p[1] \in Shards /\ p = <<p[1], p[2]>> /\ worker[w].item \in Selected(p[1])
    BY <1>3 DEF Pools, Owned, PoolsOwn
  <2>2. p[1] = w[1]
    BY <1>1, <2>1, SelectedApart
  <2>3. p = PoolOf(w)
    BY <1>3, <2>1, <2>2 DEF InLastRun, RunOf, PoolOf
  <2> QED
    BY <1>1, <1>3, <2>3
<1>4. ASSUME InLastRun(w), NEW s \in Shards, worker[w].item \in Collected(s)
      PROVE  FALSE
  BY <1>4 DEF Owned, WorkersOwn, ResultsOwn
<1> QED
  BY <1>2, <1>3, <1>4

(* Shared items stay known when nobody gets more to do. *)
LEMMA OldStaysShared ==
  ASSUME OldShared, UNCHANGED <<run, shared>>,
         \A v \in Workers, i \in Items : Holds(v, i)' => Holds(v, i)
  PROVE  OldShared'
BY DEF OldShared, InLastRun, RunOf

(* A step that leaves the workers' items alone keeps everything owned. *)
LEMMA StillOwned ==
  ASSUME Typed, Owned,
         \A v \in Workers : Busy(v)' => Busy(v) /\ worker'[v].item = worker[v].item,
         \A v \in Workers : At(v, "dead") => At(v, "dead")',
         UNCHANGED <<run, mode, queue, outcome, results, shared>>
  PROVE  Owned'
<1>1. WorkersOwn' /\ ItemsApart'
  BY DEF Owned, WorkersOwn, ItemsApart, InLastRun, RunOf, PoolOf, Unfinished
<1>2. PoolsOwn' /\ ResultsOwn'
  BY DEF Owned, PoolsOwn, ResultsOwn, Unfinished, Active, Collected
<1>3. \A v \in Workers, i \in Items : Holds(v, i)' => Holds(v, i)
  BY DEF Holds
<1>4. OldShared'
  BY <1>3, OldStaysShared DEF Owned
<1> QED
  BY <1>1, <1>2, <1>4 DEF Owned

LEMMA KeptOwned ==
  ASSUME Typed, Owned, NEW w \in Workers, Busy(w), NEW step, NEW part, Kept(w, step, part),
         UNCHANGED <<run, mode, queue, outcome, results, shared>>
  PROVE  Owned'
<1>1. \A v \in Workers : Busy(v)' => Busy(v) /\ worker'[v].item = worker[v].item
  BY DEF Kept, Busy, At
<1>2. \A v \in Workers : At(v, "dead") => At(v, "dead")'
  BY DEF Kept, Busy, At
<1> QED
  BY <1>1, <1>2, StillOwned

(* Settling an item gives it up. *)
LEMMA SettleOwned ==
  ASSUME Typed, Owned, NEW w \in Workers, Busy(w), NEW o \in {"ok", "failed"}, Settle(w, o),
         UNCHANGED <<run, mode, results, shared>>
  PROVE  Owned'
<1> DEFINE i == worker[w].item
<1>1. /\ ~Busy(w)' /\ ~At(w, "dead") /\ \A v \in Workers \ {w} : worker'[v] = worker[v]
      /\ \A p \in Pools : queue'[p] \subseteq queue[p]
      /\ \A j \in Items : j # i \/ ~InLastRun(w) => outcome'[j] = outcome[j]
  BY SettleGivesUp DEF Busy, At, Idle
<1>2. WorkersOwn'
  <2> SUFFICES ASSUME NEW v \in Workers, Busy(v)'
               PROVE  /\ worker'[v].item \in Selected(v[1]) \ queue'[PoolOf(v)]
                      /\ RunOf(v) <= run'[v[1]]
                      /\ InLastRun(v)' => outcome'[worker'[v].item] = "none" /\ Unfinished(v[1])'
    BY DEF WorkersOwn, PoolOf, RunOf
  <2>1. v # w /\ worker'[v] = worker[v] /\ Busy(v) /\ PoolOf(v) \in Pools /\ worker[v].item \in Items
    BY <1>1, WorkerPlace DEF Busy, At
  <2>2. /\ worker[v].item \in Selected(v[1]) \ queue[PoolOf(v)]
        /\ RunOf(v) <= run[v[1]]
        /\ InLastRun(v) => outcome[worker[v].item] = "none" /\ Unfinished(v[1])
    BY <2>1 DEF Owned, WorkersOwn
  <2>3. InLastRun(v) => worker[v].item # i \/ ~InLastRun(w)
    BY <2>1, PoolItemsApart
  <2>4. (InLastRun(v)' <=> InLastRun(v)) /\ (Unfinished(v[1])' <=> Unfinished(v[1]))
    BY DEF InLastRun, RunOf, Unfinished
  <2> QED
    BY <1>1, <2>1, <2>2, <2>3, <2>4
<1>3. ItemsApart'
  BY <1>1 DEF Owned, ItemsApart, Busy, At, PoolOf
<1>4. PoolsOwn'
  <2> SUFFICES ASSUME NEW p \in Pools
               PROVE  /\ queue'[p] \subseteq Selected(p[1])
                      /\ queue'[p] # {} => p[2] <= run'[p[1]]
                      /\ p[2] = run'[p[1]] =>
                           \A j \in queue'[p] : outcome'[j] = "none" /\ Unfinished(p[1])'
    BY DEF PoolsOwn
  <2>1. queue'[p] \subseteq queue[p] /\ queue[p] \subseteq Items
    BY <1>1 DEF Typed
  <2>2. p[2] = run[p[1]] /\ InLastRun(w) => i \notin queue[p]
    BY PoolItemsApart
  <2> QED
    BY <1>1, <2>1, <2>2 DEF Owned, PoolsOwn, Unfinished
<1>5. ResultsOwn'
  <2> SUFFICES ASSUME NEW s \in Shards
               PROVE  /\ Active(s) => run[s] >= 1
                      /\ \A j \in Collected(s) : j \in Selected(s) /\ outcome'[j] = "ok"
    BY DEF ResultsOwn, Active, Collected
  <2>1. InLastRun(w) => i \notin Collected(s)
    BY PoolItemsApart
  <2> QED
    BY <1>1, <2>1, SelectedApart DEF Owned, ResultsOwn
<1>6. \A v \in Workers, j \in Items : Holds(v, j)' => Holds(v, j)
  BY <1>1, WorkerPlace DEF Holds, Busy, At, PoolOf
<1> QED
  BY <1>2, <1>3, <1>4, <1>5, <1>6, OldStaysShared DEF Owned

LEMMA TakeOwned ==
  ASSUME Typed, Owned, NEW w \in Workers, TakeItem(w)
  PROVE  Owned'
<1>1. w[1] \in Shards /\ PoolOf(w) \in Pools /\ PoolOf(w) = <<w[1], RunOf(w)>>
  BY WorkerPlace DEF PoolOf
<1>2. PICK i \in queue[PoolOf(w)] :
        /\ queue' = [queue EXCEPT ![PoolOf(w)] = @ \ {i}]
        /\ worker' = [worker EXCEPT ![w] = Starting(i)]
  BY DEF TakeItem
<1>3. /\ i \in Selected(w[1]) /\ i \in Items /\ RunOf(w) <= run[w[1]]
      /\ InLastRun(w) => outcome[i] = "none" /\ Unfinished(w[1])
      /\ UNCHANGED <<run, mode, outcome, results, shared>> /\ At(w, "idle")
  BY <1>1, SelectedApart DEF TakeItem, Owned, PoolsOwn, parent, InLastRun
<1>4. /\ worker'[w] = Starting(i) /\ worker'[w].item = i
      /\ \A v \in Workers \ {w} : worker'[v] = worker[v]
      /\ queue'[PoolOf(w)] = queue[PoolOf(w)] \ {i}
      /\ \A p \in Pools \ {PoolOf(w)} : queue'[p] = queue[p]
  BY <1>1, <1>2 DEF Typed, Starting
<1>5. \A p \in Pools : queue'[p] \subseteq queue[p]
  BY <1>4
<1>6. WorkersOwn'
  <2> SUFFICES ASSUME NEW v \in Workers, Busy(v)'
               PROVE  /\ worker'[v].item \in Selected(v[1]) \ queue'[PoolOf(v)]
                      /\ RunOf(v) <= run[v[1]]
                      /\ InLastRun(v) => outcome[worker'[v].item] = "none" /\ Unfinished(v[1])
    BY <1>3 DEF WorkersOwn, PoolOf, RunOf, InLastRun, Unfinished
  <2>1. CASE v = w
    BY <2>1, <1>3, <1>4
  <2>2. CASE v # w
    <3>1. worker'[v] = worker[v] /\ Busy(v) /\ PoolOf(v) \in Pools
      BY <2>2, <1>4, WorkerPlace DEF Busy, At
    <3> QED
      BY <3>1, <1>5 DEF Owned, WorkersOwn
  <2> QED
    BY <2>1, <2>2
<1>7. \A v \in Workers \ {w} : Busy(v) /\ PoolOf(v) = PoolOf(w) => worker[v].item # i
  BY <1>2 DEF Owned, WorkersOwn
<1>8. ItemsApart'
  BY <1>4, <1>7 DEF Owned, ItemsApart, Busy, At, PoolOf
<1>9. PoolsOwn' /\ ResultsOwn'
  BY <1>3, <1>5 DEF Owned, PoolsOwn, ResultsOwn, Unfinished, Active, Collected
<1>10. \A v \in Workers, j \in Items : Holds(v, j)' => Holds(v, j)
  <2> SUFFICES ASSUME NEW v \in Workers, NEW j \in Items, Holds(v, j)'
               PROVE  Holds(v, j)
    OBVIOUS
  <2>1. PoolOf(v) \in Pools
    BY WorkerPlace
  <2>2. CASE v = w
    BY <2>1, <2>2, <1>2, <1>3, <1>4, <1>5 DEF Holds, Busy, At, PoolOf
  <2>3. CASE v # w
    BY <2>1, <2>3, <1>4, <1>5 DEF Holds, Busy, At, PoolOf
  <2> QED
    BY <2>2, <2>3
<1> QED
  BY <1>3, <1>6, <1>8, <1>9, <1>10, OldStaysShared DEF Owned

LEMMA OwnedWorker ==
  ASSUME Typed, Owned, NEW w \in Workers, WorkerStep(w) \/ WorkerFault(w)
  PROVE  Owned'
<1>4. {"clear", "clearing", "make", "write", "retire", "retiring", "move", "cleanup"} \subseteq Steps
  BY DEF Steps
<1>b. CASE Retry(w)
  BY <1>b, RetryKeeps, KeptOwned DEF Retry, Busy, At, parent, futures
<1>c. CASE GiveUp(w) \/ InvalidTask(w) \/ FailToMake(w)
  BY <1>c, SettleOwned DEF GiveUp, InvalidTask, FailToMake, parent, Busy, At
<1>d. CASE Check(w)
  <2>1. CASE Settle(w, "failed")
    BY <1>d, <2>1, SettleOwned DEF Check, parent, Busy, At
  <2>2. CASE Goto(w, "clear") /\ UNCHANGED futures
    BY <1>d, <1>4, <2>2, GotoKeeps, KeptOwned DEF Check, parent, futures, Busy, At
  <2> QED
    BY <1>d, <2>1, <2>2 DEF Check
<1>e. CASE LookForTemp(w)
  BY <1>e, <1>4, GotoKeeps, KeptOwned DEF LookForTemp, parent, futures, Busy, At
<1>f. CASE LookForTarget(w)
  BY <1>f, <1>4, GotoKeeps, KeptOwned DEF LookForTarget, parent, futures, Busy, At
<1>g. CASE DiskError(w) \/ FailToCommit(w)
  BY <1>g, <1>4, GotoKeeps, KeptOwned DEF DiskError, FailToCommit, parent, futures, Busy, At
<1>h. CASE ClearTemp(w)
  <2>1. Goto(w, "make") \/ UNCHANGED worker
    BY <1>h DEF ClearTemp
  <2> QED
    BY <1>h, <1>4, <2>1, GotoKeeps, StayKeeps, KeptOwned DEF ClearTemp, parent, futures, Busy, At
<1>i. CASE MakeTemp(w)
  BY <1>i, MakeTempKeeps, KeptOwned DEF MakeTemp, parent, futures, Busy, At
<1>j. CASE WriteFile(w)
  BY <1>j, WriteFileKeeps, KeptOwned DEF WriteFile, parent, futures, Busy, At
<1>k. CASE RemoveTarget(w)
  <2>1. Goto(w, "move") \/ UNCHANGED worker
    BY <1>k DEF RemoveTarget
  <2> QED
    BY <1>k, <1>4, <2>1, GotoKeeps, StayKeeps, KeptOwned DEF RemoveTarget, parent, futures, Busy, At
<1>l. CASE Publish(w)
  <2>1. CASE worker[w].part < PerEntry
    BY <1>l, <2>1, NextPartKeeps, KeptOwned DEF Publish, parent, futures, Busy, At
  <2>2. CASE ~(worker[w].part < PerEntry)
    BY <1>l, <2>2, SettleOwned DEF Publish, parent, Busy, At
  <2> QED
    BY <2>1, <2>2
<1>m. CASE CleanUp(w)
  <2>1. CASE Settle(w, "failed")
    BY <1>m, <2>1, SettleOwned DEF CleanUp, parent, Busy, At
  <2>2. CASE UNCHANGED <<futures, worker>>
    BY <1>m, <2>2, StayKeeps, KeptOwned DEF CleanUp, parent, futures, Busy, At
  <2> QED
    BY <1>m, <2>1, <2>2 DEF CleanUp
<1>n. CASE RemoveMoved(w)
  BY <1>n, StayKeeps, KeptOwned DEF RemoveMoved, parent, futures, Busy, At
<1>o. CASE LoseWorker(w)
  <2>1. \A v \in Workers : Busy(v)' => Busy(v) /\ worker'[v].item = worker[v].item
    BY <1>o DEF LoseWorker, Typed, Busy, At, Dead
  <2>2. \A v \in Workers : At(v, "dead") => At(v, "dead")'
    BY <1>o DEF LoseWorker, Typed, At, Dead
  <2> QED
    BY <1>o, <2>1, <2>2, StillOwned DEF LoseWorker, parent, futures
<1> QED
  BY TakeOwned, <1>b, <1>c, <1>d, <1>e, <1>f, <1>g, <1>h, <1>i, <1>j, <1>k, <1>l, <1>m, <1>n, <1>o
  DEF WorkerStep, WorkerFault, Commit
(* A new run owns its items afresh; the old ones become shared. *)
LEMMA StartOwned ==
  ASSUME Typed, Owned, NEW s \in Shards, StartRun(s)
  PROVE  Owned'
<1>1. PICK flag \in Overwrites : Select(s, flag)
  BY DEF StartRun
<1> DEFINE new == <<s, run[s] + 1>>
<1>2. run[s] \in Nat /\ run[s] + 1 \in Runs /\ new \in Pools
  <2>1. run[s] \in Nat /\ run[s] + 1 \in Runs
    BY StageConfigured DEF StartRun, Typed, Runs
  <2> QED
    BY <2>1 DEF Pools
<1>3. /\ \A k \in Shards \ {s} : mode'[k] = mode[k] /\ run'[k] = run[k] /\ results'[k] = results[k]
      /\ mode'[s] = "running" /\ run'[s] = run[s] + 1 /\ results'[s] = <<>>
      /\ \A p \in Pools \ {new} : queue'[p] = queue[p]
      /\ queue'[new] = Selected(s) /\ worker' = worker
  BY <1>1, <1>2 DEF StartRun, Select, Typed
<1>4. /\ \A i \in Selected(s) : outcome'[i] = "none"
      /\ \A i \in Items \ Selected(s) : outcome'[i] = outcome[i]
  BY <1>1, SelectedApart DEF Select
<1>5. \A k \in Shards \ {s} : \A i \in Selected(k) : i \in Items \ Selected(s)
  BY SelectedApart
<1>6. ASSUME NEW w \in Workers
      PROVE  /\ w[1] = s => ~InLastRun(w)' \/ ~Busy(w)
             /\ w[1] = s /\ Busy(w) => PoolOf(w) # new
             /\ w[1] # s => (InLastRun(w)' <=> InLastRun(w)) /\ PoolOf(w) # new
             /\ PoolOf(w) \in Pools /\ w[1] \in Shards
  <2>1. w[1] \in Shards /\ RunOf(w) = w[2] /\ PoolOf(w) = <<w[1], w[2]>> /\ PoolOf(w) \in Pools
        /\ w[2] \in Nat
    BY WorkerPlace DEF PoolOf, Runs
  <2>2. Busy(w) => w[2] <= run[w[1]]
    BY <2>1 DEF Owned, WorkersOwn
  <2> QED
    BY <1>2, <1>3, <2>1, <2>2 DEF InLastRun, RunOf
<1>7. WorkersOwn'
  <2> SUFFICES ASSUME NEW w \in Workers, Busy(w)
               PROVE  /\ worker[w].item \in Selected(w[1]) \ queue'[PoolOf(w)]
                      /\ RunOf(w) <= run'[w[1]]
                      /\ InLastRun(w)' => outcome'[worker[w].item] = "none" /\ Unfinished(w[1])'
    BY <1>3 DEF WorkersOwn, Busy, At, PoolOf, RunOf
  <2>1. /\ worker[w].item \in Selected(w[1]) \ queue[PoolOf(w)] /\ RunOf(w) <= run[w[1]]
        /\ InLastRun(w) => outcome[worker[w].item] = "none" /\ Unfinished(w[1])
    BY DEF Owned, WorkersOwn
  <2>2. queue'[PoolOf(w)] = queue[PoolOf(w)] /\ w[1] \in Shards /\ RunOf(w) \in Nat
    BY <1>3, <1>6, WorkerPlace DEF Runs
  <2>3. CASE w[1] = s
    BY <2>1, <2>2, <2>3, <1>2, <1>3, <1>6
  <2>4. CASE w[1] # s
    BY <2>1, <2>2, <2>4, <1>3, <1>4, <1>5, <1>6 DEF Unfinished
  <2> QED
    BY <2>3, <2>4
<1>8. ItemsApart'
  BY <1>3 DEF Owned, ItemsApart, Busy, At, PoolOf
<1>9. PoolsOwn'
  <2> SUFFICES ASSUME NEW p \in Pools
               PROVE  /\ queue'[p] \subseteq Selected(p[1])
                      /\ queue'[p] # {} => p[2] <= run'[p[1]]
                      /\ p[2] = run'[p[1]] =>
                           \A j \in queue'[p] : outcome'[j] = "none" /\ Unfinished(p[1])'
    BY DEF PoolsOwn
  <2>1. p[1] \in Shards /\ p[2] \in Nat /\ p = <<p[1], p[2]>>
    BY DEF Pools, Runs
  <2>2. CASE p = new
    BY <2>2, <1>2, <1>3, <1>4 DEF Unfinished
  <2>3. CASE p # new /\ p[1] = s
    <3>1. queue'[p] \subseteq Selected(p[1]) /\ (queue'[p] # {} => p[2] <= run[s])
      BY <2>3, <1>3 DEF Owned, PoolsOwn
    <3>2. p[2] # run'[s]
      BY <2>1, <2>3, <1>3
    <3> QED
      BY <2>1, <2>3, <3>1, <3>2, <1>2, <1>3
  <2>4. CASE p[1] # s
    <3>1. p # new /\ queue'[p] = queue[p] /\ run'[p[1]] = run[p[1]] /\ mode'[p[1]] = mode[p[1]]
      BY <2>1, <2>4, <1>3
    <3>2. queue[p] \subseteq Selected(p[1])
      BY DEF Owned, PoolsOwn
    <3>3. \A j \in queue[p] : outcome'[j] = outcome[j]
      BY <2>1, <2>4, <3>2, <1>4, <1>5
    <3> QED
      BY <3>1, <3>2, <3>3 DEF Owned, PoolsOwn, Unfinished
  <2> QED
    BY <2>2, <2>3, <2>4
<1>10. ResultsOwn'
  <2> SUFFICES ASSUME NEW k \in Shards
               PROVE  /\ Active(k)' => run'[k] >= 1
                      /\ \A j \in Collected(k)' : j \in Selected(k) /\ outcome'[j] = "ok"
    BY DEF ResultsOwn
  <2>1. CASE k = s
    <3>1. Collected(s)' = {}
      BY <1>3 DEF Collected
    <3> QED
      BY <2>1, <3>1, <1>2, <1>3
  <2>2. CASE k # s
    <3>1. Collected(k)' = Collected(k) /\ (Active(k)' <=> Active(k)) /\ run'[k] = run[k]
      BY <2>2, <1>3 DEF Collected, Active
    <3> QED
      BY <2>2, <3>1, <1>4, <1>5 DEF Owned, ResultsOwn
  <2> QED
    BY <2>1, <2>2
<1>11. OldShared'
  <2> SUFFICES ASSUME NEW w \in Workers, NEW i \in Items, Holds(w, i)', ~InLastRun(w)'
               PROVE  <<RunOf(w), i>> \in shared' /\ <<run'[w[1]], i>> \in shared'
    BY DEF OldShared, RunOf
  <2>1. shared' = shared \cup Lingering(s) \cup {<<run[s] + 1, x[2]>> : x \in Lingering(s)}
    BY DEF StartRun
  <2>2. PoolOf(w) # new
    BY <1>2, <1>3, <1>6 DEF InLastRun, PoolOf, RunOf
  <2>3. Holds(w, i)
    BY <2>2, <1>3, <1>6 DEF Holds, Busy, At, PoolOf
  <2>4. CASE w[1] = s
    <3>1. w = <<s, RunOf(w), w[3]>> /\ RunOf(w) \in Runs /\ w[3] \in Slots
      BY <2>4, WorkerPlace
    <3>2. <<RunOf(w), i>> \in Lingering(s)
      <4> DEFINE x == <<RunOf(w), i>>
      <4>1. x \in Runs \X Items /\ x[1] = RunOf(w) /\ x[2] = i
        BY <3>1
      <4>2. Holds(<<s, x[1], w[3]>>, x[2])
        BY <3>1, <4>1, <2>3
      <4> HIDE DEF x
      <4> QED
        BY <3>1, <4>1, <4>2 DEF Lingering, x
    <3>3. <<run[s] + 1, i>> \in {<<run[s] + 1, x[2]>> : x \in Lingering(s)}
      <4>1. <<RunOf(w), i>>[2] = i
        OBVIOUS
      <4> QED
        BY <3>2, <4>1
    <3> QED
      BY <2>1, <2>4, <3>2, <3>3, <1>3
  <2>5. CASE w[1] # s
    <3>1. ~InLastRun(w) /\ run'[w[1]] = run[w[1]]
      BY <2>5, <1>3, <1>6
    <3> QED
      BY <2>1, <2>3, <3>1 DEF Owned, OldShared
  <2> QED
    BY <2>4, <2>5
<1> QED
  BY <1>7, <1>8, <1>9, <1>10, <1>11 DEF Owned

(* A parent that ends with nobody at work leaves everything owned. *)
LEMMA EndOwned ==
  ASSUME Typed, Owned, NEW s \in Shards, NEW m \in Modes, mode' = [mode EXCEPT ![s] = m],
         m \in {"raising", "raised", "done", "crashed"},
         UNCHANGED <<run, outcome, results, shared>>,
         \A p \in Pools : queue'[p] \subseteq queue[p],
         \A w \in Workers : Busy(w)' => Busy(w) /\ worker'[w].item = worker[w].item,
         \A w \in Workers : At(w, "dead") => At(w, "dead")',
         Active(s) \/ m \in {"raised", "done"},
         Unfinished(s)' \/ (\A w \in Workers : w[1] = s /\ InLastRun(w) => ~Busy(w)'),
         Unfinished(s)' \/ (\A p \in Pools : p[1] = s /\ p[2] = run[s] => queue'[p] = {})
  PROVE  Owned'
<1>1. mode'[s] = m /\ \A k \in Shards \ {s} : mode'[k] = mode[k]
  BY DEF Typed
<1>2. \A k \in Shards : Unfinished(k)' \/ (k # s /\ (Unfinished(k)' <=> Unfinished(k))) \/ k = s
  BY <1>1 DEF Unfinished
<1>3. WorkersOwn'
  <2> SUFFICES ASSUME NEW w \in Workers, Busy(w)'
               PROVE  /\ worker'[w].item \in Selected(w[1]) \ queue'[PoolOf(w)]
                      /\ RunOf(w) <= run[w[1]]
                      /\ InLastRun(w) => outcome[worker'[w].item] = "none" /\ Unfinished(w[1])'
    BY DEF WorkersOwn, PoolOf, RunOf, InLastRun, Unfinished
  <2>1. Busy(w) /\ worker'[w].item = worker[w].item /\ w[1] \in Shards /\ PoolOf(w) \in Pools
    BY WorkerPlace
  <2> QED
    BY <2>1, <1>2 DEF Owned, WorkersOwn
<1>4. ItemsApart'
  BY DEF Owned, ItemsApart, PoolOf
<1>5. PoolsOwn'
  <2> SUFFICES ASSUME NEW p \in Pools
               PROVE  /\ queue'[p] \subseteq Selected(p[1])
                      /\ queue'[p] # {} => p[2] <= run[p[1]]
                      /\ p[2] = run[p[1]] =>
                           \A j \in queue'[p] : outcome[j] = "none" /\ Unfinished(p[1])'
    BY DEF PoolsOwn
  <2>1. p[1] \in Shards /\ queue'[p] \subseteq queue[p]
    BY DEF Pools
  <2> QED
    BY <2>1, <1>2 DEF Owned, PoolsOwn
<1>6. ResultsOwn'
  <2> SUFFICES ASSUME NEW k \in Shards
               PROVE  /\ Active(k)' => run[k] >= 1
                      /\ \A j \in Collected(k) : j \in Selected(k) /\ outcome[j] = "ok"
    BY DEF ResultsOwn, Collected
  <2>1. Active(k)' => Active(k)
    BY <1>1 DEF Active
  <2> QED
    BY <2>1 DEF Owned, ResultsOwn
<1>7. \A w \in Workers, i \in Items : Holds(w, i)' => Holds(w, i)
  <2> SUFFICES ASSUME NEW w \in Workers, NEW i \in Items, Holds(w, i)'
               PROVE  Holds(w, i)
    OBVIOUS
  <2>1. queue'[PoolOf(w)] \subseteq queue[PoolOf(w)]
    BY WorkerPlace
  <2> QED
    BY <2>1 DEF Holds, PoolOf
<1> QED
  BY <1>3, <1>4, <1>5, <1>6, <1>7, OldStaysShared DEF Owned

LEMMA BreakOwned ==
  ASSUME Typed, Owned, NEW s \in Shards, BreakPool(s)
  PROVE  Owned'
<1>1. LastPool(s) \in Pools
  BY LastPoolIsAPool DEF BreakPool
<1>2. /\ UNCHANGED <<run, mode, results, shared>>
      /\ \A w \in Workers : worker'[w] = IF w[1] = s /\ InLastRun(w) THEN Dead ELSE worker[w]
      /\ queue'[LastPool(s)] = {} /\ \A p \in Pools \ {LastPool(s)} : queue'[p] = queue[p]
  BY <1>1 DEF BreakPool, parent, Typed
<1>3. \A i \in Items : i \notin Selected(s) \/ outcome[i] # "none" => outcome'[i] = outcome[i]
  BY DEF BreakPool
<1>4. \A w \in Workers : Busy(w)' => Busy(w) /\ worker'[w] = worker[w] /\ ~(w[1] = s /\ InLastRun(w))
  BY <1>2 DEF Busy, At, Dead
<1>5. \A w \in Workers : At(w, "dead") => At(w, "dead")'
  BY <1>2 DEF At, Dead
<1>6. WorkersOwn'
  <2> SUFFICES ASSUME NEW w \in Workers, Busy(w)'
               PROVE  /\ worker'[w].item \in Selected(w[1]) \ queue'[PoolOf(w)]
                      /\ RunOf(w) <= run[w[1]]
                      /\ InLastRun(w) => outcome'[worker'[w].item] = "none" /\ Unfinished(w[1])
    BY <1>2 DEF WorkersOwn, PoolOf, RunOf, InLastRun, Unfinished
  <2>1. Busy(w) /\ worker'[w] = worker[w] /\ ~(w[1] = s /\ InLastRun(w)) /\ w[1] \in Shards
        /\ PoolOf(w) \in Pools /\ queue'[PoolOf(w)] \subseteq queue[PoolOf(w)]
    BY <1>2, <1>4, WorkerPlace
  <2>2. /\ worker[w].item \in Selected(w[1]) \ queue[PoolOf(w)] /\ RunOf(w) <= run[w[1]]
        /\ InLastRun(w) => outcome[worker[w].item] = "none" /\ Unfinished(w[1])
    BY <2>1 DEF Owned, WorkersOwn
  <2>3. w[1] # s => worker[w].item \in Items \ Selected(s)
    BY <2>1, <2>2, SelectedApart
  <2> QED
    BY <2>1, <2>2, <2>3, <1>3
<1>7. ItemsApart'
  BY <1>4 DEF Owned, ItemsApart, PoolOf
<1>8. PoolsOwn'
  <2> SUFFICES ASSUME NEW p \in Pools
               PROVE  /\ queue'[p] \subseteq Selected(p[1])
                      /\ queue'[p] # {} => p[2] <= run[p[1]]
                      /\ p[2] = run[p[1]] =>
                           \A j \in queue'[p] : outcome'[j] = "none" /\ Unfinished(p[1])
    BY <1>2 DEF PoolsOwn, Unfinished
  <2>1. p[1] \in Shards /\ queue'[p] \subseteq queue[p] /\ p = <<p[1], p[2]>>
    BY <1>2 DEF Pools
  <2>2. p[2] = run[p[1]] /\ p[1] = s => queue'[p] = {}
    BY <2>1, <1>2 DEF LastPool
  <2>3. queue[p] \subseteq Selected(p[1])
    BY DEF Owned, PoolsOwn
  <2>4. p[1] # s => \A j \in queue[p] : outcome'[j] = outcome[j]
    BY <2>1, <2>3, <1>3, SelectedApart
  <2> QED
    BY <2>1, <2>2, <2>3, <2>4 DEF Owned, PoolsOwn
<1>9. ResultsOwn'
  <2>1. \A k \in Shards : \A j \in Collected(k) : j \in Items /\ outcome'[j] = outcome[j]
    BY <1>3, SelectedApart DEF Owned, ResultsOwn
  <2> QED
    BY <2>1, <1>2 DEF Owned, ResultsOwn, Active, Collected
<1>10. \A w \in Workers, i \in Items : Holds(w, i)' => Holds(w, i)
  <2> SUFFICES ASSUME NEW w \in Workers, NEW i \in Items, Holds(w, i)'
               PROVE  Holds(w, i)
    OBVIOUS
  <2>1. queue'[PoolOf(w)] \subseteq queue[PoolOf(w)]
    BY <1>2, WorkerPlace
  <2> QED
    BY <2>1, <1>4, <1>5 DEF Holds, PoolOf
<1> QED
  BY <1>2, <1>6, <1>7, <1>8, <1>9, <1>10, OldStaysShared DEF Owned

LEMMA OwnedParent ==
  ASSUME Typed, Owned, NEW s \in Shards, StartRun(s) \/ ParentStep(s) \/ ParentFault(s)
  PROVE  Owned'
<1>1. CASE StartRun(s)
  BY <1>1, StartOwned
<1>2. CASE Collect(s)
  <2>1. PICK i \in Selected(s) \ Collected(s) :
          outcome[i] = "ok" /\ results' = [results EXCEPT ![s] = Append(@, i)]
    BY <1>2 DEF Collect
  <2>2. results[s] \in Seq(Items) /\ i \in Items
    BY SelectedApart DEF Typed
  <2>3. /\ Collected(s)' = Collected(s) \cup {i}
        /\ \A k \in Shards \ {s} : Collected(k)' = Collected(k)
    <3>1. results'[s] = Append(results[s], i) /\ \A k \in Shards \ {s} : results'[k] = results[k]
      BY <2>1 DEF Typed
    <3>2. DOMAIN Append(results[s], i) = DOMAIN results[s] \cup {Len(results[s]) + 1}
      BY <2>2
    <3> QED
      BY <2>2, <3>1, <3>2 DEF Collected
  <2>4. UNCHANGED <<run, mode, queue, outcome, worker, shared>>
    BY <1>2 DEF Collect, parent, futures
  <2>5. ResultsOwn'
    BY <2>1, <2>3, <2>4 DEF Owned, ResultsOwn, Active
  <2>6. WorkersOwn' /\ ItemsApart' /\ PoolsOwn' /\ OldShared'
    BY <2>4 DEF Owned, WorkersOwn, ItemsApart, PoolsOwn, OldShared, Busy, At, InLastRun, RunOf,
                PoolOf, Unfinished, Holds
  <2> QED
    BY <2>5, <2>6 DEF Owned
<1>3. CASE Raise(s)
  <2>1. mode' = [mode EXCEPT ![s] = "raising"] /\ Active(s)
        /\ UNCHANGED <<run, outcome, results, shared, queue, worker>>
    BY <1>3 DEF Raise, futures, Active
  <2>2. Unfinished(s)'
    BY <2>1 DEF Unfinished, Typed
  <2>3. "raising" \in Modes
    BY DEF Modes
  <2> QED
    BY <2>1, <2>2, <2>3, EndOwned DEF Busy, At
<1>4. ASSUME NEW m \in {"raised", "done"}, mode' = [mode EXCEPT ![s] = m],
             UNCHANGED <<run, queue, outcome, results, worker, shared>>,
             \A w \in Workers : w[1] = s /\ InLastRun(w) => ~Busy(w),
             \A p \in Pools : p[1] = s /\ p[2] = run[s] => queue[p] = {}
      PROVE  Owned'
  <2>1. m \in Modes
    BY DEF Modes
  <2>2. /\ \A w \in Workers : Busy(w)' => Busy(w) /\ worker'[w].item = worker[w].item
        /\ \A w \in Workers : At(w, "dead") => At(w, "dead")'
        /\ \A w \in Workers : w[1] = s /\ InLastRun(w) => ~Busy(w)'
        /\ \A p \in Pools : queue'[p] \subseteq queue[p]
        /\ \A p \in Pools : p[1] = s /\ p[2] = run[s] => queue'[p] = {}
    BY <1>4 DEF Busy, At
  <2> QED
    BY <1>4, <2>1, <2>2, EndOwned
<1>5. CASE LeavePool(s)
  <2>1. \A w \in Workers : w[1] = s /\ InLastRun(w) => ~Busy(w)
    <3> SUFFICES ASSUME NEW w \in Workers, w[1] = s, InLastRun(w)
                 PROVE  ~Busy(w)
      OBVIOUS
    <3>1. w = <<s, run[s], w[3]>> /\ w[3] \in Slots
      BY WorkerPlace DEF InLastRun, RunOf
    <3> QED
      BY <1>5, <3>1 DEF LeavePool
  <2>2. \A p \in Pools : p[1] = s /\ p[2] = run[s] => queue[p] = {}
    BY <1>5 DEF LeavePool, Pools, LastPool
  <2> QED
    BY <1>5, <2>1, <2>2, <1>4 DEF LeavePool, futures
<1>6. CASE WriteManifest(s)
  <2>1. \A i \in Selected(s) : outcome[i] = "ok"
    BY <1>6 DEF WriteManifest, Owned, ResultsOwn
  <2>2. \A p \in Pools : p[1] = s /\ p[2] = run[s] => queue[p] = {}
    BY <2>1 DEF Owned, PoolsOwn
  <2>3. \A w \in Workers : w[1] = s /\ InLastRun(w) => ~Busy(w)
    BY <2>1 DEF Owned, WorkersOwn
  <2> QED
    BY <1>6, <2>2, <2>3, <1>4 DEF WriteManifest, futures
<1>7. CASE Crash(s)
  <2>1. LastPool(s) \in Pools
    BY <1>7, LastPoolIsAPool DEF Crash
  <2>2. PICK kept \in SUBSET queue[LastPool(s)] :
          queue' = [queue EXCEPT ![LastPool(s)] = IF Sequential THEN {} ELSE kept]
    BY <1>7 DEF Crash
  <2>3. \A p \in Pools : queue'[p] \subseteq queue[p]
    BY <2>1, <2>2 DEF Typed
  <2>4. \A w \in Workers : worker'[w] = worker[w] \/ worker'[w] = Dead
    BY <1>7 DEF Crash
  <2>5. /\ \A w \in Workers : Busy(w)' => Busy(w) /\ worker'[w].item = worker[w].item
        /\ \A w \in Workers : At(w, "dead") => At(w, "dead")'
    BY <2>4 DEF Busy, At, Dead
  <2>6. mode' = [mode EXCEPT ![s] = "crashed"] /\ Active(s)
        /\ UNCHANGED <<run, outcome, results, shared>>
    BY <1>7 DEF Crash
  <2>7. Unfinished(s)' /\ "crashed" \in Modes
    BY <2>6 DEF Unfinished, Typed, Modes
  <2> QED
    BY <2>3, <2>5, <2>6, <2>7, EndOwned
<1> QED
  BY <1>1, <1>2, <1>3, <1>5, <1>6, <1>7, BreakOwned DEF ParentStep, ParentFault
-----------------------------------------------------------------------------
(* An item a run has for itself is at no other worker. *)
LEMMA AloneApart ==
  ASSUME Typed, Owned, NEW w \in Workers, Mine(w)
  PROVE  InLastRun(w) /\ \A v \in Workers \ {w} : Busy(v) => worker[v].item # worker[w].item
<1> DEFINE i == worker[w].item
<1>1. Busy(w) /\ Alone(RunOf(w), i) /\ i \in Items /\ i \in Selected(w[1]) /\ w[1] \in Shards
  BY WorkerPlace DEF Mine
<1>2. \A v \in Workers : Busy(v) /\ worker[v].item = i => Holds(v, i)
  BY DEF Holds, Busy
<1>3. InLastRun(w)
  BY <1>1, <1>2 DEF Owned, OldShared, Alone
<1>4. ASSUME NEW v \in Workers \ {w}, Busy(v), worker[v].item = i
      PROVE  FALSE
  <2>1. v[1] \in Shards /\ i \in Selected(v[1])
    BY <1>4, WorkerPlace
  <2>2. v[1] = w[1]
    BY <2>1, <1>1, SelectedApart
  <2>3. CASE InLastRun(v)
    BY <2>3, <1>1, <1>3, <1>4, PoolItemsApart
  <2>4. CASE ~InLastRun(v)
    <3>1. <<run[v[1]], i>> \in shared
      BY <2>4, <1>1, <1>2, <1>4 DEF Owned, OldShared
    <3>2. run[v[1]] = RunOf(w)
      BY <2>2, <1>3 DEF InLastRun
    <3> QED
      BY <3>1, <3>2, <1>1 DEF Alone
  <2> QED
    BY <2>3, <2>4
<1> QED
  BY <1>3, <1>4

(* Nobody is at an item its run had for itself and has finished. *)
LEMMA NoneAtFinished ==
  ASSUME Typed, Owned, NEW s \in Shards, NEW i \in Selected(s), outcome[i] = "ok",
         Alone(run[s], i), NEW v \in Workers, Busy(v)
  PROVE  worker[v].item # i
<1> SUFFICES ASSUME worker[v].item = i
             PROVE  FALSE
  OBVIOUS
<1>1. v[1] \in Shards /\ i \in Selected(v[1]) /\ i \in Items
  BY WorkerPlace, SelectedApart
<1>2. v[1] = s
  BY <1>1, SelectedApart
<1>3. ~InLastRun(v)
  BY DEF Owned, WorkersOwn
<1>4. Holds(v, i)
  BY DEF Holds, Busy
<1> QED
  BY <1>1, <1>2, <1>3, <1>4 DEF Owned, OldShared, Alone

(* What a step of w on its own artifact leaves alone. *)
LEMMA OthersKept ==
  ASSUME Typed, Owned, Stored, NEW w \in Workers, Busy(w),
         \A v \in Workers \ {w} : worker'[v] = worker[v], UNCHANGED <<run, shared>>,
         \A a \in Artifacts \ {Artifact(w)} : temp'[a] = temp[a] /\ target'[a] = target[a],
         \A x \in temp'[Artifact(w)].has : x \in temp[Artifact(w)].has \/ x[2] = RunOf(w)
  PROVE  /\ \A v \in Workers \ {w} : Stamped(v)' /\ Clean(v)' /\ Behind(v)'
         /\ \A s \in Shards : \A i \in Selected(s) : outcome[i] = "ok" /\ Alone(run[s], i) =>
              \A p \in 1..PerEntry : Whole(target'[<<i, p>>], run[s])
         /\ Mine(w) => \A p \in 1..(worker[w].part - 1) :
                         Whole(target'[<<worker[w].item, p>>], RunOf(w))
<1>1. Artifact(w) \in Artifacts /\ Artifact(w) = <<worker[w].item, worker[w].part>>
      /\ worker[w].part \in 1..PerEntry /\ worker[w].item \in Items
  BY WorkerPlace, WorkerUpdates DEF Artifact
<1>2. ASSUME NEW v \in Workers \ {w}
      PROVE  Stamped(v)' /\ Clean(v)' /\ Behind(v)'
  <2>1. /\ worker'[v] = worker[v] /\ (Busy(v)' <=> Busy(v)) /\ Artifact(v)' = Artifact(v)
        /\ (Mine(v)' <=> Mine(v)) /\ (Committing(v)' <=> Committing(v)) /\ (Mine(v) => Busy(v))
        /\ (Committing(v) => Busy(v)) /\ RunOf(v)' = RunOf(v)
        /\ \A step : At(v, step)' <=> At(v, step)
    BY DEF Busy, At, Artifact, Mine, Alone, RunOf, Committing
  <2>2. /\ Busy(v) => /\ Artifact(v) \in Artifacts /\ worker[v].item \in Items
                      /\ Artifact(v) = <<worker[v].item, worker[v].part>>
                      /\ worker[v].part \in 1..PerEntry
        /\ RunOf(v)' = RunOf(v)
    BY WorkerPlace, WorkerUpdates DEF Artifact, RunOf
  <2>3. Mine(v) => worker[v].item # worker[w].item
    BY <2>1, AloneApart
  <2>4. Mine(v) => temp'[Artifact(v)] = temp[Artifact(v)]
    BY <1>1, <2>1, <2>2, <2>3
  <2>5. Stamped(v)'
    <3>1. Stamped(v)
      BY DEF Stored
    <3> SUFFICES ASSUME Mine(v)
                 PROVE  /\ At(v, "write") =>
                             /\ worker[v].file \in FilesOf(RunOf(v))
                             /\ temp'[Artifact(v)] = Begun(worker[v].file, RunOf(v))
                        /\ At(v, "retire") \/ At(v, "retiring") \/ At(v, "move") =>
                             Whole(temp'[Artifact(v)], RunOf(v))
                        /\ At(v, "clearing") \/ At(v, "cleanup") => temp'[Artifact(v)].there
      BY <2>1 DEF Stamped
    <3> QED
      BY <2>4, <3>1 DEF Stamped
  <2>6. Clean(v)'
    <3> SUFFICES ASSUME Committing(v), NEW x \in temp'[Artifact(v)].has, Alone(x[2], worker[v].item)
                 PROVE  x[2] = RunOf(v)
      BY <2>1 DEF Clean, Alone
    <3>1. CASE x \in temp[Artifact(v)].has
      BY <3>1 DEF Stored, Clean
    <3>2. CASE x \notin temp[Artifact(v)].has
      <4>1. Artifact(v) = Artifact(w)
        BY <2>1, <2>2, <3>2
      <4>2. x[2] = RunOf(w) /\ worker[v].item = worker[w].item
        BY <1>1, <2>1, <2>2, <3>2, <4>1
      <4>3. Mine(w)
        BY <4>2 DEF Mine
      <4> QED
        BY <2>1, <4>2, <4>3, AloneApart
    <3> QED
      BY <3>1, <3>2
  <2>7. Behind(v)'
    <3> SUFFICES ASSUME Mine(v), NEW p \in 1..(worker[v].part - 1)
                 PROVE  Whole(target'[<<worker[v].item, p>>], RunOf(v))
      BY <2>1 DEF Behind
    <3>1. <<worker[v].item, p>> \in Artifacts \ {Artifact(w)}
      BY <1>1, <2>1, <2>2, <2>3, StageConfigured DEF Artifacts
    <3>2. Whole(target[<<worker[v].item, p>>], RunOf(v))
      BY DEF Stored, Behind
    <3> QED
      BY <3>1, <3>2
  <2> QED
    BY <2>5, <2>6, <2>7
<1>3. ASSUME NEW s \in Shards, NEW i \in Selected(s), outcome[i] = "ok", Alone(run[s], i),
             NEW p \in 1..PerEntry
      PROVE  Whole(target'[<<i, p>>], run[s])
  <2>1. i # worker[w].item /\ i \in Items
    BY <1>3, NoneAtFinished, SelectedApart
  <2>2. <<i, p>> \in Artifacts \ {Artifact(w)}
    BY <1>1, <2>1 DEF Artifacts
  <2> QED
    BY <1>3, <2>2 DEF Stored, SucceededItemsWhole
<1>4. ASSUME Mine(w), NEW p \in 1..(worker[w].part - 1)
      PROVE  Whole(target'[<<worker[w].item, p>>], RunOf(w))
  <2>1. <<worker[w].item, p>> \in Artifacts \ {Artifact(w)}
    BY <1>1, StageConfigured DEF Artifacts
  <2>2. Whole(target[<<worker[w].item, p>>], RunOf(w))
    BY <1>4 DEF Stored, Behind
  <2> QED
    BY <2>1, <2>2
<1> QED
  BY <1>2, <1>3, <1>4

(* A step of w that takes no file under a final name. *)
LEMMA StoredStep ==
  ASSUME Typed, Owned, Stored, NEW w \in Workers, Busy(w),
         \A v \in Workers \ {w} : worker'[v] = worker[v], UNCHANGED <<run, shared>>,
         \A a \in Artifacts \ {Artifact(w)} : temp'[a] = temp[a] /\ target'[a] = target[a],
         \A x \in temp'[Artifact(w)].has : x \in temp[Artifact(w)].has \/ x[2] = RunOf(w),
         target'[Artifact(w)].has \subseteq target[Artifact(w)].has,
         \A i \in Items : outcome'[i] = "ok" => outcome[i] = "ok",
         Busy(w)' => worker'[w].item = worker[w].item /\ worker'[w].part = worker[w].part,
         Stamped(w)', Clean(w)'
  PROVE  Stored'
<1>1. NoLeftoversPublished'
  <2> SUFFICES ASSUME NEW a \in Artifacts, NEW x \in target'[a].has, Alone(x[2], a[1])
               PROVE  target'[a].has \subseteq FilesOf(x[2]) \X {x[2]}
    BY DEF NoLeftoversPublished, Alone
  <2>1. target'[a].has \subseteq target[a].has
    OBVIOUS
  <2> QED
    BY <2>1 DEF Stored, NoLeftoversPublished
<1>2. SucceededItemsWhole'
  <2> SUFFICES ASSUME NEW s \in Shards, NEW i \in Selected(s), outcome'[i] = "ok", Alone(run[s], i),
                      NEW p \in 1..PerEntry
               PROVE  Whole(target'[<<i, p>>], run[s])
    BY DEF SucceededItemsWhole, Alone
  <2>1. outcome[i] = "ok"
    BY SelectedApart
  <2> QED
    BY <2>1, OthersKept
<1>3. Behind(w)'
  <2> SUFFICES ASSUME Mine(w)', NEW p \in 1..(worker'[w].part - 1)
               PROVE  Whole(target'[<<worker'[w].item, p>>], RunOf(w))
    BY DEF Behind, RunOf
  <2>1. Mine(w) /\ worker'[w].item = worker[w].item /\ worker'[w].part = worker[w].part
    BY DEF Mine, Alone, RunOf
  <2> QED
    BY <2>1, OthersKept
<1>4. \A v \in Workers \ {w} : Stamped(v)' /\ Clean(v)' /\ Behind(v)'
  BY OthersKept
<1> QED
  BY <1>1, <1>2, <1>3, <1>4 DEF Stored

(* An item is given up, or its worker lost, with no file written. *)
LEMMA StoredGivenUp ==
  ASSUME Typed, Owned, Stored, NEW w \in Workers, Busy(w), ~Busy(w)',
         \A v \in Workers \ {w} : worker'[v] = worker[v], UNCHANGED <<run, shared, target>>,
         \A a \in Artifacts \ {Artifact(w)} : temp'[a] = temp[a],
         temp'[Artifact(w)].has \subseteq temp[Artifact(w)].has,
         \A i \in Items : outcome'[i] = "ok" => outcome[i] = "ok"
  PROVE  Stored'
<1>1. Stamped(w)' /\ Clean(w)'
  BY DEF Stamped, Clean, Mine, Committing, Busy, At
<1> QED
  BY <1>1, StoredStep

LEMMA SettleFailed ==
  ASSUME Typed, Owned, NEW w \in Workers, Busy(w), Settle(w, "failed")
  PROVE  /\ ~Busy(w)' /\ \A v \in Workers \ {w} : worker'[v] = worker[v]
         /\ \A i \in Items : outcome'[i] = "ok" => outcome[i] = "ok"
BY SettleGivesUp DEF Busy, At, Idle

(* A step of w that changes its temporary directory, or no directory. *)
LEMMA StoredKept ==
  ASSUME Typed, Owned, Stored, NEW w \in Workers, Busy(w), NEW step \in Steps,
         Kept(w, step, worker[w].part), UNCHANGED <<run, shared, target, outcome>>,
         \A a \in Artifacts \ {Artifact(w)} : temp'[a] = temp[a],
         \A x \in temp'[Artifact(w)].has : x \in temp[Artifact(w)].has \/ x[2] = RunOf(w),
         step \in {"write", "retire", "retiring", "move"} =>
           Committing(w) \/ \A x \in temp'[Artifact(w)].has : x[2] = RunOf(w),
         Mine(w) =>
           /\ step = "write" => /\ worker'[w].file \in FilesOf(RunOf(w))
                                /\ temp'[Artifact(w)] = Begun(worker'[w].file, RunOf(w))
           /\ step \in {"retire", "retiring", "move"} => Whole(temp'[Artifact(w)], RunOf(w))
           /\ step \in {"clearing", "cleanup"} => temp'[Artifact(w)].there
  PROVE  Stored'
<1>1. /\ worker'[w].item = worker[w].item /\ worker'[w].part = worker[w].part
      /\ worker'[w].step = step /\ \A v \in Workers \ {w} : worker'[v] = worker[v]
  BY DEF Kept
<1>2. Artifact(w)' = Artifact(w) /\ RunOf(w)' = RunOf(w) /\ (Mine(w)' => Mine(w))
  BY <1>1 DEF Artifact, RunOf, Mine, Alone
<1>3. Stamped(w)'
  <2> SUFFICES ASSUME Mine(w)
               PROVE  /\ step = "write" =>
                           /\ worker'[w].file \in FilesOf(RunOf(w))
                           /\ temp'[Artifact(w)] = Begun(worker'[w].file, RunOf(w))
                      /\ step \in {"retire", "retiring", "move"} => Whole(temp'[Artifact(w)], RunOf(w))
                      /\ step \in {"clearing", "cleanup"} => temp'[Artifact(w)].there
    BY <1>1, <1>2 DEF Stamped, At
  <2> QED
    OBVIOUS
<1>4. Clean(w)'
  <2> SUFFICES ASSUME step \in {"write", "retire", "retiring", "move"},
                      NEW x \in temp'[Artifact(w)].has, Alone(x[2], worker[w].item)
               PROVE  x[2] = RunOf(w)
    BY <1>1, <1>2 DEF Clean, Committing, At, Alone
  <2>1. CASE Committing(w)
    <3>1. \A y \in temp[Artifact(w)].has : Alone(y[2], worker[w].item) => y[2] = RunOf(w)
      BY <2>1 DEF Stored, Clean
    <3> QED
      BY <3>1
  <2> QED
    BY <2>1
<1> QED
  BY <1>1, <1>3, <1>4, StoredStep
-----------------------------------------------------------------------------
(* The files of a run, one after another. *)
LEMMA FilesInOrder ==
  ASSUME NEW r \in Nat, NEW f \in FilesOf(r)
  PROVE  /\ EmptyDirectory = Begun(FirstFile(r), r)
         /\ f # LastFile => /\ f + 1 \in FilesOf(r)
                            /\ WithFile(Begun(f, r), f, r) = Begun(f + 1, r)
         /\ f = LastFile => Whole(WithFile(Begun(f, r), f, r), r)
<1>1. FilesOf(r) \subseteq 0..LastFile /\ LastFile \in Nat \ {0}
  BY ArtifactHasFiles DEF FilesOf, Files
<1>2. {g \in FilesOf(r) : g < FirstFile(r)} = {}
  BY ArtifactHasFiles DEF FirstFile, FilesOf, Files
<1>3. EmptyDirectory = Begun(FirstFile(r), r)
  <2>1. {g \in FilesOf(r) : g < FirstFile(r)} \X {r} = {}
    BY <1>2
  <2> QED
    BY <2>1 DEF EmptyDirectory, Begun
<1> DEFINE d == Begun(f, r)
           new == {x \in d.has : x[1] # f} \cup {<<f, r>>}
<1>4. d.has = {g \in FilesOf(r) : g < f} \X {r}
  BY DEF Begun
<1>5. new = ({g \in FilesOf(r) : g < f} \cup {f}) \X {r}
  <2>1. \A x \in d.has : x[1] # f
    BY <1>1, <1>4
  <2>2. new = d.has \cup {<<f, r>>}
    BY <2>1
  <2> QED
    BY <1>4, <2>2
<1>6. WithFile(d, f, r) = [there |-> TRUE, has |-> new]
  BY DEF WithFile
<1>7. ASSUME f # LastFile
      PROVE  f + 1 \in FilesOf(r) /\ WithFile(d, f, r) = Begun(f + 1, r)
  <2>1. f + 1 \in FilesOf(r)
    BY <1>7, <1>1 DEF FilesOf, Files
  <2>2. {g \in FilesOf(r) : g < f} \cup {f} = {g \in FilesOf(r) : g < f + 1}
    BY <1>1
  <2> QED
    BY <1>5, <1>6, <2>1, <2>2 DEF Begun
<1>8. ASSUME f = LastFile
      PROVE  Whole(WithFile(d, f, r), r)
  <2>1. {g \in FilesOf(r) : g < f} \cup {f} = FilesOf(r)
    BY <1>8, <1>1
  <2> QED
    BY <1>5, <1>6, <2>1 DEF Whole
<1> QED
  BY <1>3, <1>7, <1>8

LEMMA StoredTake ==
  ASSUME Typed, Owned, Stored, NEW w \in Workers, TakeItem(w)
  PROVE  Stored'
<1>1. PICK i \in queue[PoolOf(w)] : worker' = [worker EXCEPT ![w] = Starting(i)]
  BY DEF TakeItem
<1>2. /\ \A v \in Workers \ {w} : worker'[v] = worker[v]
      /\ worker'[w].step = "generate" /\ worker'[w].part = 1
      /\ UNCHANGED <<target, temp, run, outcome, shared>>
  BY <1>1 DEF Typed, Starting, TakeItem, disk, parent
<1>3. NoLeftoversPublished' /\ SucceededItemsWhole'
  BY <1>2 DEF Stored, NoLeftoversPublished, SucceededItemsWhole, Alone
<1>4. Stamped(w)' /\ Clean(w)' /\ Behind(w)'
  BY <1>2 DEF Stamped, Clean, Behind, Committing, At
<1>5. ASSUME NEW v \in Workers \ {w}
      PROVE  Stamped(v)' /\ Clean(v)' /\ Behind(v)'
  <2>1. worker'[v] = worker[v] /\ Stamped(v) /\ Clean(v) /\ Behind(v)
    BY <1>2 DEF Stored
  <2> QED
    BY <1>2, <2>1 DEF Stamped, Clean, Behind, Committing, At, Mine, Busy, Alone, Artifact
<1> QED
  BY <1>3, <1>4, <1>5 DEF Stored

LEMMA StoredClearTemp ==
  ASSUME Typed, Owned, Stored, NEW w \in Workers, ClearTemp(w)
  PROVE  Stored'
<1>1. Busy(w) /\ Artifact(w) \in Artifacts /\ temp[Artifact(w)] \in Directory /\ At(w, "clearing")
  BY WorkerPlace DEF ClearTemp, Busy, At, Typed
<1>2. PICK d \in Shrunk(temp[Artifact(w)]) :
        /\ temp' = [temp EXCEPT ![Artifact(w)] = d]
        /\ IF d.there THEN UNCHANGED worker ELSE Goto(w, "make")
  BY DEF ClearTemp
<1>3. /\ temp'[Artifact(w)] = d /\ \A a \in Artifacts \ {Artifact(w)} : temp'[a] = temp[a]
      /\ UNCHANGED <<run, shared, target, outcome>>
  BY <1>1, <1>2 DEF ClearTemp, Typed, parent, futures
<1>4. d.has \subseteq temp[Artifact(w)].has
  BY <1>1, <1>2 DEF Shrunk, NoDirectory, Directory
<1>5. CASE d.there
  <2>1. Kept(w, "clearing", worker[w].part) /\ "clearing" \in Steps
    BY <1>1, <1>2, <1>5, StayKeeps DEF At, Steps
  <2> QED
    BY <1>1, <1>3, <1>4, <1>5, <2>1, StoredKept
<1>6. CASE ~d.there
  <2>1. Kept(w, "make", worker[w].part) /\ "make" \in Steps
    BY <1>2, <1>6, GotoKeeps DEF Steps
  <2> QED
    BY <1>1, <1>3, <1>4, <2>1, StoredKept
<1> QED
  BY <1>5, <1>6

LEMMA StoredCleanUp ==
  ASSUME Typed, Owned, Stored, NEW w \in Workers, CleanUp(w)
  PROVE  Stored'
<1>1. Busy(w) /\ Artifact(w) \in Artifacts /\ temp[Artifact(w)] \in Directory /\ At(w, "cleanup")
  BY WorkerPlace DEF CleanUp, Busy, At, Typed
<1>2. PICK d \in Shrunk(temp[Artifact(w)]) :
        /\ temp' = [temp EXCEPT ![Artifact(w)] = d]
        /\ IF d.there THEN UNCHANGED <<futures, worker>> ELSE Settle(w, "failed")
  BY DEF CleanUp
<1>3. /\ temp'[Artifact(w)] = d /\ \A a \in Artifacts \ {Artifact(w)} : temp'[a] = temp[a]
      /\ UNCHANGED <<run, shared, target>>
  BY <1>1, <1>2 DEF CleanUp, Typed, parent
<1>4. d.has \subseteq temp[Artifact(w)].has
  BY <1>1, <1>2 DEF Shrunk, NoDirectory, Directory
<1>5. CASE d.there
  <2>1. Kept(w, "cleanup", worker[w].part) /\ "cleanup" \in Steps /\ UNCHANGED outcome
    BY <1>1, <1>2, <1>5, StayKeeps DEF At, Steps, futures
  <2> QED
    BY <1>1, <1>3, <1>4, <1>5, <2>1, StoredKept
<1>6. CASE ~d.there
  BY <1>1, <1>2, <1>3, <1>4, <1>6, SettleFailed, StoredGivenUp
<1> QED
  BY <1>5, <1>6

LEMMA StoredMakeTemp ==
  ASSUME Typed, Owned, Stored, NEW w \in Workers, MakeTemp(w)
  PROVE  Stored'
<1>1. Busy(w) /\ Artifact(w) \in Artifacts /\ RunOf(w) \in Nat
  BY WorkerPlace DEF MakeTemp, Busy, At, Runs
<1>2. /\ temp'[Artifact(w)] = EmptyDirectory
      /\ \A a \in Artifacts \ {Artifact(w)} : temp'[a] = temp[a]
      /\ UNCHANGED <<run, shared, target, outcome>>
  BY <1>1 DEF MakeTemp, Typed, parent, futures
<1>3. Kept(w, "write", worker[w].part) /\ worker'[w].file = FirstFile(RunOf(w)) /\ "write" \in Steps
  BY MakeTempKeeps DEF Steps
<1>4. EmptyDirectory.has = {}
  BY DEF EmptyDirectory
<1>5. FirstFile(RunOf(w)) \in FilesOf(RunOf(w))
      /\ EmptyDirectory = Begun(FirstFile(RunOf(w)), RunOf(w))
  BY <1>1, FirstFileIsAFile, FilesInOrder
<1> QED
  BY <1>1, <1>2, <1>3, <1>4, <1>5, StoredKept

LEMMA StoredWriteFile ==
  ASSUME Typed, Owned, Stored, NEW w \in Workers, WriteFile(w)
  PROVE  Stored'
<1> DEFINE f == worker[w].file
           r == RunOf(w)
           d == WithFile(temp[Artifact(w)], f, r)
<1>1. /\ Busy(w) /\ At(w, "write") /\ Committing(w) /\ Artifact(w) \in Artifacts /\ r \in Nat
  BY WorkerPlace DEF WriteFile, Busy, At, Committing, Runs
<1>2. /\ temp'[Artifact(w)] = d
      /\ \A a \in Artifacts \ {Artifact(w)} : temp'[a] = temp[a]
      /\ UNCHANGED <<run, shared, target, outcome>>
  BY <1>1 DEF WriteFile, Typed, parent, futures
<1>3. \A x \in d.has : x \in temp[Artifact(w)].has \/ x[2] = r
  BY DEF WithFile
<1>4. Mine(w) => f \in FilesOf(r) /\ temp[Artifact(w)] = Begun(f, r)
  BY <1>1 DEF Stored, Stamped
<1>5. "retire" \in Steps /\ "write" \in Steps
  BY DEF Steps
<1>6. CASE f = LastFile
  <2>1. Kept(w, "retire", worker[w].part)
    BY <1>6, WriteFileKeeps
  <2>2. Mine(w) => Whole(d, r)
    BY <1>1, <1>4, <1>6, FilesInOrder
  <2> QED
    BY <1>1, <1>2, <1>3, <1>5, <2>1, <2>2, StoredKept
<1>7. CASE f # LastFile
  <2>1. Kept(w, "write", worker[w].part) /\ worker'[w].file = f + 1
    BY <1>7, WriteFileKeeps
  <2>2. Mine(w) => f + 1 \in FilesOf(r) /\ d = Begun(f + 1, r)
    BY <1>1, <1>4, <1>7, FilesInOrder
  <2> QED
    BY <1>1, <1>2, <1>3, <1>5, <2>1, <2>2, StoredKept
<1> QED
  BY <1>6, <1>7

(* Steps that move on between two operations on the disk. *)
LEMMA StoredGoto ==
  ASSUME Typed, Owned, Stored, NEW w \in Workers, Busy(w), NEW step \in Steps,
         Kept(w, step, worker[w].part), UNCHANGED <<disk, run, shared, outcome>>,
         step \in {"write", "retire", "retiring", "move"} =>
           step \in {"retiring", "move"} /\ (At(w, "retire") \/ At(w, "retiring")),
         step = "clearing" => temp[Artifact(w)].there,
         step = "cleanup" => Committing(w)
  PROVE  Stored'
<1>1. /\ UNCHANGED <<run, shared, target, temp, outcome>>
  BY DEF disk
<1>2. step \in {"write", "retire", "retiring", "move"} => Committing(w)
  BY DEF Committing
<1>3. Mine(w) => /\ step \in {"retire", "retiring", "move"} => Whole(temp[Artifact(w)], RunOf(w))
                 /\ step = "cleanup" => temp[Artifact(w)].there
  <2> SUFFICES ASSUME Mine(w)
               PROVE  /\ step \in {"retire", "retiring", "move"} => Whole(temp[Artifact(w)], RunOf(w))
                      /\ step = "cleanup" => temp[Artifact(w)].there
    OBVIOUS
  <2>1. Stamped(w)
    BY DEF Stored
  <2>2. At(w, "retire") \/ At(w, "retiring") \/ At(w, "move") => Whole(temp[Artifact(w)], RunOf(w))
    BY <2>1 DEF Stamped
  <2>3. At(w, "write") => temp[Artifact(w)].there
    BY <2>1 DEF Stamped, Begun
  <2>4. Whole(temp[Artifact(w)], RunOf(w)) => temp[Artifact(w)].there
    BY DEF Whole
  <2> QED
    BY <2>2, <2>3, <2>4 DEF Committing
<1> QED
  BY <1>1, <1>2, <1>3, StoredKept

LEMMA StoredRemoveTarget ==
  ASSUME Typed, Owned, Stored, NEW w \in Workers, RemoveTarget(w) \/ RemoveMoved(w)
  PROVE  Stored'
<1>1. Busy(w) /\ Artifact(w) \in Artifacts /\ target[Artifact(w)] \in Directory
  BY WorkerPlace DEF RemoveTarget, RemoveMoved, Busy, At, Typed
<1>2. /\ UNCHANGED <<temp, run, shared, outcome>>
      /\ \A a \in Artifacts \ {Artifact(w)} : target'[a] = target[a]
      /\ target'[Artifact(w)].has \subseteq target[Artifact(w)].has
  <2>1. CASE RemoveTarget(w)
    <3>1. PICK d \in Shrunk(target[Artifact(w)]) : target' = [target EXCEPT ![Artifact(w)] = d]
      BY <2>1 DEF RemoveTarget
    <3>2. d.has \subseteq target[Artifact(w)].has
      BY <1>1, <3>1 DEF Shrunk, NoDirectory, Directory
    <3> QED
      BY <1>1, <2>1, <3>1, <3>2 DEF RemoveTarget, Typed, parent, futures
  <2>2. CASE RemoveMoved(w)
    <3>1. PICK x \in target[Artifact(w)].has :
            target' = [target EXCEPT ![Artifact(w)].has = @ \ {x}]
      BY <2>2 DEF RemoveMoved
    <3>2. target'[Artifact(w)].has = target[Artifact(w)].has \ {x}
      BY <1>1, <3>1 DEF Typed, Directory
    <3> QED
      BY <1>1, <2>2, <3>1, <3>2 DEF RemoveMoved, Typed, parent, futures
  <2> QED
    BY <2>1, <2>2
<1>3. (Kept(w, worker[w].step, worker[w].part) /\ worker' = worker)
        \/ (At(w, "retiring") /\ Kept(w, "move", worker[w].part))
  <2>1. "move" \in Steps
    BY DEF Steps
  <2> QED
    BY <2>1, GotoKeeps, StayKeeps DEF RemoveTarget, RemoveMoved
<1>4. /\ \A v \in Workers \ {w} : worker'[v] = worker[v]
      /\ worker'[w].item = worker[w].item /\ worker'[w].part = worker[w].part
  BY <1>3 DEF Kept
<1>5. Stamped(w)' /\ Clean(w)'
  <2>1. Stamped(w) /\ Clean(w)
    BY DEF Stored
  <2>2. CASE worker' = worker
    BY <1>2, <2>1, <2>2 DEF Stamped, Clean, Mine, Busy, At, Alone, Artifact, Committing
  <2>3. CASE At(w, "retiring") /\ Kept(w, "move", worker[w].part)
    <3>1. worker'[w].step = "move"
      BY <2>3 DEF Kept
    <3>2. Committing(w) /\ (Mine(w)' => Mine(w)) /\ Artifact(w)' = Artifact(w)
      BY <1>1, <1>2, <1>4, <2>3 DEF Committing, Mine, Alone, Artifact, RunOf
    <3> QED
      BY <1>2, <1>4, <2>1, <2>3, <3>1, <3>2 DEF Stamped, Clean, At, Alone, RunOf
  <2> QED
    BY <1>3, <2>2, <2>3
<1> QED
  BY <1>1, <1>2, <1>4, <1>5, StoredStep

(* What is moved into place is from one run, if from one that has it alone. *)
LEMMA StoredPublish ==
  ASSUME Typed, Owned, Stored, NEW w \in Workers, Publish(w)
  PROVE  Stored'
<1> DEFINE r == RunOf(w)
           i == worker[w].item
<1>1. /\ Busy(w) /\ At(w, "move") /\ Committing(w) /\ Artifact(w) \in Artifacts /\ w[1] \in Shards
      /\ worker[w].part \in 1..PerEntry /\ i \in Items /\ i \in Selected(w[1])
      /\ Artifact(w) = <<i, worker[w].part>>
  BY WorkerPlace, WorkerUpdates DEF Publish, Busy, At, Committing, Artifact
<1>2. /\ target'[Artifact(w)] = temp[Artifact(w)] /\ temp'[Artifact(w)] = NoDirectory
      /\ \A a \in Artifacts \ {Artifact(w)} : target'[a] = target[a] /\ temp'[a] = temp[a]
      /\ UNCHANGED <<run, shared>>
  BY <1>1 DEF Publish, Typed, parent
<1>3. Mine(w) => Whole(target'[Artifact(w)], r)
  BY <1>1, <1>2 DEF Stored, Stamped
<1>4. NoDirectory.has = {}
  BY DEF NoDirectory
<1>5. NoLeftoversPublished'
  <2> SUFFICES ASSUME NEW a \in Artifacts, NEW x \in target'[a].has, Alone(x[2], a[1])
               PROVE  target'[a].has \subseteq FilesOf(x[2]) \X {x[2]}
    BY <1>2 DEF NoLeftoversPublished, Alone
  <2>1. CASE a = Artifact(w)
    <3>1. x[2] = r /\ Mine(w)
      BY <1>1, <1>2, <2>1 DEF Stored, Clean, Mine
    <3> QED
      BY <1>3, <2>1, <3>1 DEF Whole
  <2>2. CASE a # Artifact(w)
    BY <1>2, <2>2 DEF Stored, NoLeftoversPublished
  <2> QED
    BY <2>1, <2>2
<1>6. Mine(w) => \A p \in 1..worker[w].part : Whole(target'[<<i, p>>], r)
  <2> SUFFICES ASSUME Mine(w), NEW p \in 1..worker[w].part
               PROVE  Whole(target'[<<i, p>>], r)
    OBVIOUS
  <2>1. p \in 1..(worker[w].part - 1) \/ p = worker[w].part
    BY <1>1, StageConfigured
  <2>2. CASE p \in 1..(worker[w].part - 1)
    <3>1. \A v \in Workers \ {w} : worker'[v] = worker[v]
      <4>1. CASE worker[w].part < PerEntry
        BY <4>1, NextPartKeeps DEF Publish, Kept
      <4>2. CASE ~(worker[w].part < PerEntry)
        BY <1>1, <4>2, SettleGivesUp DEF Publish
      <4> QED
        BY <4>1, <4>2
    <3> QED
      BY <1>1, <1>2, <1>4, <2>2, <3>1, OthersKept
  <2>3. CASE p = worker[w].part
    BY <1>1, <1>3, <2>3
  <2> QED
    BY <2>1, <2>2, <2>3
<1>7. CASE worker[w].part < PerEntry
  <2>1. Kept(w, "generate", worker[w].part + 1) /\ outcome' = outcome
    BY <1>7, NextPartKeeps DEF Publish, futures
  <2>2. /\ worker'[w].item = i /\ worker'[w].part = worker[w].part + 1
        /\ worker'[w].step = "generate" /\ \A v \in Workers \ {w} : worker'[v] = worker[v]
    BY <2>1 DEF Kept
  <2>3. SucceededItemsWhole'
    BY <1>1, <1>2, <1>4, <2>1, <2>2, OthersKept DEF SucceededItemsWhole, Alone
  <2>4. Stamped(w)' /\ Clean(w)'
    BY <2>2 DEF Stamped, Clean, Committing, At
  <2>5. Behind(w)'
    <3>1. Mine(w)' => Mine(w)
      BY <1>1, <1>2, <2>2 DEF Mine, Alone, RunOf
    <3>2. worker'[w].part - 1 = worker[w].part
      BY <1>1, <2>2, StageConfigured
    <3> QED
      BY <1>2, <1>6, <2>2, <3>1, <3>2 DEF Behind, RunOf
  <2>6. \A v \in Workers \ {w} : Stamped(v)' /\ Clean(v)' /\ Behind(v)'
    BY <1>1, <1>2, <1>4, <2>2, OthersKept
  <2> QED
    BY <1>5, <2>3, <2>4, <2>5, <2>6 DEF Stored
<1>8. CASE ~(worker[w].part < PerEntry)
  <2>1. Settle(w, "ok") /\ worker[w].part = PerEntry
    BY <1>1, <1>8, StageConfigured DEF Publish
  <2>2. /\ ~Busy(w)' /\ \A v \in Workers \ {w} : worker'[v] = worker[v]
        /\ \A j \in Items : j # i \/ ~InLastRun(w) => outcome'[j] = outcome[j]
    BY <1>1, <2>1, SettleGivesUp DEF Busy, At, Idle
  <2>3. SucceededItemsWhole'
    <3> SUFFICES ASSUME NEW s \in Shards, NEW j \in Selected(s), outcome'[j] = "ok",
                        Alone(run[s], j), NEW p \in 1..PerEntry
                 PROVE  Whole(target'[<<j, p>>], run[s])
      BY <1>2 DEF SucceededItemsWhole, Alone
    <3>1. CASE outcome[j] = "ok"
      BY <3>1, <1>1, <1>2, <1>4, <2>2, OthersKept
    <3>2. CASE outcome[j] # "ok"
      <4>1. j = i /\ InLastRun(w)
        BY <2>2, <3>2, SelectedApart
      <4>2. s = w[1] /\ r = run[s]
        BY <1>1, <4>1, SelectedApart DEF InLastRun
      <4>3. Mine(w)
        BY <1>1, <4>1, <4>2 DEF Mine
      <4> QED
        BY <1>6, <2>1, <4>1, <4>2, <4>3
    <3> QED
      BY <3>1, <3>2
  <2>4. Stamped(w)' /\ Clean(w)' /\ Behind(w)'
    BY <2>2 DEF Stamped, Clean, Behind, Mine, Committing, Busy, At
  <2>5. \A v \in Workers \ {w} : Stamped(v)' /\ Clean(v)' /\ Behind(v)'
    BY <1>1, <1>2, <1>4, <2>2, OthersKept
  <2> QED
    BY <1>5, <2>3, <2>4, <2>5 DEF Stored
<1> QED
  BY <1>7, <1>8

LEMMA StoredWorker ==
  ASSUME Typed, Owned, Stored, NEW w \in Workers, WorkerStep(w) \/ WorkerFault(w)
  PROVE  Stored'
<1>1. {"generate", "clear", "clearing", "make", "retiring", "move", "cleanup"} \subseteq Steps
  BY DEF Steps
<1>2. ASSUME Busy(w), Settle(w, "failed"), UNCHANGED <<disk, run, shared>>
      PROVE  Stored'
  BY <1>2, SettleFailed, StoredGivenUp DEF disk
<1>a. CASE Retry(w)
  BY <1>a, <1>1, RetryKeeps, StoredGoto DEF Retry, Busy, At, parent, futures
<1>b. CASE GiveUp(w) \/ InvalidTask(w) \/ FailToMake(w)
  BY <1>b, <1>2 DEF GiveUp, InvalidTask, FailToMake, Busy, At, parent
<1>c. CASE Check(w)
  <2>1. CASE Settle(w, "failed")
    BY <1>c, <1>2, <2>1 DEF Check, parent, Busy, At
  <2>2. CASE Goto(w, "clear") /\ UNCHANGED futures
    BY <1>c, <1>1, <2>2, GotoKeeps, StoredGoto DEF Check, parent, futures, Busy, At
  <2> QED
    BY <1>c, <2>1, <2>2 DEF Check
<1>d. CASE LookForTemp(w)
  BY <1>d, <1>1, GotoKeeps, StoredGoto DEF LookForTemp, parent, futures, Busy, At
<1>e. CASE LookForTarget(w)
  BY <1>e, <1>1, GotoKeeps, StoredGoto DEF LookForTarget, parent, futures, Busy, At
<1>f. CASE DiskError(w) \/ FailToCommit(w)
  BY <1>f, <1>1, GotoKeeps, StoredGoto
  DEF DiskError, FailToCommit, parent, futures, Busy, At, Committing
<1>g. CASE LoseWorker(w)
  <2>1. /\ Busy(w) /\ ~Busy(w)' /\ \A v \in Workers \ {w} : worker'[v] = worker[v]
        /\ UNCHANGED <<run, shared, target, temp, outcome>>
    BY <1>g DEF LoseWorker, Typed, Busy, At, Dead, disk, parent, futures
  <2> QED
    BY <2>1, StoredGivenUp
<1> QED
  BY <1>a, <1>b, <1>c, <1>d, <1>e, <1>f, <1>g, StoredTake, StoredClearTemp, StoredMakeTemp,
     StoredWriteFile, StoredRemoveTarget, StoredPublish, StoredCleanUp
  DEF WorkerStep, WorkerFault, Commit

LEMMA StoredParent ==
  ASSUME Typed, Owned, Stored, NEW s \in Shards, StartRun(s) \/ ParentStep(s) \/ ParentFault(s)
  PROVE  Stored'
<1>1. /\ UNCHANGED <<target, temp>> /\ shared \subseteq shared'
      /\ \A w \in Workers : worker'[w] = worker[w] \/ worker'[w] = Dead
  BY DEF StartRun, ParentStep, ParentFault, Collect, Raise, LeavePool, WriteManifest, Crash,
         BreakPool, disk, parent, futures
<1>2. \A r, i : Alone(r, i)' => Alone(r, i)
  BY <1>1 DEF Alone
<1>3. NoLeftoversPublished'
  BY <1>1, <1>2 DEF Stored, NoLeftoversPublished, Alone
<1>4. \A w \in Workers : Stamped(w)' /\ Clean(w)' /\ Behind(w)'
  <2> SUFFICES ASSUME NEW w \in Workers
               PROVE  Stamped(w)' /\ Clean(w)' /\ Behind(w)'
    OBVIOUS
  <2>1. CASE worker'[w] = Dead
    BY <2>1 DEF Stamped, Clean, Behind, Mine, Committing, Busy, At, Dead
  <2>2. CASE worker'[w] = worker[w]
    <3>1. /\ (Mine(w)' => Mine(w)) /\ Artifact(w)' = Artifact(w) /\ RunOf(w)' = RunOf(w)
          /\ (Committing(w)' <=> Committing(w)) /\ \A step : At(w, step)' <=> At(w, step)
      BY <2>2, <1>2 DEF Mine, Busy, At, Artifact, Committing, RunOf, Alone
    <3>2. Stamped(w) /\ Clean(w) /\ Behind(w)
      BY DEF Stored
    <3>3. Stamped(w)'
      BY <1>1, <2>2, <3>1, <3>2 DEF Stamped
    <3>4. Clean(w)'
      BY <1>1, <1>2, <2>2, <3>1, <3>2 DEF Clean
    <3>5. Behind(w)'
      BY <1>1, <2>2, <3>1, <3>2 DEF Behind
    <3> QED
      BY <3>3, <3>4, <3>5
  <2> QED
    BY <1>1, <2>1, <2>2
<1>5. SucceededItemsWhole'
  <2> SUFFICES ASSUME NEW k \in Shards, NEW i \in Selected(k), outcome'[i] = "ok",
                      <<run'[k], i>> \notin shared', NEW p \in 1..PerEntry
               PROVE  Whole(target[<<i, p>>], run'[k])
    BY <1>1 DEF SucceededItemsWhole, Alone
  <2>1. i \in Items /\ <<run'[k], i>> \notin shared
    BY <1>1, SelectedApart
  <2>2. CASE StartRun(s)
    <3>1. PICK flag \in Overwrites : Select(s, flag)
      BY <2>2 DEF StartRun
    <3>2. i \notin Selected(s) /\ outcome[i] = "ok"
      BY <2>1, <3>1 DEF Select
    <3>3. k # s
      BY <3>2
    <3>4. run'[k] = run[k]
      BY <3>1, <3>3 DEF Select, Typed
    <3> QED
      BY <2>1, <3>2, <3>4 DEF Stored, SucceededItemsWhole, Alone
  <2>3. CASE ParentStep(s) \/ ParentFault(s)
    <3>1. UNCHANGED <<run, shared>> /\ outcome[i] = "ok"
      BY <2>1, <2>3 DEF ParentStep, ParentFault, Collect, Raise, LeavePool, WriteManifest, Crash,
                        BreakPool, parent, futures
    <3> QED
      BY <2>1, <3>1 DEF Stored, SucceededItemsWhole, Alone
  <2> QED
    BY <2>2, <2>3
<1> QED
  BY <1>3, <1>4, <1>5 DEF Stored
-----------------------------------------------------------------------------
LEMMA StageInit == Init => StageInv
<1> SUFFICES ASSUME Init PROVE StageInv
  OBVIOUS
<1>1. Typed
  BY TypedInit
<1>2. \A w \in Workers : worker[w] = Idle
  BY DEF Init
<1>3. \A w \in Workers, i \in Items : ~Holds(w, i)
  BY <1>2, WorkerPlace DEF Holds, Busy, At, Idle, Init
<1>4. Owned
  BY <1>2, <1>3 DEF Init, Owned, WorkersOwn, ItemsApart, PoolsOwn, ResultsOwn, OldShared, Busy, At,
                    Idle, Active, Collected
<1>5. /\ NoLeftoversPublished /\ \A w \in Workers : Stamped(w) /\ Clean(w) /\ Behind(w)
  BY <1>2 DEF Init, NoLeftoversPublished, NoDirectory, Stamped, Clean, Behind, Mine, Committing,
              Busy, At, Idle
<1>6. SucceededItemsWhole
  BY SelectedApart DEF Init, SucceededItemsWhole
<1> QED
  BY <1>1, <1>4, <1>5, <1>6 DEF StageInv, Stored

LEMMA StageStep == StageInv /\ [Next]_vars => StageInv'
<1> SUFFICES ASSUME StageInv, [Next]_vars PROVE StageInv'
  OBVIOUS
<1> USE DEF StageInv
<1>1. CASE \E w \in Workers : WorkerStep(w) \/ WorkerFault(w)
  BY <1>1, TypedWorker, OwnedWorker, StoredWorker
<1>2. CASE \E s \in Shards : StartRun(s) \/ ParentStep(s) \/ ParentFault(s)
  BY <1>2, TypedParent, OwnedParent, StoredParent
<1>3. CASE UNCHANGED vars
  <2>1. Typed' /\ UNCHANGED <<run, mode, queue, outcome, results, shared>>
    BY <1>3 DEF vars, Typed
  <2>4. Owned'
    BY <1>3, <2>1, StillOwned DEF vars, Busy, At
  <2>2. NoLeftoversPublished' /\ SucceededItemsWhole'
    BY <1>3 DEF vars, Stored, NoLeftoversPublished, SucceededItemsWhole, Alone
  <2>3. \A w \in Workers : Stamped(w)' /\ Clean(w)' /\ Behind(w)'
    BY <1>3 DEF vars, Stored, Stamped, Clean, Behind, Mine, Committing, Busy, At, Artifact, Alone
  <2> QED
    BY <2>1, <2>2, <2>3, <2>4 DEF Stored
<1> QED
  BY <1>1, <1>2, <1>3 DEF Next

(* The invariant the stage's guarantees follow from: every unfinished item *)
(* has one owner in each run, what an earlier run still holds is known to  *)
(* be shared, and where a run has an item for itself the directories hold  *)
(* what its worker's progress says.                                        *)
THEOREM StageSafe == Spec => []StageInv
BY StageInit, StageStep, PTL DEF Spec

(* However many workers a pool has: when its parent has written the        *)
(* manifest, or has raised because an item failed or the pool broke, none  *)
(* of them is at work or has an item to take.  A killed parent is no such  *)
(* end: its workers go on, and the other theorems say for which items that *)
(* does not matter.                                                        *)
THEOREM WorkersStopWithTheirRun == Spec => []NoOrphanWorkers
<1>1. StageInv => NoOrphanWorkers
  <2> SUFFICES ASSUME StageInv, NEW s \in Shards, mode[s] \in {"raised", "done"},
                      NEW w \in Workers, w[1] = s, InLastRun(w), NEW i \in Items
               PROVE  ~Holds(w, i)
    BY DEF NoOrphanWorkers
  <2>1. ~Unfinished(s)
    BY DEF Unfinished
  <2>2. ~Busy(w)
    BY <2>1 DEF StageInv, Owned, WorkersOwn
  <2>3. PoolOf(w) \in Pools /\ PoolOf(w)[1] = s /\ PoolOf(w)[2] = run[s]
    BY WorkerPlace DEF PoolOf, InLastRun, RunOf
  <2>4. queue[PoolOf(w)] = {}
    BY <2>1, <2>3 DEF StageInv, Owned, PoolsOwn
  <2> QED
    BY <2>2, <2>4 DEF Holds
<1> QED
  BY <1>1, StageSafe, PTL

(* An item whose future succeeded has all its artifacts on disk, whole and *)
(* from this run, whatever the schedule, the faults, the leftovers and the *)
(* workers of killed runs, unless one of those also had the item to do.    *)
THEOREM ResultsAreOnDisk == Spec => []SucceededItemsWhole
<1>1. StageInv => SucceededItemsWhole
  BY DEF StageInv, Stored
<1> QED
  BY <1>1, StageSafe, PTL

(* A file of a run that had an item for itself is never under the item's   *)
(* final name together with a file of another run: neither a temporary     *)
(* directory found on disk nor a worker left behind adds one.              *)
THEOREM LeftoversStayOut == Spec => []NoLeftoversPublished
<1>1. StageInv => NoLeftoversPublished
  BY DEF StageInv, Stored
<1> QED
  BY <1>1, StageSafe, PTL
=============================================================================
