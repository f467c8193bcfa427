--------------------------- MODULE ArtifactDirectory ---------------------------
(***************************************************************************)
(* An artifact directory on disk.  The files of one artifact are numbered  *)
(* in the order commit() writes them, artifact.json last; a file's         *)
(* contents are represented by the run that wrote it.                      *)
(***************************************************************************)
EXTENDS Integers, FiniteSets, Sequences

CONSTANTS
  LastFile,     \* the number of files every artifact has
  OptionalIn    \* the runs configured to write the optional file too

ASSUME ArtifactHasFiles == LastFile \in Nat \ {0} /\ OptionalIn \subseteq Nat

(* File 0 is optional: the trajectory persist_private_state_trajectory     *)
(* asks for, or the prior plan and programs only some families have.       *)
Files == 0..LastFile
FilesOf(r) == IF r \in OptionalIn THEN Files ELSE Files \ {0}
FirstFile(r) == IF r \in OptionalIn THEN 0 ELSE 1

(* has is a set of <<file, run>> pairs; a directory mixes runs when files  *)
(* that two runs wrote are in it together.                                 *)
Directory == [there : BOOLEAN, has : SUBSET (Files \X Nat)]

NoDirectory == [there |-> FALSE, has |-> {}]
EmptyDirectory == [there |-> TRUE, has |-> {}]

(* A whole artifact of run r: the files that run writes, and no others.    *)
Whole(d, r) == d = [there |-> TRUE, has |-> FilesOf(r) \X {r}]

RunsIn(d) == {x[2] : x \in d.has}

(* The directory of run r before it writes file f.                         *)
Begun(f, r) == [there |-> TRUE, has |-> {g \in FilesOf(r) : g < f} \X {r}]

(* The directory, made again when it is gone, after one file was written   *)
(* over whatever had its name.                                             *)
WithFile(d, f, r) == [there |-> TRUE, has |-> {x \in d.has : x[1] # f} \cup {<<f, r>>}]

(* shutil.rmtree in one step of its work: it unlinks the files in no       *)
(* particular order, then the directory.                                   *)
Shrunk(d) ==
  IF d.has = {} THEN {NoDirectory}
  ELSE {[d EXCEPT !.has = @ \ {x}] : x \in d.has}
=============================================================================
