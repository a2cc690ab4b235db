----------------------------- MODULE ApplyPatch -----------------------------
(***************************************************************************)
(* An OTA update by recovery's patcher, android/c_cpp/recovery/applypatch:  *)
(* a script patches one file or MTD partition after the other, each with   *)
(* applypatch(), and all of them share one backup, CACHE_TEMP_SOURCE.  The *)
(* machine may lose power between any two steps; the script then runs      *)
(* again from its beginning.                                               *)
(*                                                                         *)
(* A content is what its SHA-1 tells: what a path held before the update,  *)
(* what it is to hold, something else, or nothing.  What reaches the disk  *)
(* does so in order.                                                       *)
(***************************************************************************)
EXTENDS Naturals

CONSTANTS N,            \* jobs of the script
          Paths,        \* files and partitions
          Partitions,   \* those paths that are MTD partitions
          Source, Target, \* of each job, its source and target path
          Asserted,     \* the jobs whose failure ends the script
          PatchIndex,   \* where in patch_sha1_str a job's source hash stands
          MaxStarts     \* bound: times the script is started

Jobs == 1..N

ASSUME JobsAssumption ==
  N \in Nat /\ N > 0 /\ Asserted \subseteq Jobs /\ Partitions \subseteq Paths
(* Jobs may share a source, but what one job writes no other reads or writes. *)
ASSUME PathsAssumption ==
  /\ Source \in [Jobs -> Paths] /\ Target \in [Jobs -> Paths]
  /\ \A i, j \in Jobs : i # j => Target[i] \notin {Source[j], Target[j]}
ASSUME IndexAssumption == PatchIndex \in [Jobs -> Nat]
ASSUME BoundAssumption == MaxStarts \in Nat

VARIABLES fs,        \* content of each path
          copy,      \* content of CACHE_TEMP_SOURCE
          pc, job,   \* place in the program, the job being done
          original,  \* is the original the source, or the copy?
          made_copy,
          faulted,   \* an I/O error or a full disk met this run of the script
          starts     \* times the script was started

disk == <<fs, copy>>
vars == <<fs, copy, pc, job, original, made_copy, faulted, starts>>

Old(j)  == [what |-> "old", of |-> Source[j]]
New(j)  == [what |-> "new", of |-> Target[j]]
Junk    == [what |-> "junk"]
Missing == [what |-> "missing"]
Content == [what : {"old", "new"}, of : Paths] \cup {Junk, Missing}

Patched(j) == fs[Target[j]] = New(j)

Read    == {Source[j] : j \in Jobs}
Written == {Target[j] : j \in Jobs}

Init ==
  /\ \E stale \in SUBSET (Written \ Read) :
       fs = [p \in Paths |-> CASE p \in Read  -> [what |-> "old", of |-> p]
                               [] p \in stale -> Junk
                               [] OTHER       -> Missing]
  /\ copy \in {Missing, Junk}
  /\ pc = "off" /\ job = 1 /\ original = TRUE /\ made_copy = FALSE
  /\ faulted = FALSE /\ starts = 0

Goto(label) == pc' = label

-----------------------------------------------------------------------------
(* The script, and the machine it runs on.                                 *)

(* The updater starts the script: after a crash, an abort, or once more.
   MaxStarts bounds it. *)
Start ==
  /\ pc \in {"off", "aborted", "done"}
  /\ starts < MaxStarts
  /\ starts' = starts + 1
  /\ job' = 1 /\ made_copy' = FALSE /\ original' = TRUE /\ faulted' = FALSE
  /\ Goto("check")
  /\ UNCHANGED disk

Crash ==
  /\ pc \notin {"off", "aborted", "done"}
  /\ starts < MaxStarts
  /\ Goto("off")
  /\ UNCHANGED <<disk, job, original, made_copy, faulted, starts>>

(* apply_patch_check of the source (or of the target, where that is another
   file): it, or else the copy, has one of the two known contents.  The script
   asserts it of every job, and gives the hashes. *)
CheckPasses(j) == \/ fs[Source[j]] \in {Old(j), New(j)} \/ Patched(j)
                  \/ copy \in {Old(j), New(j)}

Check ==
  /\ pc = "check"
  /\ Goto(IF \A j \in Jobs : CheckPasses(j) THEN "load" ELSE "aborted")
  /\ UNCHANGED <<disk, job, original, made_copy, faulted, starts>>

Finish ==
  /\ pc = "load" /\ job > N
  /\ Goto("done")
  /\ UNCHANGED <<disk, job, original, made_copy, faulted, starts>>

-----------------------------------------------------------------------------
(* applypatch(), one job.                                                  *)

Doing(label) == pc = label /\ job <= N

NextJob_Twice == Goto("load") /\ job' \in {job + 1, job + 2} /\ made_copy' = FALSE

NextJob == Goto("load") /\ job' = job + 1 /\ made_copy' = FALSE

ToPartition == Target[job] \in Partitions

Fails_Unnoticed == NextJob

(* A failure is the value "" to the script, which goes on unless it asserts
   that the job succeeds. *)
Fails == IF job \in Asserted THEN Goto("aborted") /\ UNCHANGED <<job, made_copy>>
         ELSE NextJob

(* LoadFileContents and FindMatchingPatch succeed on the source. *)
SourceMatches == fs[Source[job]] = Old(job)

CopyMatches_NotSecond == copy = Old(job) /\ PatchIndex[job] > 1

(* ... or on the copy: to_use > 0. *)
CopyMatches == copy = Old(job) /\ PatchIndex[job] > 0

Already ==
  /\ Doing("load") /\ Patched(job)
  /\ NextJob
  /\ UNCHANGED <<disk, original, faulted, starts>>

FromSource == Doing("load") /\ ~Patched(job) /\ SourceMatches

UseSource_UnlinkAtOnce ==
  /\ FromSource /\ (ToPartition \/ Source[job] \notin Partitions)
  /\ original' = TRUE
  /\ Goto(IF ToPartition THEN "save" ELSE "unlink")
  /\ UNCHANGED <<disk, job, made_copy, faulted, starts>>

UseSource_NoBackup ==
  /\ FromSource /\ (ToPartition \/ Source[job] \notin Partitions)
  /\ original' = TRUE
  /\ Goto(IF ToPartition THEN "patch" ELSE "save")
  /\ UNCHANGED <<disk, job, made_copy, faulted, starts>>

(* The source is first copied to the cache: for a partition always, for a file
   since the enough_space of line 645 stays 0 whatever 648 finds. *)
UseSource ==
  /\ FromSource /\ (ToPartition \/ Source[job] \notin Partitions)
  /\ original' = TRUE
  /\ Goto("save")
  /\ UNCHANGED <<disk, job, made_copy, faulted, starts>>

(* For the same reason a file is never made of a partition. *)
SourceIsPartition ==
  /\ FromSource /\ ~ToPartition /\ Source[job] \in Partitions
  /\ Fails
  /\ UNCHANGED <<disk, original, faulted, starts>>

(* A file is patched from the copy at once; a partition's "source" is saved
   all the same. *)
UseCopy ==
  /\ Doing("load") /\ ~Patched(job) /\ ~SourceMatches /\ CopyMatches
  /\ original' = FALSE
  /\ Goto(IF ToPartition THEN "save" ELSE "patch")
  /\ UNCHANGED <<disk, job, made_copy, faulted, starts>>

NoSource ==
  /\ Doing("load") /\ ~Patched(job) /\ ~SourceMatches /\ ~CopyMatches
  /\ Fails
  /\ UNCHANGED <<disk, original, faulted, starts>>

(* MakeFreeSpaceOnCache fails, a write or a chmod returns an error. *)
IOError ==
  /\ \E label \in {"save", "saving", "patch", "replace", "writing"} : Doing(label)
  /\ faulted' = TRUE
  /\ Fails
  /\ UNCHANGED <<disk, original, starts>>

(* SaveFileContents: open with O_TRUNC, *)
SaveOpen ==
  /\ Doing("save")
  /\ copy' = Junk
  /\ Goto("saving")
  /\ UNCHANGED <<fs, job, original, made_copy, faulted, starts>>

(* then the bytes of source_file, fsync, chmod and chown. *)
SaveWrite ==
  /\ Doing("saving") /\ original
  /\ copy' = Old(job)
  /\ made_copy' = TRUE
  /\ Goto(IF ToPartition THEN "patch" ELSE "unlink")
  /\ UNCHANGED <<fs, job, original, faulted, starts>>

(* The source did not load, or is not the right one: its data is NULL or freed.
   write() refuses NULL, unless the size is 0 too; what it writes of freed
   memory is no job's source. *)
SaveNothing ==
  /\ Doing("saving") /\ ~original
  /\ \/ Fails
     \/ Goto("patch") /\ made_copy' = TRUE /\ UNCHANGED job
  /\ UNCHANGED <<disk, original, faulted, starts>>

(* Whether the source could be removed is not looked at. *)
Unlink ==
  /\ Doing("unlink")
  /\ fs' \in {fs, [fs EXCEPT ![Source[job]] = Missing]}
  /\ Goto("patch")
  /\ UNCHANGED <<copy, job, original, made_copy, faulted, starts>>

(* ApplyBSDiffPatch or ApplyImagePatch, into <target>.patch or into memory. *)
Patch ==
  /\ Doing("patch")
  /\ Goto("replace")
  /\ UNCHANGED <<disk, job, original, made_copy, faulted, starts>>

(* rename() for a file; a partition is erased and written. *)
Rename ==
  /\ Doing("replace") /\ ~ToPartition
  /\ fs' = [fs EXCEPT ![Target[job]] = New(job)]
  /\ Goto("clean")
  /\ UNCHANGED <<copy, job, original, made_copy, faulted, starts>>

WriteBegins ==
  /\ Doing("replace") /\ ToPartition
  /\ fs' = [fs EXCEPT ![Target[job]] = Junk]
  /\ Goto("writing")
  /\ UNCHANGED <<copy, job, original, made_copy, faulted, starts>>

WriteEnds ==
  /\ Doing("writing")
  /\ fs' = [fs EXCEPT ![Target[job]] = New(job)]
  /\ Goto("clean")
  /\ UNCHANGED <<copy, job, original, made_copy, faulted, starts>>

(* The copy goes only if this run made it. *)
Clean ==
  /\ Doing("clean")
  /\ copy' = IF made_copy THEN Missing ELSE copy
  /\ NextJob
  /\ UNCHANGED <<fs, original, faulted, starts>>

applypatch == \/ Already \/ UseSource \/ SourceIsPartition \/ UseCopy \/ NoSource
              \/ SaveOpen \/ SaveWrite \/ SaveNothing \/ Unlink
              \/ Patch \/ Rename \/ WriteBegins \/ WriteEnds \/ Clean

(* The script may stop: done, or aborted with nobody to start it again. *)
Stopped == pc \in {"aborted", "done"} /\ starts = MaxStarts /\ UNCHANGED vars

Next == Start \/ Crash \/ Check \/ Finish \/ applypatch \/ IOError \/ Stopped

(* The program runs on.  Nobody is obliged to start it. *)
Fairness == WF_vars(Check) /\ WF_vars(Finish) /\ WF_vars(applypatch)

Spec == Init /\ [][Next]_vars
FairSpec == Spec /\ Fairness

-----------------------------------------------------------------------------
(* Properties *)

TypeOK ==
  /\ fs \in [Paths -> Content] /\ copy \in Content
  /\ pc \in {"off", "check", "load", "save", "saving", "unlink", "patch", "replace",
             "writing", "clean", "aborted", "done"}
  /\ job \in 1..(N + 1) /\ starts \in 0..MaxStarts
  /\ original \in BOOLEAN /\ made_copy \in BOOLEAN /\ faulted \in BOOLEAN

(* What job j was given is still to be had, or no longer needed. *)
Survives(j) == Patched(j) \/ fs[Source[j]] = Old(j) \/ copy = Old(j)

(* No job before j is of the same source, and the script goes on neither from
   such a job nor from j if it fails. *)
Undisturbed(j) == 1..j \subseteq Asserted /\ \A i \in 1..(j - 1) : Source[i] # Source[j]
ToFile(j)      == Target[j] \notin Partitions

(* Wherever the power fails or a write does, and however often the script is
   started again, a file is patched, untouched or in the one backup that all
   jobs share (SaveFileContents before the unlink of 681, the rename of 802
   before that of 811).  Not so what an earlier job reads too, which that job
   deletes, nor what comes after a job whose failure the script ignores. *)
NothingLost == \A j \in Jobs : ToFile(j) /\ Undisturbed(j) => Survives(j)

(* "Note that if <source_filename> and <target_filename> are not the same,
   <source_filename> is NOT deleted on success" (513-514): jobs may share a
   source.  681 and 811 refute it. *)
SharedSurvive == Asserted = Jobs => \A j \in Jobs : ToFile(j) => Survives(j)

(* The jobs' own sources survive a script that asserts nothing: the one backup
   refutes it, as a later job overwrites what a failed one left there. *)
UnassertedSurvive ==
  \A j \in Jobs : ToFile(j) /\ (\A i \in 1..(j - 1) : Source[i] # Source[j]) => Survives(j)

(* NothingLost of partitions (632-633: "We still write the original source to
   cache, in case the MTD write is interrupted"). *)
PartitionsSurvive == \A j \in Jobs : ~ToFile(j) /\ Undisturbed(j) => Survives(j)

(* What does get lost is lost in one place: an interrupted write of the
   partition is resumed from the copy, and 638 opens the copy to save a source
   that could not be read.  No other interruption, anywhere, of any run. *)
LostOnlyOnResume ==
  [][\A j \in Jobs : /\ ~ToFile(j) /\ Undisturbed(j)
                     /\ Survives(j) /\ ~Survives(j)'
       => SaveOpen /\ job = j /\ ~original]_vars

(* A script that comes to its end has patched everything that it asserts to
   be, whatever earlier runs of it left behind. *)
DoneIsPatched == pc = "done" => \A j \in Asserted : Patched(j)

(* Files whose turn comes before that of any partition or shared source. *)
FirstFiles == {j \in Jobs : \A i \in 1..j : Undisturbed(i) /\ ToFile(i) /\ Source[i] \notin Partitions}

(* It is okay to run the program again (499-502): a run that is not
   interrupted and meets no I/O error patches the files, after any number of
   runs that were or did. *)
RunPatchesFiles ==
  pc = "check" ~> pc = "off" \/ faulted \/ \A j \in FirstFiles : Patched(j)
=============================================================================
