-------------------------- MODULE ApplyPatchProofs --------------------------
(***************************************************************************)
(* For every script: no file is lost while the script stops at what fails  *)
(* and the jobs before it read other sources, and a script that ends has   *)
(* patched everything it asserts.                                          *)
(***************************************************************************)
EXTENDS ApplyPatch, TLAPS

(* Once past the choice of its source a job is unpatched until it is done. *)
Working == {"save", "saving", "unlink", "patch", "replace", "writing"}

(* The asserted jobs before the present one are done. *)
BeforeJob == \A i \in Asserted : i < job => Patched(i)

(* Nobody takes the source of an undisturbed job away while an earlier job has to
   be done: at most one of them at a time depends on the copy. *)
InOrder == \A j \in Jobs : Undisturbed(j) /\ fs[Source[j]] # Old(j) =>
                             \A i \in Jobs : i < j => Patched(i)

(* What the program knows of the disk at each place. *)
AtPlace ==
  /\ pc \in Working \cup {"clean"} => job \in Jobs
  /\ pc \in Working => ~Patched(job)
  /\ pc \in {"save", "saving"} => IF original THEN fs[Source[job]] = Old(job)
                                              ELSE ToPartition
  /\ pc = "saving" => copy = Junk
  /\ pc = "unlink" => copy = Old(job) /\ ~ToPartition
  /\ pc \in {"patch", "replace"} /\ ~ToPartition => copy = Old(job)
  /\ pc = "writing" => ToPartition
  /\ pc \in {"patch", "replace", "writing"} /\ ToPartition /\ original =>
       copy = Old(job)
  /\ pc \in Working /\ ~original => fs[Source[job]] # Old(job)
  /\ pc = "clean" => Patched(job)
  /\ pc \in Working \cup {"clean"} /\ made_copy =>
       copy = Old(job) \/ (copy = Junk /\ ToPartition)
  /\ pc \in {"load", "save", "saving"} => ~made_copy
  /\ pc = "check" => job = 1 /\ ~made_copy
  /\ pc = "done" => job = N + 1

IInv == TypeOK /\ BeforeJob /\ InOrder /\ AtPlace /\ NothingLost

(* Contents are told apart by what they are and by whose they are. *)
LEMMA Distinct ==
  ASSUME NEW i \in Jobs, NEW j \in Jobs
  PROVE  /\ Old(i) = Old(j) => Source[i] = Source[j]
         /\ Old(i) # New(j) /\ Old(i) # Junk /\ Old(i) # Missing
         /\ New(i) # Junk /\ New(i) # Missing
         /\ {Old(i), New(i), Junk, Missing} \subseteq Content
BY PathsAssumption DEF Old, New, Junk, Missing, Content

(* A job writes no other job's paths. *)
LEMMA OwnPaths ==
  ASSUME NEW i \in Jobs, NEW j \in Jobs, i # j
  PROVE  /\ Source[i] # Target[j] /\ Target[i] # Source[j] /\ Target[i] # Target[j]
         /\ Source[i] \in Paths /\ Target[i] \in Paths
BY PathsAssumption

(* IInv holds at first. *)
LEMMA InitInv == Init => IInv
<1> SUFFICES ASSUME Init PROVE IInv
  OBVIOUS
<1>1. TypeOK
  <2>1. {Junk, Missing} \subseteq Content
    BY DEF Content
  <2>2. job \in 1..(N + 1) /\ starts \in 0..MaxStarts
    BY JobsAssumption, BoundAssumption DEF Init
  <2>3. original \in BOOLEAN /\ made_copy \in BOOLEAN /\ faulted \in BOOLEAN
    BY DEF Init
  <2>4. fs \in [Paths -> Content] /\ copy \in Content
    <3>1. \A p \in Paths : [what |-> "old", of |-> p] \in Content
      BY DEF Content
    <3> QED BY <2>1, <3>1 DEF Init
  <2>5. pc = "off"
    BY DEF Init
  <2> QED BY <2>2, <2>3, <2>4, <2>5 DEF TypeOK
<1>2. BeforeJob
  BY JobsAssumption DEF Init, BeforeJob, Jobs
<1> \A j \in Jobs : fs[Source[j]] = Old(j)
  BY PathsAssumption DEF Init, Old, Read
<1>3. InOrder
  BY DEF InOrder
<1>4. AtPlace
  BY DEF Init, AtPlace, Working
<1>5. NothingLost
  BY DEF NothingLost, Survives
<1> QED BY <1>1, <1>2, <1>3, <1>4, <1>5 DEF IInv

(* What says nothing of the program is left alone with the disk. *)
LEMMA SameDisk ==
  ASSUME IInv, UNCHANGED disk
  PROVE  /\ \A j \in Jobs : Patched(j)' = Patched(j) /\ Survives(j)' = Survives(j)
         /\ InOrder' /\ NothingLost' /\ fs' \in [Paths -> Content] /\ copy' \in Content
<1>1. fs' = fs /\ copy' = copy
  BY DEF disk
<1>2. \A j \in Jobs : Patched(j)' = Patched(j) /\ Survives(j)' = Survives(j)
  BY <1>1 DEF Patched, Survives
<1> QED BY <1>1, <1>2 DEF IInv, TypeOK, InOrder, NothingLost

(* The program leaves a job that failed, or that is done. *)
LEMMA JobLeft ==
  ASSUME IInv, job \in Jobs, UNCHANGED <<disk, original, starts>>, faulted' \in BOOLEAN,
         Fails \/ (NextJob /\ Patched(job))
  PROVE  IInv'
<1> USE JobsAssumption DEF Jobs
<1>1. \/ pc' = "aborted" /\ job' = job /\ made_copy' = made_copy
      \/ /\ pc' = "load" /\ job' = job + 1 /\ made_copy' = FALSE
         /\ Patched(job) \/ job \notin Asserted
  BY DEF Fails, NextJob, Goto
<1> UNCHANGED disk
  OBVIOUS
<1>2. TypeOK'
  <2>1. fs' \in [Paths -> Content] /\ copy' \in Content
    BY SameDisk
  <2>2. job + 1 \in 1..(N + 1)
    OBVIOUS
  <2>3. job \in 1..(N + 1) /\ original \in BOOLEAN /\ starts \in 0..MaxStarts
        /\ made_copy \in BOOLEAN
    BY DEF IInv, TypeOK
  <2> QED BY <1>1, <2>1, <2>2, <2>3 DEF TypeOK
<1>3. BeforeJob'
  BY <1>1, SameDisk DEF IInv, BeforeJob
<1>4. AtPlace'
  BY <1>1 DEF AtPlace, Working
<1> QED BY <1>2, <1>3, <1>4, SameDisk DEF IInv

(* Steps that leave the disk alone. *)
LEMMA DiskSame ==
  ASSUME IInv, UNCHANGED disk,
         \/ Start \/ Crash \/ Check \/ Finish \/ Stopped \/ UNCHANGED vars
         \/ Already \/ UseSource \/ SourceIsPartition \/ UseCopy \/ NoSource
         \/ SaveNothing \/ Patch \/ IOError
  PROVE  IInv'
<1> USE JobsAssumption, BoundAssumption DEF Jobs
<1>1. fs' = fs /\ copy' = copy
  BY DEF disk
<1>2. CASE Start \/ Crash \/ Check \/ Finish \/ Stopped \/ UNCHANGED vars
  <2>1. TypeOK'
    <3>1. job' \in 1..(N + 1) /\ starts' \in 0..MaxStarts
      BY <1>2 DEF IInv, TypeOK, Start, Crash, Check, Finish, Stopped, vars
    <3>2. original' \in BOOLEAN /\ made_copy' \in BOOLEAN /\ faulted' \in BOOLEAN
      BY <1>2 DEF IInv, TypeOK, Start, Crash, Check, Finish, Stopped, vars
    <3>3. pc' \in {pc, "off", "check", "load", "aborted", "done"}
      BY <1>2 DEF Start, Crash, Check, Finish, Stopped, vars, Goto
    <3> QED BY <3>1, <3>2, <3>3, SameDisk DEF IInv, TypeOK
  <2>2. BeforeJob'
    <3>1. job' \in {1, job}
      BY <1>2 DEF Start, Crash, Check, Finish, Stopped, vars
    <3>2. \A i \in Asserted : i \in Jobs /\ ~(i < 1)
      OBVIOUS
    <3>3. \A i \in Asserted : Patched(i)' = Patched(i)
      BY <3>2, SameDisk
    <3> QED BY <3>1, <3>2, <3>3 DEF IInv, BeforeJob
  <2>3. AtPlace'
    BY <1>1, <1>2 DEF IInv, TypeOK, AtPlace, Working, Patched, ToPartition,
       Start, Crash, Check, Finish, Stopped, vars, Goto
  <2> QED BY <2>1, <2>2, <2>3, SameDisk DEF IInv
<1>3. CASE Already \/ SourceIsPartition \/ NoSource \/ IOError \/ (SaveNothing /\ Fails)
  <2>1. UNCHANGED <<original, starts>> /\ faulted' \in BOOLEAN
    BY <1>3 DEF IInv, TypeOK, Already, SourceIsPartition, NoSource, IOError, SaveNothing
  <2> job \in Jobs
    <3>1. job <= N
      BY <1>3 DEF Already, SourceIsPartition, FromSource, NoSource, IOError, SaveNothing,
         Doing
    <3> QED BY <3>1 DEF IInv, TypeOK
  <2>2. Fails \/ (NextJob /\ Patched(job))
    BY <1>3 DEF Already, SourceIsPartition, NoSource, IOError
  <2> QED BY <2>1, <2>2, JobLeft
<1>4. CASE UseSource \/ UseCopy \/ Patch \/ (SaveNothing /\ ~Fails)
  <2>1. job \in Jobs /\ job' = job
    BY <1>4 DEF IInv, TypeOK, UseSource, FromSource, UseCopy, Patch, SaveNothing, Doing
  <2>2. TypeOK'
    BY <1>4, <2>1, SameDisk DEF IInv, TypeOK, UseSource, UseCopy, Patch, SaveNothing, Goto
  <2>3. BeforeJob'
    BY <2>1, SameDisk DEF IInv, BeforeJob
  <2>4. AtPlace'
    <3>1. CASE UseSource \/ UseCopy
      BY <1>1, <2>1, <3>1 DEF IInv, AtPlace, Working, Patched, ToPartition, UseSource,
         FromSource, UseCopy, Goto, Doing, SourceMatches, CopyMatches
    <3>2. CASE Patch \/ (SaveNothing /\ ~Fails)
      BY <1>1, <2>1, <3>2 DEF IInv, AtPlace, Working, Patched, ToPartition, Patch,
         SaveNothing, Goto, Doing
    <3> QED BY <1>4, <3>1, <3>2
  <2> QED BY <2>2, <2>3, <2>4, SameDisk DEF IInv
<1> QED BY <1>2, <1>3, <1>4

(* Steps that write the copy.  An undisturbed job that depends on it would come
   after the present one, which is not patched, against InOrder, or before it,
   or be the present job, whose source is there or whose target is no file. *)
LEMMA CopyWritten ==
  ASSUME IInv, SaveOpen \/ SaveWrite \/ Clean
  PROVE  /\ IInv'
         /\ \A j \in Jobs : Undisturbed(j) /\ Survives(j) =>
              Survives(j)' \/ (SaveOpen /\ job = j /\ ~ToFile(j) /\ ~original)
<1> USE JobsAssumption, BoundAssumption DEF Jobs
<1>1. fs' = fs /\ job \in Jobs
  BY DEF IInv, TypeOK, SaveOpen, SaveWrite, Clean, Doing
<1>2. TypeOK'
  <2>1. {Old(job), Junk, Missing} \subseteq Content
    BY <1>1, Distinct
  <2>2. job' \in 1..(N + 1) /\ starts' \in 0..MaxStarts
    BY <1>1 DEF IInv, TypeOK, SaveOpen, SaveWrite, Clean, NextJob
  <2>3. original' \in BOOLEAN /\ made_copy' \in BOOLEAN /\ faulted' \in BOOLEAN
    BY DEF IInv, TypeOK, SaveOpen, SaveWrite, Clean, NextJob
  <2>4. fs' \in [Paths -> Content] /\ copy' \in Content
    BY <1>1, <2>1 DEF IInv, TypeOK, SaveOpen, SaveWrite, Clean
  <2>5. pc' \in {"saving", "patch", "unlink", "load"}
    BY DEF SaveOpen, SaveWrite, Clean, NextJob, Goto
  <2> QED BY <2>2, <2>3, <2>4, <2>5 DEF TypeOK
<1>3. \A j \in Jobs : Patched(j)' = Patched(j)
  BY <1>1 DEF Patched
<1>4. InOrder'
  BY <1>1, <1>3 DEF IInv, InOrder
<1>5. BeforeJob'
  BY <1>1, <1>3 DEF IInv, TypeOK, BeforeJob, AtPlace, Working, SaveOpen, SaveWrite, Clean,
     NextJob, Doing
<1>6. AtPlace'
  <2>1. CASE SaveOpen
    BY <1>1, <2>1 DEF IInv, TypeOK, AtPlace, Working, Patched, ToPartition, SaveOpen, Goto,
       Doing
  <2>2. CASE SaveWrite
    BY <1>1, <2>2 DEF IInv, TypeOK, AtPlace, Working, Patched, ToPartition, SaveWrite, Goto,
       Doing
  <2>3. CASE Clean
    BY <1>1, <2>3 DEF AtPlace, Working, Clean, Goto, NextJob
  <2> QED BY <2>1, <2>2, <2>3
<1>7. ASSUME NEW j \in Jobs, Undisturbed(j), Survives(j),
             ~(SaveOpen /\ job = j /\ ~ToFile(j) /\ ~original)
      PROVE  Survives(j)'
  <2>1. CASE Patched(j) \/ fs[Source[j]] = Old(j)
    BY <1>1, <1>3, <2>1 DEF Survives
  <2>2. CASE ~Patched(j) /\ fs[Source[j]] # Old(j)
    <3>1. copy = Old(j)
      BY <1>7, <2>2 DEF Survives
    <3>2. job < j => Patched(job)
      BY <1>1, <1>7, <2>2 DEF IInv, InOrder
    <3>3. ~(j < job)
      <4>1. j \in Asserted
        BY <1>7 DEF Undisturbed
      <4> QED BY <2>2, <4>1 DEF IInv, BeforeJob
    <3>4. CASE SaveOpen
      <4>1. ~Patched(job) /\ ((ToPartition /\ ~original) \/ fs[Source[job]] = Old(job))
        BY <3>4 DEF IInv, AtPlace, Working, SaveOpen, Doing
      <4>2. job = j
        BY <1>1, <3>2, <3>3, <4>1
      <4> QED BY <1>7, <2>2, <3>4, <4>1, <4>2 DEF ToPartition, ToFile
    <3>5. CASE SaveWrite
      <4>1. copy = Junk
        BY <3>5 DEF IInv, AtPlace, SaveWrite, Doing
      <4> QED BY <3>1, <4>1, Distinct
    <3>6. CASE Clean
      <4>1. Patched(job) /\ (made_copy => copy \in {Old(job), Junk})
        BY <3>6 DEF IInv, AtPlace, Working, Clean, Doing
      <4>2. job < j
        BY <1>1, <2>2, <3>3, <4>1
      <4>3. Source[job] # Source[j]
        BY <1>1, <1>7, <4>2 DEF Undisturbed
      <4>4. ~made_copy
        BY <1>1, <3>1, <4>1, <4>3, Distinct
      <4> QED BY <3>1, <3>6, <4>4 DEF Clean, Survives
    <3> QED BY <3>4, <3>5, <3>6
  <2> QED BY <2>1, <2>2
<1>8. NothingLost'
  BY <1>7 DEF IInv, NothingLost
<1> QED BY <1>2, <1>4, <1>5, <1>6, <1>7, <1>8 DEF IInv

(* Steps that write the present job's source or target. *)
LEMMA FileWritten ==
  ASSUME IInv, Unlink \/ Rename \/ WriteBegins \/ WriteEnds
  PROVE  IInv' /\ \A j \in Jobs : Undisturbed(j) /\ Survives(j) => Survives(j)'
<1> USE JobsAssumption, BoundAssumption DEF Jobs
<1>1. /\ job \in Jobs /\ job' = job /\ copy' = copy
      /\ made_copy' = made_copy /\ original' = original
  BY DEF IInv, TypeOK, Unlink, Rename, WriteBegins, WriteEnds, Doing
<1>2. Source[job] \in Paths /\ Target[job] \in Paths
  BY <1>1, PathsAssumption
<1>3. TypeOK'
  BY <1>1, Distinct DEF IInv, TypeOK, Unlink, Rename, WriteBegins, WriteEnds, Goto, Doing
<1>4. ~Patched(job)
  BY DEF IInv, AtPlace, Working, Unlink, Rename, WriteBegins, WriteEnds, Doing
<1>5. \A p \in Paths : p \notin {Source[job], Target[job]} => fs'[p] = fs[p]
  BY DEF IInv, TypeOK, Unlink, Rename, WriteBegins, WriteEnds
<1>6. \A j \in Jobs : j # job => /\ Target[j] \in Paths \ {Source[job], Target[job]}
                                /\ Source[j] \in Paths \ {Target[job]}
  BY <1>1, OwnPaths
<1>7. \A j \in Jobs : j # job => Patched(j)' = Patched(j)
  BY <1>5, <1>6 DEF Patched
<1>8. \A j \in Jobs : /\ Source[j] # Source[job] => fs'[Source[j]] = fs[Source[j]]
                      /\ j # job /\ ~Unlink => fs'[Source[j]] = fs[Source[j]]
  <2>1. \A p \in Paths : ~Unlink /\ p # Target[job] => fs'[p] = fs[p]
    BY DEF IInv, TypeOK, Rename, WriteBegins, WriteEnds
  <2>2. ASSUME NEW j \in Jobs, Source[j] # Source[job]
        PROVE  fs'[Source[j]] = fs[Source[j]]
    <3>1. j # job
      BY <2>2
    <3> QED BY <1>5, <1>6, <2>2, <3>1
  <2> QED BY <1>6, <2>1, <2>2
<1>9. /\ Rename \/ WriteEnds => Patched(job)'
      /\ Unlink \/ WriteBegins => ~Patched(job)'
  <2>1. New(job) # Missing /\ New(job) # Junk
    BY <1>1, Distinct
  <2> QED BY <1>1, <1>2, <1>4, <2>1
          DEF IInv, TypeOK, Patched, Unlink, Rename, WriteBegins, WriteEnds
<1>10. BeforeJob'
  <2>1. \A i \in Asserted : i \in Jobs
    OBVIOUS
  <2> QED BY <1>1, <1>7, <2>1 DEF IInv, BeforeJob
<1>11. ASSUME NEW j \in Jobs, Undisturbed(j), job < j
       PROVE  fs'[Source[j]] = fs[Source[j]]
  BY <1>1, <1>8, <1>11 DEF Undisturbed
<1>12. InOrder'
  <2> SUFFICES ASSUME NEW j \in Jobs, Undisturbed(j), fs'[Source[j]] # Old(j),
                      NEW i \in Jobs, i < j
               PROVE  Patched(i)'
    BY DEF InOrder, Undisturbed, Old
  <2>1. CASE j <= job
    <3>1. i \in Asserted /\ i < job
      BY <1>1, <2>1 DEF Undisturbed
    <3> QED BY <1>1, <1>10, <3>1 DEF BeforeJob
  <2>2. CASE job < j
    <3>1. Patched(i)
      BY <1>11, <2>2 DEF IInv, InOrder
    <3> QED BY <1>4, <1>7, <3>1
  <2> QED BY <1>1, <2>1, <2>2
<1>13. AtPlace'
  <2>1. WriteBegins /\ ~original => fs'[Source[job]] # Old(job)
    <3>1. WriteBegins /\ ~original => fs[Source[job]] # Old(job)
      BY DEF IInv, AtPlace, Working, WriteBegins, Doing
    <3>2. WriteBegins => fs'[Source[job]] \in {fs[Source[job]], Junk}
      BY <1>2 DEF IInv, TypeOK, WriteBegins
    <3> QED BY <1>1, <3>1, <3>2, Distinct
  <2>2. CASE Unlink
    <3>1. ~original => fs'[Source[job]] # Old(job)
      <4>1. ~original => fs[Source[job]] # Old(job)
        BY <2>2 DEF IInv, AtPlace, Working, Unlink, Doing
      <4>2. fs'[Source[job]] \in {fs[Source[job]], Missing}
        BY <1>2, <2>2 DEF IInv, TypeOK, Unlink
      <4> QED BY <1>1, <4>1, <4>2, Distinct
    <3> QED BY <1>1, <1>9, <2>2, <3>1
            DEF IInv, AtPlace, Working, ToPartition, Unlink, Goto, Doing
  <2>3. CASE WriteBegins
    BY <1>1, <1>9, <2>1, <2>3
    DEF IInv, AtPlace, Working, ToPartition, WriteBegins, Goto, Doing
  <2>4. CASE Rename \/ WriteEnds
    BY <1>1, <1>9, <2>4 DEF IInv, AtPlace, Working, ToPartition, Rename, WriteEnds, Goto, Doing
  <2> QED BY <2>2, <2>3, <2>4
<1>14. ASSUME NEW j \in Jobs, Undisturbed(j), Survives(j) PROVE Survives(j)'
  <2>1. CASE j < job
    <3>1. Patched(j)
      <4>1. j \in Asserted
        BY <1>14 DEF Undisturbed
      <4> QED BY <2>1, <4>1 DEF IInv, BeforeJob
    <3> QED BY <1>1, <1>7, <2>1, <3>1 DEF Survives
  <2>2. CASE job < j
    <3>1. job # j
      BY <1>1, <2>2
    <3> QED BY <1>1, <1>7, <1>11, <1>14, <2>2, <3>1 DEF Survives, Old
  <2>3. CASE j = job /\ (Rename \/ WriteEnds)
    BY <1>9, <1>1, <2>3 DEF Survives
  <2>4. CASE j = job /\ Unlink
    BY <1>1, <2>4 DEF IInv, AtPlace, Survives, Old, Unlink, Doing
  <2>5. CASE j = job /\ WriteBegins
    <3>1. original => copy = Old(job)
      BY <2>5 DEF IInv, AtPlace, ToPartition, WriteBegins, Doing
    <3>2. ~original => fs[Source[job]] # Old(job)
      BY <2>5 DEF IInv, AtPlace, Working, WriteBegins, Doing
    <3>3. copy = Old(job)
      BY <1>4, <1>14, <2>5, <3>1, <3>2 DEF Survives
    <3> QED BY <1>1, <2>5, <3>3 DEF Survives, Old
  <2> QED BY <1>1, <2>1, <2>2, <2>3, <2>4, <2>5
<1>15. NothingLost'
  BY <1>14 DEF IInv, NothingLost
<1> QED BY <1>3, <1>10, <1>12, <1>13, <1>14, <1>15 DEF IInv

(* Every step is of one of three kinds. *)
LEMMA StepKinds ==
  ASSUME [Next]_vars
  PROVE  \/ /\ UNCHANGED disk
            /\ \/ Start \/ Crash \/ Check \/ Finish \/ Stopped \/ UNCHANGED vars
               \/ Already \/ UseSource \/ SourceIsPartition \/ UseCopy \/ NoSource
               \/ SaveNothing \/ Patch \/ IOError
         \/ SaveOpen \/ SaveWrite \/ Clean
         \/ Unlink \/ Rename \/ WriteBegins \/ WriteEnds
<1>1. CASE Start \/ Crash \/ Check \/ Finish \/ Stopped \/ UNCHANGED vars
  BY <1>1 DEF Start, Crash, Check, Finish, Stopped, vars, disk
<1>2. CASE Already \/ UseSource \/ SourceIsPartition \/ UseCopy \/ NoSource \/ SaveNothing
           \/ Patch \/ IOError
  BY <1>2 DEF Already, UseSource, SourceIsPartition, UseCopy, NoSource, SaveNothing, Patch,
     IOError, disk
<1> QED BY <1>1, <1>2 DEF Next, applypatch

(* Every step keeps IInv. *)
LEMMA StepInv == IInv /\ [Next]_vars => IInv'
BY StepKinds, DiskSame, CopyWritten, FileWritten

(* The program and the disk stay within the values their types give them. *)
THEOREM UpdateTypeCorrect == Spec => []TypeOK
<1>1. IInv => TypeOK
  BY DEF IInv
<1> QED BY InitInv, StepInv, <1>1, PTL DEF Spec

(* What a file is patched from survives every interruption of every script, as
   far as the script stops at failures and no earlier job reads it. *)
THEOREM FilesSurvive == Spec => []NothingLost
<1>1. IInv => NothingLost
  BY DEF IInv
<1> QED BY InitInv, StepInv, <1>1, PTL DEF Spec

(* The one step that loses what a partition is patched from, under the same
   conditions. *)
THEOREM LostInOnePlace == Spec => LostOnlyOnResume
<1> DEFINE Step == \A j \in Jobs : /\ ~ToFile(j) /\ Undisturbed(j)
                                   /\ Survives(j) /\ ~Survives(j)'
                                   => SaveOpen /\ job = j /\ ~original
<1>1. IInv /\ [Next]_vars => [Step]_vars
  <2> SUFFICES ASSUME IInv, Next, NEW j \in Jobs, Undisturbed(j), Survives(j), ~Survives(j)'
               PROVE  SaveOpen /\ job = j /\ ~original
    OBVIOUS
  <2> QED BY StepKinds, SameDisk, CopyWritten, FileWritten
<1>2. [][Step]_vars => LostOnlyOnResume
  BY PTL DEF LostOnlyOnResume
<1> QED BY InitInv, StepInv, <1>1, <1>2, PTL DEF Spec

(* A script that ends has patched everything that it asserts. *)
THEOREM EndIsPatched == Spec => []DoneIsPatched
<1>1. IInv => DoneIsPatched
  BY JobsAssumption DEF IInv, AtPlace, BeforeJob, DoneIsPatched, Jobs
<1> QED BY InitInv, StepInv, <1>1, PTL DEF Spec
=============================================================================
