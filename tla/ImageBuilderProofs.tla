------------------------- MODULE ImageBuilderProofs -------------------------
(***************************************************************************)
(* Proofs about ImageBuilder: a kernel that started on a disk of zeros is  *)
(* switched off between two writes, and the files that the call in         *)
(* progress is not about are what they were.  The invariant of             *)
(* FileSystemProofs says which disks the writes lead through.              *)
(***************************************************************************)
EXTENDS ImageBuilder, FileSystemProofs

\* The kernel runs, or it has been switched off and the files are what they were.
Survives ==
  /\ pc = "kernel" /\ host = FALSE
  /\ IInv \/ (stop = "crash" /\ todo = <<>> /\ CrashKeepsFiles)

\* The writes that have reached the disk by then lead through disks that spare the files.
LEMMA CrashSpares ==
  ASSUME IInv, Crash
  PROVE  CrashKeepsFiles'
<1>1. todo # <<>> /\ disk' = disk /\ call' = call /\ goal' = goal
  BY DEF Crash
<1>2. PICK f : Leads(disk, todo, f, Sparing(goal.objects, call.call))
  BY <1>1 DEF IInv, Safe
<1>3. todo \in Seq(WriteSet)
  BY DEF IInv
<1>4. disk \in Sparing(goal.objects, call.call)
  BY <1>1, <1>2, <1>3, FirstLeads
<1>5. Spared(disk, goal.objects, call.call)
  BY <1>4 DEF Sparing
<1> QED BY <1>1, <1>5 DEF CrashKeepsFiles, Spared

\* A machine that is switched off makes no step.
LEMMA CrashedStays ==
  ASSUME stop = "crash", todo = <<>>
  PROVE  ~Next /\ ~Crash
<1>1. ~Idle
  BY DEF Idle
<1>2. ~FsInit /\ ~WriteBlock /\ ~Answer
  BY <1>1 DEF FsInit, WriteBlock, Answer
<1>3. ASSUME NEW path PROVE ~Called(path)
  BY <1>1 DEF Called
<1>4. ~\E path \in DirPaths, name \in Names : FsCreate(path, name) \/ FsMkdir(path, name)
  BY <1>3 DEF FsCreate, FsMkdir
<1>5. ~\E path \in Paths, data \in Contents : FsWrite(path, data)
  BY <1>3 DEF FsWrite
<1>6. ~\E path \in Paths : FsRead(path) \/ FsRm(path) \/ FsRmdir(path)
  BY <1>3 DEF FsRead, FsRm, FsRmdir
<1>7. ~Next
  BY <1>2, <1>4, <1>5, <1>6 DEF Next
<1>8. ~Crash
  BY DEF Crash
<1> QED BY <1>7, <1>8

\* Of the steps of the builder and the kernel only the kernel's can be taken.
LEMMA SurvivesSteps ==
  ASSUME Calm, Survives, [ImageNext]_imageVars
  PROVE  Survives'
<1>1. \/ Next /\ pc' = pc
      \/ Crash
      \/ UNCHANGED imageVars
  BY DEF Survives, ImageNext, Format, Unreadable, Write, AddFileReturns, NotEmpty, Create, Boot
<1>2. CASE IInv
  <2>1. CASE Next /\ pc' = pc
    <3>1. IInv'
      BY <1>2, <2>1, StepDoes
    <3> QED BY <2>1, <3>1 DEF Survives, IInv
  <2>2. CASE Crash
    <3>1. CrashKeepsFiles'
      BY <1>2, <2>2, CrashSpares
    <3> QED BY <2>2, <3>1 DEF Survives, Crash
  <2>3. CASE UNCHANGED imageVars
    <3>1. UNCHANGED vars /\ pc' = pc
      BY <2>3 DEF imageVars
    <3>2. IInv'
      BY <1>2, <3>1, StillKeeps
    <3> QED BY <3>1, <3>2 DEF Survives, IInv
  <2> QED BY <1>1, <2>1, <2>2, <2>3
<1>3. CASE stop = "crash" /\ todo = <<>> /\ CrashKeepsFiles
  <2>1. UNCHANGED imageVars
    BY <1>1, <1>3, CrashedStays
  <2> QED BY <1>3, <2>1 DEF Survives, CrashKeepsFiles, imageVars, vars
<1> QED BY <1>2, <1>3 DEF Survives

\* Wherever a crash interrupts a call of a kernel that started on a disk of zeros, the files that the call is
\* not about are found by their directories and hold what they held: fs.c writes what a new entry leads to
\* before the entry, and links past an entry before it frees the inode.
THEOREM CrashSafe == ASSUME Calm PROVE ImageSpec /\ ~host => []CrashKeepsFiles
<1>1. ImageInit /\ ~host => Survives
  <2> SUFFICES ASSUME ImageInit, ~host PROVE Survives
    OBVIOUS
  <2>1. Init /\ pc = "kernel" /\ host = FALSE
    BY DEF ImageInit, Init
  <2> QED BY <2>1, InitHolds DEF Survives
<1>2. Survives /\ [ImageNext]_imageVars => Survives'
  BY SurvivesSteps
<1>3. Survives => CrashKeepsFiles
  BY DEF Survives, IInv, CrashKeepsFiles
<1> QED BY <1>1, <1>2, <1>3, PTL DEF ImageSpec
=============================================================================
