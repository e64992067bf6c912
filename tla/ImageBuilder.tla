---------------------------- MODULE ImageBuilder ----------------------------
(***************************************************************************)
(* The image builder, day6-process/mkfs/mkfs.c, and the disk it leaves to  *)
(* the kernel.  main() formats an image of zeros and adds the files it is  *)
(* given, one after the other, to the root directory; the file system code *)
(* is that of FileSystem.  What fs_create() and fs_write() return is not   *)
(* looked at.  The kernel starts on the image, or on one of zeros.         *)
(*                                                                         *)
(* A file comes from any directory of the host and goes by the last        *)
(* component of its path: two files may have one name.                     *)
(***************************************************************************)
EXTENDS FileSystem

CONSTANT MaxFiles  \* files that are given to main()

ASSUME BuilderAssumption == MaxFiles \in Nat

VARIABLES
  pc,     \* "start"; "next": main() goes on; "add": addFile() has called fs_create();
          \* "wrote": and fs_write(); "kernel": the kernel has the image
  given,  \* number of files main() has gone through
  file,   \* the file that is added: its name and what was read from it
  \* history
  added   \* what was last added under each name

imageVars == <<vars, pc, given, file, added>>

NoFile == [name |-> NoName, data |-> <<>>]
NoneAdded == [name \in {} |-> <<>>]

ImageInit ==
  /\ disk = [n \in Blocks |-> Zero] /\ todo = <<>> /\ call = NoCall
  /\ stop = "no" /\ goal = NewGoal
  /\ \/ host = TRUE /\ pc = "start"
     \/ host = FALSE /\ pc = "kernel"
  /\ given = 0 /\ file = NoFile /\ added = NoneAdded

\* main() of an image of zeros.
Format ==
  /\ pc = "start" /\ FsInit
  /\ pc' = "next"
  /\ UNCHANGED <<given, file, added>>

\* addFile() of a file that cannot be opened or read, or that there is no memory for.
Unreadable ==
  /\ pc = "next" /\ Idle /\ given < MaxFiles
  /\ given' = given + 1
  /\ UNCHANGED <<vars, pc, file, added>>

\* Variant: addFile() returns when fs_create() fails.
CreateChecked(name, data) ==
  /\ pc = "next" /\ given < MaxFiles
  /\ FsCreate(<<>>, name)
  /\ pc' = IF call'.ret = 0 THEN "add" ELSE "wrote"
  /\ given' = given + 1
  /\ file' = [name |-> name, data |-> data]
  /\ added' = [n \in DOMAIN added \cup {name} |-> IF n = name THEN data ELSE added[n]]

\* addFile(), up to fs_create().
Create(name, data) ==
  /\ pc = "next" /\ given < MaxFiles
  /\ FsCreate(<<>>, name)
  /\ pc' = "add" /\ given' = given + 1
  /\ file' = [name |-> name, data |-> data]
  /\ added' = [n \in DOMAIN added \cup {name} |-> IF n = name THEN data ELSE added[n]]

\* fs_write() of the whole file, whatever fs_create() returned.
Write ==
  /\ pc = "add"
  /\ FsWrite(<<file.name>>, file.data)
  /\ pc' = "wrote"
  /\ UNCHANGED <<given, file, added>>

AddFileReturns ==
  /\ pc = "wrote" /\ Idle
  /\ pc' = "next" /\ file' = NoFile
  /\ UNCHANGED <<vars, given, added>>

\* main() of an image that is formatted already: fs_init() refuses it.
NotEmpty ==
  /\ pc = "next" /\ given = MaxFiles /\ FsInit
  /\ UNCHANGED imageVars

\* A bwrite() behind the last block succeeded.
Grown == DOMAIN disk # Blocks

\* The machine is started with the image, if that has the size of the disk.
Boot ==
  /\ pc = "next" /\ Idle /\ ~Grown
  /\ pc' = "kernel" /\ host' = FALSE
  /\ given' = 0 /\ added' = NoneAdded
  /\ UNCHANGED <<disk, todo, call, stop, goal, file>>

\* The kernel's machine is switched off before the next write.
Crash ==
  /\ "crash" \in Stress
  /\ ~host /\ todo # <<>>
  /\ todo' = <<>>
  /\ stop' = "crash"
  /\ UNCHANGED <<disk, call, host, goal, pc, given, file, added>>

ImageNext ==
  \/ Format \/ Unreadable \/ Write \/ AddFileReturns \/ NotEmpty
  \/ \E name \in Names, data \in Contents : Create(name, data)
  \/ host /\ (WriteBlock \/ Answer) /\ UNCHANGED <<pc, given, file, added>>
  \/ Boot
  \/ ~host /\ Next /\ UNCHANGED <<pc, given, file, added>>
  \/ Crash

ImageSpec == ImageInit /\ [][ImageNext]_imageVars

-----------------------------------------------------------------------------
At(name)     == FindInode(disk, <<name>>)
Intact(name) == ReadAll(disk, At(name).inode) = added[name]
Inside(name) == ToSet(DataBlocks(disk, At(name).inode.start)) \subseteq Blocks

\* main() takes every file that it could read into the image, with the content given
\* last under its name, and nothing else; a file is missing only if no block was left.
\* When fs.c goes on behind the last block, then because the image is full, and no file
\* is damaged but those with data there.  Before that, the builder never goes astray.
ImageHoldsFiles ==
  /\ Grown => FreeHost(disk) = {}
  /\ host /\ ~Grown => stop = "no"
  /\ pc = "next" /\ Idle =>
       /\ \A name \in DOMAIN added : IsFile(At(name)) /\ Inside(name) => Intact(name)
       /\ ~Grown =>
            /\ \A name \in DOMAIN added :
                 \/ IsFile(At(name)) /\ Inside(name)
                 \/ At(name).st = "null" /\ FreeHost(disk) = {}
            /\ \A name \in Names \ DOMAIN added : At(name).st = "null"
            /\ Len(Kids(disk, Root)) = Cardinality({name \in DOMAIN added : IsFile(At(name))})

\* Wherever a crash interrupts a call, the files that the call is not about are
\* found by their directories and hold what they held.  A removal that would never
\* come back is about a file that stays.
CrashKeepsFiles ==
  stop = "crash" /\ disk[0].flag = 1 =>
    LET now     == Objects(disk)
        Same(i) == i \in DOMAIN now /\ now[i].name = goal.objects[i].name
                                    /\ now[i].data = goal.objects[i].data
        changed == {i \in DOMAIN goal.objects : ~goal.objects[i].dir /\ ~Same(i)}
    IN  changed # {} =>
          Cardinality(changed) = 1 /\ (call.call \in {"create", "write"} \/ call.ret = NoReturn)
=============================================================================
