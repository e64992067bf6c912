--------------------------- MODULE DirectoryTree ---------------------------
(***************************************************************************)
(* What the calls of the file system promise: a tree of named objects, in  *)
(* which each call takes effect as a whole, and the value it returns.  An  *)
(* object has an id that callers never see.  Blocks do not exist here.     *)
(*                                                                         *)
(* A directory may hold a file and a directory of the same name: a path    *)
(* means the older one.  The root directory cannot be removed.             *)
(***************************************************************************)
EXTENDS Integers, Sequences, SequencesExt

CONSTANTS
  Ids,        \* what an object can be known by
  RootId,     \* the root directory
  Names,      \* names of files and directories
  NoName,     \* the name of the root directory
  Paths,      \* paths that are given to calls: sequences of names
  Contents    \* what a file can hold: sequences

VARIABLES
  obj,        \* the objects: a function on the ids in use
  result      \* the call in progress, the value it returns, the data it writes or reads

Result(call, ret, out) == [call |-> call, ret |-> ret, out |-> out]
NoResult == Result("none", 0, <<>>)

Object(dir, name) == [dir |-> dir, name |-> name, kids |-> <<>>, data |-> <<>>]

\* The object that path leads to, as a set with that object or none.
Child(id, name) ==
  LET kids == obj[id].kids
      hits == {k \in DOMAIN kids : obj[kids[k]].name = name}
  IN  IF hits = {} THEN {} ELSE {kids[Min(hits)]}

Resolve(path) ==
  LET at[k \in 0 .. Len(path)] ==
        IF k = 0 THEN {RootId} ELSE UNION {Child(i, path[k]) : i \in at[k - 1]}
  IN  at[Len(path)]

Directory(path) == {i \in Resolve(path) : obj[i].dir}
File(path)      == {i \in Resolve(path) : ~obj[i].dir}

Holds(d, name, isDir) ==
  \E k \in ToSet(obj[d].kids) : obj[k].name = name /\ obj[k].dir = isDir

-----------------------------------------------------------------------------
Init ==
  /\ obj = [i \in {RootId} |-> Object(TRUE, NoName)]
  /\ result = NoResult

Refuse(call, ret) == result' = Result(call, ret, <<>>) /\ UNCHANGED obj

\* A new file or directory at the end of a directory; -3 when there is no room.
Add(call, path, name, isDir) ==
  \/ Refuse(call, -1) /\ Directory(path) = {}
  \/ Refuse(call, -2) /\ \E d \in Directory(path) : Holds(d, name, isDir)
  \/ Refuse(call, -3) /\ \E d \in Directory(path) : ~Holds(d, name, isDir)
  \/ /\ result' = Result(call, 0, <<>>)
     /\ \E d \in Directory(path), id \in Ids \ DOMAIN obj :
          /\ ~Holds(d, name, isDir)
          /\ obj' = [i \in DOMAIN obj \cup {id} |->
                       IF i = id THEN Object(isDir, name)
                       ELSE IF i = d THEN [obj[d] EXCEPT !.kids = Append(@, id)]
                       ELSE obj[i]]

Write(path, data) ==
  \/ Refuse("write", -1) /\ File(path) = {}
  \/ /\ result' = Result("write", 0, data)
     /\ \E f \in File(path) : obj' = [obj EXCEPT ![f].data = data]

Read(path) ==
  \/ Refuse("read", -1) /\ File(path) = {}
  \/ /\ UNCHANGED obj
     /\ \E f \in File(path) : result' = Result("read", 0, obj[f].data)

Without(s, x) == IF x \in ToSet(s) THEN RemoveAt(s, CHOOSE k \in DOMAIN s : s[k] = x) ELSE s

Drop(id) ==
  obj' = [i \in DOMAIN obj \ {id} |->
            [obj[i] EXCEPT !.kids = Without(@, id)]]

Rm(path) ==
  \/ Refuse("rm", -1) /\ File(path) = {}
  \/ result' = Result("rm", 0, <<>>) /\ \E f \in File(path) : Drop(f)

Rmdir(path) ==
  \/ Refuse("rmdir", -1) /\ Directory(path) = {}
  \/ Refuse("rmdir", -2) /\ \E d \in Directory(path) : obj[d].kids # <<>>
  \/ /\ result' = Result("rmdir", 0, <<>>)
     /\ \E d \in Directory(path) \ {RootId} : obj[d].kids = <<>> /\ Drop(d)

\* A step makes the call c, when the one before has been answered.
Is(c) == result = NoResult /\ result'.call = c

Answer == result # NoResult /\ result' = NoResult /\ UNCHANGED obj

Next ==
  \/ Is("create") /\ \E path \in Paths, name \in Names : Add("create", path, name, FALSE)
  \/ Is("mkdir")  /\ \E path \in Paths, name \in Names : Add("mkdir", path, name, TRUE)
  \/ Is("write")  /\ \E path \in Paths, data \in Contents : Write(path, data)
  \/ Is("read")   /\ \E path \in Paths : Read(path)
  \/ Is("rm")     /\ \E path \in Paths : Rm(path)
  \/ Is("rmdir")  /\ \E path \in Paths : Rmdir(path)
  \/ Answer

Spec == Init /\ [][Next]_<<obj, result>>
=============================================================================
