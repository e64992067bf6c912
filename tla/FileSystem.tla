----------------------------- MODULE FileSystem -----------------------------
(***************************************************************************)
(* The file system, day6-process/src/fs.c, with dalloc() and dfree() of    *)
(* bio.c.  Block 0 names the block of the root directory.  A file or a     *)
(* directory has an inode block.  The inode of a directory leads to a      *)
(* linked list of list blocks, each of which names an inode (flag 1) or    *)
(* ends the list (flag 2); the inode of a file leads to a linked list of   *)
(* data blocks.  A block is free when its first byte, its flag, is 0.      *)
(*                                                                         *)
(* One call is in progress at a time: one thread uses the file system.  A  *)
(* call reads and computes freely but changes the disk only by bwrite(),   *)
(* so it is modelled by the writes it makes, in their order, from the disk *)
(* it finds.  Each write is a step of its own, and the machine may crash   *)
(* between two of them (ImageBuilder).                                     *)
(*                                                                         *)
(* The disk does not fail a request for a block it has.  bread() of a      *)
(* block it does not have leaves the caller's memory as it was.            *)
(*                                                                         *)
(* fs.c also runs on the host, inside of mkfs/mkfs.c, on the file disk.img *)
(* instead of a disk.  A bwrite() behind the end of the file makes it      *)
(* longer, where the disk refuses it.                                      *)
(***************************************************************************)
EXTENDS Integers, Sequences, SequencesExt, FiniteSets

CONSTANTS
  MAX_BLOCK,  \* the disk has the blocks 0 .. MAX_BLOCK - 1
  Names,      \* names of files and directories
  NoName,     \* the empty name
  Chunks,     \* what a data block can hold
  Blank,      \* the content of a data block that nothing was written to
  Words,      \* the numbers in a content where a list block has its fields
  MaxSize,    \* longest content a call writes, in data blocks
  Depth,      \* longest path
  Stress      \* what may happen: "crash"; "full": the disk runs out of blocks in
              \* the middle of a call; "stray": a path goes through a file, or to
              \* a place that mkdir or rmdir does not expect; "bare": something is
              \* created in a directory that has lost all of its list

ASSUME MaxBlockAssumption == MAX_BLOCK \in Nat /\ MAX_BLOCK > 3
ASSUME NamesAssumption == NoName \notin Names
ASSUME SizesAssumption == MaxSize \in Nat /\ Depth \in Nat
ASSUME WordsAssumption ==
  /\ Words \in [Chunks \cup {Blank} -> [inode : Nat, next : Nat]]
  /\ Words[Blank] = [inode |-> 0, next |-> 0]
ASSUME StressAssumption == Stress \subseteq {"crash", "full", "stray", "bare"}

VARIABLES
  disk,       \* contents of the blocks
  todo,       \* the writes that the call in progress still has to make
  call,       \* the call: which one, the value it returns, the data it writes or reads
  host,       \* fs.c runs inside of mkfs
  stop,       \* "lost": the call loops for ever; "fault": it follows a null
              \* pointer; "wild": it writes where an uninitialised variable says; "crash"
  \* history
  goal        \* the tree, and the blocks that are no part of it, as the disk holds
              \* them when the call in progress is through

vars == <<disk, todo, call, host, stop, goal>>

Blocks   == 0 .. MAX_BLOCK - 1
Contents == UNION {[1 .. n -> Chunks] : n \in 0 .. MaxSize}
Paths    == UNION {[1 .. n -> Names] : n \in 0 .. Depth}
DirPaths == UNION {[1 .. n -> Names] : n \in 0 .. Depth - 1}

-----------------------------------------------------------------------------
\* The kinds of blocks, which have nothing but the flag in common.
Zero     == [kind |-> "zeros", flag |-> 0]
Taken    == [kind |-> "zeros", flag |-> 1]
Super(r) == [kind |-> "super", flag |-> 1, root |-> r]

Inode(dir, name, parent, start, addr) ==
  [kind |-> "inode", flag |-> 1, isDirectory |-> dir, name |-> name,
   parent |-> parent, start |-> start, size |-> 0, addr |-> addr]

List(flag, addr, inode, next) ==
  [kind |-> "list", flag |-> flag, addr |-> addr, inode |-> inode, next |-> next]

Data(data, addr, prev, next) ==
  [kind |-> "data", flag |-> 1, data |-> data, addr |-> addr, prev |-> prev, next |-> next]

\* A block that is read as a kind it is not of: all fields but the flag are 0,
\* as long as names are shorter than 14 characters; but data that is read as a list
\* names blocks.  Nobody looks for a name that the data of a file happens to spell.
AsList(b) ==
  CASE b.kind = "list" -> b
    [] b.kind = "data" -> List(b.flag, 0, Words[b.data].inode, Words[b.data].next)
    [] OTHER -> List(b.flag, 0, 0, 0)
AsInode(b) ==
  IF b.kind = "inode" THEN b ELSE [Inode(FALSE, NoName, 0, 0, 0) EXCEPT !.flag = b.flag]
AsData(b) ==
  IF b.kind = "data" THEN b ELSE [Data(Blank, 0, 0, 0) EXCEPT !.flag = b.flag]

-----------------------------------------------------------------------------
\* The disk as a call sees it and the writes the call has made.
Begin == [disk |-> disk, log |-> <<>>]

\* The disk d, or file, with b in block n.
Written(d, n, b) == [m \in DOMAIN d \cup {n} |-> IF m = n THEN b ELSE d[m]]

\* bwrite() of mkfs.c
PutHost(r, n, b) ==
  [disk |-> Written(r.disk, n, b), log |-> Append(r.log, [no |-> n, block |-> b])]

\* bwrite()
Put(r, n, b) == IF n \in Blocks \/ host THEN PutHost(r, n, b) ELSE r

\* dalloc(): the first block with flag 0, or MAX_BLOCK.  On the host a free block
\* holds nothing but zeros, and MAX_BLOCK is returned even when the file is longer.
FreeBlocks(d) == {n \in 1 .. MAX_BLOCK - 1 : d[n].flag = 0}
FreeHost(d)   == {n \in DOMAIN d \ {0} : d[n] = Zero}
FreeIn(r)     == IF host THEN FreeHost(r.disk) ELSE FreeBlocks(r.disk)
FirstFree(r)  == IF FreeIn(r) = {} THEN MAX_BLOCK ELSE Min(FreeIn(r))
\* Variant: block MAX_BLOCK is taken when no other is free.
DallocOneMore(r) == PutHost(r, FirstFree(r), Taken)

Dalloc(r) == IF FreeIn(r) = {} THEN r ELSE Put(r, FirstFree(r), Taken)

\* dfree()
Dfree(r, n) == Put(r, n, Zero)

-----------------------------------------------------------------------------
\* The blocks from block s on, up to the first that is none of those that lead on.
Along(d, s, on) ==
  LET Onward(w) == IF Last(w) \in on THEN Append(w, d[Last(w)].next) ELSE w
      from[k \in 0 .. MAX_BLOCK] == IF k = 0 THEN <<s>> ELSE Onward(from[k - 1])
  IN  from[MAX_BLOCK]

\* The list blocks from block s on, up to the first that names no inode.
Walk(d, s) == Along(d, s, {n \in DOMAIN d : d[n].kind = "list" /\ d[n].flag = 1})

\* The walk comes to the end of the list; otherwise it leaves the list blocks.
Ends(d, w) == Last(w) \in DOMAIN d /\ d[Last(w)].kind = "list" /\ d[Last(w)].flag = 2

\* The places in w, in front of its last block, with an inode of this name that
\* is a directory or not, as kinds says.
Hits(d, w, name, kinds) ==
  {k \in 1 .. Len(w) - 1 :
     LET inode == AsInode(d[d[w[k]].inode])
     IN  inode.flag # 0 /\ inode.name = name /\ inode.isDirectory \in kinds}

Found(inode) == [st |-> "found", inode |-> inode]
NotFound     == [st |-> "null", inode |-> AsInode(Zero)]
Astray       == [st |-> "lost", inode |-> AsInode(Zero)]
Unknown      == [st |-> "any", inode |-> AsInode(Zero)]

\* The walk of find_inode() where it leaves the list blocks: it goes on through any
\* block as if it were one.  A block that is not on the disk leaves the memory as it
\* was: the walk comes no further, or looks once more at the inode it saw before,
\* which is dir if it saw none.
Beyond(d, dir, name) ==
  LET list == [n \in DOMAIN d |-> AsList(d[n])]
      w    == Along(list, dir.start, {n \in DOMAIN d : d[n].flag # 2})
      No(k) == list[w[k]].inode
      Is(inode) == inode.flag # 0 /\ inode.name = name
      hits == {k \in 1 .. Len(w) - 1 : No(k) \in DOMAIN d /\ Is(AsInode(d[No(k)]))}
  IN  IF No(1) \notin DOMAIN d /\ Is(dir) THEN Found(dir)
      ELSE IF hits # {} THEN Found(AsInode(d[No(Min(hits))]))
      ELSE IF Last(w) \in DOMAIN d /\ d[Last(w)].flag = 2 THEN NotFound
      ELSE Astray

\* The list of a directory may go on at a block that is not on the disk; when all its
\* entries are gone, what is taken for the list is what lies on the stack.
LookUp(d, dir, name) ==
  LET w    == Walk(d, dir.start)
      hits == Hits(d, w, name, BOOLEAN)
  IN  IF hits # {} THEN Found(AsInode(d[d[w[Min(hits)]].inode]))
      ELSE IF Ends(d, w) THEN NotFound
      ELSE IF dir.start \notin DOMAIN d THEN Unknown
      ELSE IF Last(w) \notin DOMAIN d THEN Astray
      ELSE Beyond(d, dir, name)

\* find_inode(): from the root, component by component, whatever the inodes on
\* the way are.  Steps(d, path)[k] is what the first k components lead to.
Steps(d, path) ==
  LET Start == IF d[0].kind = "super" THEN Found(AsInode(d[d[0].root])) ELSE Astray
      Component(at, name) == IF at.st = "found" THEN LookUp(d, at.inode, name) ELSE at
      at[k \in 0 .. Len(path)] == IF k = 0 THEN Start ELSE Component(at[k - 1], path[k])
  IN  at

FindInode(d, path) == Steps(d, path)[Len(path)]

IsFile(at)      == at.st = "found" /\ at.inode.flag # 0 /\ ~at.inode.isDirectory
IsDirectory(at) == at.st = "found" /\ at.inode.flag # 0 /\ at.inode.isDirectory

-----------------------------------------------------------------------------
\* The data block n, or the block that was read before if there is no block n.
ReadNext(r, n, old) == IF n \in DOMAIN r.disk THEN AsData(r.disk[n]) ELSE old

\* The data blocks from block s on.
DataBlocks(d, s) == Along(d, s, {n \in DOMAIN d : AsData(d[n]).next # 0})

\* What fs_read() of the whole file copies into the caller's memory.
ReadChunk(d, acc) ==
  IF acc.done THEN acc
  ELSE [out   |-> Append(acc.out, acc.block.data),
        block |-> ReadNext([disk |-> d], acc.block.next, acc.block),
        done  |-> acc.block.next = 0]

ReadAll(d, inode) ==
  LET acc[k \in 0 .. inode.size] ==
        IF k = 0 THEN [out |-> <<>>, block |-> AsData(d[inode.start]), done |-> FALSE]
        ELSE ReadChunk(d, acc[k - 1])
  IN  acc[inode.size].out

\* The inodes that the list from block s on names.
Named(d, s) == LET w == Walk(d, s) IN [k \in 1 .. Len(w) - 1 |-> d[w[k]].inode]
Kids(d, i)  == IF AsInode(d[i]).isDirectory THEN Named(d, d[i].start) ELSE <<>>

\* The inodes of the tree below the root directory.
Root == 1
Tree(d) ==
  LET WithKids(S) == S \cup UNION {ToSet(Kids(d, i)) : i \in S}
      level[k \in 0 .. Depth] == IF k = 0 THEN {Root} ELSE WithKids(level[k - 1])
  IN  level[Depth]

\* The blocks that the inode i leads to, in order.
Chain(d, i) ==
  IF AsInode(d[i]).isDirectory THEN Walk(d, d[i].start) ELSE DataBlocks(d, AsInode(d[i]).start)

\* The tree as callers see it, and the blocks that are taken but no part of it.
Objects(d) ==
  [i \in Tree(d) |->
     LET inode == AsInode(d[i])
     IN  [dir  |-> inode.isDirectory, name |-> inode.name, kids |-> Kids(d, i),
          data |-> IF inode.isDirectory THEN <<>> ELSE ReadAll(d, inode)]]

LostBlocks(d) ==
  {n \in DOMAIN d : d[n].flag # 0} \ UNION {{0, i} \cup ToSet(Chain(d, i)) : i \in Tree(d)}

Goal(d) == [objects |-> Objects(d), lost |-> LostBlocks(d)]
NewGoal ==
  [objects |-> [i \in {Root} |-> [dir |-> TRUE, name |-> NoName, kids |-> <<>>, data |-> <<>>]],
   lost    |-> {}]

-----------------------------------------------------------------------------
Result(c, ret, out) == [call |-> c, ret |-> ret, out |-> out]
NoReturn == 1
NoCall == Result("none", 0, <<>>)

\* format(), or an image of zeros.
Init ==
  /\ disk = [n \in Blocks |-> Zero]
  /\ todo = <<>>
  /\ call = NoCall
  /\ host = FALSE
  /\ stop = "no"
  /\ goal = NewGoal

\* A call makes the writes of r and returns.
Return(c, ret, out, r) ==
  /\ call' = Result(c, ret, out)
  /\ todo' = r.log
  /\ goal' = IF r.log = <<>> THEN goal ELSE Goal(r.disk)
  /\ UNCHANGED <<disk, host, stop>>

\* A call makes the writes of r, and nothing that follows can be relied on.
Leave(c, ret, r, how) ==
  /\ call' = Result(c, ret, <<>>)
  /\ todo' = r.log
  /\ goal' = IF r.log = <<>> THEN goal ELSE Goal(r.disk)
  /\ stop' = how
  /\ UNCHANGED <<disk, host>>

Hang(c, r)   == Leave(c, NoReturn, r, "lost")
Stop(c, how) == Leave(c, NoReturn, Begin, how)

Idle == todo = <<>> /\ call = NoCall /\ stop = "no"

\* Callers give a path whose components but the last are directories, if there
\* is something at all.
Straight(path) ==
  \A k \in 0 .. Len(path) - 1 :
    LET at == Steps(disk, path)[k] IN at.st = "found" => IsDirectory(at)

Called(path) == Idle /\ disk[0].flag = 1 /\ ("stray" \in Stress \/ Straight(path))

-----------------------------------------------------------------------------
\* fs_init(), after every start of the machine.
FsInit ==
  LET root == FirstFree(Begin)
      r1   == Put(Dalloc(Begin), 0, Super(root))
      list == FirstFree(r1)
      r2   == Put(Dalloc(r1), root, Inode(TRUE, NoName, root, list, root))
      r3   == Put(r2, list, List(2, list, 0, 0))
  IN  /\ Idle
      /\ \/ disk[0].flag = 1 /\ UNCHANGED vars
         \/ /\ disk[0].flag # 1
            /\ todo' = r3.log
            /\ goal' = Goal(r3.disk)
            /\ UNCHANGED <<disk, call, host, stop>>

\* A directory whose entries are gone and whose list goes on at a block that is not
\* on the disk.
Bare(dir) == dir.start \notin DOMAIN disk

\* The number of the block that ends the list of dir, or any.
Tails(d, dir) ==
  IF Bare(dir) THEN 0 .. MAX_BLOCK ELSE {d[Last(Walk(d, dir.start))].addr}

\* fs_create() and fs_mkdir() in a directory that holds no such entry: blocks for
\* the inode and what it leads to, then the end of the list names the inode and
\* a new block ends the list.  broken is returned when there is no such block, and
\* one more when there is no end of the list to be written.
NewEntry(c, dir, name, isDir, broken) ==
  LET r1    == Dalloc(Begin)
      inode == FirstFree(Begin)
      start == FirstFree(r1)
      r2    == Dalloc(r1)
      r3    == Put(r2, inode, Inode(isDir, name, dir.addr, start, inode))
      r4    == Put(r3, start, IF isDir THEN List(2, start, 0, 0) ELSE Data(Blank, start, 0, 0))
      end   == FirstFree(r4)
      Linked(tail) == Put(Dalloc(r4), tail, List(1, tail, inode, end))
      Reply(ret, r) == IF Bare(dir) THEN Leave(c, ret, r, "wild") ELSE Return(c, ret, <<>>, r)
  IN  \/ start = MAX_BLOCK /\ Return(c, -3, <<>>, r2)
      \/ /\ start # MAX_BLOCK
         /\ \E tail \in Tails(r4.disk, dir) :
              LET r5 == Linked(tail) IN
              \/ /\ ~host /\ tail = MAX_BLOCK
                 /\ Return(c, broken + 1, <<>>, r5)
              \/ /\ ~host /\ tail # MAX_BLOCK /\ end = MAX_BLOCK /\ "full" \in Stress
                 /\ Reply(broken, r5)
              \/ /\ host \/ (tail # MAX_BLOCK /\ end # MAX_BLOCK)
                 /\ Reply(0, Put(r5, end, List(2, end, 0, 0)))

\* Both, once the path has led to an inode or nowhere.  In a bare directory, what
\* lies on the stack may name an inode with this name, lead round for ever, or
\* be or lead to the end of some list.
Add(c, at, name, isDir, broken) ==
  LET w    == Walk(disk, at.inode.start)
      same == Hits(disk, w, name, {isDir})
  IN  \/ at.st = "lost" /\ Stop(c, "lost")
      \/ at.st = "found" /\ ~IsDirectory(at) /\ Return(c, -1, <<>>, Begin)
      \/ IsDirectory(at) /\ same # {} /\ Return(c, -2, <<>>, Begin)
      \/ IsDirectory(at) /\ same = {} /\ ~Ends(disk, w) /\ ~Bare(at.inode) /\ Stop(c, "lost")
      \/ /\ IsDirectory(at) /\ same = {} /\ Ends(disk, w)
         /\ NewEntry(c, at.inode, name, isDir, broken)
      \/ /\ IsDirectory(at) /\ Bare(at.inode) /\ "bare" \in Stress
         /\ \/ Return(c, -2, <<>>, Begin)
            \/ Stop(c, "lost")
            \/ NewEntry(c, at.inode, name, isDir, broken)

FsCreate(path, name) ==
  LET at == FindInode(disk, path)
  IN  /\ Called(path) /\ at.st # "any"
      /\ \/ at.st = "null" /\ Return("create", -1, <<>>, Begin)
         \/ Add("create", at, name, FALSE, -6)

\* fs_mkdir() looks whether path is a null pointer and means the inode.
FsMkdir(path, name) ==
  LET at == FindInode(disk, path)
  IN  /\ Called(path) /\ at.st # "any"
      /\ \/ at.st = "null" /\ "stray" \in Stress /\ Stop("mkdir", "fault")
         \/ Add("mkdir", at, name, TRUE, -7)

-----------------------------------------------------------------------------
\* Variant: the new block is not linked to.
WriteChunkUnlinked(acc, data, k) ==
  LET b == [acc.block EXCEPT !.data = data[k]]
      r == Put(acc.r, b.addr, b)
  IN  IF k = Len(data) THEN [acc EXCEPT !.r = r]
      ELSE IF b.next = 0 THEN [r |-> Dalloc(r), block |-> Data(Blank, FirstFree(r), b.addr, 0)]
      ELSE [r |-> r, block |-> ReadNext(r, b.next, b)]

\* Variant: only blocks at the end of the chain are written.
WriteChunkAtEnd(acc, data, k) ==
  LET b   == [acc.block EXCEPT !.data = data[k]]
      new == FirstFree(acc.r)
  IN  IF k = Len(data) THEN [acc EXCEPT !.r = Put(acc.r, b.addr, b)]
      ELSE IF b.next = 0 THEN [r |-> Put(Dalloc(acc.r), b.addr, [b EXCEPT !.next = new]),
                               block |-> Data(Blank, new, b.addr, 0)]
      ELSE [acc EXCEPT !.block = ReadNext(acc.r, b.next, b)]

\* One turn of the loop of fs_write(): chunk k goes into the block in memory,
\* which is written with its link to the next one, a new one at the end.
WriteChunk(acc, data, k) ==
  LET b    == [acc.block EXCEPT !.data = data[k]]
      new  == FirstFree(acc.r)
      more == [b EXCEPT !.next = new]
  IN  IF k = Len(data) THEN [acc EXCEPT !.r = Put(acc.r, b.addr, b)]
      ELSE IF b.next = 0 THEN [r |-> Put(Dalloc(acc.r), b.addr, more),
                               block |-> Data(Blank, new, b.addr, 0)]
      ELSE LET r == Put(acc.r, b.addr, b) IN [r |-> r, block |-> ReadNext(r, b.next, b)]

\* The whole loop: the writes made and the block in memory at its end.
WriteData(inode, data) ==
  LET acc[k \in 0 .. Len(data)] ==
        IF k = 0 THEN [r |-> Begin, block |-> AsData(disk[inode.start])]
        ELSE WriteChunk(acc[k - 1], data, k)
  IN  acc[Len(data)]

FsWrite(path, data) ==
  LET at   == FindInode(disk, path)
      r    == WriteData(at.inode, data).r
      size == [at.inode EXCEPT !.size = Len(data)]
  IN  /\ Called(path) /\ at.st # "any"
      /\ \/ at.st = "lost" /\ Stop("write", "lost")
         \/ at.st # "lost" /\ ~IsFile(at) /\ Return("write", -1, <<>>, Begin)
         \/ /\ IsFile(at)
            /\ "full" \in Stress \/ Last(DataBlocks(r.disk, at.inode.start)) \in Blocks
            /\ Return("write", 0, data, Put(r, size.addr, size))

FsRead(path) ==
  LET at == FindInode(disk, path)
  IN  /\ Called(path) /\ at.st # "any"
      /\ \/ at.st = "lost" /\ Stop("read", "lost")
         \/ at.st # "lost" /\ ~IsFile(at) /\ Return("read", -1, <<>>, Begin)
         \/ IsFile(at) /\ Return("read", 0, ReadAll(disk, at.inode), Begin)

-----------------------------------------------------------------------------
\* fs_rm() frees the data blocks from the first on, each by the number that it
\* holds; where a block links to none it frees that block for ever.
FreeData(r, start) ==
  LET w == DataBlocks(r.disk, start)
      n == IF Last(w) \in DOMAIN r.disk THEN Len(w) ELSE Len(w) - 1
      Free(r1, b) == IF b.flag = 0 THEN r1 ELSE Dfree(r1, AsData(b).addr)
      acc[k \in 0 .. Len(w)] == IF k = 0 THEN r ELSE Free(acc[k - 1], r.disk[w[k]])
  IN  acc[n]

\* The entry of inode t is taken out of the list of its directory, and its list
\* block and t are freed.
ParentList(r, t) == Walk(r.disk, AsInode(r.disk[t.parent]).start)
Entry(r, t) == {k \in 1 .. Len(ParentList(r, t)) - 1 : r.disk[ParentList(r, t)[k]].inode = t.addr}

Node(r, t)  == ParentList(r, t)[Min(Entry(r, t))]

\* The block that points past the list block instead of to it.
\* Variant: as if the entry were always the first.
NewLinkFirst(r, t) == [AsInode(r.disk[t.parent]) EXCEPT !.start = r.disk[Node(r, t)].next]

NewLink(r, t) ==
  LET k == Min(Entry(r, t))
  IN  IF k > 1 THEN [r.disk[ParentList(r, t)[k - 1]] EXCEPT !.next = r.disk[Node(r, t)].next]
      ELSE [AsInode(r.disk[t.parent]) EXCEPT !.start = r.disk[Node(r, t)].next]

\* Variant: the list block is not freed.
UnlinkKeepsNode(r, t) ==
  LET link == NewLink(r, t)
  IN  Dfree(IF Entry(r, t) = {} THEN r ELSE Put(r, link.addr, link), t.addr)

\* Variant: the list block is freed before it is taken out.
UnlinkFreesFirst(r, t) ==
  LET link == NewLink(r, t)
  IN  Dfree(IF Entry(r, t) = {} THEN r ELSE Put(Dfree(r, Node(r, t)), link.addr, link), t.addr)

Unlink(r, t) ==
  LET link == NewLink(r, t)
  IN  Dfree(IF Entry(r, t) = {} THEN r ELSE Dfree(Put(r, link.addr, link), Node(r, t)), t.addr)

TakeOut(c, r, t) ==
  \/ /\ Entry(r, t) = {} /\ ~Ends(r.disk, ParentList(r, t))
     /\ Hang(c, r)
  \/ /\ Entry(r, t) # {} \/ Ends(r.disk, ParentList(r, t))
     /\ Return(c, 0, <<>>, Unlink(r, t))

FsRm(path) ==
  LET at    == FindInode(disk, path)
      whole == Last(DataBlocks(disk, at.inode.start)) \in DOMAIN disk
      r     == FreeData(Begin, at.inode.start)
  IN  /\ Called(path) /\ at.st # "any"
      /\ \/ at.st = "lost" /\ Stop("rm", "lost")
         \/ at.st # "lost" /\ ~IsFile(at) /\ Return("rm", -1, <<>>, Begin)
         \/ IsFile(at) /\ ~whole /\ Hang("rm", r)
         \/ IsFile(at) /\ whole /\ TakeOut("rm", r, at.inode)

\* The flag of the first list block, or what lies on the stack if the block is
\* not there to be read.
FirstFlag(dir) == IF dir.start \in DOMAIN disk THEN {disk[dir.start].flag} ELSE 0 .. 2

FsRmdir(path) ==
  LET at == FindInode(disk, path)
  IN  /\ Called(path) /\ at.st # "any"
      /\ path # <<>> \/ "stray" \in Stress
      /\ \/ at.st = "lost" /\ Stop("rmdir", "lost")
         \/ at.st # "lost" /\ ~IsDirectory(at) /\ Return("rmdir", -1, <<>>, Begin)
         \/ /\ IsDirectory(at)
            /\ \E flag \in FirstFlag(at.inode) :
                 \/ flag # 2 /\ Return("rmdir", -2, <<>>, Begin)
                 \/ flag = 2 /\ TakeOut("rmdir", Begin, at.inode)

-----------------------------------------------------------------------------
\* The next write reaches the disk.
WriteBlock ==
  /\ todo # <<>>
  /\ disk' = Written(disk, Head(todo).no, Head(todo).block)
  /\ todo' = Tail(todo)
  /\ UNCHANGED <<call, host, stop, goal>>

\* All is written, and the caller gets its answer.
Answer ==
  /\ todo = <<>> /\ call # NoCall /\ stop = "no"
  /\ call' = NoCall
  /\ UNCHANGED <<disk, todo, host, stop, goal>>

Next ==
  \/ FsInit
  \/ \E path \in DirPaths, name \in Names : FsCreate(path, name) \/ FsMkdir(path, name)
  \/ \E path \in Paths, data \in Contents : FsWrite(path, data)
  \/ \E path \in Paths : FsRead(path) \/ FsRm(path) \/ FsRmdir(path)
  \/ WriteBlock
  \/ Answer

Spec == Init /\ [][Next]_vars

-----------------------------------------------------------------------------
TypeOK ==
  /\ DOMAIN disk = Blocks
  /\ \A n \in Blocks : disk[n].flag \in 0 .. 2
  /\ todo \in Seq([no : DOMAIN disk, block : {w.block : w \in ToSet(todo)}])
  /\ call.ret \in -7 .. NoReturn /\ call.out \in Contents
  /\ stop \in {"no", "lost", "fault", "wild", "crash"}

\* What the tree is made of has one owner each and is what it says it is: every
\* list and every chain of data comes to its end, no block is part of two of
\* them, each block knows its own number and each inode its directory.  dfree(),
\* fs_rm() and every bwrite() go by these numbers.
TreeSound ==
  /\ stop = "no"
  /\ todo = <<>> /\ disk[0].flag = 1 =>
       LET d == disk IN
       /\ \A i \in Tree(d) :
            LET c == Chain(d, i) IN
            /\ d[i].kind = "inode" /\ d[i].addr = i
            /\ \A k \in 1 .. Len(c) : d[c[k]].addr = c[k]
            /\ Last(c) \in Blocks
            /\ IF d[i].isDirectory THEN Ends(d, c)
               ELSE d[Last(c)].kind = "data" /\ d[Last(c)].next = 0 /\ d[i].size <= Len(c)
            /\ Cardinality(ToSet(c)) = Len(c)
            /\ \A k \in ToSet(Kids(d, i)) : d[k].parent = i
       /\ \A i, j \in Tree(d) : i # j =>
            ToSet(Chain(d, i)) \cap ({j} \cup ToSet(Chain(d, j))) = {}

\* A call gives back every block it no longer needs, with two exceptions: fs_rmdir()
\* forgets the list block of the directory, and a call that finds one block
\* and not a second keeps the first.
OnlyRmdirLoses ==
  [][~host /\ goal'.lost \ goal.lost # {} =>
       /\ Cardinality(goal'.lost \ goal.lost) = 1
       /\ call'.ret = -3 \/ (call'.call = "rmdir" /\ call'.ret = 0)]_vars

\* A step gives the file i another name or other data, or turns it into a directory.
FileChanges(i) ==
  /\ ~goal.objects[i].dir
  /\ i \in DOMAIN goal'.objects =>
       \/ goal'.objects[i].dir
       \/ goal'.objects[i].name # goal.objects[i].name
       \/ goal'.objects[i].data # goal.objects[i].data

OneFileChanges ==
  LET changed == {i \in DOMAIN goal.objects : FileChanges(i)}
  IN  ~host /\ changed # {} => Cardinality(changed) = 1 /\ call'.call \in {"write", "rm"}

\* A call changes what at most one file holds, and only a write or a removal does,
\* even when it runs out of blocks, never comes back or goes where no path should
\* lead: find_inode() may take the data of a file for a list and come to any inode,
\* but it comes to an inode, and the call is about that file.  It is not true of a
\* creation in a bare directory ("bare" in Stress), which writes anywhere.
FilesKept == [][OneFileChanges]_goal

\* Lists, chains and blocks together are the tree of DirectoryTree; a call takes
\* effect when it starts.
Promise == INSTANCE DirectoryTree WITH
  Ids <- Blocks, RootId <- Root,
  obj <- goal.objects,
  result <- call

ImplementsDirectoryTree == Promise!Spec

-----------------------------------------------------------------------------
\* What comments of the code say, and the code does not do.

\* "Failed to update the parent directory" (fs.c:208, :381), "Update the parent
\* directory to include a reference to the new file" (:187), "Return success" (:262):
\* a call does what its return value says.  After -6 or -7 the tree is as it was, a
\* creation that returns 0 has added something to it, and after a write that
\* returns 0 a file holds the data.
ReturnTellsEffect ==
  [][/\ call'.ret \in {-6, -7} => goal'.objects = goal.objects
     /\ call'.call \in {"create", "mkdir"} /\ call'.ret = 0 =>
          DOMAIN goal'.objects \ DOMAIN goal.objects # {}
     /\ call'.call = "write" /\ call'.ret = 0 =>
          \E i \in DOMAIN goal'.objects : goal'.objects[i].data = call'.out]_<<call, goal>>
=============================================================================
