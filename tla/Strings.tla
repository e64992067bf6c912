------------------------------ MODULE Strings ------------------------------
(***************************************************************************)
(* string.c: strtok_r() one character at a time, called as find_inode() of *)
(* fs.c calls it, and the loops of the other functions, one byte at a      *)
(* time.                                                                   *)
(*                                                                         *)
(* A string is a sequence of characters that ends with "NUL".  Pointers    *)
(* into it are indices; 0 is NULL.  Bytes behind the NUL of the copy of a  *)
(* path that strdup() makes are zeros as well, because free() clears the   *)
(* pages it takes back, so a read there is not noticed by what it returns. *)
(***************************************************************************)
EXTENDS Integers, Sequences, SequencesExt, Ranks

CONSTANTS
  Paths,    \* the paths that are looked up, without their NUL
  Texts,    \* the strings that the other functions work on, without their NUL
  Room,     \* bytes of the array that a string is copied to
  Code      \* for each character, its code

Chars == DOMAIN Code \ {"NUL"}

ASSUME RoomAssumption == Room \in Nat
ASSUME CodeAssumption ==
  /\ Code \in [DOMAIN Code -> Nat] /\ "NUL" \in DOMAIN Code /\ Code["NUL"] = 0
  /\ \A c, d \in DOMAIN Code : Code[c] = Code[d] => c = d
ASSUME StringsAssumption == Paths \subseteq Seq(Chars) /\ Texts \subseteq Seq(Chars)

VARIABLES
  t,        \* a walk along a path
  w         \* a call of another function

-----------------------------------------------------------------------------
(* strtok_r() with the delimiter "/", and its caller.                      *)

\* find_inode() takes a copy of the path and asks for its first token.  last is the
\* static variable of strtok(); what an earlier walk left in it is overwritten
\* before it is read.  There is memory for the copy: fs.c does not ask.  The path "/" is answered without a walk.
FindInode(path) ==
  [path |-> path, temp |-> Append(path, "NUL"), pc |-> "skip", s |-> 1, tok |-> 0,
   last |-> 0, tokens |-> <<>>]

Walked == Paths \ {<<"/">>}

StrtokInit == \E path \in Walked : t = FindInode(path)

\* strtok(NULL, "/"): the caller found the directory of the token.
NextToken ==
  /\ t.pc = "caller" /\ t.tok # 0
  /\ t' = IF t.last = 0 THEN [t EXCEPT !.tok = 0]
          ELSE [t EXCEPT !.s = t.last, !.pc = "skip"]

\* The caller did not find it, or there is no token left, and another path is
\* looked up later: last still points into the copy of the old path.
NextPath(path) ==
  /\ t.pc = "caller"
  /\ t' = [FindInode(path) EXCEPT !.last = t.last]

\* Leading delimiters are skipped (cont) ...
SkipDelimiter ==
  /\ t.pc = "skip" /\ t.temp[t.s] = "/"
  /\ t' = [t EXCEPT !.s = @ + 1]

\* ... up to the end of the string: there is no token ...
NoTokenLeft ==
  /\ t.pc = "skip" /\ t.temp[t.s] = "NUL"
  /\ t' = [t EXCEPT !.s = @ + 1, !.tok = 0, !.last = 0, !.pc = "caller"]

\* ... or to the first character of a token.
BeginToken ==
  /\ t.pc = "skip" /\ t.temp[t.s] \notin {"/", "NUL"}
  /\ t' = [t EXCEPT !.tok = t.s, !.s = @ + 1, !.pc = "scan"]

ScanToken ==
  /\ t.pc = "scan" /\ t.temp[t.s] \notin {"/", "NUL"}
  /\ t' = [t EXCEPT !.s = @ + 1]

\* What the caller reads at its token, up to the NUL.
StringAt(temp, k) == SubSeq(temp, k, CHOOSE e \in k .. Len(temp) :
                               temp[e] = "NUL" /\ \A n \in k .. e - 1 : temp[n] # "NUL")

Returned(temp, last) ==
  t' = [t EXCEPT !.temp = temp, !.last = last, !.pc = "caller", !.s = @ + 1,
                 !.tokens = Append(@, StringAt(temp, t.tok))]

\* Variant: the delimiter behind the token stays in the string.
EndTokenOpen ==
  /\ t.pc = "scan" /\ t.temp[t.s] = "/"
  /\ Returned(t.temp, t.s + 1)

\* The delimiter behind a token becomes its NUL.
EndToken ==
  /\ t.pc = "scan" /\ t.temp[t.s] = "/"
  /\ Returned([t.temp EXCEPT ![t.s] = "NUL"], t.s + 1)

EndString ==
  /\ t.pc = "scan" /\ t.temp[t.s] = "NUL"
  /\ Returned(t.temp, 0)

StrtokNext ==
  \/ NextToken \/ SkipDelimiter \/ NoTokenLeft \/ BeginToken \/ ScanToken
  \/ EndToken \/ EndString
  \/ \E path \in Walked : NextPath(path)

StrtokSpec == StrtokInit /\ [][StrtokNext]_t

\* The names along a path: its longest runs of characters other than "/".  Each of
\* them begins at the start of the path or behind a "/".
Starts(path) == {k \in 1 .. Len(path) : path[k] # "/" /\ (k = 1 \/ path[k - 1] = "/")}

NameEnd(path, k) == CHOOSE e \in k .. Len(path) :
                      /\ e = Len(path) \/ path[e + 1] = "/"
                      /\ \A n \in k .. e : path[n] # "/"

NameAt(path, k) == Append(SubSeq(path, k, NameEnd(path, k)), "NUL")

Names(path) ==
  [n \in 1 .. Cardinality(Starts(path)) |-> NameAt(path, Nth(Starts(path), n))]

\* find_inode() is handed the names along the path, one by one and in order, and
\* none is lost when it hears that there are no more, whatever walk went before; and
\* a walk never reads behind the NUL of its path, the one it was started on, even
\* when an earlier walk was given up in the middle.
TokensAreNames ==
  t # <<>> =>
    /\ IsPrefix(t.tokens, Names(t.path))
    /\ t.pc = "caller" /\ t.tok = 0 => t.tokens = Names(t.path)
    /\ t.pc \in {"skip", "scan"} => t.s \in 1 .. Len(t.temp)
    /\ t.pc = "caller" /\ t.tok # 0 /\ t.last # 0 => t.last \in 1 .. Len(t.temp)

-----------------------------------------------------------------------------
(* The other functions.  dst is an array of Room bytes that hold "old" at  *)
(* first; i is the byte the loop is at.                                    *)

Copies == {"memset", "memcpy", "strcpy", "strncpy", "strdup"}
Scans  == {"strlen", "strcmp"}

\* string.c has no strlen(), strcmp(), strdup() and strncpy() before day 5-3, and
\* memcpy() returned its source; "d" is the copy and "s" the source.
string51 == [has |-> {"memset", "memcpy", "strcpy"}, memcpy |-> "s"]
string52 == string51
string53 == [has |-> Copies \cup Scans, memcpy |-> "d"]
string54 == string53
string6  == string53

Strings == {string51, string52, string53, string54, string6}

\* A call of a function with the strings a and b, the size n, and dst.
StringInit ==
  \E file \in Strings : \E op \in file.has, a \in Texts, b \in Texts, n \in 0 .. Room :
    /\ op \notin {"strcmp"} => b = <<>>
    /\ op \in {"strlen", "strcmp", "strcpy", "strdup"} => n = 0
    /\ op = "memcpy" => n <= Len(a) + 1
    /\ op = "memset" => a = <<>>
    /\ op \in {"strcpy", "strdup"} => Len(a) < Room
    /\ w = [file |-> file, op |-> op, a |-> Append(a, "NUL"), b |-> Append(b, "NUL"), n |-> n,
            i |-> 1, dst |-> [k \in 1 .. Room |-> "old"], pc |-> "loop", result |-> 0]

Write(c) == w' = [w EXCEPT !.dst[w.i] = c, !.i = @ + 1]
Leave(r) == w' = [w EXCEPT !.pc = "done", !.result = r]

memset == w.op = "memset" /\ w.pc = "loop" /\ IF w.i <= w.n THEN Write("c") ELSE Leave("d")

memcpy == w.op = "memcpy" /\ w.pc = "loop" /\
          IF w.i <= w.n THEN Write(w.a[w.i]) ELSE Leave(w.file.memcpy)

\* The NUL is copied by the test that ends the loop.
strcpy ==
  /\ w.op = "strcpy" /\ w.pc = "loop"
  /\ IF w.i > 1 /\ w.a[w.i - 1] = "NUL" THEN Leave("d") ELSE Write(w.a[w.i])

\* Variant: one byte of the array is kept for the NUL.
strncpyTerminates ==
  /\ w.op = "strncpy" /\ w.pc = "loop"
  /\ IF w.i > w.n THEN Leave("d")
     ELSE IF w.i < w.n /\ w.i <= Len(w.a) THEN Write(w.a[w.i])
     ELSE Write("NUL")

\* The second loop fills up with NULs; there is none when the string has n characters.
strncpy ==
  /\ w.op = "strncpy" /\ w.pc = "loop"
  /\ IF w.i > w.n THEN Leave("d")
     ELSE IF w.i <= Len(w.a) THEN Write(w.a[w.i])
     ELSE Write("NUL")

\* malloc() has strlen() + 1 bytes for it, or none: then nothing is copied.
strdup ==
  /\ w.op = "strdup" /\ w.pc = "loop"
  /\ \/ w.i = 1 /\ Leave("null")
     \/ IF w.i > 1 /\ w.dst[w.i - 1] = "NUL" THEN Leave("d")
        ELSE IF w.a[w.i] # "NUL" THEN Write(w.a[w.i])
        ELSE Write("NUL")

strlen ==
  /\ w.op = "strlen" /\ w.pc = "loop"
  /\ IF w.a[w.i] # "NUL" THEN w' = [w EXCEPT !.i = @ + 1] ELSE Leave(w.i - 1)

\* Characters are compared by their codes, the NUL is the least.
strcmp ==
  /\ w.op = "strcmp" /\ w.pc = "loop"
  /\ IF w.a[w.i] # "NUL" /\ w.a[w.i] = w.b[w.i] THEN w' = [w EXCEPT !.i = @ + 1]
     ELSE Leave(Code[w.a[w.i]] - Code[w.b[w.i]])

StringNext == memset \/ memcpy \/ strcpy \/ strncpy \/ strdup \/ strlen \/ strcmp

StringSpec == StringInit /\ [][StringNext]_w

\* The bytes a copy has to leave at the destination: none when strdup() gives up.
Wanted ==
  CASE w.op = "memset" -> [k \in 1 .. w.n |-> "c"]
    [] w.op = "memcpy" -> SubSeq(w.a, 1, w.n)
    [] w.op = "strcpy" -> w.a
    [] w.op = "strdup" -> IF w.result = "null" THEN <<>> ELSE w.a
    [] w.op = "strncpy" -> [k \in 1 .. w.n |-> IF k <= Len(w.a) THEN w.a[k] ELSE "NUL"]

\* A copy changes the bytes it has to and no others, and no loop reads behind the
\* NUL of a string.
CopiesWhatItShould ==
  w # <<>> =>
    /\ w.op \in Copies => w.i \in 1 .. Room + 1
    /\ w.op \in Scans => w.i <= Len(w.a) /\ (w.op = "strcmp" => w.i <= Len(w.b))
    /\ w.op \in Copies /\ w.pc = "done" =>
         \A k \in 1 .. Room : w.dst[k] = IF k <= Len(Wanted) THEN Wanted[k] ELSE "old"

\* A copy gives back where it copied to, as its caller goes on with the copy; strdup()
\* also NULL, when there was no memory for one.  The memcpy() of days 5-1 and 5-2 does
\* not: it gives back where it copied from, unlike the standard library's (no caller
\* of those days looks at what it returns).
GivesBackCopy ==
  (w # <<>> /\ w.op \in Copies /\ w.pc = "done") =>
    \/ w.result = "d" /\ (w.op = "memcpy" => w.file # string51)
    \/ w.result = "null" /\ w.op = "strdup"
    \/ w.result = "s" /\ w.op = "memcpy" /\ w.file = string51

\* The order strcmp() reports is the one of the first difference of the strings.
Less(a, b) == \E k \in DOMAIN a \cap DOMAIN b :
                Code[a[k]] < Code[b[k]] /\ \A n \in 1 .. k - 1 : a[n] = b[n]

\* strcmp() tells equal strings from different ones and orders them, and strlen()
\* counts the characters before the NUL: find_inode() finds the file of a name by
\* the one, and strdup() has its size from the other.
ScansAgree ==
  (w # <<>> /\ w.pc = "done") =>
    /\ w.op = "strlen" => w.result = Len(w.a) - 1
    /\ w.op = "strcmp" => /\ w.result = 0 <=> w.a = w.b
                          /\ w.result < 0 <=> Less(w.a, w.b)
                          /\ w.result > 0 <=> Less(w.b, w.a)

\* The functions of string.c do what the standard library's do, in every version, with
\* the exception of what memcpy() returned on days 5-1 and 5-2: a copy changes the
\* bytes it has to and no others, and none when strdup() has no memory; it gives back
\* the copy; and the scans count and order the strings.
StringsRight == CopiesWhatItShould /\ GivesBackCopy /\ ScansAgree
=============================================================================
