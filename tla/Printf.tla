------------------------------- MODULE Printf -------------------------------
(***************************************************************************)
(* printf.c, version by version: the walk of printf() over its format, one *)
(* turn of the loop per step, and the conversions of integers.             *)
(*                                                                         *)
(* A format is a sequence of characters; its end is the NUL, and what lies *)
(* behind the NUL is other memory.  The arguments are counted as they are  *)
(* taken.  Integers are scaled: half of the ints, and half of the long     *)
(* longs, are negative, and these halves are powers of two in C.           *)
(***************************************************************************)
EXTENDS Integers, Sequences, SequencesExt, Ranks

CONSTANTS
  Formats,    \* the formats that are printed
  IntHalf,    \* the negative ints: 2^31 of them in the code
  LongHalf    \* the negative long longs: 2^63

ASSUME FormatsAssumption == Formats \subseteq Seq(STRING \ {"NUL", "beyond"})
ASSUME HalvesAssumption ==
  IntHalf \in Nat \ {0} /\ LongHalf \in Nat \ {0} /\ LongHalf % IntHalf = 0

\* The unsigned values wrap at these.
IntSpan  == 2 * IntHalf
LongSpan == 2 * LongHalf

VARIABLE f    \* a call of printf()

-----------------------------------------------------------------------------
\* What each version knows: its directives, and the width that %x prints.
printf12 == [directives |-> {"s", "d"}, hex |-> IntSpan]
printf13 == [directives |-> {"s", "d", "x", "lld"}, hex |-> IntSpan]
printf21 == printf13
printf22 == printf13
printf23 == [printf13 EXCEPT !.hex = LongSpan]
printf31 == [directives |-> {"s", "d", "c", "x", "lld"}, hex |-> LongSpan]
printf32 == printf31
printf33 == printf31
printf4  == [directives |-> {"s", "d", "c", "x", "lld", "llx"}, hex |-> LongSpan]
printf51 == printf4
printf52 == printf4
printf53 == printf4
printf54 == printf4
printf6  == printf4

Versions == {printf12, printf13, printf21, printf22, printf23, printf31, printf32, printf33,
             printf4, printf51, printf52, printf53, printf54, printf6}

-----------------------------------------------------------------------------
\* Conversions.  CDiv and CMod are the division of C, which rounds to zero; Wrap is
\* the long long that is v modulo LongSpan.
Abs(v)     == IF v < 0 THEN -v ELSE v
CDiv(v, m) == IF v < 0 THEN -(Abs(v) \div m) ELSE v \div m
CMod(v, m) == v - m * CDiv(v, m)
Wrap(v)    == LET u == v % LongSpan IN IF u < LongHalf THEN u ELSE u - LongSpan

Longs == -LongHalf .. LongHalf - 1
Ints  == -IntHalf .. IntHalf - 1

\* What is left of a number after each turn of the loop.
Quotients(v, base) ==
  LET q[k \in 0 .. Abs(v)] == IF k = 0 THEN v ELSE CDiv(q[k - 1], base)
  IN  q

\* The loop ends when nothing is left.
LastTurn(q, v) == CHOOSE j \in 0 .. Abs(v) : q[j] = 0 /\ \A k \in 0 .. j - 1 : q[k] # 0

\* The digits of a number, the last one first, as they enter the buffer.
Digits(v, base) ==
  LET q == Quotients(v, base)
  IN  [k \in 1 .. LastTurn(q, v) |-> CMod(q[k - 1], base)]

\* The negation of the least long long is itself, and its digits are negative.
print_int(v) ==
  IF v = 0 THEN <<0>>
  ELSE IF v < 0 THEN <<"-">> \o Reverse(Digits(Wrap(-v), 10))
  ELSE Reverse(Digits(v, 10))

\* The loop runs once at least: zero has a digit.
print_hex(v) == IF v = 0 THEN <<0>> ELSE Reverse(Digits(v, 16))

\* The character at a place of the format.
At(k) == IF k <= Len(f.fmt) THEN f.fmt[k] ELSE IF k = Len(f.fmt) + 1 THEN "NUL" ELSE "beyond"

\* What is put out for a directive that takes the value v.
Converted(name, v) ==
  CASE name \in {"d", "lld"} -> print_int(v)
    [] name = "x"            -> print_hex(v % f.version.hex)
    [] name = "llx"          -> print_hex(v % LongSpan)
    [] OTHER                 -> <<name>>

\* A format that is one directive is printed with every value the directive takes.
ValuesFor(fmt) ==
  IF fmt \in {<<"%", "l", "l", "d">>, <<"%", "l", "l", "x">>} THEN Longs
  ELSE IF fmt \in {<<"%", "d">>, <<"%", "x">>} THEN Ints
  ELSE {1}

PrintfInit ==
  \E fmt \in Formats, version \in Versions : \E value \in ValuesFor(fmt) :
    f = [version |-> version, fmt |-> fmt, value |-> value, pos |-> 1, taken |-> <<>>,
         out |-> <<>>, done |-> FALSE]

\* One turn ends behind the character at k.  What is put out is kept turn by turn.
Turn(k, arg, put) ==
  f' = [f EXCEPT !.pos = k + 1, !.taken = @ \o arg, !.out = Append(@, put)]

Literal ==
  /\ At(f.pos) \notin {"%", "NUL", "beyond"}
  /\ Turn(f.pos, <<>>, <<At(f.pos)>>)

Convert ==
  /\ At(f.pos) = "%"
  /\ At(f.pos + 1) \in {"s", "d", "c", "x"} \cap f.version.directives
  /\ Turn(f.pos + 1, <<At(f.pos + 1)>>, Converted(At(f.pos + 1), f.value))

\* 'l' looks for another 'l' and for the conversion, and gives up silently at the
\* character that does not fit.
HasLong == "lld" \in f.version.directives

\* Variant: the second 'l' is not looked at.
ConvertLongFar ==
  /\ HasLong
  /\ At(f.pos) = "%" /\ At(f.pos + 1) = "l"
  /\ LET third == At(f.pos + 3)
         name  == CASE third = "d" -> "lld" [] third = "x" -> "llx" [] OTHER -> ""
     IN  IF name \in f.version.directives THEN Turn(f.pos + 3, <<name>>, Converted(name, f.value))
         ELSE Turn(f.pos + 3, <<>>, <<>>)

ConvertLong ==
  /\ HasLong
  /\ At(f.pos) = "%" /\ At(f.pos + 1) = "l"
  /\ LET second == At(f.pos + 2)
         third  == IF second = "l" THEN At(f.pos + 3) ELSE ""
         name   == CASE third = "d" -> "lld" [] third = "x" -> "llx" [] OTHER -> ""
     IN  IF second # "l" THEN Turn(f.pos + 2, <<>>, <<>>)
         ELSE IF name \in f.version.directives THEN Turn(f.pos + 3, <<name>>, Converted(name, f.value))
         ELSE Turn(f.pos + 3, <<>>, <<>>)

\* Any other character behind '%' is printed, the NUL at the end as well.
PrintDirective ==
  /\ At(f.pos) = "%"
  /\ At(f.pos + 1) \notin f.version.directives
  /\ ~(HasLong /\ At(f.pos + 1) = "l")
  /\ Turn(f.pos + 1, <<>>, <<At(f.pos + 1)>>)

EndOfFormat ==
  /\ At(f.pos) = "NUL" /\ ~f.done
  /\ f' = [f EXCEPT !.done = TRUE]

PrintfNext ==
  Literal \/ Convert \/ ConvertLong \/ PrintDirective \/ EndOfFormat

PrintfSpec == PrintfInit /\ [][PrintfNext]_f

-----------------------------------------------------------------------------
\* The number that a sequence of digits stands for.
ValueOf(ds, base) ==
  LET h[k \in 0 .. Len(ds)] == IF k = 0 THEN 0 ELSE h[k - 1] * base + ds[k]
  IN  h[Len(ds)]

\* The digits of v >= 0, without zeros in front.
IsNumeral(ds, base, v) ==
  /\ Len(ds) > 0 /\ \A k \in 1 .. Len(ds) : ds[k] \in 0 .. base - 1
  /\ ds[1] = 0 => v = 0 /\ Len(ds) = 1
  /\ ValueOf(ds, base) = v

\* The format is walked to its end and not beyond, unless the end cuts a
\* directive: a '%' or '%l' or '%ll' in front of the NUL makes printf() read on
\* behind the string.
Cut == \E k \in 1 .. Len(f.fmt) :
         /\ f.fmt[k] = "%"
         /\ \/ k = Len(f.fmt)
            \/ HasLong /\ k + 1 = Len(f.fmt) /\ f.fmt[k + 1] = "l"
            \/ HasLong /\ k + 2 = Len(f.fmt) /\ f.fmt[k + 1] = "l" /\ f.fmt[k + 2] = "l"

EndsInFormat == f # <<>> => (f.pos <= Len(f.fmt) + 1 \/ Cut)

\* The places of a format where a directive of this version begins that takes an
\* argument, when no earlier directive reaches over them.
DirectiveAt(k) == CASE f.fmt[k + 1] \in f.version.directives -> f.fmt[k + 1]
              [] HasLong /\ f.fmt[k + 1] = "l" /\ k + 3 <= Len(f.fmt) /\ f.fmt[k + 2] = "l"
                   /\ f.fmt[k + 3] = "d" -> "lld"
              [] HasLong /\ f.fmt[k + 1] = "l" /\ k + 3 <= Len(f.fmt) /\ f.fmt[k + 2] = "l"
                   /\ f.fmt[k + 3] = "x" /\ "llx" \in f.version.directives -> "llx"
              [] OTHER -> ""

Plain == \A k \in 1 .. Len(f.fmt) : f.fmt[k] = "%" => k < Len(f.fmt) /\ DirectiveAt(k) # ""

\* Where directives begin, and where the turns of the loop do: at a directive and at
\* every character outside of the directives.
Directives == {k \in 1 .. Len(f.fmt) : f.fmt[k] = "%"}
Inside(k)  == k + 1 .. k + (IF f.fmt[k + 1] = "l" THEN 3 ELSE 1)
Turns      == (1 .. Len(f.fmt)) \ UNION {Inside(k) : k \in Directives}

PutAt(k) == IF k \in Directives THEN Converted(DirectiveAt(k), f.value) ELSE <<f.fmt[k]>>

\* In a format whose every '%' begins a directive of the version, each directive
\* takes the next argument, in the order of the format, and puts out its value, and
\* every character between the directives is put out once.
ArgumentsInOrder ==
  (f # <<>> /\ f.done /\ Plain) =>
     /\ f.taken = [n \in 1 .. Cardinality(Directives) |-> DirectiveAt(Nth(Directives, n))]
     /\ f.out = [n \in 1 .. Cardinality(Turns) |-> PutAt(Nth(Turns, n))]

\* What is printed for a value is that value in decimal, with its sign, for every
\* value but the least long long, and for %x a number in hexadecimal whose low bits
\* are those of the value: a negative int has the digits of a long long from day 2-3
\* on.
PrintsValue ==
  (f # <<>> /\ f.done /\ Len(f.taken) = 1) =>
     LET v  == f.value
         ds == f.out[1]
     IN  CASE f.fmt \in {<<"%", "d">>, <<"%", "l", "l", "d">>} ->
                v = -LongHalf \/
                IF v < 0 THEN Head(ds) = "-" /\ IsNumeral(Tail(ds), 10, -v)
                         ELSE IsNumeral(ds, 10, v)
           [] f.fmt = <<"%", "x">> ->
                \E u \in {v % IntSpan, v % LongSpan} :
                  /\ IsNumeral(ds, 16, u)
                  /\ u % IntSpan = v % IntSpan /\ (v >= 0 => u = v)
           [] f.fmt = <<"%", "l", "l", "x">> -> IsNumeral(ds, 16, v % LongSpan)
           [] OTHER -> TRUE

\* printf() of every snapshot, for a format that its version knows: the walk ends at
\* the NUL, the arguments are taken in order, and the digits are those of the value.
PrintsFormat == EndsInFormat /\ ArgumentsInOrder /\ PrintsValue
=============================================================================
