------------------------------- MODULE Printf --------------------------------
(***************************************************************************)
(* The conversions of libc: itoa.c, atoi.c and strrev, and printf.c, which *)
(* is built of them.  A string is the sequence of its characters before    *)
(* the terminator.                                                         *)
(***************************************************************************)
EXTENDS Integers, Sequences, FiniteSets

CONSTANTS
  Half,        \* an int has twice as many values: 2^31
  Lengths,     \* the lengths of buffers given to itoa
  Bases,       \* and the bases
  Integrals,   \* the numbers given to printf
  Scale,       \* a double is a multiple of 1 / Scale
  Doubles,     \* those given to printf, times Scale
  Precision,      \* digits printed of a fraction: 6
  Room,        \* the output buffer, VGA_SCR_SIZE
  MaxFields    \* bound: directives in one format

ASSUME PrintfAssumption ==
  /\ Half \in Nat \ {0} /\ Lengths \subseteq Nat /\ Bases \subseteq 2 .. 16
  /\ Scale \in Nat \ {0} /\ Doubles \subseteq Int /\ Precision \in Nat \ {0} /\ Room \in Nat
  /\ MaxFields \in Nat

Ints == -Half .. Half - 1
Values == 2 * Half
Unsigned(n) == n % Values
Signed(n) == LET u == Unsigned(n) IN IF u < Half THEN u ELSE u - Values

Digits == <<"0", "1", "2", "3", "4", "5", "6", "7", "8", "9", "a", "b", "c", "d", "e", "f">>
Capitals == <<"0", "1", "2", "3", "4", "5", "6", "7", "8", "9", "A", "B", "C", "D", "E", "F">>
Decimals == {Digits[d] : d \in 1 .. 10}
Blanks == {" ", "\n", "\r"}
DigitValue(c) == (CHOOSE d \in 1 .. 16 : Digits[d] = c \/ Capitals[d] = c) - 1

HelperLength == 128   \* helper_len

-----------------------------------------------------------------------------
strrev(s) ==
  LET swapped[k \in 0 .. Len(s) \div 2] ==
        IF k = 0 THEN s
        ELSE [j \in DOMAIN s |-> IF j \in {k, Len(s) - k + 1}
                                THEN swapped[k - 1][Len(s) + 1 - j] ELSE swapped[k - 1][j]]
  IN swapped[Len(s) \div 2]

\* What is left of the number after i turns of itoa's loop, and the turns it
\* makes in a buffer of len characters.
Left(value, base) ==
  LET num[i \in 0 .. Values] == IF i = 0 THEN Unsigned(value) ELSE num[i - 1] \div base IN num

Full_Exact(i, len) == i >= len
Full(i, len) == i >= len - 1

Turns(value, len, base) ==
  LET Last(i) == Left(value, base)[i] = 0 \/ Full(i, len)
  IN CHOOSE i \in 1 .. Values : Last(i) /\ \A j \in 1 .. i - 1 : ~Last(j)

\* Its result, the string, and how many characters it stored.
itoa(value, len, base) ==
  IF len = 0 \/ base < 2 \/ base > 36
  THEN [ret |-> -1, str |-> <<>>, stored |-> 0]
  ELSE LET n == Turns(value, len, base)
           str == [i \in 1 .. n |-> Digits[(Left(value, base)[i - 1] % base) + 1]]
       IN IF n = len - 1 /\ Left(value, base)[n] # 0
          THEN [ret |-> -1, str |-> str, stored |-> n]
          ELSE [ret |-> 0, str |-> strrev(str), stored |-> n + 1]

\* The characters of a set at the beginning of s, and what follows them.
Skipped(s, set) ==
  LET n == CHOOSE k \in 0 .. Len(s) : /\ \A j \in 1 .. k : s[j] \in set
                                      /\ k < Len(s) => s[k + 1] \notin set
  IN [skipped |-> SubSeq(s, 1, n), rest |-> SubSeq(s, n + 1, Len(s))]

\* Blanks, a sign, and digits up to the first other character.
atoi(s) ==
  LET unblanked == Skipped(s, Blanks).rest
      signed == unblanked # <<>> /\ unblanked[1] \in {"-", "+"}
      digits == Skipped(IF signed THEN Tail(unblanked) ELSE unblanked, Decimals).skipped
      num[k \in 0 .. Len(digits)] ==
        IF k = 0 THEN 0 ELSE Signed(num[k - 1] * 10 + DigitValue(digits[k]))
  IN IF signed /\ unblanked[1] = "-" THEN Signed(-num[Len(digits)]) ELSE num[Len(digits)]

-----------------------------------------------------------------------------
VARIABLES
  stage,    \* "idle", "number" or "parsed" for itoa and atoi; "format", "puts",
            \* or "overrun" once printf stores behind its buffer
  number,   \* itoa's value, length and base
  text,     \* what itoa returned
  prefix, parsed,   \* the characters put before it, and what atoi made of it
  fields,   \* the directives of the format
  given,    \* the arguments read so far
  fmt,      \* the rest of the format
  helper,   \* helper_str up to its terminator
  str       \* the output so far

printfVars == <<stage, number, text, prefix, parsed, fields, given, fmt, helper, str>>

PrintfInit ==
  /\ stage = "idle"
  /\ number = [value |-> 0, len |-> 0, base |-> 0]
  /\ text = [ret |-> -1, str |-> <<>>, stored |-> 0]
  /\ prefix = <<>> /\ parsed = 0
  /\ fields = <<>> /\ given = <<>> /\ fmt = <<>>
  /\ helper = <<"9">>   \* anything: the stack
  /\ str = <<>>

Itoa(v, l, b) ==
  /\ stage = "idle"
  /\ number' = [value |-> v, len |-> l, base |-> b]
  /\ text' = itoa(v, l, b)
  /\ stage' = "number"
  /\ UNCHANGED <<prefix, parsed, fields, given, fmt, helper, str>>

\* The number is typed at a prompt, perhaps after a blank and a sign.
Prefixes == {<<>>, <<" ", "-">>, <<"+">>}

Atoi(p) ==
  /\ stage = "number" /\ number.base = 10 /\ text.ret = 0
  /\ prefix' = p
  /\ parsed' = atoi(p \o text.str)
  /\ stage' = "parsed"
  /\ UNCHANGED <<number, text, fields, given, fmt, helper, str>>

-----------------------------------------------------------------------------
\* A directive of a format, and the characters it is written with.
Plain == {[conv |-> c, zero |-> FALSE, width |-> <<>>] : c \in {"5", "%"}}
Directive == Plain \cup [conv : {"d", "i", "x", "X", "b", "c", "s", "f"}, zero : BOOLEAN,
                         width : {<<>>, <<"3">>, <<"1", "2">>}]
Written(f) == IF f.conv = "5" THEN <<"5">>
              ELSE <<"%">> \o (IF f.zero THEN <<"0">> ELSE <<>>) \o f.width \o <<f.conv>>
Joined(seqs) ==
  LET upto[k \in 0 .. Len(seqs)] == IF k = 0 THEN <<>> ELSE upto[k - 1] \o seqs[k] IN upto[Len(seqs)]

\* The arguments a conversion takes.
Argument(conv) ==
  CASE conv \in {"d", "i", "x", "X", "b"} -> [n : Integrals]
    [] conv = "f" -> [n : Doubles]
    [] conv = "c" -> [s : {<<"y">>}]
    [] conv = "s" -> [s : {<<>>, <<"n", "o">>}]
    [] OTHER      -> {<<>>}   \* none

\* printf is called.
Printf(fs) ==
  /\ stage = "idle"
  /\ fields' = fs
  /\ fmt' = Joined([k \in DOMAIN fs |-> Written(fs[k])])
  /\ stage' = "format"
  /\ UNCHANGED <<number, text, prefix, parsed, given, helper, str>>

\* The buffer has no test: what is stored behind it runs over the stack, and
\* nothing is said of the call from then on.
Storing(n) == IF Len(str) + n <= Room THEN "format" ELSE "overrun"

PrintfPlain ==
  /\ stage = "format" /\ fmt # <<>> /\ Head(fmt) # "%"
  /\ str' = Append(str, Head(fmt))
  /\ stage' = Storing(1)
  /\ fmt' = Tail(fmt)
  /\ given' = Append(given, <<>>)
  /\ UNCHANGED <<number, text, prefix, parsed, fields, helper>>

\* The directive at the head of fmt: a zero selects the padding character, the
\* digits that follow are collected in helper_str.
Leading == IF fmt[2] = "0" THEN "0" ELSE " "
AfterFlag == SubSeq(fmt, IF fmt[2] = "0" THEN 3 ELSE 2, Len(fmt))
WidthRead == Skipped(AfterFlag, Decimals)

Collected_Open(digits) == digits \o SubSeq(helper, Len(digits) + 1, Len(helper))
Collected(digits) == digits

leading_len == LET h == Collected(WidthRead.skipped) IN IF h # <<>> THEN atoi(h) ELSE 0
Padded(s) ==
  (IF leading_len > Len(s) THEN [i \in 1 .. leading_len - Len(s) |-> Leading] ELSE <<>>) \o s

str_to_upper(s) == [i \in DOMAIN s |-> IF DigitValue(s[i]) > 9 THEN Capitals[DigitValue(s[i]) + 1] ELSE s[i]]

\* (int)value, and what is left of the value.
Whole(v) == IF v >= 0 THEN v \div Scale ELSE -((-v) \div Scale)
FractionOf(v) == v - Whole(v) * Scale

\* '0' + digit, and the characters below '0'.
BelowZero == <<"/", ".", "-", ",", "+", "*", ")", "(", "'">>
DigitOf(d) == IF d >= 0 THEN Digits[d + 1] ELSE BelowZero[-d]

\* The fraction after k turns of the loop, and the characters it stores.
fraction_part(v) ==
  LET left[k \in 0 .. Precision] == IF k = 0 THEN FractionOf(v) ELSE FractionOf(10 * left[k - 1]) IN left
FractionDigits(v) == [k \in 1 .. Precision |-> DigitOf(Whole(10 * fraction_part(v)[k - 1]))]

\* helper_str after the conversion, and the characters added to the output.
Converted(conv, arg) ==
  CASE conv \in {"d", "i"} -> itoa(arg.n, HelperLength, 10).str
    [] conv = "x"          -> itoa(arg.n, HelperLength, 16).str
    [] conv = "X"          -> str_to_upper(itoa(arg.n, HelperLength, 16).str)
    [] conv = "b"          -> itoa(arg.n, HelperLength, 2).str
    [] conv = "f"          -> FractionDigits(arg.n)
    [] OTHER               -> Collected(WidthRead.skipped)

Added(conv, arg) ==
  CASE conv \in {"d", "i", "x", "X", "b"} -> Padded(Converted(conv, arg))
    [] conv = "f" -> Padded(itoa(Whole(arg.n), HelperLength, 10).str) \o <<".">> \o Converted(conv, arg)
    [] conv \in {"c", "s"} -> arg.s
    [] OTHER -> <<conv>>   \* % and any other

\* strcpy stores the terminator as well.
Stores(conv, arg) == Len(Added(conv, arg)) + (IF conv \in {"%", "c"} THEN 0 ELSE 1)

PrintfField(arg) ==
  /\ stage = "format" /\ fmt # <<>> /\ Head(fmt) = "%"
  /\ LET conv == WidthRead.rest[1]
     IN /\ arg \in Argument(conv)
        /\ str' = str \o Added(conv, arg)
        /\ stage' = Storing(Stores(conv, arg))
        /\ helper' = Converted(conv, arg)
  /\ fmt' = Tail(WidthRead.rest)
  /\ given' = Append(given, arg)
  /\ UNCHANGED <<number, text, prefix, parsed, fields>>

PrintfEnd ==
  /\ stage = "format" /\ fmt = <<>>
  /\ stage' = IF Len(str) + 1 <= Room THEN "puts" ELSE "overrun"
  /\ UNCHANGED <<number, text, prefix, parsed, fields, given, fmt, helper, str>>

PrintfNext ==
  \/ \E v \in Ints, l \in Lengths, b \in Bases : Itoa(v, l, b)
  \/ \E p \in Prefixes : Atoi(p)
  \/ \E n \in 1 .. MaxFields : \E fs \in [1 .. n -> Directive] : Printf(fs)
  \/ PrintfPlain
  \/ \E c \in {"%", "d", "f", "c", "s"} : \E arg \in Argument(c) : PrintfField(arg)
  \/ PrintfEnd

PrintfSpec == PrintfInit /\ [][PrintfNext]_printfVars

-----------------------------------------------------------------------------
\* The number a string of digits stands for.
NumberOf(s, base) ==
  LET upto[k \in 0 .. Len(s)] == IF k = 0 THEN 0 ELSE upto[k - 1] * base + DigitValue(s[k])
  IN upto[Len(s)]
Power(base, n) ==
  LET p[k \in 0 .. n] == IF k = 0 THEN 1 ELSE p[k - 1] * base IN p[n]
FitsIn(v, digits, base) == v < Power(base, digits)

\* An int holds the widths of the formats and the whole part of each double, and
\* helper_str every int in every base.
ASSUME FormatAssumption ==
  /\ Integrals \subseteq Ints /\ 12 \in Ints
  /\ \A v \in Doubles : Whole(v) \in Ints
  /\ \E digits \in 1 .. HelperLength - 1 : FitsIn(Values - 1, digits, 2)

\* In a buffer of two characters or more itoa writes the number without leading
\* zeros and stores nothing behind the buffer, or reports that it does not fit;
\* a negative number is written as the unsigned one.  In a buffer of one it
\* stores two and reports nothing.  atoi then reads back the same number, with
\* the sign put before it (itoa.c:4-22, atoi.c:3-23, string.c:46-56).
NumbersSurvive ==
  /\ (stage \in {"number", "parsed"} /\ number.len >= 2) =>
       LET u == Unsigned(number.value)
       IN /\ text.stored <= number.len
          /\ (text.ret = 0) <=> FitsIn(u, number.len - 1, number.base)
          /\ text.ret = 0 => /\ NumberOf(text.str, number.base) = u
                             /\ text.str[1] = "0" => text.str = <<"0">>
  /\ (stage = "parsed" /\ number.len >= 2) =>
       parsed = Signed(IF prefix # <<>> /\ prefix[Len(prefix)] = "-"
                       THEN -number.value ELSE number.value)

\* What the standard prints for a directive: a number in as many digits as it
\* needs, a double rounded to the nearest, at a tie to the even digit, and all
\* filled to the width.  Of negative numbers see Own.
Shortest(u, base, names) ==
  LET n == CHOOSE k \in 1 .. Values : FitsIn(u, k, base) /\ \A j \in 1 .. k - 1 : ~FitsIn(u, j, base)
  IN [i \in 1 .. n |-> names[((u \div Power(base, n - i)) % base) + 1]]
CutOff(v) == (v * Power(10, Precision)) \div Scale
Rounded(v) ==
  LET rest == (v * Power(10, Precision)) % Scale
  IN IF 2 * rest > Scale \/ (2 * rest = Scale /\ CutOff(v) % 2 = 1) THEN CutOff(v) + 1 ELSE CutOff(v)
Fixed(v) ==
  Shortest(Rounded(v) \div Power(10, Precision), 10, Digits) \o <<".">>
    \o [i \in 1 .. Precision |-> Digits[((Rounded(v) \div Power(10, Precision - i)) % 10) + 1]]
Width(f) == IF f.width = <<>> THEN 0 ELSE NumberOf(f.width, 10)
Sized(f, s) ==
  [i \in 1 .. IF Width(f) > Len(s) THEN Width(f) - Len(s) ELSE 0 |-> IF f.zero THEN "0" ELSE " "] \o s
FieldOf(f, arg) ==
  CASE f.conv \in {"d", "i"} -> Sized(f, Shortest(arg.n, 10, Digits))
    [] f.conv = "x" -> Sized(f, Shortest(Unsigned(arg.n), 16, Digits))
    [] f.conv = "X" -> Sized(f, Shortest(Unsigned(arg.n), 16, Capitals))
    [] f.conv = "b" -> Sized(f, Shortest(Unsigned(arg.n), 2, Digits))
    [] f.conv = "f" -> Sized(f, Fixed(arg.n))
    [] f.conv \in {"c", "s"} -> Sized(f, arg.s)
    [] OTHER -> <<f.conv>>

\* What printf prints in its own way.  A negative number comes out as the unsigned
\* one, and of a negative double the digits below '0'; a double is cut where the
\* standard rounds, and the width of %f is that of its whole part; the width of
\* %c and %s is ignored.
Own(f, arg) ==
  \/ f.conv \in {"d", "i", "f"} /\ arg.n < 0
  \/ f.conv = "f" /\ (CutOff(arg.n) # Rounded(arg.n) \/ Width(f) > Len(Shortest(Whole(arg.n), 10, Digits)))
  \/ f.conv \in {"c", "s"} /\ Width(f) > Len(arg.s)

\* printf prints every format of these directives as the standard says, but for
\* what it prints in its own way: no width, padding character or digit of one
\* directive is left in helper_str for the next.  It stores behind its buffer
\* when that text and its terminator have no room there, and only then
\* (printf.c:25, 35-171).
FormatsStandard ==
  LET printed == Joined([k \in DOMAIN given |-> FieldOf(fields[k], given[k])])
  IN (stage \in {"puts", "overrun"} /\ \A k \in DOMAIN given : ~Own(fields[k], given[k])) =>
       /\ str = printed
       /\ stage = "overrun" <=> Len(printed) >= Room
       /\ stage = "puts" => Len(given) = Len(fields)

=============================================================================
