---------------------------- MODULE UnitsProofs ----------------------------
(***************************************************************************)
(* The components that share no state with another one, each with its own  *)
(* theorems and the inductive invariant they rest on.                      *)
(*                                                                         *)
(* Memory blocks: memcpy, memmove and memset give every byte its value,    *)
(* for every size of memory, every contents and all arguments their        *)
(* callers may pass.                                                       *)
(*                                                                         *)
(* Conversions: what itoa writes atoi reads back, for every number, base   *)
(* and buffer, and every width of int; what does not fit is reported.  A   *)
(* format of any length comes out as the standard says.                    *)
(*                                                                         *)
(* Random numbers: rand stays in its range for ever, for every RAND_MAX    *)
(* and width of int that leave the seeds that do not overflow close to 0.  *)
(*                                                                         *)
(* Keyboard: whoever waits for a key gets it, and gets the key that was    *)
(* meant, for every length of the pause, every set of colours and every    *)
(* order of strokes.  The modifiers, the one key handler and the colour of *)
(* donut each have an invariant of their own, of which the later use the   *)
(* earlier.                                                                *)
(*                                                                         *)
(* The heap with all its clients: every area has one owner, whatever the   *)
(* handlers allocate and free between the steps of main's malloc, and only *)
(* a handler's malloc during main's can lose the heap.                     *)
(***************************************************************************)
EXTENDS BlockMove, Printf, Random, Keyboard, KernelMemory,
        SequenceTheorems, WellFoundedInduction, TLAPS

\* The least of a set of numbers, induction over numbers, and recursion.
LEMMA Least ==
  ASSUME NEW S \in SUBSET Nat, S # {}
  PROVE  \E m \in S : \A k \in S : m <= k
<1> DEFINE R == OpToRel(<, Nat)
<1>1. IsWellFoundedOn(R, Nat) BY NatLessThanWellFounded
<1>2. \A x, y \in Nat : y < x => <<y, x>> \in R BY DEF OpToRel
<1> HIDE DEF R
<1>3. \E m \in S : \A k \in S : <<k, m>> \notin R BY <1>1, WFMin
<1>4. PICK m \in S : \A k \in S : <<k, m>> \notin R BY <1>3
<1>5. ASSUME NEW k \in S PROVE m <= k
  <2>1. k \in Nat /\ m \in Nat OBVIOUS
  <2>2. ~(k < m) BY <1>2, <1>4, <2>1
  <2> QED BY <2>1, <2>2
<1> QED BY <1>4, <1>5

\* Induction over the numbers up to N, for a set.
LEMMA Climbs ==
  ASSUME NEW N \in Nat, NEW S, 0 \in S,
         \A n \in 0 .. N - 1 : n \in S => n + 1 \in S
  PROVE  0 .. N \subseteq S
<1> DEFINE M == {n \in 0 .. N : n \notin S}
<1>1. SUFFICES ASSUME M # {} PROVE FALSE OBVIOUS
<1>2. M \in SUBSET Nat OBVIOUS
<1>3. PICK m \in M : \A k \in M : m <= k BY <1>1, <1>2, Least
<1>4. m \in 0 .. N /\ m \notin S /\ m # 0 OBVIOUS
<1>5. m - 1 \in 0 .. N - 1 /\ m - 1 \notin M
  <2>1. m - 1 \in 0 .. N - 1 BY <1>4
  <2>2. ~(m <= m - 1) BY <1>4
  <2> HIDE DEF M
  <2> QED BY <1>3, <2>1, <2>2
<1>6. m - 1 \in S BY <1>5
<1>7. m - 1 + 1 = m BY <1>4
<1> HIDE DEF M
<1> QED BY <1>4, <1>5, <1>6, <1>7

\* A function each of whose values comes from the one before exists.
Steps(f, N, X, first, step) ==
  /\ f \in [0 .. N -> X] /\ f[0] = first
  /\ \A n \in 1 .. N : f[n] = step[n][f[n - 1]]

LEMMA Recursion ==
  ASSUME NEW N \in Nat, NEW X, NEW first \in X, NEW step \in [1 .. N -> [X -> X]]
  PROVE  \E f : Steps(f, N, X, first, step)
<1> DEFINE Upto(M, f) == /\ f \in [0 .. M -> X] /\ f[0] = first
                         /\ \A n \in 1 .. M : f[n] = step[n][f[n - 1]]
<1> DEFINE S == {M \in 0 .. N : \E f : Upto(M, f)}
<1>1. 0 \in S
  <2>1. Upto(0, [n \in 0 .. 0 |-> first]) OBVIOUS
  <2> HIDE DEF Upto
  <2> QED BY <2>1
<1>2. ASSUME NEW M \in 0 .. N - 1, M \in S PROVE M + 1 \in S
  <2>1. PICK f : Upto(M, f) BY <1>2
  <2> DEFINE g == [n \in 0 .. M + 1 |-> IF n = M + 1 THEN step[M + 1][f[M]] ELSE f[n]]
  <2>2. M + 1 \in 1 .. N /\ M \in 0 .. M /\ M \in Nat /\ M + 1 \in 0 .. M + 1 OBVIOUS
  <2>3. f[M] \in X /\ step[M + 1] \in [X -> X] BY <2>1, <2>2
  <2>4. step[M + 1][f[M]] \in X BY <2>3
  <2>5. \A n \in 0 .. M : g[n] = f[n] /\ f[n] \in X /\ n \in 0 .. M + 1 BY <2>1
  <2>6. g[M + 1] = step[M + 1][g[M]] /\ g[M + 1] \in X BY <2>2, <2>4, <2>5
  <2>7. g \in [0 .. M + 1 -> X] BY <2>1, <2>4
  <2>8. g[0] = first BY <2>1, <2>5
  <2>9. ASSUME NEW n \in 1 .. M + 1 PROVE g[n] = step[n][g[n - 1]]
    <3>1. CASE n = M + 1
      <4>1. n - 1 = M BY <3>1
      <4> HIDE DEF g
      <4> QED BY <2>6, <3>1, <4>1
    <3>2. CASE n # M + 1
      <4>1. n \in 1 .. M /\ n \in 0 .. M /\ n - 1 \in 0 .. M BY <3>2
      <4>2. f[n] = step[n][f[n - 1]] BY <2>1, <4>1
      <4> HIDE DEF g
      <4> QED BY <2>5, <4>1, <4>2
    <3> QED BY <3>1, <3>2
  <2> HIDE DEF g
  <2>10. Upto(M + 1, g) BY <2>7, <2>8, <2>9
  <2>11. M + 1 \in 0 .. N OBVIOUS
  <2> HIDE DEF Upto
  <2> QED BY <2>10, <2>11
<1> HIDE DEF S
<1>3. 0 .. N \subseteq S BY <1>1, <1>2, Climbs
<1>4. N \in S BY <1>3
<1>5. PICK f : Upto(N, f) BY <1>4 DEF S
<1> QED BY <1>5 DEF Steps

\* A recursive function stays where its steps lead.
LEMMA Ranges ==
  ASSUME NEW N \in Nat, NEW X, NEW f, f[0] \in X,
         \A n \in 0 .. N - 1 : f[n] \in X => f[n + 1] \in X
  PROVE  \A n \in 0 .. N : f[n] \in X
<1> DEFINE S == {n \in 0 .. N : f[n] \in X}
<1>1. 0 \in S OBVIOUS
<1>2. \A n \in 0 .. N - 1 : n \in S => n + 1 \in S OBVIOUS
<1> HIDE DEF S
<1>3. 0 .. N \subseteq S BY <1>1, <1>2, Climbs
<1> QED BY <1>3 DEF S

-----------------------------------------------------------------------------
\* Memory blocks.  The addresses a call has moved, and what belongs there.
Inside(a, from, to) == dest + from <= a /\ a < dest + to
Want(a) == IF op = "memset" THEN Fill ELSE Memory0[src + (a - dest)]

\* Going forth never overwrites a byte of the source before it is read.
Forth == op = "memset" \/ dest <= src \/ ~Overlap(dest, src, len) \/ at = len

\* What the loops have done so far: [from, to) is moved, the rest of memory is
\* as it was.
Progress(from, to) ==
  \A a \in Addresses : mem[a] = IF Inside(a, from, to) THEN Want(a) ELSE Memory0[a]

MoveInv ==
  /\ MoveTypeOK
  /\ Within(dest, len) /\ Within(src, len)
  /\ at <= len
  /\ pos = "call" => \A a \in Addresses : mem[a] = Memory0[a]
  /\ pos = "words" => Forth /\ Progress(0, at)
  /\ pos = "back" => /\ op = "memmove" /\ Behind(dest, src, len)
                     /\ at % Word = 0 /\ at <= len - (len % Word)
                     /\ Progress(at, len - (len % Word))
  /\ pos = "bytes" /\ ~TailLost => Forth /\ Progress(0, at)
  /\ pos = "done" /\ ~TailLost => Progress(0, len)

-----------------------------------------------------------------------------
LEMMA WordFacts ==
  \A n \in Nat : /\ n % Word \in 0 .. 3 /\ n % Word <= n
                 /\ (n - (n % Word)) % Word = 0
                 /\ n % Word = 0 /\ n > 0 => n >= 4 /\ (n - 4) % Word = 0
BY DEF Word

LEMMA MoveInitInv == ASSUME MoveInit PROVE MoveInv
BY BlockMoveAssumption
   DEF MoveInit, MoveInv, MoveTypeOK, Within, Addresses

LEMMA CallInv ==
  ASSUME MoveInv, NEW d \in 0 .. MemSize, NEW s \in 0 .. MemSize, NEW n \in 0 .. MemSize,
         memcpy(d, s, n) \/ memmove(d, s, n) \/ memset(d, n)
  PROVE  MoveInv'
<1> USE BlockMoveAssumption DEF MoveInv, MoveTypeOK, Within, Addresses, Call
<1>1. CASE memcpy(d, s, n)
  BY <1>1 DEF memcpy, Overlap, Forth, Progress, Inside
<1>2. CASE memset(d, n)
  BY <1>2 DEF memset, Forth, Progress, Inside
<1>3. CASE memmove(d, s, n)
  <2>0. UNCHANGED mem /\ op' = "memmove" /\ dest' = d /\ src' = s /\ len' = n
        /\ pos = "call" /\ Within(d, n) /\ Within(s, n)
    BY <1>3 DEF memmove
  <2>1. CASE at' = 0 /\ pos' = "done" /\ (s = d \/ n = 0)
    BY <2>0, <2>1 DEF Progress, Inside, Want
  <2>2. CASE at' = n - (n % Word) /\ pos' = "back" /\ Behind(d, s, n)
    BY <2>0, <2>2, WordFacts, SMTT(30) DEF Progress, Inside, Behind
  <2>3. CASE at' = 0 /\ pos' = "words" /\ ~Behind(d, s, n)
    BY <2>0, <2>3 DEF Progress, Inside, Behind, Forth, Overlap
  <2> QED BY <1>3, <2>1, <2>2, <2>3 DEF memmove
<1> QED BY <1>1, <1>2, <1>3

LEMMA ForthStep ==
  ASSUME MoveInv, NEW n \in 1 .. 4, at + n <= len, Forth, Progress(0, at),
         mem' = Stored(n), at' = at + n, UNCHANGED arguments
  PROVE  Progress(0, at)' /\ Forth'
<1> USE BlockMoveAssumption DEF MoveInv, MoveTypeOK, Within, Addresses, arguments
<1>1. Forth' BY DEF Forth, Overlap
<1>2. ASSUME NEW a \in Addresses
      PROVE  mem'[a] = IF dest <= a /\ a < dest + at + n THEN Want(a) ELSE Memory0[a]
  <2>1. mem'[a] = IF dest + at <= a /\ a < dest + at + n
                  THEN IF op = "memset" THEN Fill ELSE mem[src + (a - dest)]
                  ELSE mem[a]
    BY DEF Stored
  <2>2. CASE ~(dest + at <= a /\ a < dest + at + n)
    BY <2>1, <2>2 DEF Progress, Inside
  <2>3. CASE dest + at <= a /\ a < dest + at + n /\ op = "memset"
    BY <2>1, <2>3 DEF Want
  <2>4. CASE dest + at <= a /\ a < dest + at + n /\ op # "memset"
    <3>1. src + (a - dest) \in Addresses
      <4>1. /\ a \in Int /\ dest \in Int /\ src \in Int /\ at >= 0 /\ src >= 0
            /\ src + len <= MemSize /\ dest + at <= a /\ a < dest + at + n /\ at + n <= len
            /\ at \in Int /\ len \in Int /\ n \in Int /\ MemSize \in Int
        BY <2>4
      <4>2. src + (a - dest) \in Int /\ 0 <= src + (a - dest) /\ src + (a - dest) < MemSize
        BY ONLY <4>1
      <4> QED BY ONLY <4>1, <4>2 DEF Addresses
    <3>2. ~Inside(src + (a - dest), 0, at)
      BY <2>4 DEF Inside, Forth, Overlap
    <3> QED BY <2>1, <2>4, <3>1, <3>2 DEF Progress, Want
  <2> QED BY <2>2, <2>3, <2>4
<1>3. ASSUME NEW a \in Addresses
      PROVE  mem'[a] = IF Inside(a, 0, at)' THEN Want(a)' ELSE Memory0[a]
  <2>1. Inside(a, 0, at)' <=> dest <= a /\ a < dest + at + n
    <3>1. dest \in Int /\ at \in Int /\ n \in Int /\ a \in Int
      OBVIOUS
    <3>2. dest + 0 = dest /\ dest + (at + n) = dest + at + n
      BY ONLY <3>1
    <3>3. dest' = dest /\ at' = at + n
      OBVIOUS
    <3> QED BY ONLY <3>2, <3>3 DEF Inside
  <2>2. Want(a)' = Want(a)
    BY DEF Want
  <2> QED BY <1>2, <2>1, <2>2
<1>4. Progress(0, at)'
  BY <1>3 DEF Progress
<1> QED BY <1>1, <1>4

LEMMA BackStep ==
  ASSUME MoveInv, WordBack
  PROVE  MoveInv'
<1> USE BlockMoveAssumption DEF MoveInv, MoveTypeOK, Within, Addresses, arguments
<1> DEFINE q == len - (len % Word)
<1>1. at >= 4 /\ at - 4 >= 0 /\ (at - 4) % Word = 0
  <2>1. at \in Nat /\ at % Word = 0 /\ at > 0
    BY DEF WordBack
  <2> QED BY <2>1, WordFacts
<1>2. q \in 0 .. len
  <2>1. len \in Nat
    OBVIOUS
  <2> QED BY ONLY <2>1, WordFacts
<1>3. ASSUME NEW a \in Addresses
      PROVE  mem'[a] = IF dest + (at - 4) <= a /\ a < dest + q THEN Want(a) ELSE Memory0[a]
  <2>1. mem'[a] = IF dest + at - 4 <= a /\ a < dest + at THEN mem[src + (a - dest)] ELSE mem[a]
    BY DEF WordBack, Word
  <2>2. CASE ~(dest + at - 4 <= a /\ a < dest + at)
    <3>1. mem[a] = IF dest + at <= a /\ a < dest + q THEN Want(a) ELSE Memory0[a]
      BY DEF Progress, Inside, WordBack
    <3>2. at <= q
      BY DEF WordBack
    <3> QED BY <1>1, <1>2, <2>1, <2>2, <3>1, <3>2
  <2>3. CASE dest + at - 4 <= a /\ a < dest + at
    <3>1. src + (a - dest) \in Addresses /\ ~Inside(src + (a - dest), at, q)
      BY <1>1, <1>2, <2>3 DEF Inside, WordBack, Behind
    <3>2. mem[src + (a - dest)] = Memory0[src + (a - dest)]
      BY <3>1 DEF Progress, WordBack
    <3>3. at <= q /\ op = "memmove"
      BY DEF WordBack
    <3> QED BY <1>1, <1>2, <2>1, <2>3, <3>2, <3>3 DEF Want
  <2> QED BY <2>2, <2>3
<1>4. at' = at - 4 /\ UNCHANGED <<pos, op, dest, src, len>> /\ pos = "back"
  BY DEF WordBack, Word
<1>5. ASSUME NEW a \in Addresses
      PROVE  mem'[a] = IF Inside(a, at, q)' THEN Want(a)' ELSE Memory0[a]
  <2>1. Inside(a, at, q)' <=> dest + (at - 4) <= a /\ a < dest + q
    BY <1>2, <1>4 DEF Inside
  <2>2. Want(a)' = Want(a)
    BY <1>4 DEF Want
  <2> QED BY <1>3, <2>1, <2>2
<1>6. Progress(at, q)'
  BY <1>5 DEF Progress
<1>7. DOMAIN mem' = Addresses
  BY DEF WordBack
<1> QED BY <1>1, <1>4, <1>6, <1>7 DEF Behind, Word

LEMMA MoveNextInv == ASSUME MoveInv, [MoveNext]_moveVars PROVE MoveInv'
<1> USE BlockMoveAssumption DEF MoveInv, MoveTypeOK, Within, Addresses, arguments
<1>1. CASE \E d, s, n \in 0 .. MemSize : memcpy(d, s, n) \/ memmove(d, s, n)
  BY <1>1, CallInv
<1>2. CASE \E d, n \in 0 .. MemSize : memset(d, n)
  BY <1>2, CallInv
<1>3. CASE WordForth
  <2>1. Progress(0, at)' /\ Forth'
    BY <1>3, ForthStep DEF WordForth, Word
  <2> QED BY <1>3, <2>1 DEF WordForth, Word, Stored
<1>4. CASE WordsForthEnd
  BY <1>4 DEF WordsForthEnd, Progress, Inside, Want, Forth, Overlap
<1>5. CASE WordBack
  BY <1>5, BackStep
<1>6. CASE WordsBackEnd
  <2>0. len % Word \in 0 .. 3 /\ len % Word <= len
    BY WordFacts
  <2>1. at' = len - (len % Word) /\ at' \in 0 .. len
    BY <1>6, <2>0 DEF WordsBackEnd
  <2>2. ~TailLost => at' = len
    BY <1>6, <2>1, WordFacts DEF WordsBackEnd, TailLost
  <2> QED BY <1>6, <2>1, <2>2 DEF WordsBackEnd, TailLost, Forth, Progress, Inside, Want, Behind
<1>7. CASE Byte
  <2>1. ~TailLost => Progress(0, at)' /\ Forth'
    BY <1>7, ForthStep DEF Byte
  <2>2. TailLost' = TailLost
    BY <1>7 DEF Byte, TailLost, Behind
  <2> QED BY <1>7, <2>1, <2>2 DEF Byte, Stored
<1>8. CASE Done
  BY <1>8 DEF Done, Progress, Inside, Want, TailLost, Behind
<1>9. CASE UNCHANGED moveVars
  BY <1>9 DEF moveVars, Progress, Inside, Want, Forth, Overlap, TailLost, Behind
<1> QED BY <1>1, <1>2, <1>3, <1>4, <1>5, <1>6, <1>7, <1>8, <1>9 DEF MoveNext

-----------------------------------------------------------------------------
\* Every variable stays in its range.
THEOREM MoveTypes == MoveSpec => []MoveTypeOK
<1>1. MoveInv => MoveTypeOK BY DEF MoveInv
<1> QED BY <1>1, MoveInitInv, MoveNextInv, PTL DEF MoveSpec

\* Whatever the memory holds and wherever the areas lie, a finished call has
\* moved every byte, unless memmove went back and left a tail (string.c:3-38,
\* 75-111).
THEOREM MovesWhole == MoveSpec => []MovedWhole
<1>1. MoveInv => MovedWhole
  <2> SUFFICES ASSUME MoveInv, pos = "done", ~TailLost, NEW a \in Addresses
               PROVE  mem[a] = IF dest <= a /\ a < dest + len
                               THEN IF op = "memset" THEN Fill ELSE Memory0[src + (a - dest)]
                               ELSE Memory0[a]
    BY DEF MovedWhole
  <2>1. mem[a] = IF Inside(a, 0, len) THEN Want(a) ELSE Memory0[a]
    BY DEF MoveInv, Progress
  <2>2. dest \in Int /\ len \in Int
    BY BlockMoveAssumption DEF MoveInv, MoveTypeOK
  <2> QED BY <2>1, <2>2 DEF Inside, Want
<1> QED BY <1>1, MoveInitInv, MoveNextInv, PTL DEF MoveSpec

-----------------------------------------------------------------------------
\* Conversions.  The number that was converted last, and what came of it.
NumberInv ==
  stage \in {"number", "parsed"} =>
    /\ number.value \in Int /\ number.len \in Nat /\ number.base \in 2 .. 16
    /\ text = itoa(number.value, number.len, number.base)
    /\ stage = "parsed" =>
         /\ number.base = 10 /\ text.ret = 0
         /\ prefix \in Prefixes /\ parsed = atoi(prefix \o text.str)

-----------------------------------------------------------------------------
\* Arithmetic of a base, and the digits of a number in it.
LEMMA DivisionIs ==
  ASSUME NEW x \in Nat, NEW b \in Nat, b >= 2
  PROVE  /\ x \div b \in Nat /\ x % b \in 0 .. b - 1
         /\ x = (x \div b) * b + (x % b)
         /\ x \div b <= x /\ (x > 0 => x \div b < x)
         /\ x = 0 => x \div b = 0
<1> DEFINE q == x \div b
<1> DEFINE r == x % b
<1>1. q \in Int /\ r \in 0 .. b - 1 /\ x = q * b + r OBVIOUS
<1> HIDE DEF q, r
<1>2. q \in Nat
  <2>1. SUFFICES ASSUME q < 0 PROVE FALSE BY <1>1
  <2>2. PICK d \in Nat : q = -1 - d
    <3>1. -1 - q \in Nat BY <1>1, <2>1
    <3>2. q = -1 - (-1 - q) BY <1>1
    <3> QED BY <3>1, <3>2
  <2>3. q * b = -b - d * b /\ d * b \in Nat BY <2>2
  <2> QED BY <1>1, <2>3
<1>3. q * b >= 2 * q
  <2>1. PICK d \in Nat : b = 2 + d
    <3>1. b - 2 \in Nat /\ b = 2 + (b - 2) OBVIOUS
    <3> QED BY <3>1
  <2>2. q * b = 2 * q + q * d /\ q * d \in Nat BY <1>2, <2>1
  <2> QED BY <1>2, <2>2
<1>4. q <= x /\ (x > 0 => q < x) /\ (x = 0 => q = 0) BY <1>1, <1>2, <1>3
<1> QED BY <1>1, <1>2, <1>4 DEF q, r

LEMMA HalfIs == Half \in Nat /\ Half >= 1 /\ Values \in Nat /\ Values = Half + Half /\ Values >= 2
BY PrintfAssumption DEF Values

\* What is left of the number after each turn of itoa.
LEMMA LeftIs ==
  ASSUME NEW value \in Int, NEW base \in 2 .. 16
  PROVE  /\ Left(value, base) \in [0 .. Values -> 0 .. Values - 1]
         /\ Left(value, base)[0] = Unsigned(value)
         /\ \A i \in 0 .. Values - 1 : Left(value, base)[i + 1] = Left(value, base)[i] \div base
<1> DEFINE u == Unsigned(value)
<1> DEFINE X == 0 .. Values - 1
<1> DEFINE step == [n \in 1 .. Values |-> [x \in X |-> x \div base]]
<1>1. Values \in Nat /\ Values >= 2 BY HalfIs
<1>2. u \in X BY <1>1 DEF Unsigned
<1>3. \A x \in X : x \div base \in X
  <2>1. ASSUME NEW x \in X PROVE x \div base \in X
    <3>1. x \in Nat /\ base \in Nat /\ base >= 2 BY <1>1
    <3>2. x \div base \in Nat /\ x \div base <= x BY <3>1, DivisionIs
    <3> QED BY <1>1, <3>1, <3>2
  <2> QED BY <2>1
<1>5. step \in [1 .. Values -> [X -> X]]
  <2> HIDE DEF X
  <2> QED BY <1>3
<1>6. \A n \in 1 .. Values, x \in X : step[n][x] = x \div base OBVIOUS
<1> HIDE DEF u, X, step
<1>7. PICK f : Steps(f, Values, X, u, step) BY <1>1, <1>2, <1>5, Recursion
<1> DEFINE Is(g) == g = [i \in 0 .. Values |-> IF i = 0 THEN u ELSE g[i - 1] \div base]
<1>8. Is(f)
  <2>1. \A n \in 0 .. Values : f[n] = IF n = 0 THEN u ELSE f[n - 1] \div base
    <3>1. \A n \in 0 .. Values : n = 0 \/ (n \in 1 .. Values /\ n - 1 \in 0 .. Values) BY <1>1
    <3> QED BY <1>6, <1>7, <3>1 DEF Steps
  <2> QED BY <1>7, <2>1 DEF Steps
<1> DEFINE l == Left(value, base)
<1>9. Is(l) BY <1>8 DEF Left, u
<1> HIDE DEF l
<1>10. l[0] = u BY <1>1, <1>9
<1>11. ASSUME NEW i \in 0 .. Values - 1 PROVE l[i + 1] = l[i] \div base
  <2>1. i + 1 \in 0 .. Values /\ i + 1 # 0 /\ i + 1 - 1 = i BY <1>1
  <2>2. \A n \in 0 .. Values : l[n] = IF n = 0 THEN u ELSE l[n - 1] \div base BY <1>9
  <2>3. l[i + 1] = l[i + 1 - 1] \div base BY <2>1, <2>2
  <2> QED BY <2>1, <2>3
<1>12. \A i \in 0 .. Values : l[i] \in X BY <1>1, <1>2, <1>3, <1>10, <1>11, Ranges
<1>13. l \in [0 .. Values -> X] BY <1>9, <1>12
<1> QED BY <1>10, <1>11, <1>13 DEF l, u, X

\* The number shrinks at every turn until it is used up.
LEMMA LeftShrinks ==
  ASSUME NEW value \in Int, NEW base \in 2 .. 16
  PROVE  /\ Left(value, base)[Values] = 0
         /\ \A i, j \in 0 .. Values : i <= j /\ Left(value, base)[i] = 0 => Left(value, base)[j] = 0
<1> DEFINE l == Left(value, base)
<1>1. /\ l \in [0 .. Values -> 0 .. Values - 1]
      /\ \A i \in 0 .. Values - 1 : l[i + 1] = l[i] \div base
  BY LeftIs
<1>2. Values \in Nat /\ Values >= 2 BY HalfIs
<1> HIDE DEF l
<1>3. ASSUME NEW i \in 0 .. Values - 1
      PROVE  l[i] \in Nat /\ l[i + 1] \in Nat /\ (l[i] > 0 => l[i + 1] < l[i]) /\ (l[i] = 0 => l[i + 1] = 0)
  <2>1. l[i] \in Nat /\ base \in Nat /\ base >= 2
    <3>1. i \in 0 .. Values BY <1>2
    <3>2. l[i] \in 0 .. Values - 1 BY <1>1, <3>1
    <3> QED BY <1>2, <3>2
  <2>2. l[i + 1] = l[i] \div base BY <1>1
  <2>3. l[i] \div base \in Nat /\ (l[i] > 0 => l[i] \div base < l[i]) /\ (l[i] = 0 => l[i] \div base = 0)
    BY <2>1, DivisionIs
  <2> QED BY <2>1, <2>2, <2>3
<1>4. l[Values] = 0
  <2> DEFINE S == {i \in 0 .. Values : l[i] = 0 \/ l[i] + i <= Values - 1}
  <2>1. 0 \in S BY <1>1, <1>2
  <2>2. \A i \in 0 .. Values - 1 : i \in S => i + 1 \in S BY <1>2, <1>3
  <2>3. S \subseteq 0 .. Values /\ (Values \in S => l[Values] = 0)
    <3>1. Values \in 0 .. Values BY <1>2
    <3>2. l[Values] \in 0 .. Values - 1 BY <1>1, <3>1
    <3> QED BY <1>2, <3>2
  <2> HIDE DEF S
  <2>4. 0 .. Values \subseteq S BY <1>2, <2>1, <2>2, Climbs
  <2> QED BY <1>2, <2>3, <2>4
<1>5. ASSUME NEW i \in 0 .. Values, l[i] = 0
      PROVE  \A j \in 0 .. Values : i <= j => l[j] = 0
  <2> DEFINE S == {j \in 0 .. Values : i <= j => l[j] = 0}
  <2>1. 0 \in S BY <1>2, <1>5
  <2>2. ASSUME NEW j \in 0 .. Values - 1, j \in S PROVE j + 1 \in S
    <3>1. CASE i = j + 1 BY <1>2, <1>5, <3>1
    <3>2. CASE i # j + 1
      <4>1. i <= j + 1 => l[j] = 0 BY <1>2, <2>2, <3>2
      <4> QED BY <1>2, <1>3, <4>1
    <3> QED BY <3>1, <3>2
  <2> HIDE DEF S
  <2>3. 0 .. Values \subseteq S BY <1>2, <2>1, <2>2, Climbs
  <2> QED BY <2>3 DEF S
<1> QED BY <1>4, <1>5 DEF l

\* itoa stops when the number is used up, or a character before the buffer is.
LEMMA TurnsAre ==
  ASSUME NEW value \in Int, NEW base \in 2 .. 16, NEW room \in Nat, room >= 2
  PROVE  LET n == Turns(value, room, base)
         IN /\ n \in 1 .. Values /\ n <= room - 1
            /\ Left(value, base)[n] = 0 \/ n = room - 1
            /\ \A j \in 1 .. n - 1 : Left(value, base)[j] # 0
<1> DEFINE l == Left(value, base)
<1> DEFINE Last(i) == l[i] = 0 \/ i >= room - 1
<1> DEFINE S == {i \in 1 .. Values : Last(i)}
<1>1. Values \in Nat /\ Values >= 2 BY HalfIs
<1>2. l[Values] = 0 BY LeftShrinks
<1> HIDE DEF l
<1>3. S \in SUBSET Nat /\ Values \in S BY <1>1, <1>2
<1>4. PICK m \in S : \A k \in S : m <= k
  <2> HIDE DEF S
  <2> QED BY <1>3, Least
<1>5. m \in 1 .. Values /\ Last(m) /\ \A j \in 1 .. m - 1 : ~Last(j)
  <2>1. ASSUME NEW j \in 1 .. m - 1 PROVE ~Last(j)
    <3>1. m \in 1 .. Values /\ j \in 1 .. Values /\ ~(m <= j) BY <1>1
    <3>2. j \notin S
      <4> HIDE DEF S
      <4> QED BY <1>4, <3>1
    <3> QED BY <3>1, <3>2
  <2> QED BY <1>1, <2>1
<1> DEFINE n == Turns(value, room, base)
<1> DEFINE Is(i) == Last(i) /\ \A j \in 1 .. i - 1 : ~Last(j)
<1>6. n = CHOOSE i \in 1 .. Values : Is(i) BY DEF Turns, Full, l
<1>7. n \in 1 .. Values /\ Is(n)
  <2>1. m \in 1 .. Values /\ Is(m) BY <1>5
  <2> HIDE DEF n, Is
  <2> QED BY <1>6, <2>1
<1> HIDE DEF n
<1>8. n <= room - 1
  <2>1. SUFFICES ASSUME n > room - 1 PROVE FALSE BY <1>1, <1>7
  <2>2. room - 1 \in 1 .. n - 1 /\ Last(room - 1) BY <1>1, <1>7, <2>1
  <2> QED BY <1>7, <2>2
<1>9. l[n] = 0 \/ n = room - 1 BY <1>1, <1>7, <1>8
<1>10. \A j \in 1 .. n - 1 : l[j] # 0 BY <1>7
<1> QED BY <1>7, <1>8, <1>9, <1>10 DEF n, l

\* The powers of the base, with which FitsIn says how many digits a number has.
LEMMA PowersAre ==
  ASSUME NEW base \in 2 .. 16, NEW n \in Nat
  PROVE  \E w : /\ \A k \in 0 .. n : w[k] \in Nat \ {0}
                /\ w[0] = 1 /\ \A k \in 0 .. n - 1 : w[k + 1] = w[k] * base
                /\ w[n] = Power(base, n)
<1> DEFINE X == Nat \ {0}
<1> DEFINE step == [k \in 1 .. n |-> [x \in X |-> x * base]]
<1>1. \A x \in X : x * base \in X
  <2>1. ASSUME NEW x \in X PROVE x * base \in X
    <3>1. PICK y \in Nat : x = y + 1
      <4>1. x - 1 \in Nat /\ x = x - 1 + 1 OBVIOUS
      <4> QED BY <4>1
    <3>2. x * base = y * base + base /\ y * base \in Nat /\ base >= 2 BY <3>1
    <3> QED BY <3>2
  <2> QED BY <2>1
<1>2. step \in [1 .. n -> [X -> X]] /\ 1 \in X
  <2>1. 1 \in X OBVIOUS
  <2> HIDE DEF X
  <2> QED BY <1>1, <2>1
<1>3. \A k \in 1 .. n, x \in X : step[k][x] = x * base OBVIOUS
<1> HIDE DEF X, step
<1>4. PICK f : Steps(f, n, X, 1, step) BY <1>2, Recursion
<1> DEFINE Is(g) == g = [k \in 0 .. n |-> IF k = 0 THEN 1 ELSE g[k - 1] * base]
<1>5. Is(f)
  <2>1. \A k \in 0 .. n : f[k] = IF k = 0 THEN 1 ELSE f[k - 1] * base
    <3>1. \A k \in 0 .. n : k = 0 \/ (k \in 1 .. n /\ k - 1 \in 0 .. n) OBVIOUS
    <3> QED BY <1>3, <1>4, <3>1 DEF Steps
  <2> QED BY <1>4, <2>1 DEF Steps
<1> DEFINE w == CHOOSE g : Is(g)
<1>6. Is(w) BY <1>5
<1>7. w[n] = Power(base, n) BY DEF Power
<1> HIDE DEF w
<1>8. w[0] = 1 BY <1>6
<1>9. ASSUME NEW k \in 0 .. n - 1 PROVE w[k + 1] = w[k] * base
  <2>1. k + 1 \in 0 .. n /\ k + 1 # 0 /\ k + 1 - 1 = k OBVIOUS
  <2>2. \A i \in 0 .. n : w[i] = IF i = 0 THEN 1 ELSE w[i - 1] * base BY <1>6
  <2>3. w[k + 1] = w[k + 1 - 1] * base BY <2>1, <2>2
  <2> QED BY <2>1, <2>3
<1>10. \A k \in 0 .. n : w[k] \in X BY <1>1, <1>2, <1>8, <1>9, Ranges
<1> QED BY <1>7, <1>8, <1>9, <1>10 DEF X

LEMMA OneDigitMore ==
  ASSUME NEW q \in Nat, NEW b \in Nat, b >= 2, NEW s \in 0 .. b - 1, NEW w \in Nat \ {0},
         NEW r \in 0 .. w - 1
  PROVE  /\ (q * b + s) * w + r = q * (w * b) + (s * w + r)
         /\ s * w + r \in 0 .. w * b - 1
<1>1. PICK d \in Nat : b = s + 1 + d
  <2>1. b - s - 1 \in Nat /\ b = s + 1 + (b - s - 1) OBVIOUS
  <2> QED BY <2>1
<1>2. (q * b + s) * w = (q * b) * w + s * w OBVIOUS
<1>3. (q * b) * w = q * (w * b) OBVIOUS
<1>4. w * b = s * w + w + d * w BY <1>1
<1>5. s * w \in Nat /\ d * w \in Nat /\ q * (w * b) \in Nat /\ (q * b) * w \in Nat OBVIOUS
<1> QED BY <1>2, <1>3, <1>4, <1>5

\* Division with a rest.
LEMMA RemainderIs ==
  ASSUME NEW m \in Nat, m >= 1, NEW q \in Int, NEW r \in 0 .. m - 1
  PROVE  (q * m + r) % m = r /\ (q * m + r) \div m = q
<1> DEFINE x == q * m + r
<1> DEFINE q1 == x \div m
<1> DEFINE r1 == x % m
<1>1. x \in Int /\ m > 0 OBVIOUS
<1> HIDE DEF x
<1>2. q1 \in Int /\ r1 \in 0 .. m - 1 /\ x = q1 * m + r1 BY <1>1
<1> HIDE DEF q1, r1
<1>3. q * m + r = q1 * m + r1 BY <1>2 DEF x
<1>4. ASSUME NEW a \in Int, NEW b \in Int, a < b PROVE a * m + m <= b * m
  <2>1. PICK d \in Nat : b = a + 1 + d
    <3>1. b - a - 1 \in Nat /\ b = a + 1 + (b - a - 1) BY <1>4
    <3> QED BY <3>1
  <2>2. b * m = a * m + m + d * m /\ d * m \in Nat /\ a * m \in Int BY <2>1
  <2> QED BY <2>2
<1>5. q * m \in Int /\ q1 * m \in Int BY <1>2
<1>6. ~(q < q1) BY <1>2, <1>3, <1>4, <1>5
<1>7. ~(q1 < q) BY <1>2, <1>3, <1>4, <1>5
<1>8. q = q1 BY <1>2, <1>6, <1>7
<1> QED BY <1>2, <1>3, <1>5, <1>8 DEF x, q1, r1

\* The powers of a base.
LEMMA PowerIs ==
  ASSUME NEW base \in 2 .. 16
  PROVE  /\ Power(base, 0) = 1
         /\ \A n \in Nat : Power(base, n) \in Nat \ {0} /\ Power(base, n + 1) = Power(base, n) * base
<1>1. ASSUME NEW n \in Nat, NEW m \in Nat, m <= n,
             NEW v, v[0] = 1, \A k \in 0 .. n - 1 : v[k + 1] = v[k] * base
      PROVE  Power(base, m) = v[m]
  <2>1. PICK w : /\ \A k \in 0 .. m : w[k] \in Nat \ {0}
                 /\ w[0] = 1 /\ \A k \in 0 .. m - 1 : w[k + 1] = w[k] * base
                 /\ w[m] = Power(base, m)
    BY PowersAre
  <2> DEFINE S == {k \in 0 .. m : w[k] = v[k]}
  <2>2. 0 \in S BY <1>1, <2>1
  <2>3. ASSUME NEW k \in 0 .. m - 1, k \in S PROVE k + 1 \in S
    <3>1. k \in 0 .. n - 1 /\ k + 1 \in 0 .. m BY <1>1
    <3>2. w[k + 1] = w[k] * base /\ v[k + 1] = v[k] * base /\ w[k] = v[k]
      BY <1>1, <2>1, <2>3, <3>1
    <3> QED BY <3>1, <3>2
  <2> HIDE DEF S
  <2>4. 0 .. m \subseteq S BY <2>2, <2>3, Climbs
  <2>5. m \in S BY <2>4
  <2> QED BY <2>1, <2>5 DEF S
<1>2. ASSUME NEW n \in Nat
      PROVE  Power(base, n) \in Nat \ {0} /\ Power(base, n + 1) = Power(base, n) * base
  <2> DEFINE m == n + 1
  <2>1. m \in Nat /\ n <= m /\ m <= m /\ n \in 0 .. m - 1 /\ n \in 0 .. m /\ m = n + 1 OBVIOUS
  <2> HIDE DEF m
  <2>2. PICK w : /\ \A k \in 0 .. m : w[k] \in Nat \ {0}
                 /\ w[0] = 1 /\ \A k \in 0 .. m - 1 : w[k + 1] = w[k] * base
                 /\ w[m] = Power(base, m)
    BY <2>1, PowersAre
  <2>3. Power(base, n) = w[n] BY <1>1, <2>1, <2>2
  <2>4. w[m] = w[n] * base BY <2>1, <2>2
  <2> QED BY <2>1, <2>2, <2>3, <2>4
<1>3. Power(base, 0) = 1
  <2>1. 0 \in Nat /\ 0 \in 0 .. 0 OBVIOUS
  <2>2. PICK w : w[0] = 1 /\ w[0] = Power(base, 0) BY <2>1, PowersAre
  <2> QED BY <2>2
<1> QED BY <1>2, <1>3

\* After i turns itoa has divided the number by the i-th power of the base.
LEMMA LeftDivides ==
  ASSUME NEW value \in Int, NEW base \in 2 .. 16, NEW i \in 0 .. Values
  PROVE  /\ Left(value, base)[i] = Unsigned(value) \div Power(base, i)
         /\ Left(value, base)[i] = 0 <=> FitsIn(Unsigned(value), i, base)
<1> DEFINE l == Left(value, base)
<1> DEFINE u == Unsigned(value)
<1> DEFINE w(k) == Power(base, k)
<1> DEFINE Parts(k) == \E r \in 0 .. w(k) - 1 : u = l[k] * w(k) + r
<1> DEFINE S == {k \in 0 .. Values : Parts(k)}
<1>1. /\ l \in [0 .. Values -> 0 .. Values - 1] /\ l[0] = u
      /\ \A k \in 0 .. Values - 1 : l[k + 1] = l[k] \div base
  BY LeftIs
<1>2. Values \in Nat /\ Values >= 2 /\ base \in Nat /\ base >= 2 BY HalfIs
<1>3. w(0) = 1 /\ \A k \in Nat : w(k) \in Nat \ {0} /\ w(k + 1) = w(k) * base BY PowerIs
<1> HIDE DEF l, u, w
<1>4. \A k \in 0 .. Values : l[k] \in Nat
  <2>1. ASSUME NEW k \in 0 .. Values PROVE l[k] \in Nat
    <3>1. l[k] \in 0 .. Values - 1 BY <1>1
    <3> QED BY <1>2, <3>1
  <2> QED BY <2>1
<1>5. u \in Nat
  <2>1. 0 \in 0 .. Values BY <1>2
  <2> QED BY <1>1, <1>4, <2>1
<1>6. 0 \in S
  <2>1. w(0) = 1 /\ l[0] = u BY <1>1, <1>3
  <2>2. 0 \in 0 .. 1 - 1 /\ u = u * 1 + 0 BY <1>5
  <2>3. Parts(0) BY <2>1, <2>2
  <2>4. 0 \in 0 .. Values BY <1>2
  <2> HIDE DEF Parts
  <2> QED BY <2>3, <2>4
<1>7. ASSUME NEW k \in 0 .. Values - 1, k \in S PROVE k + 1 \in S
  <2>1. k \in Nat /\ k \in 0 .. Values /\ k + 1 \in 0 .. Values BY <1>2
  <2>2. w(k) \in Nat \ {0} /\ w(k + 1) = w(k) * base BY <1>3, <2>1
  <2>3. PICK r \in 0 .. w(k) - 1 : u = l[k] * w(k) + r BY <1>7
  <2> DEFINE q == l[k] \div base
  <2> DEFINE t == l[k] % base
  <2>4. l[k] \in Nat /\ l[k + 1] = q BY <1>1, <1>4, <2>1
  <2>5. q \in Nat /\ t \in 0 .. base - 1 /\ l[k] = q * base + t BY <1>2, <2>4, DivisionIs
  <2> HIDE DEF q, t
  <2>6. /\ (q * base + t) * w(k) + r = q * (w(k) * base) + (t * w(k) + r)
        /\ t * w(k) + r \in 0 .. w(k) * base - 1
    BY <1>2, <2>2, <2>3, <2>5, OneDigitMore
  <2>7. u = l[k + 1] * w(k + 1) + (t * w(k) + r) /\ t * w(k) + r \in 0 .. w(k + 1) - 1
    BY <2>2, <2>3, <2>4, <2>5, <2>6
  <2>8. Parts(k + 1) BY <2>7
  <2> HIDE DEF Parts
  <2> QED BY <2>1, <2>8
<1>8. Parts(i)
  <2> HIDE DEF S
  <2>1. 0 .. Values \subseteq S BY <1>2, <1>6, <1>7, Climbs
  <2>2. i \in S BY <2>1
  <2> QED BY <2>2 DEF S
<1>9. PICK r \in 0 .. w(i) - 1 : u = l[i] * w(i) + r BY <1>8
<1>10. i \in Nat /\ l[i] \in Nat /\ w(i) \in Nat /\ w(i) >= 1
  <2>1. i \in Nat BY <1>2
  <2>2. w(i) \in Nat \ {0} BY <1>3, <2>1
  <2> QED BY <1>4, <2>1, <2>2
<1>11. l[i] = u \div w(i)
  <2>1. l[i] \in Int BY <1>10
  <2>2. (l[i] * w(i) + r) \div w(i) = l[i] BY <1>10, <2>1, RemainderIs
  <2> QED BY <1>9, <2>2
<1>12. l[i] = 0 <=> u < w(i)
  <2>1. CASE l[i] = 0 BY <1>9, <1>10, <2>1
  <2>2. CASE l[i] # 0
    <3>1. PICK e \in Nat : l[i] = e + 1
      <4>1. l[i] - 1 \in Nat /\ l[i] = l[i] - 1 + 1 BY <1>10, <2>2
      <4> QED BY <4>1
    <3>2. l[i] * w(i) = e * w(i) + w(i) /\ e * w(i) \in Nat BY <1>10, <3>1
    <3> QED BY <1>9, <1>10, <2>2, <3>2
  <2> QED BY <2>1, <2>2
<1> QED BY <1>11, <1>12 DEF l, u, w, FitsIn

\* What fits fits in more digits of a wider base.
LEMMA Roomier ==
  ASSUME NEW u \in Nat, NEW base \in 2 .. 16, NEW wider \in 2 .. 16, base <= wider,
         NEW d \in Nat, NEW e \in Nat, d <= e, FitsIn(u, d, base)
  PROVE  FitsIn(u, e, wider)
<1> DEFINE S == {k \in 0 .. e : /\ Power(base, k) <= Power(wider, k)
                                /\ k >= d => Power(base, d) <= Power(base, k)}
<1>1. \A k \in Nat : /\ Power(base, k) \in Nat /\ Power(base, k + 1) = Power(base, k) * base
                     /\ Power(wider, k) \in Nat /\ Power(wider, k + 1) = Power(wider, k) * wider
  BY PowerIs
<1>2. 0 \in S
  <2>1. Power(base, 0) = 1 /\ Power(wider, 0) = 1 BY PowerIs
  <2> QED BY <2>1
<1>3. ASSUME NEW k \in 0 .. e - 1, k \in S PROVE k + 1 \in S
  <2> DEFINE x == Power(base, k)
  <2> DEFINE y == Power(wider, k)
  <2>1. k \in Nat OBVIOUS
  <2>2. /\ x \in Nat /\ y \in Nat /\ x <= y
        /\ Power(base, k + 1) = x * base /\ Power(wider, k + 1) = y * wider
        /\ k >= d => Power(base, d) <= x
    BY <1>1, <1>3, <2>1
  <2> HIDE DEF x, y
  <2>3. x * base <= y * wider
    <3>1. PICK a \in Nat : y = x + a
      <4>1. y - x \in Nat /\ y = x + (y - x) BY <2>2
      <4> QED BY <4>1
    <3>2. PICK b \in Nat : wider = base + b
      <4>1. wider - base \in Nat /\ wider = base + (wider - base) OBVIOUS
      <4> QED BY <4>1
    <3>3. y * wider = x * base + (x * b + a * wider) BY <2>2, <3>1, <3>2
    <3>4. x * b \in Nat /\ a * wider \in Nat /\ x * base \in Nat BY <2>2
    <3> QED BY <3>3, <3>4
  <2>4. x <= x * base
    <3>1. PICK b \in Nat : base = 1 + b
      <4>1. base - 1 \in Nat /\ base = 1 + (base - 1) OBVIOUS
      <4> QED BY <4>1
    <3>2. x * base = x + x * b /\ x * b \in Nat BY <2>2, <3>1
    <3> QED BY <2>2, <3>2
  <2>5. k + 1 >= d => Power(base, d) <= Power(base, k + 1)
    <3>1. CASE k + 1 = d
      <4>1. Power(base, d) \in Nat BY <1>1
      <4> QED BY <3>1, <4>1
    <3>2. CASE k + 1 # d
      <4>1. Power(base, d) \in Nat /\ x * base \in Nat BY <1>1, <2>2
      <4> QED BY <2>1, <2>2, <2>4, <3>2, <4>1
    <3> QED BY <3>1, <3>2
  <2>6. k + 1 \in 0 .. e OBVIOUS
  <2> QED BY <2>2, <2>3, <2>5, <2>6
<1> HIDE DEF S
<1>4. 0 .. e \subseteq S BY <1>2, <1>3, Climbs
<1>5. e \in S BY <1>4
<1>6. Power(base, e) <= Power(wider, e) /\ Power(base, d) <= Power(base, e) BY <1>5 DEF S
<1>7. Power(base, e) \in Nat /\ Power(base, d) \in Nat /\ Power(wider, e) \in Nat BY <1>1
<1> QED BY <1>6, <1>7 DEF FitsIn

\* The number is used up when it fits in the characters there are for it.
LEMMA FitsIs ==
  ASSUME NEW value \in Int, NEW base \in 2 .. 16, NEW room \in Nat, room >= 2
  PROVE  Left(value, base)[Turns(value, room, base)] = 0 <=> FitsIn(Unsigned(value), room - 1, base)
<1> DEFINE l == Left(value, base)
<1> DEFINE n == Turns(value, room, base)
<1> DEFINE u == Unsigned(value)
<1> DEFINE d == room - 1
<1>1. n \in 1 .. Values /\ n <= d /\ (l[n] = 0 \/ n = d) BY TurnsAre
<1>2. l[Values] = 0 /\ \A i, j \in 0 .. Values : i <= j /\ l[i] = 0 => l[j] = 0 BY LeftShrinks
<1>3. Values \in Nat /\ d \in Nat BY HalfIs
<1>4. \A i \in 0 .. Values : l[i] = 0 <=> FitsIn(u, i, base) BY LeftDivides
<1>5. u \in Nat
  <2>1. l[0] = u /\ l \in [0 .. Values -> 0 .. Values - 1] BY LeftIs
  <2>2. 0 \in 0 .. Values BY <1>3
  <2> HIDE DEF l, u
  <2>3. l[0] \in 0 .. Values - 1 BY <2>1, <2>2
  <2> QED BY <1>3, <2>1, <2>3
<1> HIDE DEF l, n, u, d
<1>6. CASE d <= Values
  <2>1. d \in 0 .. Values /\ n \in 0 .. Values BY <1>1, <1>3, <1>6
  <2>2. l[n] = 0 <=> l[d] = 0 BY <1>1, <1>2, <2>1
  <2>3. l[d] = 0 <=> FitsIn(u, d, base) BY <1>4, <2>1
  <2> QED BY <2>2, <2>3 DEF l, n, u, d
<1>7. CASE ~(d <= Values)
  <2>1. l[n] = 0 BY <1>1, <1>3, <1>7
  <2>2. Values \in 0 .. Values /\ Values <= d BY <1>3, <1>7
  <2>3. FitsIn(u, Values, base) BY <1>2, <1>4, <2>2
  <2>4. base <= base /\ Values \in Nat /\ d \in Nat BY <1>3
  <2>5. FitsIn(u, d, base) BY <1>5, <2>2, <2>3, <2>4, Roomier
  <2> QED BY <2>1, <2>5 DEF l, n, u, d
<1> QED BY <1>6, <1>7

\* A digit is read as what it was written for, and no other character is.
LEMMA DigitsAre ==
  ASSUME NEW d \in 0 .. 15
  PROVE  /\ DigitValue(Digits[d + 1]) = d
         /\ Digits[d + 1] \notin Blanks \cup {"-", "+"}
         /\ Digits[d + 1] = "0" <=> d = 0
         /\ d <= 9 => Digits[d + 1] \in Decimals
<1>1. /\ Digits[1] = "0" /\ Digits[2] = "1" /\ Digits[3] = "2" /\ Digits[4] = "3"
      /\ Digits[5] = "4" /\ Digits[6] = "5" /\ Digits[7] = "6" /\ Digits[8] = "7"
      /\ Digits[9] = "8" /\ Digits[10] = "9" /\ Digits[11] = "a" /\ Digits[12] = "b"
      /\ Digits[13] = "c" /\ Digits[14] = "d" /\ Digits[15] = "e" /\ Digits[16] = "f"
  BY DEF Digits
<1>2. /\ Capitals[1] = "0" /\ Capitals[2] = "1" /\ Capitals[3] = "2" /\ Capitals[4] = "3"
      /\ Capitals[5] = "4" /\ Capitals[6] = "5" /\ Capitals[7] = "6" /\ Capitals[8] = "7"
      /\ Capitals[9] = "8" /\ Capitals[10] = "9" /\ Capitals[11] = "A" /\ Capitals[12] = "B"
      /\ Capitals[13] = "C" /\ Capitals[14] = "D" /\ Capitals[15] = "E" /\ Capitals[16] = "F"
  BY DEF Capitals
<1>3. \A e \in 1 .. 16 : \/ e = 1 \/ e = 2 \/ e = 3 \/ e = 4 \/ e = 5 \/ e = 6 \/ e = 7 \/ e = 8
                         \/ e = 9 \/ e = 10 \/ e = 11 \/ e = 12 \/ e = 13 \/ e = 14 \/ e = 15 \/ e = 16
  OBVIOUS
<1>4. d + 1 \in 1 .. 16 OBVIOUS
<1>5. \A e \in 1 .. 16 : Digits[e] = Digits[d + 1] \/ Capitals[e] = Digits[d + 1] => e = d + 1
  BY <1>1, <1>2, <1>3, <1>4
<1>6. DigitValue(Digits[d + 1]) = d
  <2> DEFINE c == Digits[d + 1]
  <2> DEFINE Names(e) == Digits[e] = c \/ Capitals[e] = c
  <2> DEFINE e0 == CHOOSE e \in 1 .. 16 : Names(e)
  <2>1. DigitValue(c) = e0 - 1 BY DEF DigitValue
  <2>2. Names(d + 1) /\ \A e \in 1 .. 16 : Names(e) => e = d + 1 BY <1>5
  <2>3. e0 = d + 1
    <3> HIDE DEF Names
    <3> QED BY <1>4, <2>2
  <2> HIDE DEF e0
  <2> QED BY <2>1, <2>3
<1>7. Digits[d + 1] \notin Blanks \cup {"-", "+"} BY <1>1, <1>3, <1>4 DEF Blanks
<1>8. Digits[d + 1] = "0" <=> d = 0 BY <1>1, <1>3, <1>4
<1>9. d <= 9 => Digits[d + 1] \in Decimals
  <2>1. d <= 9 => d + 1 \in 1 .. 10 OBVIOUS
  <2> QED BY <2>1 DEF Decimals
<1> QED BY <1>6, <1>7, <1>8, <1>9

\* The number of a string is what any function that takes the steps arrives at.
LEMMA NumberIs ==
  ASSUME NEW s, Len(s) \in Nat, NEW base, NEW g, g[0] = 0,
         \A k \in 0 .. Len(s) - 1 : g[k + 1] = g[k] * base + DigitValue(s[k + 1])
  PROVE  NumberOf(s, base) = g[Len(s)]
<1> DEFINE n == Len(s)
<1> DEFINE Is(h) == h = [k \in 0 .. n |-> IF k = 0 THEN 0 ELSE h[k - 1] * base + DigitValue(s[k])]
<1> DEFINE upto == CHOOSE h : Is(h)
<1>1. Is([k \in 0 .. n |-> g[k]])
  <2> DEFINE h == [k \in 0 .. n |-> g[k]]
  <2>1. ASSUME NEW k \in 0 .. n
        PROVE  h[k] = IF k = 0 THEN 0 ELSE h[k - 1] * base + DigitValue(s[k])
    <3>1. CASE k = 0 BY <3>1
    <3>2. CASE k # 0
      <4>1. k - 1 \in 0 .. n - 1 /\ k - 1 \in 0 .. n /\ k - 1 + 1 = k BY <3>2
      <4>2. g[k - 1 + 1] = g[k - 1] * base + DigitValue(s[k - 1 + 1]) BY <4>1
      <4> QED BY <3>2, <4>1, <4>2
    <3> QED BY <3>1, <3>2
  <2>2. h = [k \in 0 .. n |-> h[k]] OBVIOUS
  <2> HIDE DEF h
  <2>3. Is(h) BY <2>1, <2>2
  <2> QED BY <2>3 DEF h
<1>2. Is(upto)
  <2> HIDE DEF Is
  <2> QED BY <1>1
<1>3. NumberOf(s, base) = upto[n] BY DEF NumberOf
<1> HIDE DEF upto
<1> DEFINE S == {k \in 0 .. n : upto[k] = g[k]}
<1>4. 0 \in S BY <1>2
<1>5. ASSUME NEW k \in 0 .. n - 1, k \in S PROVE k + 1 \in S
  <2>1. k + 1 \in 0 .. n /\ k + 1 # 0 /\ k + 1 - 1 = k OBVIOUS
  <2>2. \A j \in 0 .. n : upto[j] = IF j = 0 THEN 0 ELSE upto[j - 1] * base + DigitValue(s[j]) BY <1>2
  <2>3. upto[k + 1] = upto[k + 1 - 1] * base + DigitValue(s[k + 1]) BY <2>1, <2>2
  <2>4. upto[k + 1] = g[k + 1] BY <1>5, <2>1, <2>3
  <2> QED BY <2>1, <2>4
<1> HIDE DEF S
<1>6. 0 .. n \subseteq S BY <1>4, <1>5, Climbs
<1> QED BY <1>3, <1>6 DEF S

\* strrev turns a string round, whatever its length.
LEMMA ReversedIs ==
  ASSUME NEW X, NEW s \in Seq(X)
  PROVE  /\ strrev(s) \in Seq(X) /\ Len(strrev(s)) = Len(s)
         /\ \A j \in 1 .. Len(s) : strrev(s)[j] = s[Len(s) + 1 - j]
<1> DEFINE n == Len(s)
<1> DEFINE m == n \div 2
<1> DEFINE Y == [1 .. n -> X]
<1> DEFINE Turned(k, w) == [j \in 1 .. n |-> IF j \in {k, n - k + 1} THEN w[n + 1 - j] ELSE w[j]]
<1> DEFINE step == [k \in 1 .. m |-> [w \in Y |-> Turned(k, w)]]
<1>1. n \in Nat /\ s \in Y /\ DOMAIN s = 1 .. n OBVIOUS
<1>2. m \in Nat /\ 2 * m <= n /\ n <= 2 * m + 1 BY <1>1
<1> HIDE DEF n, m
<1>3. ASSUME NEW k, NEW w \in Y PROVE Turned(k, w) \in Y
  <2>1. \A j \in 1 .. n : n + 1 - j \in 1 .. n BY <1>1
  <2> QED BY <2>1
<1>4. step \in [1 .. m -> [Y -> Y]] /\ \A k \in 1 .. m, w \in Y : step[k][w] = Turned(k, w)
  <2> HIDE DEF Turned, Y
  <2> QED BY <1>3
<1> HIDE DEF step
<1>5. PICK f : Steps(f, m, Y, s, step)
  <2> HIDE DEF Y
  <2> QED BY <1>1, <1>2, <1>4, Recursion
<1> DEFINE Is(h) == h = [k \in 0 .. m |-> IF k = 0 THEN s ELSE Turned(k, h[k - 1])]
<1> DEFINE swapped == CHOOSE h : Is(h)
<1>6. Is(f)
  <2>1. \A k \in 0 .. m : f[k] = IF k = 0 THEN s ELSE Turned(k, f[k - 1])
    <3> HIDE DEF Turned, Y
    <3>1. \A k \in 0 .. m : k = 0 \/ (k \in 1 .. m /\ k - 1 \in 0 .. m) BY <1>2
    <3> QED BY <1>4, <1>5, <3>1 DEF Steps
  <2> HIDE DEF Turned, Y
  <2> QED BY <1>5, <2>1 DEF Steps
<1>7. Is(swapped)
  <2> HIDE DEF Is
  <2> QED BY <1>6
<1>8. strrev(s) = swapped[m] BY <1>1 DEF strrev, n, m
<1> HIDE DEF swapped
<1> DEFINE At(k, j) == swapped[k][j] = IF j <= k \/ j > n - k THEN s[n + 1 - j] ELSE s[j]
<1> DEFINE S == {k \in 0 .. m : swapped[k] \in Y /\ \A j \in 1 .. n : At(k, j)}
<1>9. 0 \in S
  <2>1. swapped[0] = s BY <1>2, <1>7
  <2> QED BY <1>1, <1>2, <2>1
<1>10. ASSUME NEW k \in 0 .. m - 1, k \in S PROVE k + 1 \in S
  <2>1. k + 1 \in 0 .. m /\ k + 1 # 0 /\ k + 1 - 1 = k /\ k \in Nat /\ 2 * (k + 1) <= n
    BY <1>1, <1>2
  <2>2. swapped[k + 1] = Turned(k + 1, swapped[k])
    <3> HIDE DEF Turned
    <3>1. \A i \in 0 .. m : swapped[i] = IF i = 0 THEN s ELSE Turned(i, swapped[i - 1]) BY <1>7
    <3> QED BY <2>1, <3>1
  <2>3. swapped[k + 1] \in Y
    <3> HIDE DEF Turned, Y
    <3> QED BY <1>3, <1>10, <2>2
  <2>4. ASSUME NEW j \in 1 .. n PROVE At(k + 1, j)
    <3>1. n + 1 - j \in 1 .. n /\ n + 1 - (n + 1 - j) = j BY <1>1
    <3>2. At(k, j) /\ At(k, n + 1 - j) BY <1>10, <3>1
    <3>3. swapped[k + 1][j] = IF j \in {k + 1, n - (k + 1) + 1} THEN swapped[k][n + 1 - j] ELSE swapped[k][j]
      BY <2>2
    <3>4. CASE j \in {k + 1, n - (k + 1) + 1}
      <4>1. ~(n + 1 - j <= k \/ n + 1 - j > n - k) BY <1>1, <2>1, <3>4
      <4>2. swapped[k + 1][j] = s[n + 1 - j] BY <3>2, <3>3, <3>4, <4>1
      <4>3. j <= k + 1 \/ j > n - (k + 1) BY <1>1, <2>1, <3>4
      <4> QED BY <4>2, <4>3
    <3>5. CASE j \notin {k + 1, n - (k + 1) + 1}
      <4>1. (j <= k \/ j > n - k) <=> (j <= k + 1 \/ j > n - (k + 1)) BY <1>1, <2>1, <3>5
      <4> QED BY <3>2, <3>3, <3>5, <4>1
    <3> QED BY <3>4, <3>5
  <2> HIDE DEF At, Y
  <2> QED BY <2>1, <2>3, <2>4
<1>11. m \in S
  <2> HIDE DEF S
  <2>1. 0 .. m \subseteq S BY <1>2, <1>9, <1>10, Climbs
  <2> QED BY <1>2, <2>1
<1>12. \A j \in 1 .. n : strrev(s)[j] = s[n + 1 - j]
  <2>1. ASSUME NEW j \in 1 .. n PROVE swapped[m][j] = s[n + 1 - j]
    <3>1. At(m, j) BY <1>11
    <3>2. j <= m \/ j > n - m \/ n + 1 - j = j BY <1>1, <1>2
    <3> QED BY <3>1, <3>2
  <2> QED BY <1>8, <2>1
<1>13. strrev(s) \in [1 .. n -> X] BY <1>8, <1>11
<1>14. strrev(s) \in Seq(X) /\ Len(strrev(s)) = n
  <2> HIDE DEF S
  <2> QED BY <1>1, <1>13
<1> QED BY <1>12, <1>14 DEF n

\* What itoa makes of a number.
LEMMA ItoaIs ==
  ASSUME NEW value \in Int, NEW base \in 2 .. 16, NEW room \in Nat, room >= 2
  PROVE  LET r == itoa(value, room, base)
             n == Turns(value, room, base)
             l == Left(value, base)
         IN /\ r.stored <= room
            /\ r.ret = 0 <=> l[n] = 0
            /\ r.str \in Seq({Digits[d + 1] : d \in 0 .. base - 1}) /\ Len(r.str) = n
            /\ r.ret = 0 => \A k \in 1 .. n : r.str[k] = Digits[(l[n - k] % base) + 1]
<1> DEFINE r == itoa(value, room, base)
<1> DEFINE n == Turns(value, room, base)
<1> DEFINE l == Left(value, base)
<1> DEFINE str0 == [i \in 1 .. n |-> Digits[(l[i - 1] % base) + 1]]
<1> DEFINE D == {Digits[d + 1] : d \in 0 .. base - 1}
<1>1. n \in 1 .. Values /\ n <= room - 1 /\ (l[n] = 0 \/ n = room - 1) BY TurnsAre
<1>2. l \in [0 .. Values -> 0 .. Values - 1] BY LeftIs
<1>3. Values \in Nat /\ base \in Nat /\ base >= 2 /\ ~(room = 0 \/ base < 2 \/ base > 36) BY HalfIs
<1>4. r = IF n = room - 1 /\ l[n] # 0
          THEN [ret |-> -1, str |-> str0, stored |-> n]
          ELSE [ret |-> 0, str |-> strrev(str0), stored |-> n + 1]
  BY <1>3 DEF itoa
<1> HIDE DEF r, n, l
<1>5. str0 \in Seq(D) /\ Len(str0) = n
  <2>1. ASSUME NEW i \in 1 .. n PROVE Digits[(l[i - 1] % base) + 1] \in D
    <3>1. i - 1 \in 0 .. Values BY <1>1, <1>3
    <3>2. l[i - 1] \in 0 .. Values - 1 BY <1>2, <3>1
    <3>3. l[i - 1] \in Nat BY <1>3, <3>2
    <3>4. l[i - 1] % base \in 0 .. base - 1 BY <1>3, <3>3, DivisionIs
    <3> QED BY <3>4
  <2> HIDE DEF D
  <2>2. n \in Nat BY <1>1, <1>3
  <2>3. str0 \in [1 .. n -> D] BY <2>1
  <2> QED BY <2>2, <2>3
<1>6. /\ strrev(str0) \in Seq(D) /\ Len(strrev(str0)) = n
      /\ \A k \in 1 .. n : strrev(str0)[k] = str0[n + 1 - k]
  <2> HIDE DEF str0, D
  <2> QED BY <1>5, ReversedIs
<1>7. ASSUME NEW k \in 1 .. n PROVE strrev(str0)[k] = Digits[(l[n - k] % base) + 1]
  <2>1. n + 1 - k \in 1 .. n /\ n + 1 - k - 1 = n - k BY <1>1, <1>3
  <2>2. \A i \in 1 .. n : str0[i] = Digits[(l[i - 1] % base) + 1] OBVIOUS
  <2> HIDE DEF str0
  <2> DEFINE i == n + 1 - k
  <2>3. str0[i] = Digits[(l[i - 1] % base) + 1] BY <2>1, <2>2
  <2>4. i - 1 = n - k /\ strrev(str0)[k] = str0[i] BY <1>6, <2>1
  <2> HIDE DEF i
  <2> QED BY <2>3, <2>4
<1> HIDE DEF str0, D
<1>8. r.stored <= room BY <1>1, <1>3, <1>4
<1>9. r.ret = 0 <=> l[n] = 0 BY <1>1, <1>4
<1>10. r.ret = 0 => r.str = strrev(str0) BY <1>1, <1>4
<1>11. r.str = str0 \/ r.str = strrev(str0) BY <1>4
<1> QED BY <1>5, <1>6, <1>7, <1>8, <1>9, <1>10, <1>11 DEF r, n, l, D

\* What itoa writes is the number, and begins with no zero but its own.
LEMMA WrittenIs ==
  ASSUME NEW value \in Int, NEW base \in 2 .. 16, NEW room \in Nat, room >= 2,
         itoa(value, room, base).ret = 0
  PROVE  LET str0 == itoa(value, room, base).str
         IN /\ NumberOf(str0, base) = Unsigned(value)
            /\ str0[1] = "0" => str0 = <<"0">>
<1> DEFINE t == itoa(value, room, base).str
<1> DEFINE n == Turns(value, room, base)
<1> DEFINE l == Left(value, base)
<1>1. n \in 1 .. Values /\ \A j \in 1 .. n - 1 : l[j] # 0 BY TurnsAre
<1>2. /\ l \in [0 .. Values -> 0 .. Values - 1] /\ l[0] = Unsigned(value)
      /\ \A i \in 0 .. Values - 1 : l[i + 1] = l[i] \div base
  BY LeftIs
<1>3. /\ l[n] = 0 /\ Len(t) = n /\ t \in Seq({Digits[d + 1] : d \in 0 .. base - 1})
      /\ \A k \in 1 .. n : t[k] = Digits[(l[n - k] % base) + 1]
  BY ItoaIs
<1>4. Values \in Nat /\ base \in Nat /\ base >= 2 /\ n \in Nat BY <1>1, HalfIs
<1> HIDE DEF t, n, l
<1>5. ASSUME NEW i \in 0 .. n - 1
      PROVE  /\ l[i] \in Nat /\ l[i + 1] \in Nat /\ (l[i] % base) \in 0 .. 15
             /\ l[i] = l[i + 1] * base + (l[i] % base)
  <2>1. i \in 0 .. Values - 1 /\ i \in 0 .. Values BY <1>1, <1>4
  <2>2. l[i] \in 0 .. Values - 1 BY <1>2, <2>1
  <2>3. l[i] \in Nat BY <1>4, <2>2
  <2>4. l[i + 1] = l[i] \div base BY <1>2, <2>1
  <2>5. /\ l[i] \div base \in Nat /\ l[i] % base \in 0 .. base - 1
        /\ l[i] = (l[i] \div base) * base + (l[i] % base)
    BY <1>4, <2>3, DivisionIs
  <2> DEFINE q == l[i] \div base
  <2> DEFINE r == l[i] % base
  <2>6. l[i + 1] = q /\ q \in Nat /\ r \in 0 .. base - 1 /\ l[i] = q * base + r BY <2>4, <2>5
  <2> HIDE DEF q, r
  <2>7. r \in 0 .. 15 /\ l[i + 1] \in Nat /\ l[i] = l[i + 1] * base + r BY <1>4, <2>6
  <2> QED BY <2>3, <2>7 DEF r
<1> DEFINE g == [k \in 0 .. n |-> l[n - k]]
<1>6. g[0] = 0 /\ g[n] = l[0] BY <1>3, <1>4
<1>7. ASSUME NEW k \in 0 .. n - 1 PROVE g[k + 1] = g[k] * base + DigitValue(t[k + 1])
  <2> DEFINE i == n - (k + 1)
  <2>1. i \in 0 .. n - 1 /\ n - k = i + 1 /\ k \in 0 .. n /\ k + 1 \in 0 .. n /\ k + 1 \in 1 .. n BY <1>4
  <2>2. g[k + 1] = l[i] /\ g[k] = l[i + 1] BY <2>1
  <2>3. t[k + 1] = Digits[(l[i] % base) + 1] BY <1>3, <2>1
  <2> HIDE DEF i, g
  <2>4. DigitValue(t[k + 1]) = l[i] % base
    <3>1. l[i] % base \in 0 .. 15 BY <1>5, <2>1
    <3> QED BY <2>3, <3>1, DigitsAre
  <2> QED BY <1>5, <2>1, <2>2, <2>4
<1>8. NumberOf(t, base) = Unsigned(value)
  <2> HIDE DEF g
  <2>1. Len(t) = n BY <1>3
  <2>2. NumberOf(t, base) = g[Len(t)] BY <1>4, <1>6, <1>7, <2>1, NumberIs
  <2> QED BY <1>2, <1>6, <2>1, <2>2
<1>9. ASSUME t[1] = "0" PROVE t = <<"0">>
  <2>1. n - 1 \in 0 .. n - 1 /\ 1 \in 1 .. n /\ n - 1 + 1 = n BY <1>1, <1>4
  <2>2. l[n - 1] % base = 0
    <3>1. t[1] = Digits[(l[n - 1] % base) + 1] BY <1>3, <2>1
    <3>2. l[n - 1] % base \in 0 .. 15 BY <1>5, <2>1
    <3> QED BY <1>9, <3>1, <3>2, DigitsAre
  <2>3. l[n - 1] = 0
    <3>1. l[n - 1] = l[n - 1 + 1] * base + (l[n - 1] % base) BY <1>5, <2>1
    <3>2. l[n - 1] = l[n] * base + 0 BY <2>1, <2>2, <3>1
    <3> QED BY <1>3, <1>4, <3>2
  <2>4. n = 1 BY <1>1, <1>4, <2>3
  <2> QED BY <1>3, <1>9, <2>4
<1> QED BY <1>8, <1>9 DEF t

-----------------------------------------------------------------------------
\* Ints.
\* Numbers that differ by whole ranges of an int are the same int.
LEMMA SameInt ==
  ASSUME NEW x \in Int, NEW j \in Int
  PROVE  Unsigned(x + j * Values) = Unsigned(x) /\ Signed(x + j * Values) = Signed(x)
<1> DEFINE m == Values
<1> DEFINE q == x \div m
<1> DEFINE r == x % m
<1>1. m \in Nat /\ m >= 1 BY HalfIs
<1> HIDE DEF m
<1>2. q \in Int /\ r \in 0 .. m - 1 /\ x = q * m + r BY <1>1
<1>3. r = x % m OBVIOUS
<1> HIDE DEF q, r
<1>4. x + j * m = (q + j) * m + r
  <2>1. (q + j) * m = q * m + j * m /\ q * m \in Int /\ j * m \in Int BY <1>1, <1>2
  <2> QED BY <1>1, <1>2, <2>1
<1>5. (x + j * m) % m = r
  <2>1. q + j \in Int BY <1>2
  <2> QED BY <1>1, <1>2, <1>4, <2>1, RemainderIs
<1>6. Unsigned(x + j * m) = Unsigned(x) BY <1>3, <1>5 DEF Unsigned, m
<1> QED BY <1>6 DEF Signed, m

LEMMA IntsDiffer ==
  ASSUME NEW x \in Int
  PROVE  /\ \E j \in Int : Unsigned(x) = x + j * Values
         /\ \E j \in Int : Signed(x) = x + j * Values
         /\ Signed(x) \in Int /\ Signed(0) = 0
<1> DEFINE m == Values
<1> DEFINE q == x \div m
<1>1. m \in Nat /\ m >= 1 /\ Half \in Nat /\ Half >= 1 BY HalfIs
<1>2. Unsigned(x) = x % m BY DEF Unsigned
<1> HIDE DEF m
<1>3. q \in Int /\ x % m \in 0 .. m - 1 /\ x = q * m + (x % m) BY <1>1
<1> HIDE DEF q
<1>4. q * m \in Int /\ (-q) * m = -(q * m) /\ (-q - 1) * m = -(q * m) - m BY <1>1, <1>3
<1>5. Unsigned(x) \in Int /\ Unsigned(x) = x + (-q) * m BY <1>1, <1>2, <1>3, <1>4
<1>6. Signed(x) = Unsigned(x) \/ Signed(x) = Unsigned(x) - m BY DEF Signed, m
<1>7. Signed(x) = x + (-q) * m \/ Signed(x) = x + (-q - 1) * m
  BY <1>1, <1>3, <1>4, <1>5, <1>6
<1>8. -q \in Int /\ -q - 1 \in Int BY <1>3
<1>9. Signed(x) \in Int BY <1>1, <1>5, <1>6
<1>10. Signed(0) = 0
  <2>1. 0 % m = 0 BY <1>1
  <2>2. Unsigned(0) = 0 BY <2>1 DEF Unsigned, m
  <2> QED BY <1>1, <2>2 DEF Signed
<1> QED BY <1>5, <1>7, <1>8, <1>9, <1>10 DEF m

-----------------------------------------------------------------------------
\* Strings that atoi reads.
LEMMA SkippedIs ==
  ASSUME NEW s, Len(s) \in Nat, NEW set, NEW n \in 0 .. Len(s),
         \A j \in 1 .. n : s[j] \in set, n < Len(s) => s[n + 1] \notin set
  PROVE  /\ Skipped(s, set).skipped = SubSeq(s, 1, n)
         /\ Skipped(s, set).rest = SubSeq(s, n + 1, Len(s))
<1> DEFINE Is(k) == /\ \A j \in 1 .. k : s[j] \in set
                    /\ k < Len(s) => s[k + 1] \notin set
<1> DEFINE m == CHOOSE k \in 0 .. Len(s) : Is(k)
<1>1. m \in 0 .. Len(s) /\ Is(m)
  <2>1. n \in 0 .. Len(s) /\ Is(n) OBVIOUS
  <2> HIDE DEF Is
  <2> QED BY <2>1
<1>2. /\ Skipped(s, set).skipped = SubSeq(s, 1, m)
      /\ Skipped(s, set).rest = SubSeq(s, m + 1, Len(s))
  BY DEF Skipped
<1> HIDE DEF m
<1>3. m = n
  <2>1. ~(m < n)
    <3> SUFFICES ASSUME m < n PROVE FALSE OBVIOUS
    <3>1. m + 1 \in 1 .. n /\ m < Len(s) BY <1>1
    <3> QED BY <1>1, <3>1
  <2>2. ~(n < m)
    <3> SUFFICES ASSUME n < m PROVE FALSE OBVIOUS
    <3>1. n + 1 \in 1 .. m /\ n < Len(s) BY <1>1
    <3> QED BY <1>1, <3>1
  <2> QED BY <1>1, <2>1, <2>2
<1> QED BY <1>2, <1>3

LEMMA WholeSeq ==
  ASSUME NEW X, NEW s \in Seq(X)
  PROVE  SubSeq(s, 1, Len(s)) = s
OBVIOUS

LEMMA PrefixedIs ==
  ASSUME NEW X, NEW s \in Seq(X), NEW c \in X
  PROVE  /\ <<c>> \o s \in Seq(X) /\ Len(<<c>> \o s) = Len(s) + 1
         /\ (<<c>> \o s)[1] = c /\ \A j \in 1 .. Len(s) : (<<c>> \o s)[j + 1] = s[j]
         /\ Tail(<<c>> \o s) = s
         /\ SubSeq(<<c>> \o s, 2, Len(s) + 1) = s
OBVIOUS

LEMMA PairIs ==
  ASSUME NEW X, NEW b \in X, NEW c \in X
  PROVE  <<b>> \o <<c>> = <<b, c>>
<1> DEFINE l == <<b>> \o <<c>>
<1> DEFINE r == <<b, c>>
<1>1. l \in Seq(X) /\ Len(l) = 2 /\ l[1] = b /\ l[2] = c OBVIOUS
<1>2. r \in Seq(X) /\ Len(r) = 2 /\ r[1] = b /\ r[2] = c OBVIOUS
<1>3. \A i \in 1 .. 2 : i = 1 \/ i = 2 OBVIOUS
<1> HIDE DEF l, r
<1>4. \A i \in 1 .. Len(l) : l[i] = r[i] BY <1>1, <1>2, <1>3
<1>5. l = r BY <1>1, <1>2, <1>4, SeqEqual
<1> QED BY <1>5 DEF l, r

LEMMA TwoPrefixed ==
  ASSUME NEW X, NEW s \in Seq(X), NEW b \in X, NEW c \in X
  PROVE  <<b, c>> \o s = <<b>> \o (<<c>> \o s)
<1>1. <<b>> \in Seq(X) /\ <<c>> \in Seq(X) OBVIOUS
<1>2. <<b>> \o <<c>> = <<b, c>> BY PairIs
<1>3. (<<b>> \o <<c>>) \o s = <<b>> \o (<<c>> \o s) BY ONLY <1>1, s \in Seq(X), ConcatAssociative
<1> QED BY <1>2, <1>3

LEMMA DigitsRead ==
  ASSUME NEW t \in Seq(Decimals)
  PROVE  Skipped(t, Decimals).skipped = t
<1>1. Len(t) \in 0 .. Len(t) /\ Len(t) \in Nat /\ \A j \in 1 .. Len(t) : t[j] \in Decimals OBVIOUS
<1>2. Skipped(t, Decimals).skipped = SubSeq(t, 1, Len(t)) BY <1>1, SkippedIs
<1> QED BY <1>2, WholeSeq

\* What atoi makes of digits.
DigitsNumber(t) ==
  LET num[k \in 0 .. Len(t)] ==
        IF k = 0 THEN 0 ELSE Signed(num[k - 1] * 10 + DigitValue(t[k]))
  IN num[Len(t)]

LEMMA AtoiIs ==
  ASSUME NEW t \in Seq(Decimals), t # <<>>, NEW pre \in Prefixes
  PROVE  atoi(pre \o t) = IF pre = <<" ", "-">> THEN Signed(-DigitsNumber(t)) ELSE DigitsNumber(t)
<1> DEFINE X == Decimals \cup Blanks \cup {"-", "+"}
<1>1. Len(t) \in Nat /\ Len(t) >= 1 /\ t[1] \in Decimals OBVIOUS
<1>10. Decimals \subseteq X /\ " " \in X /\ "-" \in X /\ "+" \in X BY DEF Blanks
<1> HIDE DEF X
<1>11. t \in Seq(X)
  <2>1. t \in [1 .. Len(t) -> Decimals] OBVIOUS
  <2>2. t \in [1 .. Len(t) -> X] BY <1>10, <2>1
  <2> QED BY <1>1, <2>2
<1> DEFINE Put(c, w) ==
      /\ <<c>> \o w \in Seq(X) /\ Len(<<c>> \o w) = Len(w) + 1
      /\ (<<c>> \o w)[1] = c /\ \A j \in 1 .. Len(w) : (<<c>> \o w)[j + 1] = w[j]
      /\ Tail(<<c>> \o w) = w
      /\ SubSeq(<<c>> \o w, 2, Len(w) + 1) = w
<1>0. ASSUME NEW w \in Seq(X), NEW c \in X PROVE Put(c, w) BY PrefixedIs
<1>8. Put("-", t) /\ Put("+", t)
  <2> HIDE DEF Put
  <2> QED BY <1>0, <1>10, <1>11
<1>2. Decimals \cap (Blanks \cup {"-", "+"}) = {}
  <2>1. ASSUME NEW d \in 1 .. 10 PROVE Digits[d] \notin Blanks \cup {"-", "+"}
    <3>1. d - 1 \in 0 .. 15 /\ d - 1 + 1 = d OBVIOUS
    <3>2. Digits[d - 1 + 1] \notin Blanks \cup {"-", "+"} BY <3>1, DigitsAre
    <3> QED BY <3>1, <3>2
  <2> QED BY <2>1 DEF Decimals
<1>3. " " \in Blanks /\ "-" \notin Blanks /\ "+" \notin Blanks BY DEF Blanks
<1>4. ASSUME NEW u \in Seq(X), u = t \/ u = <<"-">> \o t \/ u = <<"+">> \o t,
             NEW s, Skipped(s, Blanks).rest = u
      PROVE  atoi(s) = IF u = <<"-">> \o t THEN Signed(-DigitsNumber(t)) ELSE DigitsNumber(t)
  <2>1. /\ u # <<>>
        /\ u = t <=> u[1] \notin {"-", "+"}
        /\ u = <<"-">> \o t <=> u[1] = "-"
        /\ u[1] \in {"-", "+"} => Tail(u) = t
    <3>1. /\ (<<"-">> \o t)[1] = "-" /\ (<<"+">> \o t)[1] = "+"
          /\ Tail(<<"-">> \o t) = t /\ Tail(<<"+">> \o t) = t
      BY <1>8
    <3>2. t[1] # "-" /\ t[1] # "+" BY <1>1, <1>2
    <3>3. u # <<>>
      <4>1. Len(<<"-">> \o t) >= 1 BY <1>1, <1>8
      <4>2. Len(<<"+">> \o t) >= 1 BY <1>1, <1>8
      <4>3. Len(u) >= 1 BY <1>1, <1>4, <4>1, <4>2
      <4> QED BY <4>3
    <3> QED BY <1>4, <3>1, <3>2, <3>3
  <2> DEFINE signed == u # <<>> /\ u[1] \in {"-", "+"}
  <2> DEFINE digits == Skipped(IF signed THEN Tail(u) ELSE u, Decimals).skipped
  <2>2. (IF signed THEN Tail(u) ELSE u) = t BY <1>4, <2>1
  <2>3. digits = t BY <2>2, DigitsRead
  <2>4. atoi(s) = IF signed /\ u[1] = "-" THEN Signed(-DigitsNumber(digits)) ELSE DigitsNumber(digits)
    BY <1>4 DEF atoi, DigitsNumber
  <2> HIDE DEF digits
  <2> QED BY <2>1, <2>3, <2>4
<1>9. t[1] \notin Blanks BY <1>1, <1>2
<1>5. CASE pre = <<>>
  <2>1. pre \o t = t BY <1>5
  <2>2. 0 \in 0 .. Len(t) /\ t[0 + 1] \notin Blanks
    <3>1. 0 + 1 = 1 /\ 0 \in 0 .. Len(t) BY <1>1
    <3> QED BY <1>9, <3>1
  <2>3. Skipped(t, Blanks).rest = SubSeq(t, 0 + 1, Len(t))
    <3>1. \A j \in 1 .. 0 : t[j] \in Blanks OBVIOUS
    <3> QED BY <1>1, <2>2, <3>1, SkippedIs
  <2>4. Skipped(t, Blanks).rest = t
    <3>1. 0 + 1 = 1 OBVIOUS
    <3> QED BY <1>11, <2>3, <3>1, WholeSeq
  <2>5. t # <<"-">> \o t
    <3>1. Len(<<"-">> \o t) = Len(t) + 1 BY <1>8
    <3>2. Len(<<"-">> \o t) # Len(t) BY <1>1, <3>1
    <3> QED BY <3>2
  <2>6. atoi(t) = DigitsNumber(t) BY <1>4, <1>11, <2>4, <2>5
  <2> QED BY <1>5, <2>1, <2>6
<1>6. CASE pre = <<"+">>
  <2> DEFINE s == <<"+">> \o t
  <2>1. s \in Seq(X) /\ Len(s) = Len(t) + 1 /\ s[1] = "+" BY <1>8
  <2>2. (<<"-">> \o t)[1] = "-" BY <1>8
  <2> HIDE DEF s
  <2>3. Len(s) \in Nat /\ 0 \in 0 .. Len(s) /\ 0 + 1 = 1 BY <1>1, <2>1
  <2>4. s[0 + 1] \notin Blanks
    <3>1. s[1] \notin Blanks BY <1>3, <2>1
    <3> QED BY <2>3, <3>1
  <2>5. Skipped(s, Blanks).rest = SubSeq(s, 0 + 1, Len(s))
    <3>1. \A j \in 1 .. 0 : s[j] \in Blanks OBVIOUS
    <3> QED BY <2>3, <2>4, <3>1, SkippedIs
  <2>6. Skipped(s, Blanks).rest = s BY <2>1, <2>3, <2>5, WholeSeq
  <2>7. s # <<"-">> \o t BY <2>1, <2>2
  <2>8. atoi(s) = DigitsNumber(t) BY <1>4, <2>1, <2>6, <2>7 DEF s
  <2> QED BY <1>6, <2>8 DEF s
<1>7. CASE pre = <<" ", "-">>
  <2> DEFINE u == <<"-">> \o t
  <2> DEFINE s == <<" ">> \o u
  <2>1. u \in Seq(X) /\ Len(u) = Len(t) + 1 /\ u[1] = "-" BY <1>8
  <2>2. <<" ", "-">> \o t = s BY <1>10, <1>11, TwoPrefixed
  <2> HIDE DEF u
  <2>3. Put(" ", u)
    <3> HIDE DEF Put
    <3> QED BY <1>0, <1>10, <2>1
  <2>4. /\ s \in Seq(X) /\ Len(s) = Len(u) + 1 /\ s[1] = " "
        /\ \A j \in 1 .. Len(u) : s[j + 1] = u[j]
        /\ SubSeq(s, 2, Len(u) + 1) = u
    BY <2>3
  <2> HIDE DEF s
  <2>5. Len(u) \in Nat /\ 1 \in 1 .. Len(u) /\ 1 + 1 = 2 /\ Len(s) \in Nat /\ 1 \in 0 .. Len(s)
    <3>1. Len(u) = Len(t) + 1 BY <2>1
    <3>2. Len(s) = Len(u) + 1 BY <2>4
    <3> QED BY <1>1, <3>1, <3>2
  <2>6. s[1 + 1] = "-" BY <2>1, <2>4, <2>5
  <2>7. s[1 + 1] \notin Blanks BY <1>3, <2>6
  <2>8. \A j \in 1 .. 1 : s[j] \in Blanks
    <3>1. s[1] \in Blanks BY <1>3, <2>4
    <3>2. \A j \in 1 .. 1 : j = 1 OBVIOUS
    <3> QED BY <3>1, <3>2
  <2>9. Skipped(s, Blanks).rest = SubSeq(s, 1 + 1, Len(s)) BY <2>5, <2>7, <2>8, SkippedIs
  <2>10. Skipped(s, Blanks).rest = u BY <2>4, <2>5, <2>9
  <2>11. atoi(s) = Signed(-DigitsNumber(t)) BY <1>4, <2>1, <2>10 DEF u
  <2> QED BY <1>7, <2>2, <2>11
<1> QED BY <1>5, <1>6, <1>7 DEF Prefixes

\* The recursion of atoi, followed by any function that takes its steps.
LEMMA DigitsNumberIs ==
  ASSUME NEW t, Len(t) \in Nat, NEW g, g[0] = 0,
         \A k \in 0 .. Len(t) - 1 : g[k + 1] = Signed(g[k] * 10 + DigitValue(t[k + 1]))
  PROVE  DigitsNumber(t) = g[Len(t)]
<1> DEFINE n == Len(t)
<1> DEFINE Is(h) == h = [k \in 0 .. n |-> IF k = 0 THEN 0 ELSE Signed(h[k - 1] * 10 + DigitValue(t[k]))]
<1> DEFINE num == CHOOSE h : Is(h)
<1>1. Is([k \in 0 .. n |-> g[k]])
  <2> DEFINE h == [k \in 0 .. n |-> g[k]]
  <2>1. ASSUME NEW k \in 0 .. n
        PROVE  h[k] = IF k = 0 THEN 0 ELSE Signed(h[k - 1] * 10 + DigitValue(t[k]))
    <3>1. CASE k = 0 BY <3>1
    <3>2. CASE k # 0
      <4>1. k - 1 \in 0 .. n - 1 /\ k - 1 \in 0 .. n /\ k - 1 + 1 = k BY <3>2
      <4>2. g[k - 1 + 1] = Signed(g[k - 1] * 10 + DigitValue(t[k - 1 + 1])) BY <4>1
      <4> QED BY <3>2, <4>1, <4>2
    <3> QED BY <3>1, <3>2
  <2>2. h = [k \in 0 .. n |-> h[k]] OBVIOUS
  <2> HIDE DEF h
  <2>3. Is(h) BY <2>1, <2>2
  <2> QED BY <2>3 DEF h
<1>2. Is(num)
  <2> HIDE DEF Is
  <2> QED BY <1>1
<1>3. DigitsNumber(t) = num[n] BY DEF DigitsNumber
<1> HIDE DEF num
<1> DEFINE S == {k \in 0 .. n : num[k] = g[k]}
<1>4. 0 \in S BY <1>2
<1>5. ASSUME NEW k \in 0 .. n - 1, k \in S PROVE k + 1 \in S
  <2>1. k + 1 \in 0 .. n /\ k + 1 # 0 /\ k + 1 - 1 = k OBVIOUS
  <2>2. \A j \in 0 .. n : num[j] = IF j = 0 THEN 0 ELSE Signed(num[j - 1] * 10 + DigitValue(t[j])) BY <1>2
  <2>3. num[k + 1] = Signed(num[k + 1 - 1] * 10 + DigitValue(t[k + 1])) BY <2>1, <2>2
  <2>4. num[k + 1] = g[k + 1] BY <1>5, <2>1, <2>3
  <2> QED BY <2>1, <2>4
<1> HIDE DEF S
<1>6. 0 .. n \subseteq S BY <1>4, <1>5, Climbs
<1> QED BY <1>3, <1>6 DEF S

\* What atoi reads back is what itoa wrote, as an int.
LEMMA ReadBack ==
  ASSUME NEW value \in Int, NEW room \in Nat, room >= 2, itoa(value, room, 10).ret = 0
  PROVE  LET t == itoa(value, room, 10).str
         IN t \in Seq(Decimals) /\ t # <<>> /\ DigitsNumber(t) = Signed(value)
<1> DEFINE t == itoa(value, room, 10).str
<1> DEFINE n == Turns(value, room, 10)
<1> DEFINE l == Left(value, 10)
<1>0. 10 \in 2 .. 16 OBVIOUS
<1>1. n \in 1 .. Values BY <1>0, TurnsAre
<1>2. /\ l \in [0 .. Values -> 0 .. Values - 1] /\ l[0] = Unsigned(value)
      /\ \A i \in 0 .. Values - 1 : l[i + 1] = l[i] \div 10
  BY <1>0, LeftIs
<1>3. /\ l[n] = 0 /\ Len(t) = n /\ t \in Seq({Digits[d + 1] : d \in 0 .. 10 - 1})
      /\ \A k \in 1 .. n : t[k] = Digits[(l[n - k] % 10) + 1]
  BY <1>0, ItoaIs
<1>4. Values \in Nat /\ n \in Nat BY <1>1, HalfIs
<1> HIDE DEF t, n, l
<1>5. ASSUME NEW i \in 0 .. n - 1
      PROVE  /\ l[i] \in Nat /\ l[i + 1] \in Nat /\ (l[i] % 10) \in 0 .. 15
             /\ l[i] = l[i + 1] * 10 + (l[i] % 10)
  <2>1. i \in 0 .. Values - 1 /\ i \in 0 .. Values BY <1>1, <1>4
  <2>2. l[i] \in 0 .. Values - 1 BY <1>2, <2>1
  <2>3. l[i] \in Nat BY <1>4, <2>2
  <2>4. l[i + 1] = l[i] \div 10 BY <1>2, <2>1
  <2> DEFINE x == l[i]
  <2> DEFINE y == l[i + 1]
  <2>5. x \in Nat /\ y = x \div 10 BY <2>3, <2>4
  <2> HIDE DEF x, y
  <2>6. y \in Nat /\ x % 10 \in 0 .. 15 /\ x = y * 10 + (x % 10) BY <2>5
  <2> QED BY <2>5, <2>6 DEF x, y
<1> DEFINE g == [k \in 0 .. n |-> Signed(l[n - k])]
<1>6. g[0] = 0 /\ g[n] = Signed(l[0])
  <2>1. Signed(0) = 0 BY IntsDiffer
  <2> QED BY <1>3, <1>4, <2>1
<1>7. ASSUME NEW k \in 0 .. n - 1 PROVE g[k + 1] = Signed(g[k] * 10 + DigitValue(t[k + 1]))
  <2> DEFINE i == n - (k + 1)
  <2> DEFINE r == l[i] % 10
  <2>1. i \in 0 .. n - 1 /\ n - k = i + 1 /\ k \in 0 .. n /\ k + 1 \in 0 .. n /\ k + 1 \in 1 .. n BY <1>4
  <2>2. g[k + 1] = Signed(l[i]) /\ g[k] = Signed(l[i + 1]) BY <2>1
  <2>3. t[k + 1] = Digits[r + 1] BY <1>3, <2>1
  <2>4. /\ l[i] \in Nat /\ l[i + 1] \in Nat /\ r \in 0 .. 15
        /\ l[i] = l[i + 1] * 10 + r
    BY <1>5, <2>1
  <2> HIDE DEF i, g, r
  <2>5. DigitValue(t[k + 1]) = r BY <2>3, <2>4, DigitsAre
  <2>6. PICK j \in Int : Signed(l[i + 1]) = l[i + 1] + j * Values
    <3>1. l[i + 1] \in Int BY <2>4
    <3> QED BY <3>1, IntsDiffer
  <2>7. g[k] * 10 + r = l[i] + (j * 10) * Values
    <3>1. (j * 10) * Values = (j * Values) * 10 /\ j * Values \in Int BY <1>4
    <3>2. g[k] = l[i + 1] + j * Values BY <2>2, <2>6
    <3> QED BY <2>4, <3>1, <3>2
  <2>8. Signed(l[i] + (j * 10) * Values) = Signed(l[i])
    <3>1. l[i] \in Int /\ j * 10 \in Int BY <2>4
    <3> QED BY <3>1, SameInt
  <2> QED BY <2>2, <2>5, <2>7, <2>8
<1>8. DigitsNumber(t) = Signed(l[0])
  <2> HIDE DEF g
  <2>1. Len(t) = n BY <1>3
  <2>2. DigitsNumber(t) = g[Len(t)] BY <1>4, <1>6, <1>7, <2>1, DigitsNumberIs
  <2> QED BY <1>6, <2>1, <2>2
<1>9. Signed(l[0]) = Signed(value)
  <2>1. PICK j \in Int : Unsigned(value) = value + j * Values BY IntsDiffer
  <2> QED BY <1>2, <2>1, SameInt
<1>10. t \in Seq(Decimals) /\ t # <<>>
  <2>1. {Digits[d + 1] : d \in 0 .. 10 - 1} \subseteq Decimals
    <3>1. ASSUME NEW d \in 0 .. 10 - 1 PROVE Digits[d + 1] \in Decimals
      <4>1. d + 1 \in 1 .. 10 OBVIOUS
      <4> QED BY <4>1 DEF Decimals
    <3> QED BY <3>1
  <2> DEFINE D == {Digits[d + 1] : d \in 0 .. 10 - 1}
  <2>2. t \in Seq(D) /\ D \subseteq Decimals BY <1>3, <2>1
  <2> HIDE DEF D
  <2>3. t \in [1 .. Len(t) -> D] /\ Len(t) \in Nat BY <2>2
  <2>4. t \in [1 .. Len(t) -> Decimals] BY <2>2, <2>3
  <2>5. t \in Seq(Decimals) BY <2>3, <2>4
  <2>6. Len(t) # 0 BY <1>1, <1>3, <1>4
  <2> QED BY <2>5, <2>6
<1> QED BY <1>8, <1>9, <1>10 DEF t

-----------------------------------------------------------------------------
LEMMA NumberNext ==
  ASSUME NumberInv, [PrintfNext]_printfVars
  PROVE  NumberInv'
<1>1. CASE UNCHANGED printfVars BY <1>1 DEF NumberInv, printfVars
<1>2. ASSUME NEW v \in Ints, NEW l \in Lengths, NEW b \in Bases, Itoa(v, l, b)
      PROVE  NumberInv'
  <2>1. v \in Int /\ l \in Nat /\ b \in 2 .. 16
    BY PrintfAssumption DEF Ints
  <2>2. stage' = "number" /\ number' = [value |-> v, len |-> l, base |-> b] /\ text' = itoa(v, l, b)
    BY <1>2 DEF Itoa
  <2> QED BY <2>1, <2>2 DEF NumberInv
<1>3. ASSUME NEW pre \in Prefixes, Atoi(pre) PROVE NumberInv'
  BY <1>3 DEF Atoi, NumberInv
<1>4. CASE \E n \in 1 .. MaxFields : \E fs \in [1 .. n -> Directive] : Printf(fs)
  BY <1>4 DEF Printf, NumberInv
<1>5. CASE PrintfPlain BY <1>5 DEF PrintfPlain, Storing, NumberInv
<1>6. ASSUME NEW arg, PrintfField(arg) PROVE NumberInv' 
  BY <1>6 DEF PrintfField, Storing, NumberInv
<1>7. CASE PrintfEnd BY <1>7 DEF PrintfEnd, NumberInv
<1> QED BY <1>1, <1>2, <1>3, <1>4, <1>5, <1>6, <1>7 DEF PrintfNext

LEMMA NumberSafe == NumberInv => NumbersSurvive
<1> SUFFICES ASSUME NumberInv, number.len >= 2, stage \in {"number", "parsed"}
             PROVE  NumbersSurvive
  BY DEF NumbersSurvive
<1> DEFINE v == number.value
<1> DEFINE l == number.len
<1> DEFINE b == number.base
<1>1. v \in Int /\ l \in Nat /\ l >= 2 /\ b \in 2 .. 16 /\ text = itoa(v, l, b)
  BY DEF NumberInv
<1> HIDE DEF v, l, b
<1>2. text.stored <= l BY <1>1, ItoaIs
<1>3. text.ret = 0 <=> FitsIn(Unsigned(v), l - 1, b)
  <2>1. text.ret = 0 <=> Left(v, b)[Turns(v, l, b)] = 0 BY <1>1, ItoaIs
  <2>2. Left(v, b)[Turns(v, l, b)] = 0 <=> FitsIn(Unsigned(v), l - 1, b) BY <1>1, FitsIs
  <2> QED BY <2>1, <2>2
<1>4. text.ret = 0 => /\ NumberOf(text.str, b) = Unsigned(v)
                      /\ text.str[1] = "0" => text.str = <<"0">>
  BY <1>1, WrittenIs
<1>5. ASSUME stage = "parsed"
      PROVE  parsed = Signed(IF prefix # <<>> /\ prefix[Len(prefix)] = "-" THEN -v ELSE v)
  <2>1. b = 10 /\ text.ret = 0 /\ prefix \in Prefixes /\ parsed = atoi(prefix \o text.str)
    BY <1>5 DEF NumberInv, b
  <2>2. text.str \in Seq(Decimals) /\ text.str # <<>> /\ DigitsNumber(text.str) = Signed(v)
    BY <1>1, <2>1, ReadBack
  <2>3. parsed = IF prefix = <<" ", "-">> THEN Signed(-Signed(v)) ELSE Signed(v)
    BY <2>1, <2>2, AtoiIs
  <2>4. (prefix # <<>> /\ prefix[Len(prefix)] = "-") <=> prefix = <<" ", "-">>
    <3>1. CASE prefix = <<>> BY <3>1
    <3>2. CASE prefix = <<" ", "-">>
      <4>1. Len(prefix) = 2 /\ prefix[2] = "-" BY <3>2
      <4> QED BY <3>2, <4>1
    <3>3. CASE prefix = <<"+">>
      <4>1. Len(prefix) = 1 /\ prefix[1] = "+" BY <3>3
      <4>2. prefix[Len(prefix)] # "-" BY <4>1
      <4>3. prefix # <<" ", "-">>
        <5> DEFINE w == <<" ", "-">>
        <5>1. w[1] = " " /\ " " # "+" OBVIOUS
        <5> HIDE DEF w
        <5>2. prefix # w BY <4>1, <5>1
        <5> QED BY <5>2 DEF w
      <4> QED BY <4>2, <4>3
    <3> QED BY <2>1, <3>1, <3>2, <3>3 DEF Prefixes
  <2>5. Signed(-Signed(v)) = Signed(-v)
    <3>1. PICK j \in Int : Signed(v) = v + j * Values BY <1>1, IntsDiffer
    <3>2. -Signed(v) = -v + (-j) * Values
      <4>1. Values \in Nat BY HalfIs
      <4>2. (-j) * Values = -(j * Values) /\ j * Values \in Int BY <4>1
      <4> QED BY <1>1, <3>1, <4>2
    <3>3. -v \in Int /\ -j \in Int BY <1>1
    <3> QED BY <3>2, <3>3, SameInt
  <2> QED BY <2>3, <2>4, <2>5
<1> QED BY <1>2, <1>3, <1>4, <1>5 DEF NumbersSurvive, v, l, b

\* In every buffer of two characters or more, every base from 2 to 16 and every
\* width of int, itoa writes the number and says so, or says that it does not
\* fit, and atoi reads back what it wrote (itoa.c:4-22, atoi.c:3-23,
\* string.c:46-56).
THEOREM NumbersComeBack == PrintfSpec => []NumbersSurvive
<1>1. PrintfInit => NumberInv BY DEF PrintfInit, NumberInv
<1>2. NumberInv /\ [PrintfNext]_printfVars => NumberInv' BY NumberNext
<1>3. NumberInv => NumbersSurvive BY NumberSafe
<1> QED BY <1>1, <1>2, <1>3, PTL DEF PrintfSpec

-----------------------------------------------------------------------------
\* Formats.
\* The characters printf reads and writes in these formats.
Chars == {Digits[e] : e \in 1 .. 16} \cup {Capitals[e] : e \in 1 .. 16} \cup {BelowZero[e] : e \in 1 .. 9}
         \cup {"%", " ", ".", "d", "i", "x", "X", "b", "c", "s", "f", "y", "n", "o"}

\* A number needs as many digits as itoa makes turns.
LEMMA NeededIs ==
  ASSUME NEW value \in Int, NEW base \in 2 .. 16, NEW room \in Nat, room >= 2,
         Left(value, base)[Turns(value, room, base)] = 0
  PROVE  LET u == Unsigned(value)
         IN Turns(value, room, base) =
              CHOOSE k \in 1 .. Values : FitsIn(u, k, base) /\ \A j \in 1 .. k - 1 : ~FitsIn(u, j, base)
<1> DEFINE u == Unsigned(value)
<1> DEFINE l == Left(value, base)
<1> DEFINE n == Turns(value, room, base)
<1> DEFINE Needs(k) == FitsIn(u, k, base) /\ \A j \in 1 .. k - 1 : ~FitsIn(u, j, base)
<1> DEFINE m == CHOOSE k \in 1 .. Values : Needs(k)
<1>1. Values \in Nat BY HalfIs
<1>2. n \in 1 .. Values /\ l[n] = 0 /\ \A j \in 1 .. n - 1 : l[j] # 0 BY TurnsAre
<1>3. \A i \in 0 .. Values : l[i] = 0 <=> FitsIn(u, i, base) BY LeftDivides
<1> HIDE DEF u, l, n
<1>4. Needs(n)
  <2>1. FitsIn(u, n, base) BY <1>1, <1>2, <1>3
  <2>2. ASSUME NEW j \in 1 .. n - 1 PROVE ~FitsIn(u, j, base)
    <3>1. j \in 0 .. Values BY <1>1, <1>2
    <3> QED BY <1>2, <1>3, <3>1
  <2> QED BY <2>1, <2>2
<1>5. m \in 1 .. Values /\ Needs(m)
  <2> HIDE DEF Needs
  <2> QED BY <1>2, <1>4
<1>6. ~(m < n)
  <2> SUFFICES ASSUME m < n PROVE FALSE OBVIOUS
  <2> HIDE DEF m
  <2>1. m \in 1 .. n - 1 BY <1>1, <1>2, <1>5
  <2> QED BY <1>4, <1>5, <2>1
<1>7. ~(n < m)
  <2> SUFFICES ASSUME n < m PROVE FALSE OBVIOUS
  <2> HIDE DEF m
  <2>1. n \in 1 .. m - 1 BY <1>1, <1>2, <1>5
  <2> QED BY <1>4, <1>5, <2>1
<1>8. n = m
  <2> HIDE DEF m
  <2> QED BY <1>1, <1>2, <1>5, <1>6, <1>7
<1> QED BY <1>8 DEF u, n

\* What helper_str holds of a number is the number, in as many digits as it needs.
LEMMA ItoaShortest ==
  ASSUME NEW value \in Int, NEW base \in {2, 10, 16}
  PROVE  /\ itoa(value, HelperLength, base).str = Shortest(Unsigned(value), base, Digits)
         /\ itoa(value, HelperLength, base).str \in Seq({Digits[d + 1] : d \in 0 .. base - 1})
         /\ (CHOOSE k \in 1 .. Values : /\ FitsIn(Unsigned(value), k, base)
                                        /\ \A j \in 1 .. k - 1 : ~FitsIn(Unsigned(value), j, base)) \in Nat
<1> DEFINE r == itoa(value, HelperLength, base)
<1> DEFINE u == Unsigned(value)
<1> DEFINE l == Left(value, base)
<1> DEFINE n == Turns(value, HelperLength, base)
<1>1. base \in 2 .. 16 /\ HelperLength \in Nat /\ HelperLength >= 2 BY DEF HelperLength
<1>2. Values \in Nat /\ Values >= 2 BY HalfIs
<1>3. FitsIn(u, HelperLength - 1, base)
  <2>1. PICK d \in 1 .. HelperLength - 1 : FitsIn(Values - 1, d, 2) BY FormatAssumption
  <2>2. u \in Nat /\ u <= Values - 1 BY <1>2 DEF Unsigned
  <2>3. d \in Nat /\ 2 \in 2 .. 16 BY <1>1
  <2>4. FitsIn(u, d, 2)
    <3>1. Power(2, d) \in Nat BY <2>3, PowerIs
    <3>2. Values - 1 < Power(2, d) BY <2>1 DEF FitsIn
    <3> HIDE DEF u
    <3>3. u < Power(2, d) BY <1>2, <2>2, <3>1, <3>2
    <3> QED BY <3>3 DEF FitsIn
  <2>5. d <= HelperLength - 1 /\ HelperLength - 1 \in Nat /\ 2 <= base BY <1>1, <2>1
  <2> HIDE DEF u
  <2> QED BY <1>1, <2>2, <2>3, <2>4, <2>5, Roomier
<1>4. r.ret = 0
  <2>1. l[n] = 0 BY <1>1, <1>3, FitsIs
  <2> QED BY <1>1, <2>1, ItoaIs
<1>5. /\ r.str \in Seq({Digits[d + 1] : d \in 0 .. base - 1}) /\ Len(r.str) = n
      /\ \A k \in 1 .. n : r.str[k] = Digits[(l[n - k] % base) + 1]
  <2>1. /\ r.str \in Seq({Digits[d + 1] : d \in 0 .. base - 1}) /\ Len(r.str) = n
        /\ r.ret = 0 => \A k \in 1 .. n : r.str[k] = Digits[(l[n - k] % base) + 1]
    BY <1>1, ItoaIs
  <2> HIDE DEF r, l, n
  <2> QED BY <1>4, <2>1
<1>6. n \in 1 .. Values /\ l[n] = 0 /\ \A j \in 1 .. n - 1 : l[j] # 0
  <2>1. l[n] = 0 BY <1>1, <1>4, ItoaIs
  <2> QED BY <1>1, <2>1, TurnsAre
<1>7. \A i \in 0 .. Values : l[i] = u \div Power(base, i) /\ (l[i] = 0 <=> FitsIn(u, i, base))
  BY <1>1, LeftDivides
<1> HIDE DEF r, u, l, n
<1> DEFINE m == CHOOSE k \in 1 .. Values : FitsIn(u, k, base) /\ \A j \in 1 .. k - 1 : ~FitsIn(u, j, base)
<1>10. Shortest(u, base, Digits) = [i \in 1 .. m |-> Digits[((u \div Power(base, m - i)) % base) + 1]]
  BY DEF Shortest
<1>11. m = n BY <1>1, <1>6, NeededIs DEF u, n, l
<1> HIDE DEF m
<1>15. m \in Nat BY <1>2, <1>6, <1>11
<1>12. ASSUME NEW i \in 1 .. n
       PROVE  r.str[i] = Digits[((u \div Power(base, n - i)) % base) + 1]
  <2>1. n - i \in 0 .. Values BY <1>2, <1>6
  <2>2. l[n - i] = u \div Power(base, n - i) BY <1>7, <2>1
  <2>3. r.str[i] = Digits[(l[n - i] % base) + 1] BY <1>5
  <2> QED BY <2>2, <2>3
<1>13. r.str = [i \in 1 .. n |-> r.str[i]]
  <2> DEFINE D == {Digits[d + 1] : d \in 0 .. base - 1}
  <2>1. r.str \in Seq(D) /\ Len(r.str) = n BY <1>5
  <2> HIDE DEF D
  <2> QED BY <2>1
<1>14. r.str = Shortest(u, base, Digits)
  <2>1. [i \in 1 .. n |-> r.str[i]] = [i \in 1 .. n |-> Digits[((u \div Power(base, n - i)) % base) + 1]]
    BY <1>12
  <2> QED BY <1>10, <1>11, <1>13, <2>1
<1> QED BY <1>5, <1>14, <1>15 DEF r, u, m

LEMMA CapitalsAre ==
  ASSUME NEW d \in 0 .. 15
  PROVE  Digits[d + 1] \in Chars /\ Capitals[d + 1] \in Chars
<1>1. d + 1 \in 1 .. 16 OBVIOUS
<1> QED BY <1>1 DEF Chars

\* Capitals take the place of the letters.
LEMMA UpperIs ==
  ASSUME NEW value \in Int
  PROVE  /\ str_to_upper(itoa(value, HelperLength, 16).str) = Shortest(Unsigned(value), 16, Capitals)
         /\ str_to_upper(itoa(value, HelperLength, 16).str) \in Seq(Chars)
<1> DEFINE s == itoa(value, HelperLength, 16).str
<1> DEFINE u == Unsigned(value)
<1> DEFINE n == CHOOSE k \in 1 .. Values : FitsIn(u, k, 16) /\ \A j \in 1 .. k - 1 : ~FitsIn(u, j, 16)
<1> DEFINE d(i) == (u \div Power(16, n - i)) % 16
<1>1. s = [i \in 1 .. n |-> Digits[d(i) + 1]] /\ Shortest(u, 16, Capitals) = [i \in 1 .. n |-> Capitals[d(i) + 1]]
  BY ItoaShortest DEF Shortest
<1>0. u \in Int
  <2>1. Values \in Nat /\ Values >= 2 BY HalfIs
  <2> QED BY <2>1 DEF Unsigned
<1>8. n \in Nat BY ItoaShortest
<1>2. s \in Seq({Digits[e + 1] : e \in 0 .. 16 - 1}) BY ItoaShortest
<1> HIDE DEF s, n, d, u
<1>3. DOMAIN s = 1 .. n BY <1>1
<1>4. Len(s) \in Nat /\ DOMAIN s = 1 .. Len(s) /\ \A i \in 1 .. Len(s) : \E e \in 0 .. 15 : s[i] = Digits[e + 1]
  <2> DEFINE D == {Digits[e + 1] : e \in 0 .. 16 - 1}
  <2>1. s \in Seq(D) BY <1>2
  <2>2. \A x \in D : \E e \in 0 .. 15 : x = Digits[e + 1] OBVIOUS
  <2> HIDE DEF D
  <2> QED BY <2>1, <2>2
<1>5. ASSUME NEW i \in 1 .. n
      PROVE  /\ (IF DigitValue(s[i]) > 9 THEN Capitals[DigitValue(s[i]) + 1] ELSE s[i]) = Capitals[d(i) + 1]
             /\ Capitals[d(i) + 1] \in Chars
  <2>1. PICK e \in 0 .. 15 : s[i] = Digits[e + 1] BY <1>3, <1>4
  <2>2. DigitValue(s[i]) = e BY <2>1, DigitsAre
  <2>3. s[i] = Digits[d(i) + 1] BY <1>1
  <2>4. d(i) \in 0 .. 15
    <3> DEFINE q == u \div Power(16, n - i)
    <3>1. n - i \in Nat BY <1>8
    <3>2. Power(16, n - i) \in Nat \ {0}
      <4>1. 16 \in 2 .. 16 OBVIOUS
      <4> QED BY <3>1, <4>1, PowerIs
    <3>3. q \in Int BY <1>0, <3>2
    <3>4. d(i) = q % 16 BY DEF d
    <3> HIDE DEF q
    <3>5. q % 16 \in 0 .. 15 BY <3>3
    <3> QED BY <3>4, <3>5
  <2>5. DigitValue(s[i]) = d(i) BY <2>3, <2>4, DigitsAre
  <2>6. d(i) <= 9 => Digits[d(i) + 1] = Capitals[d(i) + 1]
    <3> DEFINE v == d(i)
    <3>1. v \in 0 .. 15 BY <2>4
    <3> HIDE DEF v
    <3>2. v <= 9 => Digits[v + 1] = Capitals[v + 1] BY <3>1 DEF Digits, Capitals
    <3> QED BY <3>2 DEF v
  <2>7. Capitals[d(i) + 1] \in Chars BY <2>4, CapitalsAre
  <2> QED BY <2>3, <2>4, <2>5, <2>6, <2>7
<1>6. str_to_upper(s) = [i \in 1 .. n |-> Capitals[d(i) + 1]] BY <1>3, <1>5 DEF str_to_upper
<1>7. [i \in 1 .. n |-> Capitals[d(i) + 1]] \in Seq(Chars)
  <2>1. n \in Nat BY <1>3, <1>4, <1>8
  <2> QED BY <1>5, <2>1
<1> QED BY <1>1, <1>6, <1>7 DEF s, u

\* A width is read as what it is written for.
LEMMA WidthOf ==
  ASSUME NEW w \in Seq({"1", "2", "3"}),
         \/ Len(w) = 1 /\ w[1] = "3"
         \/ Len(w) = 2 /\ w[1] = "1" /\ w[2] = "2"
  PROVE  /\ w \in Seq(Decimals) /\ w \in Seq(Chars) /\ w # <<>> /\ w[1] # "0"
         /\ atoi(w) = NumberOf(w, 10) /\ NumberOf(w, 10) \in Nat
<1>1. Digits[1 + 1] = "1" /\ Digits[2 + 1] = "2" /\ Digits[3 + 1] = "3" BY DEF Digits
<1>2. /\ DigitValue("1") = 1 /\ DigitValue("2") = 2 /\ DigitValue("3") = 3
      /\ {"1", "2", "3"} \subseteq Decimals
  <2>1. 1 \in 0 .. 15 /\ 2 \in 0 .. 15 /\ 3 \in 0 .. 15 /\ 1 <= 9 /\ 2 <= 9 /\ 3 <= 9 OBVIOUS
  <2>2. DigitValue("1") = 1 /\ "1" \in Decimals BY <1>1, <2>1, DigitsAre
  <2>3. DigitValue("2") = 2 /\ "2" \in Decimals BY <1>1, <2>1, DigitsAre
  <2>4. DigitValue("3") = 3 /\ "3" \in Decimals BY <1>1, <2>1, DigitsAre
  <2> QED BY <2>2, <2>3, <2>4
<1>3. {"1", "2", "3"} \subseteq Chars
  <2>1. 1 + 1 \in 1 .. 16 /\ 2 + 1 \in 1 .. 16 /\ 3 + 1 \in 1 .. 16 OBVIOUS
  <2> QED BY <1>1, <2>1 DEF Chars
<1>4. Len(w) \in Nat /\ w # <<>> /\ w[1] # "0" OBVIOUS
<1>5. w \in Seq(Decimals) /\ w \in Seq(Chars)
  <2>1. w \in [1 .. Len(w) -> {"1", "2", "3"}] OBVIOUS
  <2>2. w \in [1 .. Len(w) -> Decimals]
    <3>1. {"1", "2", "3"} \subseteq Decimals BY <1>2
    <3> QED BY <2>1, <3>1
  <2>3. w \in [1 .. Len(w) -> Chars] BY <1>3, <2>1
  <2> QED BY <1>4, <2>2, <2>3
<1>6. atoi(w) = DigitsNumber(w)
  <2>1. <<>> \in Prefixes /\ <<>> # <<" ", "-">> BY DEF Prefixes
  <2>2. <<>> \o w = w BY <1>5
  <2>3. atoi(<<>> \o w) = DigitsNumber(w) BY <1>4, <1>5, <2>1, AtoiIs
  <2> QED BY <2>2, <2>3
<1>7. Signed(1) = 1 /\ Signed(3) = 3 /\ Signed(12) = 12
  <2>1. ASSUME NEW x \in {1, 3, 12} PROVE Signed(x) = x
    <3>1. Values \in Nat /\ Half \in Nat /\ Values = Half + Half BY HalfIs
    <3>2. x \in Int /\ 0 <= x /\ x < Half
      <4>1. 12 < Half BY <3>1, FormatAssumption DEF Ints
      <4> QED BY <3>1, <4>1
    <3>3. x % Values = x BY <3>1, <3>2
    <3> QED BY <3>2, <3>3 DEF Signed, Unsigned
  <2> QED BY <2>1
<1>8. CASE Len(w) = 1 /\ w[1] = "3"
  <2> DEFINE g == [k \in 0 .. 1 |-> IF k = 0 THEN 0 ELSE 3]
  <2>1. g[0] = 0 /\ g[1] = 3 /\ Len(w) = 1 BY <1>8
  <2>2. \A k \in 0 .. Len(w) - 1 : k = 0 BY <2>1
  <2> HIDE DEF g
  <2>3. ASSUME NEW k \in 0 .. Len(w) - 1
        PROVE  /\ g[k + 1] = g[k] * 10 + DigitValue(w[k + 1])
               /\ g[k + 1] = Signed(g[k] * 10 + DigitValue(w[k + 1]))
    <3>1. k = 0 /\ k + 1 = 1 BY <2>2
    <3>2. g[k + 1] = 3 /\ g[k] * 10 + DigitValue(w[k + 1]) = 3
      <4>1. w[1] = "3" BY <1>8
      <4>2. g[0] * 10 + DigitValue(w[1]) = 3 BY <1>2, <2>1, <4>1
      <4> QED BY <2>1, <3>1, <4>2
    <3> QED BY <1>7, <3>2
  <2>4. NumberOf(w, 10) = g[Len(w)]
    <3>1. \A k \in 0 .. Len(w) - 1 : g[k + 1] = g[k] * 10 + DigitValue(w[k + 1]) BY <2>3
    <3> QED BY <1>4, <2>1, <3>1, NumberIs
  <2>5. DigitsNumber(w) = g[Len(w)]
    <3>1. \A k \in 0 .. Len(w) - 1 : g[k + 1] = Signed(g[k] * 10 + DigitValue(w[k + 1])) BY <2>3
    <3> QED BY <1>4, <2>1, <3>1, DigitsNumberIs
  <2> QED BY <1>4, <1>5, <1>6, <2>1, <2>4, <2>5
<1>9. CASE Len(w) = 2 /\ w[1] = "1" /\ w[2] = "2"
  <2> DEFINE g == [k \in 0 .. 2 |-> IF k = 0 THEN 0 ELSE IF k = 1 THEN 1 ELSE 12]
  <2>1. g[0] = 0 /\ g[1] = 1 /\ g[2] = 12 /\ Len(w) = 2 BY <1>9
  <2>2. \A k \in 0 .. Len(w) - 1 : k = 0 \/ k = 1 BY <2>1
  <2> HIDE DEF g
  <2>3. ASSUME NEW k \in 0 .. Len(w) - 1
        PROVE  /\ g[k + 1] = g[k] * 10 + DigitValue(w[k + 1])
               /\ g[k + 1] = Signed(g[k] * 10 + DigitValue(w[k + 1]))
    <3>1. CASE k = 0
      <4>1. w[1] = "1" /\ k + 1 = 1 BY <1>9, <3>1
      <4>2. g[0] * 10 + DigitValue(w[1]) = 1 BY <1>2, <2>1, <4>1
      <4> QED BY <1>7, <2>1, <3>1, <4>1, <4>2
    <3>2. CASE k = 1
      <4>1. w[2] = "2" /\ k + 1 = 2 BY <1>9, <3>2
      <4>2. g[1] * 10 + DigitValue(w[2]) = 12 BY <1>2, <2>1, <4>1
      <4> QED BY <1>7, <2>1, <3>2, <4>1, <4>2
    <3> QED BY <2>2, <3>1, <3>2
  <2>4. NumberOf(w, 10) = g[Len(w)]
    <3>1. \A k \in 0 .. Len(w) - 1 : g[k + 1] = g[k] * 10 + DigitValue(w[k + 1]) BY <2>3
    <3> QED BY <1>4, <2>1, <3>1, NumberIs
  <2>5. DigitsNumber(w) = g[Len(w)]
    <3>1. \A k \in 0 .. Len(w) - 1 : g[k + 1] = Signed(g[k] * 10 + DigitValue(w[k + 1])) BY <2>3
    <3> QED BY <1>4, <2>1, <3>1, DigitsNumberIs
  <2> QED BY <1>4, <1>5, <1>6, <2>1, <2>4, <2>5
<1> QED BY <1>8, <1>9

LEMMA WidthIs ==
  ASSUME NEW w \in {<<"3">>, <<"1", "2">>}
  PROVE  /\ w \in Seq(Decimals) /\ w \in Seq(Chars) /\ w # <<>> /\ w[1] # "0"
         /\ atoi(w) = NumberOf(w, 10) /\ NumberOf(w, 10) \in Nat
<1>1. CASE w = <<"3">>
  <2>1. w \in Seq({"1", "2", "3"}) /\ Len(w) = 1 /\ w[1] = "3" BY <1>1
  <2> QED BY <2>1, WidthOf
<1>2. CASE w = <<"1", "2">>
  <2>1. w \in Seq({"1", "2", "3"}) /\ Len(w) = 2 /\ w[1] = "1" /\ w[2] = "2" BY <1>2
  <2> QED BY <2>1, WidthOf
<1> QED BY <1>1, <1>2

\* The rest of a concatenation, from behind its first part.
LEMMA RestIs ==
  ASSUME NEW X, NEW a \in Seq(X), NEW b \in Seq(X), NEW n, n = Len(a) + 1
  PROVE  /\ SubSeq(a \o b, n, Len(a \o b)) = b
         /\ SubSeq(a \o b, 1, Len(a)) = a
         /\ a \o b \in Seq(X) /\ Len(a \o b) = Len(a) + Len(b) /\ Len(a) \in Nat /\ Len(b) \in Nat
         /\ \A i \in 1 .. Len(a) : (a \o b)[i] = a[i]
         /\ \A i \in 1 .. Len(b) : (a \o b)[Len(a) + i] = b[i]
<1> DEFINE c == a \o b
<1>1. /\ c \in Seq(X) /\ Len(c) = Len(a) + Len(b) /\ Len(a) \in Nat /\ Len(b) \in Nat
      /\ \A i \in 1 .. Len(a) : c[i] = a[i]
      /\ \A i \in 1 .. Len(b) : c[Len(a) + i] = b[i]
  OBVIOUS
<1> HIDE DEF c
<1>2. SubSeq(c, n, Len(c)) = b
  <2> DEFINE s == SubSeq(c, n, Len(c))
  <2>1. s \in Seq(X) /\ Len(s) = Len(b) /\ \A i \in 1 .. Len(b) : s[i] = c[Len(a) + i] BY <1>1
  <2> HIDE DEF s
  <2>2. s = b BY <1>1, <2>1, SeqEqual
  <2> QED BY <2>2 DEF s
<1>3. SubSeq(c, 1, Len(a)) = a
  <2> DEFINE s == SubSeq(c, 1, Len(a))
  <2>1. s \in Seq(X) /\ Len(s) = Len(a) /\ \A i \in 1 .. Len(a) : s[i] = c[i] BY <1>1
  <2> HIDE DEF s
  <2>2. s = a BY <1>1, <2>1, SeqEqual
  <2> QED BY <2>2 DEF s
<1> QED BY <1>1, <1>2, <1>3 DEF c

Conversions == {"d", "i", "x", "X", "b", "c", "s", "f"}

\* A directive, by its fields.
LEMMA DirectiveIs ==
  ASSUME NEW f \in Directive
  PROVE  /\ f.conv \in Conversions \cup {"5", "%"} /\ f.zero \in BOOLEAN
         /\ f.width = <<>> \/ f.width \in {<<"3">>, <<"1", "2">>}
         /\ f.conv = "%" => f.zero = FALSE /\ f.width = <<>>
         /\ f.conv \in Chars \cup {"5"}
         /\ f.width \in Seq(Decimals) /\ f.width \in Seq(Chars)
<1>1. CASE f \in Plain
  <2>0. PICK c \in {"5", "%"} : f = [conv |-> c, zero |-> FALSE, width |-> <<>>] BY <1>1 DEF Plain
  <2>1. f.conv \in {"5", "%"} /\ f.zero = FALSE /\ f.width = <<>> BY <2>0
  <2>2. <<>> \in Seq(Decimals) /\ <<>> \in Seq(Chars) OBVIOUS
  <2> QED BY <2>1, <2>2 DEF Chars
<1>2. CASE f \notin Plain
  <2>1. f \in [conv : Conversions, zero : BOOLEAN, width : {<<>>, <<"3">>, <<"1", "2">>}]
    BY <1>2 DEF Directive, Conversions
  <2>2. f.conv \in Conversions /\ f.zero \in BOOLEAN /\ f.width \in {<<>>, <<"3">>, <<"1", "2">>} BY <2>1
  <2>3. f.width = <<>> => f.width \in Seq(Decimals) /\ f.width \in Seq(Chars) OBVIOUS
  <2>4. f.width # <<>> => f.width \in Seq(Decimals) /\ f.width \in Seq(Chars) BY <2>2, WidthIs
  <2> QED BY <2>2, <2>3, <2>4 DEF Conversions, Chars
<1> QED BY <1>1, <1>2

LEMMA NoDigit ==
  ASSUME NEW c \in Conversions \cup {"%"}
  PROVE  c \notin Decimals /\ c # "0" /\ c \in Chars
<1>1. \A d \in 1 .. 10 : Digits[d] # c
  <2>1. /\ Digits[1] = "0" /\ Digits[2] = "1" /\ Digits[3] = "2" /\ Digits[4] = "3"
        /\ Digits[5] = "4" /\ Digits[6] = "5" /\ Digits[7] = "6" /\ Digits[8] = "7"
        /\ Digits[9] = "8" /\ Digits[10] = "9"
    BY DEF Digits
  <2>2. \A d \in 1 .. 10 : d = 1 \/ d = 2 \/ d = 3 \/ d = 4 \/ d = 5 \/ d = 6 \/ d = 7 \/ d = 8 \/ d = 9 \/ d = 10
    OBVIOUS
  <2>3. c \notin {"0", "1", "2", "3", "4", "5", "6", "7", "8", "9"} BY DEF Conversions
  <2> QED BY <2>1, <2>2, <2>3
<1> QED BY <1>1 DEF Decimals, Conversions, Chars

\* What printf reads at a directive are its flag, its width and its conversion.
LEMMA DirectiveRead ==
  ASSUME NEW f \in Directive, f.conv # "5", NEW t \in Seq(Chars), fmt = Written(f) \o t
  PROVE  /\ Leading = IF f.zero THEN "0" ELSE " "
         /\ WidthRead.skipped = f.width
         /\ WidthRead.rest[1] = f.conv /\ Tail(WidthRead.rest) = t
<1> DEFINE c == f.conv
<1> DEFINE w == f.width
<1> DEFINE head == IF f.zero THEN <<"%", "0">> ELSE <<"%">>
<1> DEFINE s == <<c>> \o t
<1> DEFINE r == w \o s
<1>1. /\ c \in Conversions \cup {"%"} /\ w \in Seq(Decimals) /\ w \in Seq(Chars)
      /\ w # <<>> => w[1] # "0"
  BY DirectiveIs, WidthIs
<1>14. f.zero = TRUE \/ f.zero = FALSE BY DirectiveIs
<1>2. c \notin Decimals /\ c # "0" /\ c \in Chars BY <1>1, NoDigit
<1>3. Written(f) = (head \o w) \o <<c>>
  <2>1. Written(f) = ((<<"%">> \o (IF f.zero THEN <<"0">> ELSE <<>>)) \o w) \o <<c>> BY DEF Written
  <2>2. <<"%">> \o (IF f.zero THEN <<"0">> ELSE <<>>) = head
    <3>1. <<"%">> \o <<>> = <<"%">> OBVIOUS
    <3>2. <<"%">> \o <<"0">> = <<"%", "0">>
      <4>1. "%" \in {"%", "0"} /\ "0" \in {"%", "0"} OBVIOUS
      <4> QED BY ONLY <4>1, PairIs
    <3> QED BY <3>1, <3>2
  <2> QED BY <2>1, <2>2
<1>4. /\ head \in Seq(Chars) /\ head[1] = "%" /\ (f.zero = TRUE => Len(head) = 2) /\ (f.zero = FALSE => Len(head) = 1)
      /\ f.zero = TRUE => head[2] = "0"
  <2>1. "%" \in Chars /\ "0" \in Chars
    <3>1. 1 \in 1 .. 16 /\ Digits[1] = "0" BY DEF Digits
    <3> QED BY <3>1 DEF Chars
  <2>2. <<"%", "0">> \in Seq(Chars) /\ <<"%">> \in Seq(Chars) BY <2>1
  <2> QED BY <2>2
<1>5. <<c>> \in Seq(Chars) /\ s \in Seq(Chars) /\ s[1] = c /\ Tail(s) = t /\ Len(s) = Len(t) + 1 /\ Len(t) \in Nat
  BY <1>2, PrefixedIs
<1> HIDE DEF c, w, head, s
<1>6. fmt = head \o r
  <2>0. w \in Seq(Chars) /\ head \in Seq(Chars) /\ <<c>> \in Seq(Chars) /\ s \in Seq(Chars)
    BY <1>1, <1>4, <1>5
  <2>4. head \o w \in Seq(Chars) BY <2>0
  <2>1. ((head \o w) \o <<c>>) \o t = (head \o w) \o (<<c>> \o t)
    BY ONLY <2>0, <2>4, t \in Seq(Chars), ConcatAssociative
  <2>2. (head \o w) \o s = head \o (w \o s) BY ONLY <2>0, ConcatAssociative
  <2> QED BY <1>3, <2>1, <2>2 DEF s, r
<1>7. /\ r \in Seq(Chars) /\ Len(r) = Len(w) + Len(s) /\ Len(w) \in Nat
      /\ \A i \in 1 .. Len(w) : r[i] = w[i]
      /\ \A i \in 1 .. Len(s) : r[Len(w) + i] = s[i]
      /\ SubSeq(r, 1, Len(w)) = w
      /\ SubSeq(r, Len(w) + 1, Len(r)) = s
  <2> DEFINE m == Len(w) + 1
  <2>1. w \in Seq(Chars) /\ s \in Seq(Chars) /\ m = Len(w) + 1 BY <1>1, <1>5
  <2> HIDE DEF m
  <2>2. /\ w \o s \in Seq(Chars) /\ Len(w \o s) = Len(w) + Len(s) /\ Len(w) \in Nat
        /\ \A i \in 1 .. Len(w) : (w \o s)[i] = w[i]
        /\ \A i \in 1 .. Len(s) : (w \o s)[Len(w) + i] = s[i]
        /\ SubSeq(w \o s, 1, Len(w)) = w
        /\ SubSeq(w \o s, m, Len(w \o s)) = s
    BY ONLY <2>1, RestIs
  <2> QED BY <2>1, <2>2 DEF r
<1>8. r[Len(w) + 1] = c
  <2>1. 1 \in 1 .. Len(s) BY <1>5
  <2> QED BY <1>5, <1>7, <2>1
<1>9. r[1] # "0"
  <2>1. CASE w = <<>>
    <3>1. Len(w) + 1 = 1 BY <2>1
    <3> QED BY <1>2, <1>8, <3>1
  <2>2. CASE w # <<>>
    <3>1. 1 \in 1 .. Len(w) BY <1>1, <2>2
    <3> QED BY <1>1, <1>7, <2>2, <3>1
  <2> QED BY <2>1, <2>2
<1> HIDE DEF r
<1>10. /\ fmt[2] = "0" <=> f.zero = TRUE
       /\ SubSeq(fmt, Len(head) + 1, Len(fmt)) = r
  <2>1. /\ SubSeq(fmt, Len(head) + 1, Len(fmt)) = r
        /\ \A i \in 1 .. Len(head) : fmt[i] = head[i]
        /\ \A i \in 1 .. Len(r) : fmt[Len(head) + i] = r[i]
    <3> DEFINE m == Len(head) + 1
    <3>1. head \in Seq(Chars) /\ r \in Seq(Chars) /\ m = Len(head) + 1 BY <1>4, <1>7
    <3> HIDE DEF m
    <3>2. /\ SubSeq(fmt, m, Len(fmt)) = r
          /\ \A i \in 1 .. Len(head) : fmt[i] = head[i]
          /\ \A i \in 1 .. Len(r) : fmt[Len(head) + i] = r[i]
      BY ONLY <1>6, <3>1, RestIs
    <3> QED BY <3>1, <3>2
  <2>2. CASE f.zero = TRUE
    <3>1. 2 \in 1 .. Len(head) BY <1>4, <2>2
    <3> QED BY <1>4, <2>1, <2>2, <3>1
  <2>3. CASE f.zero = FALSE
    <3>3. Len(head) = 1 BY <1>4, <2>3
    <3>4. Len(r) \in Nat /\ Len(r) >= 1 BY <1>5, <1>7
    <3>1. Len(head) + 1 = 2 /\ 1 \in 1 .. Len(r) BY <3>3, <3>4
    <3>2. fmt[2] = r[1] BY <2>1, <3>1
    <3> QED BY <1>9, <2>1, <2>3, <3>2
  <2> QED BY <1>14, <2>1, <2>2, <2>3
<1>11. AfterFlag = r
  <2>1. (IF fmt[2] = "0" THEN 3 ELSE 2) = Len(head) + 1
    <3>1. CASE f.zero = TRUE
      <4>1. fmt[2] = "0" /\ Len(head) = 2 BY <1>4, <1>10, <3>1
      <4> QED BY <4>1
    <3>2. CASE f.zero = FALSE
      <4>1. Len(head) = 1 BY <1>4, <3>2
      <4>2. ~(fmt[2] = "0") BY <1>10, <3>2
      <4>3. (IF fmt[2] = "0" THEN 3 ELSE 2) = 2 BY <4>2
      <4>4. Len(head) + 1 = 2 BY <4>1
      <4> QED BY <4>3, <4>4
    <3> QED BY <1>14, <3>1, <3>2
  <2> QED BY <1>10, <2>1 DEF AfterFlag
<1>12. /\ WidthRead.skipped = SubSeq(r, 1, Len(w))
       /\ WidthRead.rest = SubSeq(r, Len(w) + 1, Len(r))
  <2>1. Len(r) \in Nat /\ Len(w) \in 0 .. Len(r) BY <1>5, <1>7
  <2>2. \A j \in 1 .. Len(w) : r[j] \in Decimals BY <1>1, <1>7
  <2>3. r[Len(w) + 1] \notin Decimals BY <1>2, <1>8
  <2> QED BY <1>11, <2>1, <2>2, <2>3, SkippedIs DEF WidthRead
<1>13. Leading = IF f.zero THEN "0" ELSE " " BY <1>10, <1>14 DEF Leading
<1> QED BY <1>5, <1>7, <1>12, <1>13 DEF c, w

\* Padding to the width read is padding to the width meant.
LEMMA PaddedIs ==
  ASSUME NEW f \in Directive, f.conv # "5", NEW t \in Seq(Chars), fmt = Written(f) \o t,
         NEW s \in Seq(Chars)
  PROVE  /\ Padded(s) = Sized(f, s) /\ Padded(s) \in Seq(Chars)
         /\ f.width = <<>> => Padded(s) = s
<1> DEFINE width == Width(f)
<1>1. leading_len = width /\ width \in Nat
  <2>1. WidthRead.skipped = f.width BY DirectiveRead
  <2>2. f.width # <<>> => atoi(f.width) = NumberOf(f.width, 10) /\ NumberOf(f.width, 10) \in Nat
    BY DirectiveIs, WidthIs
  <2> QED BY <2>1, <2>2 DEF leading_len, Collected, Width
<1>2. f.width = <<>> => width = 0 BY DEF Width
<1>3. Sized(f, s) = [i \in 1 .. IF width > Len(s) THEN width - Len(s) ELSE 0 |-> IF f.zero THEN "0" ELSE " "] \o s
  BY DEF Sized
<1> HIDE DEF width
<1> DEFINE fill == IF f.zero THEN "0" ELSE " "
<1>4. Leading = fill BY DirectiveRead
<1>5. fill \in Chars
  <2>1. 1 \in 1 .. 16 /\ Digits[1] = "0" BY DEF Digits
  <2>2. "0" \in Chars /\ " " \in Chars BY <2>1 DEF Chars
  <2> QED BY <2>2
<1>6. Padded(s) = (IF leading_len > Len(s) THEN [i \in 1 .. leading_len - Len(s) |-> Leading] ELSE <<>>) \o s
  BY DEF Padded
<1> HIDE DEF fill
<1>7. Len(s) \in Nat OBVIOUS
<1>8. CASE width > Len(s)
  <2> DEFINE blanks == [i \in 1 .. width - Len(s) |-> fill]
  <2>1. Padded(s) = blanks \o s BY <1>1, <1>4, <1>6, <1>8
  <2>2. Sized(f, s) = blanks \o s BY <1>3, <1>8 DEF fill
  <2>3. blanks \in Seq(Chars)
    <3>1. width - Len(s) \in Nat BY <1>1, <1>7, <1>8
    <3> QED BY <1>5, <3>1
  <2> HIDE DEF blanks
  <2>4. blanks \o s \in Seq(Chars) BY <2>3
  <2>5. f.width # <<>> BY <1>2, <1>7, <1>8
  <2> QED BY <2>1, <2>2, <2>4, <2>5
<1>9. CASE ~(width > Len(s))
  <2>1. Padded(s) = <<>> \o s BY <1>1, <1>6, <1>9
  <2>2. Sized(f, s) = [i \in 1 .. 0 |-> fill] \o s BY <1>3, <1>9 DEF fill
  <2>3. [i \in 1 .. 0 |-> fill] = <<>> OBVIOUS
  <2>4. <<>> \o s = s BY ConcatEmptySeq
  <2> QED BY <2>1, <2>2, <2>3, <2>4
<1> QED BY <1>8, <1>9

LEMMA DigitChars ==
  ASSUME NEW base \in 2 .. 16, NEW s \in Seq({Digits[d + 1] : d \in 0 .. base - 1})
  PROVE  s \in Seq(Chars)
<1> DEFINE D == {Digits[d + 1] : d \in 0 .. base - 1}
<1>1. D \subseteq Chars
  <2>1. ASSUME NEW d \in 0 .. base - 1 PROVE Digits[d + 1] \in Chars
    <3>1. d \in 0 .. 15 OBVIOUS
    <3> QED BY <3>1, CapitalsAre
  <2> QED BY <2>1
<1>2. s \in Seq(D) OBVIOUS
<1> HIDE DEF D
<1>3. s \in [1 .. Len(s) -> D] /\ Len(s) \in Nat BY <1>2
<1>4. s \in [1 .. Len(s) -> Chars] BY <1>1, <1>3
<1> QED BY <1>3, <1>4

\* A text as wide as its field, or wider, is not filled.
LEMMA SizedIs ==
  ASSUME NEW f \in Directive, NEW s \in Seq(Chars), ~(Width(f) > Len(s))
  PROVE  Sized(f, s) = s
<1>1. Sized(f, s) = [i \in 1 .. 0 |-> IF f.zero THEN "0" ELSE " "] \o s BY DEF Sized
<1>2. [i \in 1 .. 0 |-> IF f.zero THEN "0" ELSE " "] = <<>> OBVIOUS
<1>3. <<>> \o s = s BY ConcatEmptySeq
<1> QED BY <1>1, <1>2, <1>3

LEMMA Divided ==
  ASSUME NEW x \in Int, NEW m \in Nat, m >= 1
  PROVE  /\ x \div m \in Int /\ x % m \in 0 .. m - 1 /\ x = (x \div m) * m + (x % m)
         /\ x >= 0 => x \div m >= 0
<1> DEFINE q == x \div m
<1> DEFINE r == x % m
<1>1. q \in Int /\ r \in 0 .. m - 1 /\ x = q * m + r OBVIOUS
<1> HIDE DEF q, r
<1>2. ASSUME x >= 0, q < 0 PROVE FALSE
  <2>1. PICK d \in Nat : q = -1 - d
    <3>1. -1 - q \in Nat /\ q = -1 - (-1 - q) BY <1>1, <1>2
    <3> QED BY <3>1
  <2>2. q * m = -m - d * m /\ d * m \in Nat BY <2>1
  <2> QED BY <1>1, <1>2, <2>2
<1>3. x >= 0 => q >= 0 BY <1>1, <1>2
<1> QED BY <1>1, <1>3 DEF q, r

\* A value is cut towards 0, and less than 1 is left of it.
LEMMA WholeIs ==
  ASSUME NEW v \in Int
  PROVE  /\ Whole(v) \in Int /\ FractionOf(v) \in -(Scale - 1) .. Scale - 1
         /\ v >= 0 => Whole(v) = v \div Scale /\ Whole(v) >= 0 /\ FractionOf(v) = v % Scale
<1>1. Scale \in Nat /\ Scale >= 1 BY PrintfAssumption
<1>2. CASE v >= 0
  <2> DEFINE q == v \div Scale
  <2> DEFINE r == v % Scale
  <2>1. q \in Int /\ r \in 0 .. Scale - 1 /\ v = q * Scale + r /\ q >= 0 BY <1>1, <1>2, Divided
  <2>2. Whole(v) = q /\ FractionOf(v) = v - q * Scale BY <1>2 DEF Whole, FractionOf
  <2> HIDE DEF q, r
  <2>4. q * Scale \in Int BY <1>1, <2>1
  <2>3. FractionOf(v) = r BY <1>1, <2>1, <2>2, <2>4
  <2> QED BY <1>1, <2>1, <2>2, <2>3 DEF q, r
<1>3. CASE ~(v >= 0)
  <2> DEFINE x == -v
  <2> DEFINE q == x \div Scale
  <2> DEFINE r == x % Scale
  <2>1. x \in Int /\ q \in Int /\ r \in 0 .. Scale - 1 /\ x = q * Scale + r BY <1>1, Divided
  <2>2. Whole(v) = -q /\ FractionOf(v) = v - (-q) * Scale BY <1>3 DEF Whole, FractionOf
  <2>3. v = -x OBVIOUS
  <2> HIDE DEF q, r, x
  <2>4. (-q) * Scale = -(q * Scale) /\ q * Scale \in Int BY <1>1, <2>1
  <2>5. FractionOf(v) = -r BY <1>1, <2>1, <2>2, <2>3, <2>4
  <2> QED BY <1>1, <1>3, <2>1, <2>2, <2>5
<1> QED BY <1>2, <1>3

\* Ten times what is left has one digit before the point.
LEMMA TenTimes ==
  ASSUME NEW m \in Nat, m >= 1, NEW r \in 0 .. m - 1
  PROVE  (10 * r) \div m \in 0 .. 9
<1> DEFINE x == 10 * r
<1> DEFINE q == x \div m
<1>0. x \in Int /\ x >= 0 /\ x < 10 * m OBVIOUS
<1> HIDE DEF x
<1>1. q \in Int /\ q >= 0 /\ x % m \in 0 .. m - 1 /\ x = q * m + (x % m) BY <1>0, Divided
<1> HIDE DEF q
<1>2. ASSUME q >= 10 PROVE FALSE
  <2>1. PICK d \in Nat : q = 10 + d
    <3>1. q - 10 \in Nat /\ q = 10 + (q - 10) BY <1>1, <1>2
    <3> QED BY <3>1
  <2>2. q * m = 10 * m + d * m /\ d * m \in Nat BY <2>1
  <2> QED BY <1>0, <1>1, <2>2
<1>3. q \in 0 .. 9 BY <1>1, <1>2
<1> QED BY <1>3 DEF q, x

LEMMA DigitBounds ==
  ASSUME NEW r \in -(Scale - 1) .. Scale - 1
  PROVE  /\ Whole(10 * r) \in -9 .. 9 /\ FractionOf(10 * r) \in -(Scale - 1) .. Scale - 1
         /\ DigitOf(Whole(10 * r)) \in Chars
<1>1. Scale \in Nat /\ Scale >= 1 BY PrintfAssumption
<1>2. 10 * r \in Int BY <1>1
<1>3. FractionOf(10 * r) \in -(Scale - 1) .. Scale - 1 BY <1>2, WholeIs
<1>4. Whole(10 * r) \in -9 .. 9
  <2>1. CASE r >= 0
    <3>1. r \in 0 .. Scale - 1 BY <1>1, <2>1
    <3>2. (10 * r) \div Scale \in 0 .. 9 BY <1>1, <3>1, TenTimes
    <3>3. 10 * r >= 0 BY <1>1, <2>1
    <3> HIDE DEF Whole
    <3>4. Whole(10 * r) = (10 * r) \div Scale BY <1>2, <3>3, WholeIs
    <3> QED BY <3>2, <3>4
  <2>2. CASE ~(r >= 0)
    <3> DEFINE x == -r
    <3>1. x \in 0 .. Scale - 1 /\ -(10 * r) = 10 * x /\ ~(10 * r >= 0) BY <1>1, <2>2
    <3> HIDE DEF x
    <3>2. (10 * x) \div Scale \in 0 .. 9 BY <1>1, <3>1, TenTimes
    <3>3. Whole(10 * r) = -((10 * x) \div Scale) BY <3>1 DEF Whole
    <3> QED BY <3>2, <3>3
  <2> QED BY <2>1, <2>2
<1> DEFINE d == Whole(10 * r)
<1>5. d \in -9 .. 9 BY <1>4
<1> HIDE DEF d
<1>6. DigitOf(d) \in Chars
  <2>1. CASE d >= 0
    <3>1. d \in 0 .. 15 BY <1>5, <2>1
    <3>2. DigitOf(d) = Digits[d + 1] BY <2>1 DEF DigitOf
    <3> QED BY <3>1, <3>2, CapitalsAre
  <2>2. CASE ~(d >= 0)
    <3>1. -d \in 1 .. 9 BY <1>5, <2>2
    <3>2. DigitOf(d) = BelowZero[-d] BY <2>2 DEF DigitOf
    <3> QED BY <3>1, <3>2 DEF Chars
  <2> QED BY <2>1, <2>2
<1> QED BY <1>3, <1>4, <1>6 DEF d

\* The loop of %f: what is left after each turn.
LEMMA FractionIs ==
  ASSUME NEW v \in Int
  PROVE  /\ fraction_part(v)[0] = FractionOf(v)
         /\ \A k \in 0 .. Precision - 1 : fraction_part(v)[k + 1] = FractionOf(10 * fraction_part(v)[k])
         /\ \A k \in 0 .. Precision : fraction_part(v)[k] \in -(Scale - 1) .. Scale - 1
<1> DEFINE u == FractionOf(v)
<1> DEFINE X == -(Scale - 1) .. Scale - 1
<1> DEFINE step == [n \in 1 .. Precision |-> [x \in X |-> FractionOf(10 * x)]]
<1>1. Precision \in Nat BY PrintfAssumption
<1>2. u \in X BY WholeIs
<1>3. \A x \in X : FractionOf(10 * x) \in X BY DigitBounds
<1>5. step \in [1 .. Precision -> [X -> X]]
  <2> HIDE DEF X
  <2> QED BY <1>3
<1>6. \A n \in 1 .. Precision, x \in X : step[n][x] = FractionOf(10 * x) OBVIOUS
<1> HIDE DEF u, X, step
<1>7. PICK f : Steps(f, Precision, X, u, step) BY <1>1, <1>2, <1>5, Recursion
<1> DEFINE Is(g) == g = [k \in 0 .. Precision |-> IF k = 0 THEN u ELSE FractionOf(10 * g[k - 1])]
<1>8. Is(f)
  <2>1. \A n \in 0 .. Precision : f[n] = IF n = 0 THEN u ELSE FractionOf(10 * f[n - 1])
    <3>1. \A n \in 0 .. Precision : n = 0 \/ (n \in 1 .. Precision /\ n - 1 \in 0 .. Precision) BY <1>1
    <3> QED BY <1>6, <1>7, <3>1 DEF Steps
  <2> QED BY <1>7, <2>1 DEF Steps
<1> DEFINE l == fraction_part(v)
<1>9. Is(l) BY <1>8 DEF fraction_part, u
<1> HIDE DEF l
<1>10. l[0] = u BY <1>1, <1>9
<1>11. ASSUME NEW k \in 0 .. Precision - 1 PROVE l[k + 1] = FractionOf(10 * l[k])
  <2>1. k + 1 \in 0 .. Precision /\ k + 1 # 0 /\ k + 1 - 1 = k BY <1>1
  <2>2. \A n \in 0 .. Precision : l[n] = IF n = 0 THEN u ELSE FractionOf(10 * l[n - 1]) BY <1>9
  <2>3. l[k + 1] = FractionOf(10 * l[k + 1 - 1]) BY <2>1, <2>2
  <2> QED BY <2>1, <2>3
<1>12. \A k \in 0 .. Precision : l[k] \in X BY <1>1, <1>2, <1>3, <1>10, <1>11, Ranges
<1> QED BY <1>10, <1>11, <1>12 DEF l, u, X

LEMMA FractionChars ==
  ASSUME NEW v \in Int
  PROVE  FractionDigits(v) \in Seq(Chars) /\ Len(FractionDigits(v)) = Precision /\ Precision \in Nat
<1>1. Precision \in Nat BY PrintfAssumption
<1>2. ASSUME NEW k \in 1 .. Precision PROVE DigitOf(Whole(10 * fraction_part(v)[k - 1])) \in Chars
  <2>1. k - 1 \in 0 .. Precision BY <1>1
  <2>2. fraction_part(v)[k - 1] \in -(Scale - 1) .. Scale - 1 BY <2>1, FractionIs
  <2> QED BY <2>2, DigitBounds
<1>3. FractionDigits(v) = [k \in 1 .. Precision |-> DigitOf(Whole(10 * fraction_part(v)[k - 1]))]
  BY DEF FractionDigits
<1> QED BY <1>1, <1>2, <1>3

\* One more digit of a quotient.
LEMMA NextDigit ==
  ASSUME NEW m \in Nat, m >= 1, NEW x \in Nat
  PROVE  /\ (10 * x) \div m = (x \div m) * 10 + (10 * (x % m)) \div m
         /\ (10 * x) % m = (10 * (x % m)) % m
         /\ (10 * (x % m)) \div m \in 0 .. 9
         /\ x \div m \in Nat
<1> DEFINE q == x \div m
<1> DEFINE r == x % m
<1>1. q \in Nat /\ r \in 0 .. m - 1 /\ x = q * m + r
  <2>1. x \in Int /\ x >= 0 OBVIOUS
  <2>2. q \in Int /\ q >= 0 /\ r \in 0 .. m - 1 /\ x = q * m + r BY <2>1, Divided
  <2> HIDE DEF q, r
  <2> QED BY <2>2
<1> HIDE DEF q, r
<1> DEFINE d == (10 * r) \div m
<1> DEFINE e == (10 * r) % m
<1>2. d \in 0 .. 9 BY <1>1, TenTimes
<1>3. 10 * r = d * m + e /\ e \in 0 .. m - 1
  <2>1. 10 * r \in Int BY <1>1
  <2> QED BY <2>1, Divided
<1> HIDE DEF d, e
<1>4. 10 * x = (q * 10 + d) * m + e
  <2>1. (q * 10 + d) * m = 10 * (q * m) + d * m BY <1>1, <1>2
  <2>2. q * m \in Int /\ d * m \in Int BY <1>1, <1>2
  <2> QED BY <1>1, <1>2, <1>3, <2>1, <2>2
<1>5. q * 10 + d \in Int BY <1>1, <1>2
<1>6. (10 * x) % m = e /\ (10 * x) \div m = q * 10 + d BY <1>3, <1>4, <1>5, RemainderIs
<1> QED BY <1>1, <1>2, <1>6 DEF q, r, d, e

\* The digits of a double that is not negative are the ones of its value cut off
\* behind them.
LEMMA CutDigits ==
  ASSUME NEW v \in Nat
  PROVE  /\ FractionDigits(v) =
              [i \in 1 .. Precision |-> Digits[((CutOff(v) \div Power(10, Precision - i)) % 10) + 1]]
         /\ Whole(v) = CutOff(v) \div Power(10, Precision)
<1> DEFINE l == fraction_part(v)
<1> DEFINE w(k) == Power(10, k)
<1> DEFINE q(k) == (v * w(k)) \div Scale
<1> DEFINE r(k) == (v * w(k)) % Scale
<1>1. Scale \in Nat /\ Scale >= 1 /\ Precision \in Nat BY PrintfAssumption
<1>2. w(0) = 1 /\ \A k \in Nat : w(k) \in Nat \ {0} /\ w(k + 1) = w(k) * 10
  <2>1. 10 \in 2 .. 16 OBVIOUS
  <2> QED BY <2>1, PowerIs
<1>3. l[0] = FractionOf(v) /\ \A k \in 0 .. Precision - 1 : l[k + 1] = FractionOf(10 * l[k]) BY FractionIs
<1>4. Whole(v) = v \div Scale /\ FractionOf(v) = v % Scale BY WholeIs
<1>5. \A k \in Nat : q(k) = (v * w(k)) \div Scale /\ r(k) = (v * w(k)) % Scale OBVIOUS
<1>6. CutOff(v) = q(Precision) BY DEF CutOff
<1> HIDE DEF l, w, q, r
<1>7. ASSUME NEW k \in Nat
      PROVE  /\ q(k + 1) = q(k) * 10 + (10 * r(k)) \div Scale
             /\ r(k + 1) = (10 * r(k)) % Scale
             /\ (10 * r(k)) \div Scale \in 0 .. 9 /\ q(k) \in Nat /\ r(k) \in 0 .. Scale - 1
  <2> DEFINE x == v * w(k)
  <2>1. w(k) \in Nat BY <1>2
  <2>2. x \in Nat BY <2>1
  <2>3. v * w(k + 1) = 10 * x BY <1>2, <2>1
  <2>4. q(k) = x \div Scale /\ r(k) = x % Scale BY <1>5
  <2>5. q(k + 1) = (10 * x) \div Scale /\ r(k + 1) = (10 * x) % Scale BY <1>5, <2>3
  <2> HIDE DEF x
  <2>6. x % Scale \in 0 .. Scale - 1 BY <1>1, <2>2, Divided
  <2> QED BY <1>1, <2>2, <2>4, <2>5, <2>6, NextDigit
<1>8. q(0) = v \div Scale /\ r(0) = v % Scale
  <2>1. v * w(0) = v BY <1>2
  <2> QED BY <1>5, <2>1
<1>9. \A k \in 0 .. Precision : l[k] = r(k)
  <2> DEFINE S == {k \in 0 .. Precision : l[k] = r(k)}
  <2>1. 0 \in S BY <1>1, <1>3, <1>4, <1>8
  <2>2. ASSUME NEW k \in 0 .. Precision - 1, k \in S PROVE k + 1 \in S
    <3>1. k \in Nat /\ k + 1 \in 0 .. Precision /\ l[k] = r(k) BY <1>1, <2>2
    <3>2. r(k) \in 0 .. Scale - 1 /\ r(k + 1) = (10 * r(k)) % Scale BY <1>7, <3>1
    <3>3. 10 * r(k) \in Int /\ 10 * r(k) >= 0 BY <1>1, <3>2
    <3>4. FractionOf(10 * r(k)) = (10 * r(k)) % Scale BY <3>3, WholeIs
    <3>5. l[k + 1] = r(k + 1) BY <1>3, <3>1, <3>2, <3>4
    <3> QED BY <3>1, <3>5
  <2> HIDE DEF S
  <2>3. 0 .. Precision \subseteq S BY <1>1, <2>1, <2>2, Climbs
  <2> QED BY <2>3 DEF S
<1>10. \A n \in 0 .. Precision : q(Precision) \div w(n) = q(Precision - n)
  <2> DEFINE Parts(n) == \E e \in 0 .. w(n) - 1 : q(Precision) = q(Precision - n) * w(n) + e
  <2> DEFINE S == {n \in 0 .. Precision : Parts(n)}
  <2>1. 0 \in S
    <3>1. q(Precision) \in Nat /\ Precision - 0 = Precision BY <1>1, <1>7
    <3>2. q(Precision) = q(Precision - 0) * w(0) + 0 /\ 0 \in 0 .. w(0) - 1 BY <1>2, <3>1
    <3>3. Parts(0) BY <3>2
    <3> HIDE DEF Parts
    <3> QED BY <1>1, <3>3
  <2>2. ASSUME NEW n \in 0 .. Precision - 1, n \in S PROVE n + 1 \in S
    <3>1. n \in Nat /\ n + 1 \in 0 .. Precision /\ Precision - (n + 1) \in Nat BY <1>1
    <3>2. w(n) \in Nat \ {0} /\ w(n + 1) = w(n) * 10 BY <1>2, <3>1
    <3>3. PICK e \in 0 .. w(n) - 1 : q(Precision) = q(Precision - n) * w(n) + e BY <2>2
    <3> DEFINE k == Precision - (n + 1)
    <3> DEFINE t == (10 * r(k)) \div Scale
    <3>4. k \in Nat /\ k + 1 = Precision - n BY <1>1, <3>1
    <3> HIDE DEF k
    <3>5. q(Precision - n) = q(k) * 10 + t /\ t \in 0 .. 9 /\ q(k) \in Nat BY <1>7, <3>4
    <3> HIDE DEF t
    <3>6. t \in 0 .. 10 - 1 BY <3>5
    <3>7. /\ (q(k) * 10 + t) * w(n) + e = q(k) * (w(n) * 10) + (t * w(n) + e)
          /\ t * w(n) + e \in 0 .. w(n) * 10 - 1
      BY <3>2, <3>5, <3>6, OneDigitMore
    <3>8. q(Precision) = q(k) * w(n + 1) + (t * w(n) + e) /\ t * w(n) + e \in 0 .. w(n + 1) - 1
      BY <3>2, <3>3, <3>5, <3>7
    <3>9. Parts(n + 1) BY <3>8 DEF k
    <3> HIDE DEF Parts
    <3> QED BY <3>1, <3>9
  <2>3. 0 .. Precision \subseteq S
    <3> HIDE DEF S
    <3> QED BY <1>1, <2>1, <2>2, Climbs
  <2>4. ASSUME NEW n \in 0 .. Precision PROVE q(Precision) \div w(n) = q(Precision - n)
    <3>1. Parts(n) BY <2>3
    <3>2. PICK e \in 0 .. w(n) - 1 : q(Precision) = q(Precision - n) * w(n) + e BY <3>1
    <3>3. n \in Nat /\ Precision - n \in Nat BY <1>1
    <3>4. w(n) \in Nat /\ w(n) >= 1 BY <1>2, <3>3
    <3>5. q(Precision - n) \in Int BY <1>7, <3>3
    <3>6. (q(Precision - n) * w(n) + e) \div w(n) = q(Precision - n) BY <3>4, <3>5, RemainderIs
    <3> QED BY <3>2, <3>6
  <2> QED BY <2>4
<1>11. ASSUME NEW i \in 1 .. Precision
       PROVE  DigitOf(Whole(10 * l[i - 1])) = Digits[((q(Precision) \div w(Precision - i)) % 10) + 1]
  <2>1. i - 1 \in Nat /\ i - 1 + 1 = i /\ i - 1 \in 0 .. Precision /\ Precision - i \in 0 .. Precision
        /\ Precision - (Precision - i) = i
    BY <1>1
  <2> DEFINE k == i - 1
  <2> DEFINE d == (10 * r(k)) \div Scale
  <2>2. q(i) = q(k) * 10 + d /\ d \in 0 .. 9 /\ q(k) \in Nat /\ r(k) \in 0 .. Scale - 1 BY <1>7, <2>1
  <2>3. l[i - 1] = r(k) BY <1>9, <2>1
  <2>4. Whole(10 * r(k)) = d
    <3>1. 10 * r(k) \in Int /\ 10 * r(k) >= 0 BY <1>1, <2>2
    <3> QED BY <3>1, WholeIs
  <2> HIDE DEF k, d
  <2>5. q(Precision) \div w(Precision - i) = q(i) BY <1>10, <2>1
  <2>6. q(i) % 10 = d
    <3>1. 10 \in Nat /\ 10 >= 1 /\ d \in 0 .. 10 - 1 /\ q(k) \in Int BY <2>2
    <3>2. (q(k) * 10 + d) % 10 = d BY <3>1, RemainderIs
    <3> QED BY <2>2, <3>2
  <2>7. DigitOf(d) = Digits[d + 1] BY <2>2 DEF DigitOf
  <2> QED BY <2>3, <2>4, <2>5, <2>6, <2>7
<1>12. FractionDigits(v) = [i \in 1 .. Precision |-> DigitOf(Whole(10 * l[i - 1]))] BY DEF FractionDigits, l
<1>13. [i \in 1 .. Precision |-> DigitOf(Whole(10 * l[i - 1]))]
         = [i \in 1 .. Precision |-> Digits[((q(Precision) \div w(Precision - i)) % 10) + 1]]
  BY <1>11
<1>14. Whole(v) = q(Precision) \div w(Precision)
  <2>1. Precision \in 0 .. Precision /\ Precision - Precision = 0 BY <1>1
  <2> QED BY <1>4, <1>8, <1>10, <2>1
<1>15. FractionDigits(v) = [i \in 1 .. Precision |-> Digits[((CutOff(v) \div w(Precision - i)) % 10) + 1]]
  BY <1>6, <1>12, <1>13
<1>16. Whole(v) = CutOff(v) \div w(Precision) BY <1>6, <1>14
<1> QED BY <1>15, <1>16 DEF w

\* What printf puts out for a directive is what the standard says.
LEMMA FieldAdded ==
  ASSUME NEW f \in Directive, f.conv # "5", NEW t \in Seq(Chars), fmt = Written(f) \o t,
         NEW arg \in Argument(f.conv)
  PROVE  /\ Added(f.conv, arg) \in Seq(Chars)
         /\ ~Own(f, arg) => Added(f.conv, arg) = FieldOf(f, arg)
<1> DEFINE c == f.conv
<1>1. c \in Conversions \cup {"%"} BY DirectiveIs
<1>2. ASSUME NEW s \in Seq(Chars)
      PROVE  /\ Padded(s) = Sized(f, s) /\ Padded(s) \in Seq(Chars)
             /\ f.width = <<>> => Padded(s) = s
  BY <1>2, PaddedIs
<1>3. ASSUME NEW n \in Int
      PROVE  /\ itoa(n, HelperLength, 10).str = Shortest(Unsigned(n), 10, Digits)
             /\ itoa(n, HelperLength, 16).str = Shortest(Unsigned(n), 16, Digits)
             /\ itoa(n, HelperLength, 10).str \in Seq(Chars)
             /\ itoa(n, HelperLength, 16).str \in Seq(Chars)
             /\ itoa(n, HelperLength, 2).str = Shortest(Unsigned(n), 2, Digits)
             /\ itoa(n, HelperLength, 2).str \in Seq(Chars)
  <2>1. /\ 2 \in {2, 10, 16} /\ 10 \in {2, 10, 16} /\ 16 \in {2, 10, 16}
        /\ 10 \in 2 .. 16 /\ 16 \in 2 .. 16 /\ 2 \in 2 .. 16
    OBVIOUS
  <2>2. /\ itoa(n, HelperLength, 10).str = Shortest(Unsigned(n), 10, Digits)
        /\ itoa(n, HelperLength, 10).str \in Seq({Digits[d + 1] : d \in 0 .. 10 - 1})
    BY <2>1, ItoaShortest
  <2>3. /\ itoa(n, HelperLength, 16).str = Shortest(Unsigned(n), 16, Digits)
        /\ itoa(n, HelperLength, 16).str \in Seq({Digits[d + 1] : d \in 0 .. 16 - 1})
    BY <2>1, ItoaShortest
  <2>4. /\ itoa(n, HelperLength, 2).str = Shortest(Unsigned(n), 2, Digits)
        /\ itoa(n, HelperLength, 2).str \in Seq({Digits[d + 1] : d \in 0 .. 2 - 1})
    BY <2>1, ItoaShortest
  <2>5. itoa(n, HelperLength, 10).str \in Seq(Chars) BY <2>1, <2>2, DigitChars
  <2>6. itoa(n, HelperLength, 16).str \in Seq(Chars) BY <2>1, <2>3, DigitChars
  <2>7. itoa(n, HelperLength, 2).str \in Seq(Chars) BY <2>1, <2>4, DigitChars
  <2> QED BY <2>2, <2>3, <2>4, <2>5, <2>6, <2>7
<1>4. ASSUME NEW n \in Integrals PROVE n \in Int /\ (n >= 0 => Unsigned(n) = n)
  <2>1. n \in Ints BY FormatAssumption
  <2>2. Values \in Nat /\ Half \in Nat /\ Values = Half + Half BY HalfIs
  <2>3. n \in Int /\ n < Half BY <2>1, <2>2 DEF Ints
  <2>4. n >= 0 => n % Values = n BY <2>2, <2>3
  <2> QED BY <2>3, <2>4 DEF Unsigned
<1>5. CASE c \in {"d", "i"}
  <2>1. arg.n \in Integrals BY <1>5 DEF Argument
  <2> DEFINE s == itoa(arg.n, HelperLength, 10).str
  <2>2. s = Shortest(Unsigned(arg.n), 10, Digits) /\ s \in Seq(Chars) BY <1>3, <1>4, <2>1
  <2>3. Added(c, arg) = Padded(s) BY <1>5 DEF Added, Converted
  <2>4. FieldOf(f, arg) = Sized(f, Shortest(arg.n, 10, Digits)) BY <1>5 DEF FieldOf
  <2>5. ~Own(f, arg) => arg.n >= 0 BY <1>4, <1>5, <2>1 DEF Own
  <2>6. ~Own(f, arg) => Unsigned(arg.n) = arg.n BY <1>4, <2>1, <2>5
  <2> HIDE DEF s
  <2> QED BY <1>2, <2>2, <2>3, <2>4, <2>6
<1>6. CASE c = "x"
  <2>1. arg.n \in Integrals BY <1>6 DEF Argument
  <2> DEFINE s == itoa(arg.n, HelperLength, 16).str
  <2>2. s = Shortest(Unsigned(arg.n), 16, Digits) /\ s \in Seq(Chars) BY <1>3, <1>4, <2>1
  <2>3. Added(c, arg) = Padded(s) BY <1>6 DEF Added, Converted
  <2>4. FieldOf(f, arg) = Sized(f, Shortest(Unsigned(arg.n), 16, Digits)) BY <1>6 DEF FieldOf
  <2> HIDE DEF s
  <2> QED BY <1>2, <2>2, <2>3, <2>4
<1>7. CASE c = "X"
  <2>1. arg.n \in Integrals BY <1>7 DEF Argument
  <2> DEFINE s == str_to_upper(itoa(arg.n, HelperLength, 16).str)
  <2>2. s = Shortest(Unsigned(arg.n), 16, Capitals) /\ s \in Seq(Chars) BY <1>4, <2>1, UpperIs
  <2>3. Added(c, arg) = Padded(s) BY <1>7 DEF Added, Converted
  <2>4. FieldOf(f, arg) = Sized(f, Shortest(Unsigned(arg.n), 16, Capitals)) BY <1>7 DEF FieldOf
  <2> HIDE DEF s
  <2> QED BY <1>2, <2>2, <2>3, <2>4
<1>8. CASE c = "b"
  <2>1. arg.n \in Integrals BY <1>8 DEF Argument
  <2> DEFINE s == itoa(arg.n, HelperLength, 2).str
  <2>2. s = Shortest(Unsigned(arg.n), 2, Digits) /\ s \in Seq(Chars) BY <1>3, <1>4, <2>1
  <2>3. Added(c, arg) = Padded(s) BY <1>8 DEF Added, Converted
  <2>4. FieldOf(f, arg) = Sized(f, Shortest(Unsigned(arg.n), 2, Digits)) BY <1>8 DEF FieldOf
  <2> HIDE DEF s
  <2> QED BY <1>2, <2>2, <2>3, <2>4
<1>9. CASE c = "f"
  <2>1. arg.n \in Doubles BY <1>9 DEF Argument
  <2> DEFINE v == arg.n
  <2> DEFINE n == Whole(v)
  <2> DEFINE s == itoa(n, HelperLength, 10).str
  <2> DEFINE e == FractionDigits(v)
  <2>2. v \in Int BY <2>1, PrintfAssumption
  <2>3. n \in Int /\ n \in Ints BY <2>1, <2>2, WholeIs, FormatAssumption
  <2>4. s = Shortest(Unsigned(n), 10, Digits) /\ s \in Seq(Chars) BY <1>3, <2>3
  <2>5. e \in Seq(Chars) /\ Len(e) \in Nat BY <2>2, FractionChars
  <2>6. Added(c, arg) = (Padded(s) \o <<".">>) \o e BY <1>9 DEF Added, Converted
  <2>7. <<".">> \in Seq(Chars)
    <3>1. "." \in Chars BY DEF Chars
    <3> QED BY <3>1
  <2>8. v >= 0 => Unsigned(n) = n
    <3>1. Values \in Nat /\ Half \in Nat /\ Values = Half + Half BY HalfIs
    <3>2. v >= 0 => n >= 0 BY <2>2, WholeIs
    <3> HIDE DEF n
    <3>3. n < Half BY <2>3, <3>1 DEF Ints
    <3>4. n >= 0 => n % Values = n BY <2>3, <3>1, <3>3
    <3> QED BY <3>2, <3>4 DEF Unsigned
  <2>9. ASSUME v >= 0, CutOff(v) = Rounded(v)
        PROVE  Fixed(v) = (Shortest(n, 10, Digits) \o <<".">>) \o e
    <3>1. v \in Nat BY <2>2, <2>9
    <3>2. /\ e = [i \in 1 .. Precision |-> Digits[((CutOff(v) \div Power(10, Precision - i)) % 10) + 1]]
          /\ n = CutOff(v) \div Power(10, Precision)
      BY <3>1, CutDigits
    <3> HIDE DEF e, n
    <3>3. Fixed(v) = (Shortest(Rounded(v) \div Power(10, Precision), 10, Digits) \o <<".">>)
                       \o [i \in 1 .. Precision |-> Digits[((Rounded(v) \div Power(10, Precision - i)) % 10) + 1]]
      BY DEF Fixed
    <3> QED BY <2>9, <3>2, <3>3
  <2>10. ~Own(f, arg) => /\ v >= 0 /\ CutOff(v) = Rounded(v)
                         /\ ~(Width(f) > Len(Shortest(n, 10, Digits)))
    <3>1. v < 0 \/ v >= 0 BY <2>2
    <3> QED BY <1>9, <3>1 DEF Own
  <2>11. FieldOf(f, arg) = Sized(f, Fixed(v)) BY <1>9 DEF FieldOf
  <2> HIDE DEF s, e, n, v
  <2>12. Padded(s) \in Seq(Chars) /\ Padded(s) = Sized(f, s) BY <1>2, <2>4
  <2>13. (Padded(s) \o <<".">>) \o e \in Seq(Chars) BY <2>5, <2>7, <2>12
  <2>14. ASSUME ~Own(f, arg) PROVE Added(c, arg) = FieldOf(f, arg)
    <3>1. s = Shortest(n, 10, Digits) BY <2>4, <2>8, <2>10, <2>14
    <3>2. ~(Width(f) > Len(s)) BY <2>10, <2>14, <3>1
    <3>3. Padded(s) = s BY <2>4, <2>12, <3>2, SizedIs
    <3>4. Fixed(v) = (s \o <<".">>) \o e BY <2>9, <2>10, <2>14, <3>1
    <3> DEFINE whole == (s \o <<".">>) \o e
    <3>5. whole \in Seq(Chars) /\ Len(whole) = Len(s) + 1 + Len(e) /\ Len(s) \in Nat BY <2>4, <2>5, <2>7
    <3>6. Added(c, arg) = whole BY <2>6, <3>3
    <3>7. Fixed(v) = whole BY <3>4
    <3> HIDE DEF whole
    <3>8. ~(Width(f) > Len(whole))
      <4>1. Width(f) \in Nat
        <5>1. f.width # <<>> => NumberOf(f.width, 10) \in Nat BY DirectiveIs, WidthIs
        <5> QED BY <5>1 DEF Width
      <4> QED BY <2>5, <3>2, <3>5, <4>1
    <3>9. Sized(f, whole) = whole BY <3>5, <3>8, SizedIs
    <3> QED BY <2>11, <3>6, <3>7, <3>9
  <2> QED BY <2>6, <2>13, <2>14
<1>10. CASE c \in {"c", "s"}
  <2>1. arg.s \in {<<"y">>, <<>>, <<"n", "o">>} BY <1>10 DEF Argument
  <2>2. Added(c, arg) = arg.s /\ FieldOf(f, arg) = Sized(f, arg.s) BY <1>10 DEF Added, FieldOf
  <2>3. "y" \in Chars /\ "n" \in Chars /\ "o" \in Chars BY DEF Chars
  <2>4. <<"y">> \in Seq(Chars) /\ <<>> \in Seq(Chars) /\ <<"n", "o">> \in Seq(Chars) BY <2>3
  <2>5. arg.s \in Seq(Chars) BY <2>1, <2>4
  <2>6. ~Own(f, arg) => ~(Width(f) > Len(arg.s)) BY <1>10 DEF Own
  <2>7. ~Own(f, arg) => Sized(f, arg.s) = arg.s BY <2>5, <2>6, SizedIs
  <2> QED BY <2>2, <2>5, <2>7
<1>11. CASE c = "%"
  <2>1. Added(c, arg) = <<c>> /\ FieldOf(f, arg) = <<c>> BY <1>11 DEF Added, FieldOf
  <2>2. c \in Chars BY <1>1, NoDigit
  <2> HIDE DEF c
  <2>3. <<c>> \in Seq(Chars) BY <2>2
  <2> QED BY <2>1, <2>3 DEF c
<1> QED BY <1>1, <1>5, <1>6, <1>7, <1>8, <1>9, <1>10, <1>11 DEF Conversions

\* What is joined of the first k sequences.
Upto(seqs) ==
  LET upto[k \in 0 .. Len(seqs)] == IF k = 0 THEN <<>> ELSE upto[k - 1] \o seqs[k] IN upto

LEMMA UptoIs ==
  ASSUME NEW seqs, Len(seqs) \in Nat
  PROVE  /\ Upto(seqs)[0] = <<>>
         /\ \A k \in 0 .. Len(seqs) - 1 : Upto(seqs)[k + 1] = Upto(seqs)[k] \o seqs[k + 1]
<1> DEFINE n == Len(seqs)
<1> DEFINE Is(m, h) == h = [k \in 0 .. m |-> IF k = 0 THEN <<>> ELSE h[k - 1] \o seqs[k]]
<1> DEFINE S == {m \in 0 .. n : \E h : Is(m, h)}
<1> HIDE DEF n
<1>0. n \in Nat BY DEF n
<1>1. 0 \in S
  <2> DEFINE h == [k \in 0 .. 0 |-> <<>>]
  <2>1. Is(0, h) OBVIOUS
  <2> HIDE DEF Is
  <2> QED BY <1>0, <2>1
<1>2. ASSUME NEW m \in 0 .. n - 1, m \in S PROVE m + 1 \in S
  <2>1. PICK h : Is(m, h) BY <1>2
  <2>2. m \in Nat /\ m + 1 \in 0 .. n BY <1>0
  <2>3. \A k \in 0 .. m : h[k] = IF k = 0 THEN <<>> ELSE h[k - 1] \o seqs[k] BY <2>1
  <2> DEFINE last == h[m] \o seqs[m + 1]
  <2> DEFINE g == [k \in 0 .. m + 1 |-> IF k = m + 1 THEN last ELSE h[k]]
  <2> HIDE DEF last, Is
  <2>4. \A k \in 0 .. m : k \in 0 .. m + 1 /\ k # m + 1 BY <2>2
  <2>5. \A k \in 0 .. m : g[k] = h[k] BY <2>4
  <2>6. m + 1 \in 0 .. m + 1 BY <2>2
  <2>7. g[m + 1] = last BY <2>6
  <2>8. g = [k \in 0 .. m + 1 |-> g[k]] OBVIOUS
  <2> HIDE DEF g
  <2>9. ASSUME NEW k \in 0 .. m + 1 PROVE g[k] = IF k = 0 THEN <<>> ELSE g[k - 1] \o seqs[k]
    <3>1. CASE k = m + 1
      <4>1. k # 0 /\ k - 1 = m /\ m \in 0 .. m BY <2>2, <3>1
      <4>2. g[k] = h[m] \o seqs[k] BY <2>7, <3>1 DEF last
      <4>3. g[m] = h[m] BY <2>5, <4>1
      <4>4. g[k] = g[k - 1] \o seqs[k] BY <4>1, <4>2, <4>3
      <4> QED BY <4>1, <4>4
    <3>2. CASE k # m + 1
      <4>1. k \in 0 .. m /\ (k # 0 => k - 1 \in 0 .. m) BY <2>2, <3>2
      <4>2. g[k] = h[k] /\ (k # 0 => g[k - 1] = h[k - 1]) BY <2>5, <4>1
      <4>3. k = 0 => h[k] = <<>> BY <2>3, <4>1
      <4>4. k # 0 => h[k] = h[k - 1] \o seqs[k] BY <2>3, <4>1
      <4>5. k = 0 => g[k] = <<>> BY <4>2, <4>3
      <4>6. k # 0 => g[k] = g[k - 1] \o seqs[k] BY <4>2, <4>4
      <4> QED BY <4>5, <4>6
    <3> QED BY <3>1, <3>2
  <2>10. Is(m + 1, g) BY <2>8, <2>9 DEF Is
  <2> QED BY <2>2, <2>10
<1>3. n \in S
  <2> HIDE DEF S
  <2>1. 0 .. n \subseteq S BY <1>0, <1>1, <1>2, Climbs
  <2> QED BY <1>0, <2>1
<1> DEFINE u == CHOOSE h : Is(n, h)
<1>4. Is(n, u)
  <2> HIDE DEF Is
  <2> QED BY <1>3
<1>5. Upto(seqs) = u BY DEF Upto, n
<1> HIDE DEF u
<1>6. \A k \in 0 .. n : u[k] = IF k = 0 THEN <<>> ELSE u[k - 1] \o seqs[k] BY <1>4
<1> HIDE DEF Is
<1>7. ASSUME NEW k \in 0 .. n - 1 PROVE u[k + 1] = u[k] \o seqs[k + 1]
  <2> DEFINE j == k + 1
  <2>1. j \in 0 .. n /\ j # 0 /\ j - 1 = k BY <1>0
  <2> HIDE DEF j
  <2>2. u[j] = IF j = 0 THEN <<>> ELSE u[j - 1] \o seqs[j] BY <1>6, <2>1
  <2>3. u[j] = u[k] \o seqs[j] BY <2>1, <2>2
  <2> QED BY <2>3 DEF j
<1>8. u[0] = <<>> BY <1>0, <1>6
<1> QED BY <1>5, <1>7, <1>8 DEF n

\* Sequences that begin alike are joined alike.
LEMMA UptoAgrees ==
  ASSUME NEW s, NEW t, Len(s) \in Nat, Len(t) \in Nat, NEW k \in Nat, k <= Len(s), k <= Len(t),
         \A i \in 1 .. k : s[i] = t[i]
  PROVE  Upto(s)[k] = Upto(t)[k]
<1> DEFINE a == Upto(s)
<1> DEFINE b == Upto(t)
<1>1. a[0] = <<>> /\ \A i \in 0 .. Len(s) - 1 : a[i + 1] = a[i] \o s[i + 1] BY UptoIs
<1>2. b[0] = <<>> /\ \A i \in 0 .. Len(t) - 1 : b[i + 1] = b[i] \o t[i + 1] BY UptoIs
<1> HIDE DEF a, b
<1> DEFINE S == {i \in 0 .. k : a[i] = b[i]}
<1>3. 0 \in S BY <1>1, <1>2
<1>4. ASSUME NEW i \in 0 .. k - 1, i \in S PROVE i + 1 \in S
  <2>1. i \in 0 .. Len(s) - 1 /\ i \in 0 .. Len(t) - 1 /\ i + 1 \in 1 .. k /\ i + 1 \in 0 .. k OBVIOUS
  <2>2. a[i + 1] = a[i] \o s[i + 1] /\ b[i + 1] = b[i] \o t[i + 1] /\ s[i + 1] = t[i + 1] /\ a[i] = b[i]
    BY <1>1, <1>2, <1>4, <2>1
  <2>3. a[i + 1] = b[i + 1] BY <2>2
  <2> QED BY <2>1, <2>3
<1> HIDE DEF S
<1>5. 0 .. k \subseteq S BY <1>3, <1>4, Climbs
<1>6. k \in S BY <1>5
<1> QED BY <1>6 DEF S, a, b

LEMMA FurtherJoined ==
  ASSUME NEW X, NEW a \in Seq(X), NEW c \in Seq(X), NEW whole, NEW t \in Seq(X), whole = a \o t
  PROVE  whole \o c = a \o (t \o c) /\ t \o c \in Seq(X)
<1>1. (a \o t) \o c = a \o (t \o c) BY ConcatAssociative
<1>2. t \o c \in Seq(X) OBVIOUS
<1> QED BY <1>1, <1>2

\* What is joined begins with what is joined of fewer.
LEMMA UptoPrefix ==
  ASSUME NEW X, NEW s \in Seq(Seq(X)), NEW k \in 0 .. Len(s)
  PROVE  /\ Upto(s)[k] \in Seq(X)
         /\ \E t \in Seq(X) : Upto(s)[Len(s)] = Upto(s)[k] \o t
<1> DEFINE u == Upto(s)
<1> DEFINE n == Len(s)
<1>1. u[0] = <<>> /\ \A i \in 0 .. n - 1 : u[i + 1] = u[i] \o s[i + 1]
  <2>1. Len(s) \in Nat OBVIOUS
  <2> QED BY <2>1, UptoIs
<1>2. n \in Nat /\ \A i \in 1 .. n : s[i] \in Seq(X)
  <2> DEFINE Y == Seq(X)
  <2>1. s \in Seq(Y) OBVIOUS
  <2> HIDE DEF Y
  <2>2. Len(s) \in Nat /\ \A i \in 1 .. Len(s) : s[i] \in Y BY <2>1
  <2> QED BY <2>2 DEF Y
<1>k. k \in 0 .. n OBVIOUS
<1> HIDE DEF u, n
<1> DEFINE Goes(j, i) == \E t : t \in Seq(X) /\ u[i] = u[j] \o t
<1>3. \A i \in 0 .. n : u[i] \in Seq(X)
  <2>1. ASSUME NEW i \in 0 .. n - 1, u[i] \in Seq(X) PROVE u[i + 1] \in Seq(X)
    <3>1. i + 1 \in 1 .. n BY <1>2
    <3>2. u[i] \in Seq(X) /\ s[i + 1] \in Seq(X) BY <1>2, <2>1, <3>1
    <3>3. u[i] \o s[i + 1] \in Seq(X) BY <3>2
    <3> QED BY <1>1, <3>3
  <2>2. u[0] \in Seq(X)
    <3>1. <<>> \in Seq(X) OBVIOUS
    <3> QED BY <1>1, <3>1
  <2> DEFINE Y == Seq(X)
  <2>3. \A i \in 0 .. n - 1 : u[i] \in Y => u[i + 1] \in Y BY <2>1
  <2>4. u[0] \in Y BY <2>2
  <2> HIDE DEF Y
  <2>5. \A i \in 0 .. n : u[i] \in Y BY <1>2, <2>3, <2>4, Ranges
  <2> QED BY <2>5 DEF Y
<1> DEFINE S == {i \in 0 .. n : i >= k => Goes(k, i)}
<1>4. 0 \in S
  <2>1. CASE k = 0
    <3>1. u[0] = u[0] \o <<>> /\ <<>> \in Seq(X) BY <1>1
    <3>2. Goes(k, 0) BY <2>1, <3>1
    <3> HIDE DEF Goes
    <3> QED BY <1>2, <3>2
  <2>2. CASE k # 0
    <3>1. ~(0 >= k) BY <1>2, <1>k, <2>2
    <3> HIDE DEF Goes
    <3> QED BY <1>2, <3>1
  <2> QED BY <2>1, <2>2
<1>5. ASSUME NEW i \in 0 .. n - 1, i \in S PROVE i + 1 \in S
  <2>1. i + 1 \in 1 .. n /\ i + 1 \in 0 .. n /\ i \in 0 .. n BY <1>2
  <2>2. CASE i >= k
    <3>1. s[i + 1] \in Seq(X) /\ u[k] \in Seq(X) BY <1>2, <1>3, <1>k, <2>1
    <3>2. PICK t : t \in Seq(X) /\ u[i] = u[k] \o t BY <1>5, <2>2
    <3>3. u[i] \o s[i + 1] = u[k] \o (t \o s[i + 1]) /\ t \o s[i + 1] \in Seq(X)
      <4> DEFINE e == s[i + 1]
      <4> DEFINE v == u[i]
      <4> DEFINE w == u[k]
      <4>1. t \in Seq(X) /\ e \in Seq(X) /\ w \in Seq(X) /\ v = w \o t BY <3>1, <3>2
      <4> HIDE DEF e, v, w
      <4>2. v \o e = w \o (t \o e) /\ t \o e \in Seq(X) BY ONLY <4>1, FurtherJoined
      <4> QED BY <4>2 DEF e, v, w
    <3>4. u[i + 1] = u[i] \o s[i + 1] BY <1>1
    <3>5. Goes(k, i + 1) BY <3>3, <3>4
    <3> HIDE DEF Goes
    <3> QED BY <2>1, <3>5
  <2>3. CASE ~(i >= k) /\ i + 1 = k
    <3>1. u[k] \in Seq(X) /\ <<>> \in Seq(X) BY <1>3, <1>k
    <3>2. u[k] = u[k] \o <<>> BY <3>1, ConcatEmptySeq
    <3>3. Goes(k, i + 1) BY <2>3, <3>1, <3>2
    <3> HIDE DEF Goes
    <3> QED BY <2>1, <3>3
  <2>4. CASE ~(i >= k) /\ i + 1 # k
    <3>1. ~(i + 1 >= k) BY <1>2, <1>k, <2>4
    <3> HIDE DEF Goes
    <3> QED BY <2>1, <3>1
  <2> QED BY <2>2, <2>3, <2>4
<1>6. Goes(k, n)
  <2>1. 0 .. n \subseteq S
    <3> HIDE DEF S
    <3> QED BY <1>2, <1>4, <1>5, Climbs
  <2>2. n \in S
    <3> HIDE DEF S
    <3> QED BY <1>2, <2>1
  <2> HIDE DEF Goes
  <2> QED BY <1>2, <1>k, <2>2
<1> QED BY <1>3, <1>6, <1>k DEF u, n

\* A format as its directives are written, and as the standard prints them.
Source(fs) == [k \in DOMAIN fs |-> Written(fs[k])]
Output(fs, args) == [k \in DOMAIN args |-> FieldOf(fs[k], args[k])]
Arguments == {<<>>} \cup UNION {Argument(c) : c \in Conversions}

\* As many directives are behind printf as it read arguments, and the rest of the
\* format is what the others are written with.
FormatInv ==
  /\ stage \in {"idle", "number", "parsed"} => given = <<>> /\ str = <<>>
  /\ stage \in {"format", "puts", "overrun"} =>
       /\ fields \in Seq(Directive) /\ given \in Seq(Arguments) /\ Len(given) <= Len(fields)
       /\ fmt \in Seq(Chars) /\ str \in Seq(Chars)
       /\ Upto(Source(fields))[Len(fields)] = Upto(Source(fields))[Len(given)] \o fmt
       /\ (\A k \in 1 .. Len(given) : ~Own(fields[k], given[k])) =>
            str = Upto(Output(fields, given))[Len(given)]
  /\ stage = "puts" => Len(given) = Len(fields) /\ Len(str) < Room
  /\ stage = "overrun" => Len(str) >= Room
  /\ stage \in {"idle", "number", "parsed", "format", "puts", "overrun"}

LEMMA WrittenChars ==
  ASSUME NEW f \in Directive
  PROVE  /\ Written(f) \in Seq(Chars) /\ Written(f) # <<>>
         /\ f.conv = "5" => Written(f) = <<"5">>
         /\ f.conv # "5" => Written(f)[1] = "%"
<1>1. "%" \in Chars /\ "0" \in Chars /\ "5" \in Chars
  <2>1. 1 \in 1 .. 16 /\ 6 \in 1 .. 16 /\ Digits[1] = "0" /\ Digits[6] = "5" BY DEF Digits
  <2> QED BY <2>1 DEF Chars
<1>2. CASE f.conv = "5"
  <2>1. Written(f) = <<"5">> BY <1>2 DEF Written
  <2> QED BY <1>1, <1>2, <2>1
<1>3. CASE f.conv # "5"
  <2> DEFINE z == IF f.zero THEN <<"0">> ELSE <<>>
  <2> DEFINE c == f.conv
  <2>1. Written(f) = ((<<"%">> \o z) \o f.width) \o <<c>> BY <1>3 DEF Written
  <2>2. z \in Seq(Chars)
    <3>1. <<"0">> \in Seq(Chars) /\ <<>> \in Seq(Chars) BY <1>1
    <3> QED BY <3>1
  <2>3. f.width \in Seq(Chars) /\ c \in Chars BY <1>3, DirectiveIs
  <2> HIDE DEF z, c
  <2> DEFINE a == <<"%">> \o z
  <2>4. a \in Seq(Chars) /\ a[1] = "%" /\ Len(a) >= 1 /\ Len(a) \in Nat BY <1>1, <2>2
  <2> HIDE DEF a
  <2> DEFINE b == a \o f.width
  <2>5. b \in Seq(Chars) /\ b[1] = "%" /\ Len(b) >= 1 /\ Len(b) \in Nat BY <2>3, <2>4
  <2> HIDE DEF b
  <2> DEFINE w == b \o <<c>>
  <2>6. w \in Seq(Chars) /\ w[1] = "%" /\ Len(w) >= 1 BY <2>3, <2>5
  <2>7. w = Written(f) BY <2>1 DEF a, b
  <2> HIDE DEF w
  <2>8. w # <<>> BY <2>6
  <2> QED BY <1>3, <2>6, <2>7, <2>8
<1> QED BY <1>2, <1>3

LEMMA SourceIs ==
  ASSUME NEW fs \in Seq(Directive)
  PROVE  /\ Source(fs) \in Seq(Seq(Chars)) /\ Len(Source(fs)) = Len(fs) /\ Len(fs) \in Nat
         /\ \A k \in 1 .. Len(fs) : fs[k] \in Directive /\ Source(fs)[k] = Written(fs[k])
         /\ Upto(Source(fs))[0] = <<>>
         /\ \A k \in 0 .. Len(fs) : Upto(Source(fs))[k] \in Seq(Chars)
         /\ \A k \in 0 .. Len(fs) - 1 :
              Upto(Source(fs))[k + 1] = Upto(Source(fs))[k] \o Written(fs[k + 1])
<1> DEFINE D == Directive
<1>1. fs \in Seq(D) OBVIOUS
<1> HIDE DEF D
<1>2. Len(fs) \in Nat /\ DOMAIN fs = 1 .. Len(fs) /\ \A k \in 1 .. Len(fs) : fs[k] \in D BY <1>1
<1>3. \A k \in 1 .. Len(fs) : fs[k] \in Directive BY <1>2 DEF D
<1>4. Source(fs) = [k \in 1 .. Len(fs) |-> Written(fs[k])] BY <1>2 DEF Source
<1> DEFINE Y == Seq(Chars)
<1>5. \A k \in 1 .. Len(fs) : Written(fs[k]) \in Y BY <1>3, WrittenChars
<1>6. \A k \in 1 .. Len(fs) : Source(fs)[k] = Written(fs[k]) BY <1>4
<1> HIDE DEF Y
<1>7. Source(fs) \in Seq(Y) /\ Len(Source(fs)) = Len(fs) BY <1>2, <1>4, <1>5
<1>8. Source(fs) \in Seq(Seq(Chars)) BY <1>7 DEF Y
<1>9. /\ Upto(Source(fs))[0] = <<>>
      /\ \A k \in 0 .. Len(fs) - 1 : Upto(Source(fs))[k + 1] = Upto(Source(fs))[k] \o Source(fs)[k + 1]
  BY <1>2, <1>7, UptoIs
<1>10. ASSUME NEW k \in 0 .. Len(fs) - 1
       PROVE  Upto(Source(fs))[k + 1] = Upto(Source(fs))[k] \o Written(fs[k + 1])
  <2>1. k + 1 \in 1 .. Len(fs) BY <1>2
  <2> QED BY <1>6, <1>9, <2>1
<1>11. ASSUME NEW k \in 0 .. Len(fs) PROVE Upto(Source(fs))[k] \in Seq(Chars)
  <2>1. k \in 0 .. Len(Source(fs)) BY <1>7
  <2> QED BY <1>8, <2>1, UptoPrefix
<1> QED BY <1>2, <1>3, <1>6, <1>7, <1>8, <1>9, <1>10, <1>11

\* One more argument adds the field of its directive.
LEMMA OutputGrows ==
  ASSUME NEW fs \in Seq(Directive), NEW args \in Seq(Arguments), NEW arg \in Arguments,
         Len(args) < Len(fs)
  PROVE  LET k == Len(args)
             more == Append(args, arg)
         IN /\ more \in Seq(Arguments) /\ Len(more) = k + 1 /\ more[k + 1] = arg
            /\ \A i \in 1 .. k : more[i] = args[i]
            /\ Upto(Output(fs, more))[k + 1] = Upto(Output(fs, args))[k] \o FieldOf(fs[k + 1], arg)
<1> DEFINE k == Len(args)
<1> DEFINE more == Append(args, arg)
<1> DEFINE G == Arguments
<1>1. args \in Seq(G) /\ arg \in G OBVIOUS
<1> HIDE DEF G
<1>2. k \in Nat /\ DOMAIN args = 1 .. k BY <1>1
<1>3. more \in Seq(G) /\ Len(more) = k + 1 /\ more[k + 1] = arg /\ DOMAIN more = 1 .. k + 1 BY <1>1
<1>4. \A i \in 1 .. k : more[i] = args[i] BY <1>1
<1> HIDE DEF k, more
<1> DEFINE a == Output(fs, args)
<1> DEFINE b == Output(fs, more)
<1>5. a = [i \in 1 .. k |-> FieldOf(fs[i], args[i])] BY <1>2 DEF Output
<1>6. b = [i \in 1 .. k + 1 |-> FieldOf(fs[i], more[i])] BY <1>3 DEF Output
<1> HIDE DEF a, b
<1>7. Len(a) = k /\ Len(b) = k + 1 BY <1>2, <1>5, <1>6
<1>8. ASSUME NEW i \in 1 .. k PROVE a[i] = b[i]
  <2>1. i \in 1 .. k + 1 BY <1>2
  <2>2. a[i] = FieldOf(fs[i], args[i]) BY <1>5
  <2>3. b[i] = FieldOf(fs[i], more[i]) BY <1>6, <2>1
  <2> QED BY <1>4, <2>2, <2>3
<1>9. b[k + 1] = FieldOf(fs[k + 1], arg)
  <2>1. k + 1 \in 1 .. k + 1 BY <1>2
  <2> QED BY <1>3, <1>6, <2>1
<1>10. Upto(a)[k] = Upto(b)[k]
  <2>1. Len(a) \in Nat /\ Len(b) \in Nat /\ k \in Nat /\ k <= Len(a) /\ k <= Len(b) BY <1>2, <1>7
  <2>2. \A i \in 1 .. k : a[i] = b[i] BY <1>8
  <2> QED BY ONLY <2>1, <2>2, UptoAgrees
<1>11. Upto(b)[k + 1] = Upto(b)[k] \o b[k + 1]
  <2>1. k \in 0 .. Len(b) - 1 /\ Len(b) \in Nat BY <1>2, <1>7
  <2> QED BY <2>1, UptoIs
<1>12. Upto(b)[k + 1] = Upto(a)[k] \o FieldOf(fs[k + 1], arg) BY <1>9, <1>10, <1>11
<1> QED BY <1>3, <1>4, <1>12 DEF a, b, k, more, G

\* The rest of the format begins with the next directive.
LEMMA NextDirective ==
  ASSUME FormatInv, stage \in {"format", "puts"}, Len(given) < Len(fields)
  PROVE  LET k == Len(given)
             f == fields[k + 1]
         IN /\ k \in Nat /\ k + 1 \in 1 .. Len(fields) /\ f \in Directive
            /\ fmt # <<>>
            /\ \E t : /\ t \in Seq(Chars) /\ fmt = Written(f) \o t
                      /\ Upto(Source(fields))[Len(fields)] = Upto(Source(fields))[k + 1] \o t
<1> DEFINE k == Len(given)
<1> DEFINE f == fields[k + 1]
<1> DEFINE s == Source(fields)
<1> DEFINE joined == Upto(s)
<1> DEFINE n == Len(fields)
<1>1. fields \in Seq(Directive) /\ given \in Seq(Arguments) /\ fmt \in Seq(Chars)
      /\ joined[n] = joined[k] \o fmt
  BY DEF FormatInv
<1>2. k \in Nat /\ n \in Nat
  <2> DEFINE G == Arguments
  <2> DEFINE D == Directive
  <2>1. given \in Seq(G) /\ fields \in Seq(D) BY <1>1
  <2> HIDE DEF G, D
  <2> QED BY <2>1
<1>3. k + 1 \in 1 .. n /\ k \in 0 .. n - 1 /\ k \in 0 .. n BY <1>2
<1>4. /\ s \in Seq(Seq(Chars)) /\ Len(s) = n /\ f \in Directive
      /\ joined[k + 1] = joined[k] \o Written(f) /\ joined[k] \in Seq(Chars)
  BY <1>1, <1>3, SourceIs
<1>5. PICK t : t \in Seq(Chars) /\ joined[n] = joined[k + 1] \o t
  <2>1. k + 1 \in 0 .. Len(s) BY <1>2, <1>3, <1>4
  <2>2. \E t \in Seq(Chars) : joined[Len(s)] = joined[k + 1] \o t BY ONLY <1>4, <2>1, UptoPrefix
  <2> QED BY <1>4, <2>2
<1>6. Written(f) \in Seq(Chars) /\ Written(f) # <<>> BY <1>4, WrittenChars
<1> HIDE DEF f, joined, n, s, k
<1>7. fmt = Written(f) \o t /\ fmt # <<>>
  <2> DEFINE u == joined[k]
  <2> DEFINE w == Written(f)
  <2>1. u \in Seq(Chars) /\ w \in Seq(Chars) /\ t \in Seq(Chars) /\ fmt \in Seq(Chars) /\ w # <<>>
    BY <1>1, <1>4, <1>5, <1>6
  <2>2. u \o fmt = (u \o w) \o t BY <1>1, <1>4, <1>5
  <2> HIDE DEF u, w
  <2>3. (u \o w) \o t = u \o (w \o t) BY ONLY <2>1, ConcatAssociative
  <2>4. w \o t \in Seq(Chars) BY <2>1
  <2>5. u \o fmt = u \o (w \o t) BY <2>2, <2>3
  <2>6. fmt = w \o t BY <2>1, <2>4, <2>5, ConcatSimplifications
  <2>7. w \o t # <<>> BY <2>1
  <2> QED BY <2>6, <2>7 DEF w
<1> QED BY <1>2, <1>3, <1>4, <1>5, <1>7 DEF f, joined, n, s, k

\* A directive done leaves the others.
LEMMA FieldDone ==
  ASSUME FormatInv, stage = "format", fmt # <<>>,
         NEW arg \in Arguments, NEW added \in Seq(Chars), NEW t \in Seq(Chars),
         Len(given) < Len(fields),
         Upto(Source(fields))[Len(fields)] = Upto(Source(fields))[Len(given) + 1] \o t,
         ~Own(fields[Len(given) + 1], arg) => added = FieldOf(fields[Len(given) + 1], arg),
         fields' = fields, given' = Append(given, arg), fmt' = t, str' = str \o added,
         NEW stores \in Nat, stores <= Len(added) + 1, stage' = Storing(stores)
  PROVE  FormatInv'
<1> DEFINE k == Len(given)
<1> DEFINE n == Len(fields)
<1> DEFINE more == Append(given, arg)
<1>1. fields \in Seq(Directive) /\ given \in Seq(Arguments) /\ str \in Seq(Chars) BY DEF FormatInv
<1>2. k \in Nat /\ n \in Nat
  <2> DEFINE G == Arguments
  <2> DEFINE D == Directive
  <2>1. given \in Seq(G) /\ fields \in Seq(D) BY <1>1
  <2> HIDE DEF G, D
  <2> QED BY <2>1
<1>3. /\ more \in Seq(Arguments) /\ Len(more) = k + 1 /\ more[k + 1] = arg
      /\ \A i \in 1 .. k : more[i] = given[i]
      /\ Upto(Output(fields, more))[k + 1] = Upto(Output(fields, given))[k] \o FieldOf(fields[k + 1], arg)
  BY <1>1, OutputGrows
<1>4. (\A i \in 1 .. k : ~Own(fields[i], given[i])) => str = Upto(Output(fields, given))[k]
  BY DEF FormatInv
<1>5. str \o added \in Seq(Chars) BY <1>1
<1> HIDE DEF k, n, more
<1>6. ASSUME \A i \in 1 .. k + 1 : ~Own(fields[i], more[i])
      PROVE  str \o added = Upto(Output(fields, more))[k + 1]
  <2>1. k + 1 \in 1 .. k + 1 /\ \A i \in 1 .. k : i \in 1 .. k + 1 BY <1>2
  <2>2. \A i \in 1 .. k : ~Own(fields[i], given[i]) BY <1>3, <1>6, <2>1
  <2>3. ~Own(fields[k + 1], arg) BY <1>3, <1>6, <2>1
  <2>4. added = FieldOf(fields[k + 1], arg) BY <2>3 DEF k
  <2> QED BY <1>3, <1>4, <2>2, <2>4
<1>7. k + 1 <= n BY <1>2 DEF k, n
<1>8. fields' = fields /\ given' = more /\ fmt' = t /\ str' = str \o added BY DEF more
<1>9. Len(given') = k + 1 BY <1>3, <1>8
<1>10. /\ fields' \in Seq(Directive) /\ given' \in Seq(Arguments) /\ Len(given') <= Len(fields')
       /\ fmt' \in Seq(Chars) /\ str' \in Seq(Chars)
  BY <1>1, <1>3, <1>5, <1>7, <1>8, <1>9 DEF n
<1>11. Upto(Source(fields'))[Len(fields')] = Upto(Source(fields'))[Len(given')] \o fmt'
  BY <1>8, <1>9 DEF k
<1>12. ASSUME \A i \in 1 .. Len(given') : ~Own(fields'[i], given'[i])
       PROVE  str' = Upto(Output(fields', given'))[Len(given')]
  <2>1. \A i \in 1 .. k + 1 : ~Own(fields[i], more[i]) BY <1>8, <1>9, <1>12
  <2> QED BY <1>6, <1>8, <1>9, <2>1
<1>13. stage' \in {"format", "overrun"} /\ (stage' = "overrun" => Len(str') >= Room)
  <2>1. Len(str) \in Nat /\ Len(added) \in Nat /\ Len(str') = Len(str) + Len(added) BY <1>1, <1>8
  <2>2. Room \in Nat BY PrintfAssumption
  <2>3. stage' = IF Len(str) + stores <= Room THEN "format" ELSE "overrun" BY DEF Storing
  <2>4. ~(Len(str) + stores <= Room) => Len(str') >= Room BY <2>1, <2>2
  <2> QED BY <2>3, <2>4
<1> QED BY <1>10, <1>11, <1>12, <1>13 DEF FormatInv

LEMMA FormatPrintf ==
  ASSUME FormatInv, NEW n \in 1 .. MaxFields, NEW fs \in [1 .. n -> Directive], Printf(fs)
  PROVE  FormatInv'
<1>1. fs \in Seq(Directive) /\ Len(fs) = n /\ n \in Nat
  <2> DEFINE D == Directive
  <2>1. n \in Nat /\ fs \in [1 .. n -> D] BY PrintfAssumption
  <2> HIDE DEF D
  <2>2. fs \in Seq(D) /\ Len(fs) = n BY <2>1
  <2> QED BY <2>1, <2>2 DEF D
<1>2. /\ given' = <<>> /\ str' = <<>> /\ fields' = fs /\ stage' = "format"
      /\ fmt' = Joined(Source(fs))
  BY DEF FormatInv, Printf, Source
<1>3. /\ Len(Source(fs)) = n /\ Upto(Source(fs))[0] = <<>> /\ Upto(Source(fs))[n] \in Seq(Chars)
  <2>1. n \in 0 .. Len(fs) BY <1>1
  <2> QED BY <1>1, <2>1, SourceIs
<1>4. fmt' = Upto(Source(fs))[n] BY <1>2, <1>3 DEF Joined, Upto
<1>5. Upto(Source(fs))[n] = <<>> \o Upto(Source(fs))[n] BY <1>3, ConcatEmptySeq
<1>6. Len(given') = 0 /\ given' \in Seq(Arguments) /\ str' \in Seq(Chars) BY <1>2
<1>7. Upto(Output(fs, <<>>))[0] = <<>>
  <2>1. Output(fs, <<>>) = <<>>
    <3>1. DOMAIN <<>> = {} OBVIOUS
    <3>2. Output(fs, <<>>) = [k \in {} |-> FieldOf(fs[k], <<>>[k])] BY <3>1 DEF Output
    <3> QED BY <3>2
  <2>2. Len(Output(fs, <<>>)) \in Nat BY <2>1
  <2> QED BY <2>2, UptoIs
<1>8. Upto(Source(fields'))[Len(fields')] = Upto(Source(fields'))[Len(given')] \o fmt'
  BY <1>1, <1>2, <1>3, <1>4, <1>5, <1>6
<1>9. str' = Upto(Output(fields', given'))[Len(given')] BY <1>2, <1>6, <1>7
<1>10. fields' \in Seq(Directive) /\ Len(given') <= Len(fields') /\ fmt' \in Seq(Chars)
  BY <1>1, <1>2, <1>3, <1>4, <1>6
<1> QED BY <1>2, <1>6, <1>8, <1>9, <1>10 DEF FormatInv

\* While directives are left the format is not at its end.
LEMMA FormatEnds ==
  ASSUME FormatInv, stage \in {"format", "puts"}
  PROVE  /\ Len(given) < Len(fields) => fmt # <<>>
         /\ fmt # <<>> => Len(given) < Len(fields)
         /\ fmt = <<>> => Len(given) = Len(fields)
<1> DEFINE k == Len(given)
<1> DEFINE n == Len(fields)
<1> DEFINE joined == Upto(Source(fields))
<1>1. /\ fields \in Seq(Directive) /\ given \in Seq(Arguments) /\ fmt \in Seq(Chars) /\ k <= n
      /\ joined[n] = joined[k] \o fmt
  BY DEF FormatInv
<1>2. k \in Nat /\ n \in Nat
  <2> DEFINE G == Arguments
  <2> DEFINE D == Directive
  <2>1. given \in Seq(G) /\ fields \in Seq(D) BY <1>1
  <2> HIDE DEF G, D
  <2> QED BY <2>1
<1>3. k < n => fmt # <<>> BY NextDirective
<1>4. joined[n] \in Seq(Chars)
  <2>1. n \in 0 .. n BY <1>2
  <2> QED BY <1>1, <2>1, SourceIs
<1> HIDE DEF k, n, joined
<1>5. k = n => fmt = <<>>
  <2> DEFINE u == joined[n]
  <2>1. u \in Seq(Chars) BY <1>4
  <2>2. k = n => u \o fmt = u BY <1>1
  <2> HIDE DEF u
  <2> QED BY <1>1, <2>1, <2>2, ConcatSimplifications
<1>6. (k < n => fmt # <<>>) /\ (fmt # <<>> => k < n) /\ (fmt = <<>> => k = n) BY <1>1, <1>2, <1>3, <1>5
<1> QED BY <1>6 DEF k, n

LEMMA FormatPlain == ASSUME FormatInv, PrintfPlain PROVE FormatInv'
<1>1. stage = "format" /\ fmt # <<>> /\ Head(fmt) # "%" BY DEF PrintfPlain
<1>2. Len(given) < Len(fields) BY <1>1, FormatEnds
<1> DEFINE k == Len(given)
<1> DEFINE f == fields[k + 1]
<1>3. PICK t : /\ t \in Seq(Chars) /\ fmt = Written(f) \o t
               /\ Upto(Source(fields))[Len(fields)] = Upto(Source(fields))[k + 1] \o t
  BY <1>1, <1>2, NextDirective
<1>4. f \in Directive BY <1>1, <1>2, NextDirective
<1>5. fmt \in Seq(Chars) /\ str \in Seq(Chars) BY <1>1 DEF FormatInv
<1> HIDE DEF f
<1>6. f.conv = "5"
  <2>1. ASSUME f.conv # "5" PROVE FALSE
    <3> DEFINE w == Written(f)
    <3>1. w \in Seq(Chars) /\ w # <<>> /\ w[1] = "%" BY <1>4, <2>1, WrittenChars
    <3>2. fmt = w \o t /\ t \in Seq(Chars) BY <1>3
    <3> HIDE DEF w
    <3>3. fmt[1] = "%" BY <3>1, <3>2
    <3> QED BY <1>1, <1>5, <3>3
  <2> QED BY <2>1
<1>7. Head(fmt) = "5" /\ Tail(fmt) = t
  <2>1. fmt = <<"5">> \o t BY <1>3, <1>4, <1>6, WrittenChars
  <2>2. "5" \in Chars
    <3>1. 6 \in 1 .. 16 /\ Digits[6] = "5" BY DEF Digits
    <3> QED BY <3>1 DEF Chars
  <2>3. fmt[1] = "5" /\ Tail(fmt) = t BY <1>3, <2>1, <2>2, PrefixedIs
  <2> QED BY <1>1, <1>5, <2>3
<1>8. FieldOf(f, <<>>) = <<"5">> BY <1>6 DEF FieldOf
<1>9. /\ stage' = Storing(1) /\ fields' = fields /\ given' = Append(given, <<>>) /\ fmt' = t
      /\ str' = str \o <<"5">> /\ <<"5">> \in Seq(Chars)
  <2>1. "5" \in Chars
    <3>1. 6 \in 1 .. 16 /\ Digits[6] = "5" BY DEF Digits
    <3> QED BY <3>1 DEF Chars
  <2>2. Append(str, "5") = str \o <<"5">> BY <1>5, <2>1
  <2> QED BY <1>7, <2>1, <2>2 DEF PrintfPlain
<1>10. <<>> \in Arguments BY DEF Arguments
<1>11. 1 \in Nat /\ 1 <= Len(<<"5">>) + 1 OBVIOUS
<1> QED BY <1>1, <1>2, <1>3, <1>8, <1>9, <1>10, <1>11, FieldDone DEF f

LEMMA FormatField ==
  ASSUME FormatInv, NEW arg, PrintfField(arg)
  PROVE  FormatInv'
<1>1. stage = "format" /\ fmt # <<>> /\ Head(fmt) = "%" BY DEF PrintfField
<1>2. Len(given) < Len(fields) BY <1>1, FormatEnds
<1> DEFINE k == Len(given)
<1> DEFINE f == fields[k + 1]
<1>3. PICK t : /\ t \in Seq(Chars) /\ fmt = Written(f) \o t
               /\ Upto(Source(fields))[Len(fields)] = Upto(Source(fields))[k + 1] \o t
  BY <1>1, <1>2, NextDirective
<1>4. f \in Directive BY <1>1, <1>2, NextDirective
<1>5. fmt \in Seq(Chars) /\ str \in Seq(Chars) BY <1>1 DEF FormatInv
<1> HIDE DEF f
<1>6. f.conv # "5"
  <2>1. ASSUME f.conv = "5" PROVE FALSE
    <3>1. fmt = <<"5">> \o t BY <1>3, <1>4, <2>1, WrittenChars
    <3>2. "5" \in Chars
      <4>1. 6 \in 1 .. 16 /\ Digits[6] = "5" BY DEF Digits
      <4> QED BY <4>1 DEF Chars
    <3>3. fmt[1] = "5" BY <1>3, <3>1, <3>2, PrefixedIs
    <3> QED BY <1>1, <1>5, <3>3
  <2> QED BY <2>1
<1>7. WidthRead.rest[1] = f.conv /\ Tail(WidthRead.rest) = t BY <1>3, <1>4, <1>6, DirectiveRead
<1>8. /\ arg \in Argument(f.conv) /\ str' = str \o Added(f.conv, arg)
      /\ fmt' = t /\ given' = Append(given, arg) /\ fields' = fields
      /\ stage' = Storing(Stores(f.conv, arg))
  BY <1>7 DEF PrintfField
<1>9. /\ Added(f.conv, arg) \in Seq(Chars)
      /\ ~Own(f, arg) => Added(f.conv, arg) = FieldOf(f, arg)
  BY <1>3, <1>4, <1>6, <1>8, FieldAdded
<1>10. arg \in Arguments
  <2>1. CASE f.conv = "%"
    <3>1. Argument(f.conv) = {<<>>} BY <2>1 DEF Argument
    <3> QED BY <1>8, <3>1 DEF Arguments
  <2>2. CASE f.conv # "%"
    <3>1. f.conv \in Conversions BY <1>4, <1>6, <2>2, DirectiveIs
    <3> QED BY <1>8, <3>1 DEF Arguments
  <2> QED BY <2>1, <2>2
<1> DEFINE added == Added(f.conv, arg)
<1> DEFINE stores == Stores(f.conv, arg)
<1>11. added \in Seq(Chars) /\ (~Own(f, arg) => added = FieldOf(f, arg)) /\ str' = str \o added
       /\ stage' = Storing(stores)
  BY <1>8, <1>9
<1>12. stores = Len(added) + (IF f.conv \in {"%", "c"} THEN 0 ELSE 1) BY DEF Stores
<1> HIDE DEF added, stores
<1>13. stores \in Nat /\ stores <= Len(added) + 1 BY <1>11, <1>12
<1> QED BY <1>1, <1>2, <1>3, <1>8, <1>10, <1>11, <1>13, FieldDone DEF f

LEMMA FormatNext == ASSUME FormatInv, [PrintfNext]_printfVars PROVE FormatInv'
<1>1. ASSUME NEW v \in Ints, NEW l \in Lengths, NEW b \in Bases, Itoa(v, l, b) PROVE FormatInv'
  BY <1>1 DEF FormatInv, Itoa
<1>2. ASSUME NEW x \in Prefixes, Atoi(x) PROVE FormatInv'
  BY <1>2 DEF FormatInv, Atoi
<1>3. ASSUME NEW n \in 1 .. MaxFields, NEW fs \in [1 .. n -> Directive], Printf(fs) PROVE FormatInv'
  BY <1>3, FormatPrintf
<1>4. CASE PrintfPlain BY <1>4, FormatPlain
<1>5. ASSUME NEW arg, PrintfField(arg) PROVE FormatInv' BY <1>5, FormatField
<1>6. CASE PrintfEnd
  <2>1. stage = "format" /\ fmt = <<>> BY <1>6 DEF PrintfEnd
  <2>2. Len(given) = Len(fields) BY <2>1, FormatEnds
  <2>3. Room \in Nat BY PrintfAssumption
  <2>4. Len(str) \in Nat
    <3>1. str \in Seq(Chars) BY <2>1 DEF FormatInv
    <3> QED BY <3>1
  <2>5. /\ stage' \in {"puts", "overrun"} /\ (stage' = "puts" => Len(str) < Room)
        /\ stage' = "overrun" => Len(str) >= Room
    <3>1. stage' = IF Len(str) + 1 <= Room THEN "puts" ELSE "overrun" BY <1>6 DEF PrintfEnd
    <3> QED BY <2>3, <2>4, <3>1
  <2> QED BY <1>6, <2>1, <2>2, <2>5 DEF FormatInv, PrintfEnd
<1>7. CASE UNCHANGED printfVars BY <1>7 DEF FormatInv, printfVars
<1> QED BY <1>1, <1>2, <1>3, <1>4, <1>5, <1>6, <1>7 DEF PrintfNext

LEMMA FormatSafe == ASSUME FormatInv PROVE FormatsStandard
<1> DEFINE want == [k \in DOMAIN given |-> FieldOf(fields[k], given[k])]
<1>1. ASSUME stage \in {"puts", "overrun"}, \A k \in DOMAIN given : ~Own(fields[k], given[k])
      PROVE  /\ str = Joined(want)
             /\ stage = "overrun" <=> Len(Joined(want)) >= Room
             /\ stage = "puts" => Len(given) = Len(fields)
  <2>1. /\ given \in Seq(Arguments) /\ str \in Seq(Chars)
        /\ (\A k \in 1 .. Len(given) : ~Own(fields[k], given[k])) =>
             str = Upto(Output(fields, given))[Len(given)]
    BY <1>1 DEF FormatInv
  <2>2. DOMAIN given = 1 .. Len(given) /\ Len(given) \in Nat
    <3> DEFINE G == Arguments
    <3>1. given \in Seq(G) BY <2>1
    <3> HIDE DEF G
    <3> QED BY <3>1
  <2>3. str = Upto(Output(fields, given))[Len(given)] BY <1>1, <2>1, <2>2
  <2>4. Output(fields, given) = want BY DEF Output
  <2>5. Len(want) = Len(given) BY <2>2
  <2> HIDE DEF want
  <2>6. Joined(want) = Upto(want)[Len(want)] BY DEF Joined, Upto
  <2>7. str = Joined(want) BY <2>3, <2>4, <2>5, <2>6
  <2>8. /\ stage = "puts" => Len(given) = Len(fields) /\ Len(str) < Room
        /\ stage = "overrun" => Len(str) >= Room
    BY DEF FormatInv
  <2>9. Len(str) \in Nat /\ Room \in Nat BY <2>1, PrintfAssumption
  <2>10. stage = "overrun" <=> Len(str) >= Room
    <3>1. Len(str) >= Room => ~(Len(str) < Room) BY <2>9
    <3> QED BY <1>1, <2>8, <3>1
  <2> QED BY <2>7, <2>8, <2>10
<1> QED BY <1>1 DEF FormatsStandard

\* A format of any number of directives, with whatever ints and doubles, is
\* printed as the standard says but for what printf prints in its own way, and
\* runs over the buffer exactly when it is too long for it, wherever an int holds
\* the widths and the whole parts and helper_str every int: nothing of a directive
\* is left for the next (printf.c:25, 35-171).
THEOREM FormatsComeOut == PrintfSpec => []FormatsStandard
<1>1. PrintfInit => FormatInv BY DEF PrintfInit, FormatInv
<1>2. FormatInv /\ [PrintfNext]_printfVars => FormatInv' BY FormatNext
<1>3. FormatInv => FormatsStandard BY FormatSafe
<1> QED BY <1>1, <1>2, <1>3, PTL DEF PrintfSpec

-----------------------------------------------------------------------------
\* Random numbers.  Seeding leaves s0 and s1 within RAND_MAX of 0 and s2 within
\* three times that; whatever rand makes of it fits an int.
InRange(x) == x \in Int /\ 0 <= x /\ x <= RAND_MAX

RandInv ==
  /\ s0 \in Int /\ s1 \in Int /\ s2 \in Int
  /\ draws \in Nat /\ seeded \in BOOLEAN /\ overflowed \in BOOLEAN /\ wild \in BOOLEAN
  /\ draws > 0 => seeded
  /\ seeded /\ draws = 0 => /\ -RAND_MAX <= s0 /\ s0 <= RAND_MAX
                            /\ -RAND_MAX <= s1 /\ s1 <= RAND_MAX
                            /\ 0 <= s2 /\ s2 <= 3 * RAND_MAX
  /\ draws > 0 => s0 \in 0 .. IntMax /\ s1 \in 0 .. IntMax /\ s2 \in 0 .. IntMax
  /\ seeded /\ ~wild => Near(s0) /\ InRange(s2)
  /\ draws > 0 /\ ~wild => InRange(s0)
  /\ seeded /\ wild => overflowed

-----------------------------------------------------------------------------
LEMMA ScaledBounds ==
  ASSUME NEW d \in Nat, NEW t \in Scaled(d)
  PROVE  t \in Int /\ 0 <= t /\ 100 * t <= 197 * d
<1>1. ((197 * d) \div 100) \in Int /\ 100 * ((197 * d) \div 100) <= 197 * d
      /\ (197 * d) \div 100 >= 0
  OBVIOUS
<1>2. d % 100 = 0 /\ d > 0 => (197 * d) \div 100 >= 1
  OBVIOUS
<1> QED BY <1>1, <1>2 DEF Scaled

\* An int that fits is itself, and one value too low comes out at the top.
LEMMA IntFits ==
  /\ \A v \in Int : -(IntMax + 1) <= v /\ v <= IntMax => IntOf(v) = v
  /\ IntOf(RAND_MAX + IntMax + 1) = RAND_MAX - IntMax - 1
  /\ \A v \in Int : IntOf(v) \in Int /\ IntOf(v) >= -(IntMax + 1)
<1> DEFINE N == 2 * (IntMax + 1)
<1>1. RAND_MAX \in Nat /\ RAND_MAX > 0 /\ IntMax \in Nat /\ RAND_MAX <= IntMax /\ N \in Nat /\ N > 0
  BY RandomAssumption
<1>2. \A u \in Int : 0 <= u /\ u < N => u % N = u BY <1>1
<1>3. \A u \in Int : u % N \in Int /\ u % N >= 0 BY <1>1
<1>4. (RAND_MAX + N) % N = RAND_MAX
  <2>1. \A u \in Int : N <= u /\ u < 2 * N => u % N = u - N BY <1>1
  <2>2. RAND_MAX + N \in Int /\ N <= RAND_MAX + N /\ RAND_MAX + N < 2 * N BY <1>1
  <2>3. (RAND_MAX + N) - N = RAND_MAX BY <1>1
  <2> HIDE DEF N
  <2> QED BY <2>1, <2>2, <2>3
<1>5. RAND_MAX + IntMax + 1 + IntMax + 1 = RAND_MAX + N BY <1>1
<1> HIDE DEF N
<1>6. \A v \in Int : IntOf(v) = ((v + IntMax + 1) % N) - (IntMax + 1) BY DEF IntOf, N
<1>7. \A v \in Int : v + IntMax + 1 \in Int BY <1>1
<1>8. ASSUME NEW v \in Int, -(IntMax + 1) <= v, v <= IntMax PROVE IntOf(v) = v
  <2>1. 0 <= v + IntMax + 1 /\ v + IntMax + 1 < N BY <1>1, <1>8 DEF N
  <2> QED BY <1>1, <1>2, <1>6, <1>7, <2>1
<1>9. RAND_MAX + IntMax + 1 \in Int BY <1>1
<1>10. IntOf(RAND_MAX + IntMax + 1) = ((RAND_MAX + IntMax + 1 + IntMax + 1) % N) - (IntMax + 1)
  BY <1>6, <1>9
<1>11. IntOf(RAND_MAX + IntMax + 1) = RAND_MAX - IntMax - 1
  BY <1>1, <1>4, <1>5, <1>10
<1>12. ASSUME NEW v \in Int PROVE IntOf(v) \in Int /\ IntOf(v) >= -(IntMax + 1)
  <2>1. (v + IntMax + 1) % N \in Int /\ (v + IntMax + 1) % N >= 0 BY <1>3, <1>7
  <2> QED BY <1>1, <1>6, <2>1
<1> QED BY <1>8, <1>11, <1>12

\* A call on two values whose difference fits an int, and what becomes of it.
LEMMA FrnsIs ==
  ASSUME NEW x \in Int, NEW y \in Int, NEW b \in Nat, -b <= x - y, x - y <= b, b <= IntMax,
         NEW r \in __frns(x, y)
  PROVE  /\ r \in 0 .. IntMax
         /\ 197 * b <= 100 * IntMax => 100 * (r + RAND_MAX) <= 197 * b \/ r <= RAND_MAX
         /\ 197 * b <= 200 * RAND_MAX => r <= RAND_MAX
<1>0. RAND_MAX \in Nat /\ RAND_MAX > 0 /\ IntMax \in Nat /\ 8 * RAND_MAX <= IntMax
  BY RandomAssumption
<1> DEFINE d == abs(IntOf(x - y))
<1>1. d \in Nat /\ d <= b
  <2>1. IntOf(x - y) = x - y BY <1>0, IntFits
  <2>2. x - y < 0 => IntOf(-(x - y)) = -(x - y) BY <1>0, IntFits
  <2> QED BY <2>1, <2>2 DEF abs
<1>2. PICK t \in Scaled(d) : r = abs(IntOf(RAND_MAX - Truncated(t)))
  BY DEF __frns
<1>3. t \in Int /\ 0 <= t /\ 100 * t <= 197 * d
  BY <1>1, <1>2, ScaledBounds
<1> HIDE DEF d
<1>4. CASE t <= IntMax
  <2>1. Truncated(t) = t BY <1>4 DEF Truncated
  <2>2. IntOf(RAND_MAX - t) = RAND_MAX - t BY <1>0, <1>3, <1>4, IntFits
  <2>3. RAND_MAX - t < 0 => IntOf(-(RAND_MAX - t)) = t - RAND_MAX BY <1>0, <1>3, <1>4, IntFits
  <2>4. r = IF RAND_MAX - t < 0 THEN t - RAND_MAX ELSE RAND_MAX - t
    BY <1>2, <2>1, <2>2, <2>3 DEF abs
  <2>5. 100 * t <= 197 * b BY <1>1, <1>3
  <2> QED BY <1>0, <1>3, <1>4, <2>4, <2>5
<1>5. CASE t > IntMax
  <2>1. Truncated(t) = -(IntMax + 1) BY <1>3, <1>5, <1>0 DEF Truncated
  <2>2. RAND_MAX - Truncated(t) = RAND_MAX + IntMax + 1 BY <1>0, <2>1
  <2>3. IntOf(RAND_MAX - Truncated(t)) = RAND_MAX - IntMax - 1 BY <2>2, IntFits
  <2>4. IntOf(IntMax + 1 - RAND_MAX) = IntMax + 1 - RAND_MAX BY <1>0, IntFits
  <2>5. RAND_MAX - IntMax - 1 < 0 /\ -(RAND_MAX - IntMax - 1) = IntMax + 1 - RAND_MAX BY <1>0
  <2>6. r = IntMax + 1 - RAND_MAX BY <1>2, <2>3, <2>4, <2>5 DEF abs
  <2>7. 100 * t <= 197 * b BY <1>1, <1>3
  <2> QED BY <1>0, <1>3, <1>5, <2>6, <2>7
<1> QED BY <1>0, <1>3, <1>4, <1>5

\* The numbers of the calls below: from two values within n times R of each
\* other.
LEMMA CallBounds ==
  ASSUME NEW R \in Nat, NEW I \in Nat, 8 * R <= I
  PROVE  /\ \A n \in {2, 4, 8} : n * R \in Nat /\ n * R <= I
         /\ \A n \in {2, 4} : 197 * (n * R) <= 100 * I
         /\ \A r \in 0 .. I : /\ 100 * (r + R) <= 197 * (2 * R) \/ r <= R => r <= 3 * R
                              /\ 100 * (r + R) <= 197 * (4 * R) \/ r <= R => r <= 7 * R
<1>1. /\ 2 * R \in Nat /\ 4 * R \in Nat /\ 8 * R \in Nat
      /\ 2 * R <= I /\ 4 * R <= I /\ 8 * R <= I
      /\ 197 * (2 * R) <= 100 * I /\ 197 * (4 * R) <= 100 * I
  OBVIOUS
<1>2. ASSUME NEW r \in 0 .. I PROVE 100 * (r + R) <= 197 * (2 * R) \/ r <= R => r <= 3 * R
  OBVIOUS
<1>3. ASSUME NEW r \in 0 .. I PROVE 100 * (r + R) <= 197 * (4 * R) \/ r <= R => r <= 7 * R
  OBVIOUS
<1> QED BY <1>1, <1>2, <1>3

LEMMA FrnsOfSeed ==
  ASSUME NEW x \in Int, NEW y \in Int, -RAND_MAX <= x, x <= RAND_MAX, -RAND_MAX <= y, y <= RAND_MAX,
         NEW r \in __frns(x, y)
  PROVE  r \in 0 .. IntMax /\ r <= 3 * RAND_MAX
<1>0. RAND_MAX \in Nat /\ IntMax \in Nat /\ 8 * RAND_MAX <= IntMax BY RandomAssumption
<1>1. 2 * RAND_MAX \in Nat /\ 2 * RAND_MAX <= IntMax /\ 197 * (2 * RAND_MAX) <= 100 * IntMax
  BY <1>0, CallBounds
<1>2. -(2 * RAND_MAX) <= x - y /\ x - y <= 2 * RAND_MAX BY <1>0
<1>3. r \in 0 .. IntMax /\ (100 * (r + RAND_MAX) <= 197 * (2 * RAND_MAX) \/ r <= RAND_MAX)
  BY <1>1, <1>2, FrnsIs
<1> QED BY <1>0, <1>3, CallBounds

LEMMA FrnsOfFirst ==
  ASSUME NEW x \in Int, NEW y \in Int, 0 <= x, x <= 3 * RAND_MAX, -RAND_MAX <= y, y <= RAND_MAX,
         NEW r \in __frns(x, y)
  PROVE  r \in 0 .. IntMax /\ r <= 7 * RAND_MAX
<1>0. RAND_MAX \in Nat /\ IntMax \in Nat /\ 8 * RAND_MAX <= IntMax BY RandomAssumption
<1>1. 4 * RAND_MAX \in Nat /\ 4 * RAND_MAX <= IntMax /\ 197 * (4 * RAND_MAX) <= 100 * IntMax
  BY <1>0, CallBounds
<1>2. -(4 * RAND_MAX) <= x - y /\ x - y <= 4 * RAND_MAX BY <1>0
<1>3. r \in 0 .. IntMax /\ (100 * (r + RAND_MAX) <= 197 * (4 * RAND_MAX) \/ r <= RAND_MAX)
  BY <1>1, <1>2, FrnsIs
<1> QED BY <1>0, <1>3, CallBounds

LEMMA FrnsOfLater ==
  ASSUME NEW x \in Int, NEW y \in Int, 0 <= x, x <= 7 * RAND_MAX, -RAND_MAX <= y, y <= 3 * RAND_MAX,
         NEW r \in __frns(x, y)
  PROVE  r \in 0 .. IntMax
<1>0. RAND_MAX \in Nat /\ IntMax \in Nat /\ 8 * RAND_MAX <= IntMax BY RandomAssumption
<1>1. 8 * RAND_MAX \in Nat /\ 8 * RAND_MAX <= IntMax BY <1>0, CallBounds
<1>2. -(8 * RAND_MAX) <= x - y /\ x - y <= 8 * RAND_MAX BY <1>0
<1> QED BY <1>1, <1>2, FrnsIs

LEMMA FrnsOfInts ==
  ASSUME NEW x \in 0 .. IntMax, NEW y \in 0 .. IntMax, NEW r \in __frns(x, y)
  PROVE  r \in 0 .. IntMax
<1>1. IntMax \in Nat BY RandomAssumption
<1>2. x \in Int /\ y \in Int /\ -IntMax <= x - y /\ x - y <= IntMax BY <1>1
<1>3. IntMax <= IntMax BY <1>1
<1> QED BY <1>1, <1>2, <1>3, FrnsIs

\* Two values that are near differ by so little that the result is in range.
LEMMA FrnsInRange ==
  ASSUME NEW x \in Int, NEW y \in Int, Near(x), Near(y), NEW r \in __frns(x, y)
  PROVE  InRange(r)
<1>0. RAND_MAX \in Nat /\ RAND_MAX > 0 /\ IntMax \in Nat /\ 8 * RAND_MAX <= IntMax
  BY RandomAssumption
<1>1. 197 * (x - y) <= 200 * RAND_MAX /\ 197 * (y - x) <= 200 * RAND_MAX
  BY <1>0 DEF Near
<1> DEFINE b == IF x < y THEN y - x ELSE x - y
<1>2. b \in Nat /\ -b <= x - y /\ x - y <= b /\ 197 * b <= 200 * RAND_MAX /\ b <= IntMax
  BY <1>0, <1>1
<1> HIDE DEF b
<1>3. r \in 0 .. IntMax /\ r <= RAND_MAX BY <1>2, FrnsIs
<1> QED BY <1>0, <1>3 DEF InRange

LEMMA InRangeNear ==
  ASSUME NEW x
  PROVE  InRange(x) => Near(x)
<1>1. RAND_MAX \in Nat BY RandomAssumption
<1>2. ASSUME x \in Int, 0 <= x, x <= RAND_MAX PROVE -3 * RAND_MAX <= 197 * x
  <2>1. \A R, y \in Nat : -3 * R <= 197 * y OBVIOUS
  <2> QED BY <1>1, <1>2, <2>1
<1> QED BY <1>2 DEF InRange, Near

\* One more than a multiple leaves at most one.
LEMMA RemainderOfOne ==
  ASSUME NEW k \in Nat, NEW n \in Nat \ {0}
  PROVE  (k * n + 1) % n \in 0 .. 1
<1> DEFINE x == k * n + 1
<1> DEFINE q == x \div n
<1> DEFINE r == x % n
<1>1. x \in Nat OBVIOUS
<1>2. q \in Int /\ r \in Int /\ x = q * n + r /\ 0 <= r /\ r < n
  <2> HIDE DEF x
  <2> QED BY <1>1
<1> HIDE DEF q, r
<1>3. (k - q) * n = r - 1
  <2>1. (k - q) * n = k * n - q * n BY <1>2
  <2> QED BY <1>2, <2>1
<1>4. CASE k - q >= 1
  <2>1. (k - q) * n >= n BY <1>2, <1>4
  <2> QED BY <1>2, <1>3, <2>1
<1>5. CASE k - q <= 0
  <2>1. (k - q) * n <= 0 BY <1>2, <1>5
  <2>2. r <= 1 BY <1>2, <1>3, <2>1
  <2> QED BY <1>2, <2>2 DEF r, x
<1> QED BY <1>2, <1>4, <1>5

\* A seed whose product fits leaves s0 and s1 near their range.
LEMMA SeedNear ==
  ASSUME NEW seed \in Int, NEW r \in Int, r = Rem(seed, RAND_MAX),
         r * RAND_MAX - 1 = IntOf(r * RAND_MAX - 1)
  PROVE  Near(r) /\ Near(Rem(r * RAND_MAX - 1, RAND_MAX))
<1> DEFINE m == r * RAND_MAX
<1>0. RAND_MAX \in Nat /\ RAND_MAX > 0 /\ IntMax \in Nat /\ m \in Int
      /\ 197 * SeedReach <= 3 * RAND_MAX
  BY RandomAssumption
<1>1. SeedReach \in Nat /\ SeedReach >= 1 /\ SeedReach * RAND_MAX > IntMax
  <2> DEFINE q == IntMax \div RAND_MAX
  <2>1. q \in Nat /\ IntMax < q * RAND_MAX + RAND_MAX
    BY <1>0
  <2>2. SeedReach = q + 1 BY DEF SeedReach
  <2>3. SeedReach * RAND_MAX = q * RAND_MAX + RAND_MAX
    <3> HIDE DEF q
    <3> QED BY <1>0, <2>1, <2>2
  <2> QED BY <2>1, <2>2, <2>3
<1>2. r < RAND_MAX
  BY <1>0 DEF Rem
<1>3. m - 1 >= -(IntMax + 1)
  <2>1. m - 1 \in Int BY <1>0
  <2> QED BY <2>1, IntFits
<1>4. -SeedReach <= r
  <2>1. SUFFICES ASSUME r < -SeedReach PROVE FALSE
    BY <1>1
  <2>2. (-SeedReach - r) * RAND_MAX >= RAND_MAX
    BY <1>0, <1>1, <2>1
  <2>3. (-SeedReach - r) * RAND_MAX = -(SeedReach * RAND_MAX) - m
    BY <1>0, <1>1
  <2> HIDE DEF m
  <2> QED BY <1>0, <1>1, <1>3, <2>2, <2>3
<1>5. CASE m - 1 >= 0
  BY <1>0, <1>1, <1>2, <1>4, <1>5 DEF Near, Rem
<1>6. CASE m - 1 < 0
  <2>1. r <= 0
    <3>1. SUFFICES ASSUME r >= 1 PROVE FALSE OBVIOUS
    <3>2. m >= RAND_MAX BY <1>0, <3>1
    <3> QED BY <1>0, <1>6, <3>2
  <2>2. -(m - 1) = (-r) * RAND_MAX + 1
    BY <1>0
  <2>3. (-(m - 1)) % RAND_MAX \in 0 .. 1
    <3>1. -r \in Nat BY <2>1
    <3>2. ((-r) * RAND_MAX + 1) % RAND_MAX \in 0 .. 1
      BY <1>0, <3>1, RemainderOfOne
    <3> HIDE DEF m
    <3> QED BY <2>2, <3>2
  <2> QED BY <1>0, <1>1, <1>2, <1>4, <1>6, <2>3 DEF Near, Rem
<1> QED BY <1>5, <1>6, <1>0

LEMMA RandInitInv == ASSUME RandInit PROVE RandInv
<1>1. ~seeded /\ seeded \in BOOLEAN /\ overflowed \in BOOLEAN /\ wild \in BOOLEAN
  BY Zenon DEF RandInit
<1>2. s0 = 0 /\ s1 = 0 /\ s2 = 0 /\ draws = 0
  BY DEF RandInit
<1>3. ~(draws > 0)
  BY <1>2
<1> QED BY <1>1, <1>2, <1>3 DEF RandInv

LEMMA RemainderBounds ==
  ASSUME NEW x \in Int
  PROVE  Rem(x, RAND_MAX) \in Int /\ -RAND_MAX <= Rem(x, RAND_MAX) /\ Rem(x, RAND_MAX) <= RAND_MAX
<1>1. RAND_MAX \in Nat /\ RAND_MAX > 0 BY RandomAssumption
<1>2. \A u \in Nat : u % RAND_MAX \in Int /\ 0 <= u % RAND_MAX /\ u % RAND_MAX < RAND_MAX BY <1>1
<1> QED BY <1>1, <1>2 DEF Rem

LEMMA SrandInv ==
  ASSUME RandInv, NEW seed \in Seeds, srand(seed)
  PROVE  RandInv'
<1>0. seed \in Int /\ RAND_MAX \in Nat /\ RAND_MAX > 0 /\ IntMax \in Nat /\ 8 * RAND_MAX <= IntMax
  BY RandomAssumption
<1>1. s0' \in Int /\ -RAND_MAX <= s0' /\ s0' <= RAND_MAX
  BY <1>0, RemainderBounds DEF srand
<1>2. s1' \in Int /\ -RAND_MAX <= s1' /\ s1' <= RAND_MAX
  <2> DEFINE v == IntOf(s0' * RAND_MAX - 1)
  <2>1. s0' * RAND_MAX - 1 \in Int BY <1>0, <1>1
  <2>2. v \in Int BY <2>1, IntFits
  <2>3. s1' = Rem(v, RAND_MAX) BY DEF srand
  <2> HIDE DEF v
  <2> QED BY <2>2, <2>3, RemainderBounds
<1>3. s2' \in 0 .. IntMax /\ s2' <= 3 * RAND_MAX
  BY <1>1, <1>2, FrnsOfSeed DEF srand
<1>4. ~overflowed' => Near(s0') /\ Near(s1')
  BY <1>0, <1>1, SeedNear DEF srand
<1>5. ~overflowed' => InRange(s2')
  BY <1>1, <1>2, <1>4, FrnsInRange DEF srand
<1>6. seeded' = TRUE /\ draws' = draws /\ draws = 0 /\ overflowed' \in BOOLEAN /\ wild' \in BOOLEAN
      /\ (wild' <=> ~(Near(s0') /\ Near(s2')))
  <2>1. ~seeded BY DEF srand
  <2>2. draws = 0 BY <2>1 DEF RandInv
  <2> QED BY <2>2, Zenon DEF srand
<1>7. wild' => overflowed'
  BY <1>4, <1>5, <1>6, InRangeNear
<1>8. s2' \in Int /\ 0 <= s2' BY <1>0, <1>3
<1>9. ~wild' => Near(s0') /\ InRange(s2')
  BY <1>6, <1>8 DEF InRange, Near
<1>10. ~(draws' > 0) BY <1>6
<1> QED BY <1>1, <1>2, <1>3, <1>6, <1>7, <1>8, <1>9, <1>10 DEF RandInv

LEMMA DrawInv ==
  ASSUME RandInv, rand
  PROVE  RandInv'
<1>0. RAND_MAX \in Nat /\ RAND_MAX > 0 /\ IntMax \in Nat /\ 8 * RAND_MAX <= IntMax
  BY RandomAssumption
<1>1. /\ s0' \in __frns(s2, s0) /\ s1' \in __frns(s0', s1) /\ s2' \in __frns(s0', s2)
      /\ seeded /\ draws' = draws + 1 /\ UNCHANGED <<seeded, overflowed, wild>>
  BY DEF rand
<1>2. s0 \in Int /\ s1 \in Int /\ s2 \in Int /\ draws \in Nat BY DEF RandInv
<1>3. s0' \in 0 .. IntMax /\ s1' \in 0 .. IntMax /\ s2' \in 0 .. IntMax
  <2>1. CASE draws = 0
    <3>1. /\ -RAND_MAX <= s0 /\ s0 <= RAND_MAX /\ -RAND_MAX <= s1 /\ s1 <= RAND_MAX
          /\ 0 <= s2 /\ s2 <= 3 * RAND_MAX
      BY <1>1, <2>1 DEF RandInv
    <3>2. s0' \in 0 .. IntMax /\ s0' <= 7 * RAND_MAX BY <1>1, <1>2, <3>1, FrnsOfFirst
    <3>3. s0' \in Int /\ 0 <= s0' BY <1>0, <3>2
    <3>4. s1' \in 0 .. IntMax /\ s2' \in 0 .. IntMax
      <4>1. s1 <= 3 * RAND_MAX /\ -RAND_MAX <= s2 BY <1>0, <1>2, <3>1
      <4> QED BY <1>1, <1>2, <3>1, <3>2, <3>3, <4>1, FrnsOfLater
    <3> QED BY <3>2, <3>4
  <2>2. CASE draws > 0
    <3>1. s0 \in 0 .. IntMax /\ s1 \in 0 .. IntMax /\ s2 \in 0 .. IntMax BY <2>2 DEF RandInv
    <3> QED BY <1>1, <3>1, FrnsOfInts
  <2> QED BY <1>2, <2>1, <2>2
<1>4. ASSUME ~wild PROVE InRange(s0') /\ InRange(s2')
  <2>1. Near(s0) /\ Near(s2) BY <1>1, <1>4, InRangeNear DEF RandInv
  <2>2. InRange(s0') BY <1>1, <1>2, <2>1, FrnsInRange
  <2>3. Near(s0') /\ s0' \in Int BY <2>2, InRangeNear DEF InRange
  <2> QED BY <1>1, <1>2, <2>1, <2>2, <2>3, FrnsInRange
<1>5. InRange(s0') => Near(s0') BY InRangeNear
<1> QED BY <1>0, <1>1, <1>2, <1>3, <1>4, <1>5 DEF RandInv

-----------------------------------------------------------------------------
\* For every RAND_MAX, width of int and seed: no number of calls makes what
\* rand returns negative, nor takes it out of its range unless the seeding left
\* s0 or s2 far outside, which takes an overflow (rand.c:19-39).
THEOREM RandStaysInRange == RandSpec => []DrawnInRange
<1>1. RandInv => DrawnInRange
  BY RandomAssumption DEF RandInv, DrawnInRange, InRange
<1>2. ASSUME RandInv, [RandNext]_randVars PROVE RandInv'
  <2>1. CASE \E seed \in Seeds : srand(seed) BY <1>2, <2>1, SrandInv
  <2>2. CASE rand BY <1>2, <2>2, DrawInv
  <2>3. CASE UNCHANGED randVars
    BY <1>2, <2>3 DEF randVars, RandInv, Near, InRange
  <2> QED BY <1>2, <2>1, <2>2, <2>3 DEF RandNext
<1> QED BY <1>1, <1>2, RandInitInv, PTL DEF RandSpec

-----------------------------------------------------------------------------
\* The keyboard.  Where the loop of donut is, from its test on.
Looping == {"test", "paint", "draw", "nap"}

\* The bits of mods follow the keys: that of the left shift at once, that of
\* caps lock when the key comes up again.
ModsFollow ==
  /\ shift \in BOOLEAN /\ (shift <=> "lshift" \in down)
  /\ caps_on \in BOOLEAN /\ caps_lock \in BOOLEAN
  /\ "caps" \in down => caps_lock = ~caps_on
  /\ "caps" \notin down => caps_lock = caps_on

\* Besides Listening: who may find a handler installed when it sets its own.
HandlerInv ==
  /\ Listening
  /\ quit \in BOOLEAN
  /\ main \in Looping \cup {"boot", "returned", "prompt", "reading", "command", "viewer"}
  /\ main \in {"boot", "returned", "command"} => kb_key_handler = "NULL"
  /\ kb_key_handler \in {"NULL", "donut", "tty"}
  /\ kb_key_handler = "donut" => main \in Looping /\ ~quit
  /\ main = "prompt" => kb_key_handler # "donut"

\* Once a key ended the donut, its colour is back or a frame may paint over it.
ColourInv ==
  /\ quit \/ main = "returned" => tty_color = saved \/ raced
  /\ quit /\ main = "paint" => raced

-----------------------------------------------------------------------------
\* A step of main moves no key and leaves no stroke.
LEMMA MainKeeps ==
  ASSUME DonutStep \/ WakeStep \/ OtherStep
  PROVE  UNCHANGED keys /\ stroke' = NoStroke
BY DEF DonutStep, WakeStep, OtherStep, Test, Paint, Draw, Return, Wake, Donut, ReadBegins,
       ReadEnds, PrintCommand, ViewerQuits, OtherCommand

LEMMA ModsNext == ASSUME ModsFollow, [KeyboardNext]_keyboardVars PROVE ModsFollow'
<1>1. CASE UNCHANGED keys
  BY <1>1 DEF ModsFollow, keys
<1>2. ASSUME NEW k \in Keys, Press(k) PROVE ModsFollow'
  <2>1. /\ down' = down \cup ({k} \cap Modifiers) /\ caps_lock' = caps_lock
        /\ caps_on' = IF k = "caps" /\ k \notin down THEN ~caps_on ELSE caps_on
        /\ shift' = (k = "lshift" \/ shift)
    BY <1>2 DEF Press
  <2>2. shift' \in BOOLEAN /\ (shift' <=> "lshift" \in down')
    <3>1. CASE k = "lshift"
      BY <2>1, <3>1 DEF Modifiers
    <3>2. CASE k # "lshift"
      BY <2>1, <3>2 DEF ModsFollow, Modifiers
    <3> QED BY <3>1, <3>2
  <2>3. /\ caps_on' \in BOOLEAN /\ caps_lock' \in BOOLEAN
        /\ "caps" \in down' => caps_lock' = ~caps_on'
        /\ "caps" \notin down' => caps_lock' = caps_on'
    <3>1. CASE k = "caps" /\ k \notin down
      BY <2>1, <3>1 DEF ModsFollow, Modifiers
    <3>2. CASE k = "caps" /\ k \in down
      BY <2>1, <3>2 DEF ModsFollow, Modifiers
    <3>3. CASE k # "caps"
      BY <2>1, <3>3 DEF ModsFollow, Modifiers
    <3> QED BY <3>1, <3>2, <3>3
  <2> QED BY <2>2, <2>3 DEF ModsFollow
<1>3. ASSUME NEW k \in Keys, Release(k) PROVE ModsFollow'
  <2>1. /\ k \in down /\ down' = down \ {k} /\ caps_on' = caps_on
        /\ caps_lock' = IF k = "caps" THEN ~caps_lock ELSE caps_lock
        /\ shift' = (k # "lshift" /\ shift)
    BY <1>3 DEF Release, CapsOnRelease
  <2>2. shift' \in BOOLEAN /\ (shift' <=> "lshift" \in down')
    <3>1. CASE k = "lshift"
      BY <2>1, <3>1
    <3>2. CASE k # "lshift"
      BY <2>1, <3>2 DEF ModsFollow
    <3> QED BY <3>1, <3>2
  <2>3. /\ caps_on' \in BOOLEAN /\ caps_lock' \in BOOLEAN
        /\ "caps" \in down' => caps_lock' = ~caps_on'
        /\ "caps" \notin down' => caps_lock' = caps_on'
    <3>1. CASE k = "caps"
      BY <2>1, <3>1 DEF ModsFollow
    <3>2. CASE k # "caps"
      BY <2>1, <3>2 DEF ModsFollow
    <3> QED BY <3>1, <3>2
  <2> QED BY <2>2, <2>3 DEF ModsFollow
<1>4. CASE Tick
  BY <1>4, <1>1 DEF Tick
<1>5. CASE UNCHANGED keyboardVars
  BY <1>5, <1>1 DEF keyboardVars, keys
<1> QED BY <1>1, <1>2, <1>3, <1>4, <1>5, MainKeeps DEF KeyboardNext

\* A key that goes down is read as it was meant, but for the three exceptions.
LEMMA StrokeNext ==
  ASSUME ModsFollow, NEW k \in Keys, k \notin Modifiers
  PROVE  LET meant == Meant(k, down, caps_on)
             got == Reading(kb_layout_us(caps_lock # shift, k))
         IN got # meant => \/ meant = "H" /\ got = "up"
                           \/ "rshift" \in down /\ "lshift" \notin down
                           \/ "caps" \in down
<1>1. CASE k = "arrow"
  BY <1>1 DEF Meant, Reading, kb_layout_us
<1>2. CASE k = "h"
  <2> SUFFICES ASSUME "caps" \notin down, "rshift" \in down => "lshift" \in down
               PROVE  LET meant == Meant(k, down, caps_on)
                          got == Reading(kb_layout_us(caps_lock # shift, k))
                      IN got = meant \/ (meant = "H" /\ got = "up")
    OBVIOUS
  <2>1. caps_lock = caps_on /\ caps_on \in BOOLEAN /\ shift \in BOOLEAN
    BY DEF ModsFollow
  <2>2. ({"lshift", "rshift"} \cap down # {}) <=> shift
    BY DEF ModsFollow
  <2>3. CASE shift
    <3>1. ({"lshift", "rshift"} \cap down # {}) = TRUE
      BY <2>2, <2>3
    <3>2. CASE caps_on
      <4>1. (caps_lock # shift) = FALSE
        BY <2>1, <2>3, <3>2
      <4>2. (({"lshift", "rshift"} \cap down # {}) # caps_on) = FALSE
        BY <2>1, <3>1, <3>2
      <4> QED BY <1>2, <4>1, <4>2 DEF Meant, Reading, kb_layout_us
    <3>3. CASE ~caps_on
      <4>1. (caps_lock # shift) = TRUE
        BY <2>1, <2>3, <3>3
      <4>2. (({"lshift", "rshift"} \cap down # {}) # caps_on) = TRUE
        BY <2>1, <3>1, <3>3
      <4> QED BY <1>2, <4>1, <4>2 DEF Meant, Reading, kb_layout_us
    <3> QED BY <3>2, <3>3
  <2>4. CASE ~shift
    <3>1. ({"lshift", "rshift"} \cap down # {}) = FALSE
      BY <2>2, <2>4
    <3>2. CASE caps_on
      <4>1. (caps_lock # shift) = TRUE
        BY <2>1, <2>4, <3>2
      <4>2. (({"lshift", "rshift"} \cap down # {}) # caps_on) = TRUE
        BY <2>1, <3>1, <3>2
      <4> QED BY <1>2, <4>1, <4>2 DEF Meant, Reading, kb_layout_us
    <3>3. CASE ~caps_on
      <4>1. (caps_lock # shift) = FALSE
        BY <2>1, <2>4, <3>3
      <4>2. (({"lshift", "rshift"} \cap down # {}) # caps_on) = FALSE
        BY <2>1, <3>1, <3>3
      <4> QED BY <1>2, <4>1, <4>2 DEF Meant, Reading, kb_layout_us
    <3> QED BY <3>2, <3>3
  <2> QED BY <2>3, <2>4
<1> QED BY <1>1, <1>2 DEF Keys, Modifiers

LEMMA StrokeInv ==
  ASSUME ModsFollow, StrokeMeant, [KeyboardNext]_keyboardVars
  PROVE  StrokeMeant'
<1>1. CASE stroke' = NoStroke
  BY <1>1 DEF StrokeMeant, NoStroke
<1>2. ASSUME NEW k \in Keys, Press(k) PROVE StrokeMeant'
  <2>1. CASE stroke' = NoStroke
    BY <1>1, <2>1
  <2>2. CASE k \notin Modifiers /\ __tty_read_key(k)
    <3> DEFINE meant == Meant(k, down, caps_on)
    <3> DEFINE got == Reading(kb_layout_us(caps_lock # shift, k))
    <3>1. stroke' = [held |-> down, meant |-> meant, got |-> got]
      BY <2>2 DEF __tty_read_key
    <3>2. got # meant => \/ meant = "H" /\ got = "up"
                         \/ "rshift" \in down /\ "lshift" \notin down
                         \/ "caps" \in down
      BY <2>2, StrokeNext
    <3> HIDE DEF meant, got
    <3>3. stroke'.held = down /\ stroke'.meant = meant /\ stroke'.got = got
      BY <3>1
    <3> QED BY <3>2, <3>3 DEF StrokeMeant
  <2> QED BY <1>2, <2>1, <2>2 DEF Press, __donut_key_handler
<1>3. CASE UNCHANGED keyboardVars
  BY <1>3 DEF keyboardVars, StrokeMeant
<1> QED BY <1>1, <1>2, <1>3, MainKeeps DEF KeyboardNext, Release, Tick

\* The stroke of a program is the one its user meant.
THEOREM StrokesAreMeant == KeyboardSpec => []StrokeMeant
<1>1. KeyboardInit => ModsFollow /\ StrokeMeant
  <2> HAVE KeyboardInit
  <2>1. shift = FALSE /\ caps_on = FALSE /\ caps_lock = FALSE /\ down = {}
    BY DEF KeyboardInit
  <2>2. stroke.got = stroke.meant
    BY DEF KeyboardInit, NoStroke
  <2>3. ModsFollow BY <2>1 DEF ModsFollow
  <2> QED BY <2>2, <2>3 DEF StrokeMeant
<1>2. ModsFollow /\ StrokeMeant /\ [KeyboardNext]_keyboardVars => (ModsFollow /\ StrokeMeant)'
  BY ModsNext, StrokeInv
<1> QED BY <1>1, <1>2, PTL DEF KeyboardSpec

-----------------------------------------------------------------------------
LEMMA HandlerStart == ASSUME KeyboardInit PROVE HandlerInv
BY DEF KeyboardInit, HandlerInv, Listening, Looping

\* A key may take the handler of the donut away, and no other one.
LEMMA PressHandler ==
  ASSUME HandlerInv, NEW k \in Keys, Press(k) PROVE HandlerInv'
<1>1. main' = main
  BY DEF Press
<1>2. CASE UNCHANGED <<quit, kb_key_handler>>
  BY <1>1, <1>2 DEF HandlerInv, Listening
<1>3. CASE kb_key_handler = "donut" /\ __donut_key_handler
  <2>1. quit' = TRUE /\ kb_key_handler' = "NULL" /\ main \in Looping
    BY <1>3 DEF __donut_key_handler, kb_set_key_handler, HandlerInv
  <2> QED BY <1>1, <2>1 DEF HandlerInv, Listening, Looping
<1> QED BY <1>2, <1>3 DEF Press, __tty_read_key

LEMMA MainHandler ==
  ASSUME HandlerInv, DonutStep \/ WakeStep \/ OtherStep PROVE HandlerInv'
<1>1. CASE Test
  <2>1. main = "test" /\ quit' = FALSE /\ kb_key_handler' = kb_key_handler
        /\ main' = IF quit THEN "returned" ELSE "paint"
    BY <1>1 DEF Test
  <2>2. CASE quit
    BY <2>1, <2>2 DEF HandlerInv, Listening, Looping
  <2>3. CASE ~quit
    BY <2>1, <2>3 DEF HandlerInv, Listening, Looping
  <2> QED BY <2>2, <2>3
<1>2. CASE Paint \/ Draw \/ Wake
  <2>1. main \in Looping /\ main' \in Looping /\ UNCHANGED <<quit, kb_key_handler>>
    BY <1>2 DEF Paint, Draw, Wake, Looping
  <2> QED BY <2>1 DEF HandlerInv, Listening, Looping
<1>3. CASE Return \/ ViewerQuits \/ OtherCommand
  <2>1. main \in {"returned", "viewer", "command"} /\ main' = "prompt"
        /\ UNCHANGED <<quit, kb_key_handler>>
    BY <1>3 DEF Return, ViewerQuits, OtherCommand
  <2> QED BY <2>1 DEF HandlerInv, Listening, Looping
<1>4. CASE Donut
  <2>1. kb_key_handler' = "donut" /\ main' = "test" /\ quit' = quit /\ ~quit
    BY <1>4 DEF Donut, kb_set_key_handler, HandlerInv, Listening
  <2> QED BY <2>1 DEF HandlerInv, Listening, Looping
<1>5. CASE ReadBegins \/ PrintCommand
  <2>1. kb_key_handler' = "tty" /\ main' \in {"reading", "viewer"} /\ quit' = quit /\ ~quit
    BY <1>5 DEF ReadBegins, PrintCommand, kb_set_key_handler, HandlerInv, Listening
  <2> QED BY <2>1 DEF HandlerInv, Listening, Looping
<1>6. CASE ReadEnds
  <2>1. kb_key_handler' = "NULL" /\ main' = "command" /\ quit' = quit /\ ~quit
    BY <1>6 DEF ReadEnds, kb_set_key_handler, HandlerInv, Listening
  <2> QED BY <2>1 DEF HandlerInv, Listening, Looping
<1> QED BY <1>1, <1>2, <1>3, <1>4, <1>5, <1>6 DEF DonutStep, WakeStep, OtherStep

LEMMA HandlerNext ==
  ASSUME HandlerInv, [KeyboardNext]_keyboardVars PROVE HandlerInv'
<1>1. CASE UNCHANGED <<main, quit, kb_key_handler>>
  BY <1>1 DEF HandlerInv, Listening
<1> QED BY <1>1, PressHandler, MainHandler DEF KeyboardNext, Release, Tick, keyboardVars

\* Whoever waits for a key has its handler installed, and no earlier key ends
\* the donut.
THEOREM ProgramsListen == KeyboardSpec => []Listening
<1>1. KeyboardInit => HandlerInv BY HandlerStart
<1>2. HandlerInv /\ [KeyboardNext]_keyboardVars => HandlerInv' BY HandlerNext
<1>3. HandlerInv => Listening BY DEF HandlerInv
<1> QED BY <1>1, <1>2, <1>3, PTL DEF KeyboardSpec

-----------------------------------------------------------------------------
LEMMA ColourNext ==
  ASSUME HandlerInv, ColourInv, [KeyboardNext]_keyboardVars PROVE ColourInv'
<1>1. CASE UNCHANGED <<main, quit, tty_color, saved, raced>>
  BY <1>1 DEF ColourInv
<1>2. ASSUME NEW k \in Keys, Press(k) PROVE ColourInv'
  <2>1. main' = main /\ saved' = saved
    BY <1>2 DEF Press
  <2>2. CASE UNCHANGED <<quit, tty_color, raced>>
    BY <1>1, <2>1, <2>2
  <2>3. CASE __donut_key_handler
    BY <2>1, <2>3 DEF __donut_key_handler, Restored, ColourInv
  <2> QED BY <1>2, <2>2, <2>3 DEF Press, __tty_read_key
<1>3. CASE Test
  <2>1. main' \in {"returned", "paint"} /\ (main' = "returned" <=> quit) /\ quit' = FALSE
        /\ UNCHANGED colours
    BY <1>3 DEF Test
  <2> QED BY <2>1 DEF ColourInv, colours
<1>4. CASE Paint
  BY <1>4 DEF Paint, ColourInv
<1>5. CASE Draw \/ Wake
  <2>1. main' \in {"nap", "test"} /\ UNCHANGED <<quit, colours>>
    BY <1>5 DEF Draw, Wake
  <2> QED BY <2>1 DEF ColourInv, colours
<1>6. CASE Return \/ Donut \/ ReadBegins \/ ReadEnds \/ PrintCommand \/ ViewerQuits \/ OtherCommand
  <2>1. main' \notin {"returned", "paint"} /\ quit' = quit /\ ~quit
    BY <1>6 DEF Return, Donut, ReadBegins, ReadEnds, PrintCommand, ViewerQuits, OtherCommand,
                HandlerInv, Listening
  <2> QED BY <2>1 DEF ColourInv
<1> QED BY <1>1, <1>2, <1>3, <1>4, <1>5, <1>6
        DEF KeyboardNext, Release, Tick, DonutStep, WakeStep, OtherStep, colours, keyboardVars

\* The donut leaves the colour it found, but for the one race.
THEOREM ColourComesBack == KeyboardSpec => []ColourRestored
<1>1. KeyboardInit => HandlerInv /\ ColourInv
  <2> HAVE KeyboardInit
  <2>1. ColourInv BY DEF KeyboardInit, ColourInv
  <2> QED BY <2>1, HandlerStart
<1>2. HandlerInv /\ ColourInv /\ [KeyboardNext]_keyboardVars => (HandlerInv /\ ColourInv)'
  BY HandlerNext, ColourNext
<1>3. ColourInv => ColourRestored BY DEF ColourInv, ColourRestored
<1> QED BY <1>1, <1>2, <1>3, PTL DEF KeyboardSpec

-----------------------------------------------------------------------------
\* The heap with all its clients.  Addresses in it, and the end of a chunk of the
\* chain s, which is the heap's or the one main is about to leave.
Places == 0 .. HeapSize - 1
Stop(s, a) == a + s[a]

\* The chunks of s lie one behind the other, from the first byte to the last.
Tiles(s) ==
  /\ DOMAIN s \subseteq Places /\ 0 \in DOMAIN s /\ s \in [DOMAIN s -> Nat \ {0}]
  /\ \A a \in DOMAIN s : Stop(s, a) \in DOMAIN s \cup {HeapSize}
  /\ \A a, b \in DOMAIN s : a < b => Stop(s, a) <= b

\* The chain as it is once main has closed the chunk that it took.
Closed ==
  IF pc = "rest" THEN [size EXCEPT ![p] = Wanted + next_size] ELSE size

\* The chunk that main took and nobody owns yet.
Taken == IF pc = "rest" THEN {p} ELSE {}

Owners(s) ==
  /\ is_free \subseteq DOMAIN s
  /\ \A o \in owned : /\ o[2] \in DOMAIN s \ is_free /\ o[2] \notin Taken
                      /\ o[3] \in Nat /\ o[2] < o[3] /\ o[3] <= Stop(s, o[2])
  /\ \A o, q \in owned : o # q => o[2] # q[2]
  /\ DOMAIN s \ is_free = {o[2] : o \in owned} \cup Taken

\* Where main stands, unless a handler's malloc came in between.
Walking ==
  /\ pc = "find" => p \in Heads \cup {HeapSize}
  /\ pc = "concat" => p \in is_free /\ concat_ptr = End(p)
  /\ pc = "fit" => p \in is_free
  /\ pc = "take" => p \in is_free /\ Wanted < size[p]

Resting ==
  pc = "rest" => /\ p \in Heads \ is_free /\ size[p] = Wanted /\ next_size \in Nat

Sane ==
  /\ pc \in {"shell", "find", "concat", "fit", "take", "rest"}
  /\ interleaved \in BOOLEAN /\ lost \in BOOLEAN
  /\ devices_size \in Nat \ {0}
  /\ Tiles(Closed) /\ Owners(Closed)
  /\ ~interleaved => Walking
  /\ Resting

MemoryInv == IF lost THEN interleaved ELSE Sane

-----------------------------------------------------------------------------
\* Sets of places have a least and a greatest element.
LEMMA MinIs ==
  ASSUME NEW S \in SUBSET Nat, S # {}
  PROVE  Min(S) \in S /\ \A k \in S : Min(S) <= k
BY Least DEF Min

LEMMA Greatest ==
  ASSUME NEW S \in SUBSET Places, S # {}
  PROVE  \E m \in S : \A k \in S : k <= m
<1>1. HeapSize \in Nat BY MemoryAssumption
<1> DEFINE T == {HeapSize - k : k \in S}
<1>2. T \in SUBSET Nat
  <2> SUFFICES ASSUME NEW k \in S PROVE HeapSize - k \in Nat
    OBVIOUS
  <2> QED BY <1>1 DEF Places
<1>3. PICK t \in T : \A u \in T : t <= u
  <2>1. T # {} OBVIOUS
  <2> HIDE DEF T
  <2> QED BY <1>2, <2>1, Least
<1>4. PICK m \in S : t = HeapSize - m OBVIOUS
<1>5. ASSUME NEW k \in S PROVE k <= m
  <2>1. HeapSize - m <= HeapSize - k BY <1>3, <1>4
  <2> QED BY <1>1, <2>1 DEF Places
<1> QED BY <1>5

-----------------------------------------------------------------------------
\* Tiles.  A chunk that is not the first begins where another one ends.
LEMMA HasBefore ==
  ASSUME NEW s, Tiles(s), NEW h \in DOMAIN s, h # 0
  PROVE  \E b \in DOMAIN s : b < h /\ Stop(s, b) = h
<1> DEFINE S == {b \in DOMAIN s : b < h}
<1>1. HeapSize \in Nat /\ DOMAIN s \subseteq Places /\ h \in Nat /\ h < HeapSize
  BY MemoryAssumption DEF Tiles, Places
<1>2. 0 \in S BY <1>1 DEF Tiles
<1>3. PICK b \in S : \A k \in S : k <= b
  <2>1. S \in SUBSET Places /\ S # {} BY <1>1, <1>2
  <2> HIDE DEF S
  <2> QED BY <2>1, Greatest
<1>4. b \in DOMAIN s /\ b < h /\ b \in Nat /\ s[b] \in Nat \ {0}
  BY <1>1 DEF Tiles, Places
<1>5. Stop(s, b) <= h /\ Stop(s, b) \in DOMAIN s \cup {HeapSize}
  BY <1>4 DEF Tiles
<1>6. Stop(s, b) \in Nat /\ b < Stop(s, b) BY <1>4 DEF Stop
<1>7. ~(Stop(s, b) < h)
  <2> SUFFICES ASSUME Stop(s, b) < h PROVE FALSE OBVIOUS
  <2>1. Stop(s, b) \in DOMAIN s BY <1>1, <1>5, <1>6
  <2>2. Stop(s, b) \in S BY <2>1
  <2>3. Stop(s, b) <= b BY <1>3, <2>2
  <2> QED BY <1>4, <1>6, <2>3
<1>8. Stop(s, b) = h BY <1>1, <1>5, <1>6, <1>7
<1> QED BY <1>4, <1>8

\* A chunk is cut in two, or given away whole.
LEMMA CutTiles ==
  ASSUME NEW s, Tiles(s), NEW a \in DOMAIN s, NEW w \in Nat \ {0}, w < s[a]
  PROVE  LET c == Cut(s, a, w)
             new == IF Leaves(s[a] - w) THEN {a + w} ELSE {}
         IN /\ Tiles(c) /\ a + w \notin DOMAIN s
            /\ DOMAIN c = DOMAIN s \cup new
            /\ a + w <= Stop(c, a)
            /\ \A x \in DOMAIN s : x # a => c[x] = s[x]
<1> DEFINE new == IF Leaves(s[a] - w) THEN {a + w} ELSE {}
<1> DEFINE c == Cut(s, a, w)
<1>1. /\ HeapSize \in Nat /\ DOMAIN s \subseteq Places /\ 0 \in DOMAIN s
      /\ a \in Nat /\ a < HeapSize /\ s[a] \in Nat /\ w < s[a] /\ w \in Nat \ {0}
  BY MemoryAssumption DEF Tiles, Places
<1>2. a + w \notin DOMAIN s
  <2> SUFFICES ASSUME a + w \in DOMAIN s PROVE FALSE OBVIOUS
  <2>1. a < a + w BY <1>1
  <2>2. Stop(s, a) <= a + w BY <2>1 DEF Tiles
  <2> QED BY <1>1, <2>2 DEF Stop
<1>3. DOMAIN c = DOMAIN s \cup new
  BY DEF Cut
<1>4. \A x \in DOMAIN s : x # a => c[x] = s[x]
  BY <1>1, <1>2, <1>3 DEF Cut
<1>5. /\ Leaves(s[a] - w) => c[a] = w /\ c[a + w] = s[a] - w
      /\ ~Leaves(s[a] - w) => c[a] = s[a]
  <2>1. a # a + w BY <1>1
  <2> QED BY <1>1, <1>2, <1>3, <2>1 DEF Cut
<1> HIDE DEF c
<1>6. /\ Stop(s, a) \in DOMAIN s \cup {HeapSize} /\ Stop(s, a) = a + s[a]
      /\ \A x \in DOMAIN s : x < a => Stop(s, x) <= a
      /\ \A x \in DOMAIN s : a < x => a + s[a] <= x
  BY DEF Tiles, Stop
<1>7. CASE ~Leaves(s[a] - w)
  <2>1. DOMAIN c = DOMAIN s /\ \A x \in DOMAIN s : c[x] = s[x]
    BY <1>3, <1>4, <1>5, <1>7
  <2>2. Tiles(c)
    <3>1. c = [x \in DOMAIN c |-> c[x]] BY DEF c, Cut
    <3>2. s = [x \in DOMAIN s |-> s[x]] BY DEF Tiles
    <3> QED BY <2>1, <3>1, <3>2
  <2>3. a + w <= Stop(c, a) BY <1>1, <2>1 DEF Stop
  <2> QED BY <1>2, <1>3, <1>4, <2>2, <2>3 DEF c
<1>8. CASE Leaves(s[a] - w)
  <2>1. DOMAIN c = DOMAIN s \cup {a + w} /\ c[a] = w /\ c[a + w] = s[a] - w
    BY <1>3, <1>5, <1>8
  <2>2. s[a] - w \in Nat \ {0} /\ (a + w) + (s[a] - w) = a + s[a] /\ a < a + w /\ a + w < a + s[a]
    BY <1>1
  <2>3. /\ Stop(c, a) = a + w /\ Stop(c, a + w) = a + s[a]
        /\ \A x \in DOMAIN s : x # a => Stop(c, x) = Stop(s, x)
    BY <1>4, <2>1, <2>2 DEF Stop
  <2>4. a + w \in Places
    <3>1. a + s[a] <= HeapSize
      <4>1. a + s[a] \in Places \cup {HeapSize} BY <1>1, <1>6
      <4> QED BY <1>1, <4>1 DEF Places
    <3> QED BY <1>1, <2>2, <3>1 DEF Places
  <2>5. \A x \in DOMAIN c : c[x] \in Nat \ {0} /\ Stop(c, x) \in DOMAIN c \cup {HeapSize}
    BY <1>1, <1>4, <1>6, <2>1, <2>2, <2>3 DEF Tiles
  <2>6. ASSUME NEW x \in DOMAIN c, NEW y \in DOMAIN c, x < y PROVE Stop(c, x) <= y
    <3>1. CASE x = a
      <4>1. y = a + w \/ (y \in DOMAIN s /\ a + s[a] <= y) BY <1>6, <2>1, <2>6, <3>1
      <4>2. y \in Nat BY <1>1, <2>1 DEF Places
      <4> QED BY <1>1, <2>2, <2>3, <3>1, <4>1, <4>2
    <3>2. CASE x = a + w
      <4>1. y \in DOMAIN s /\ y \in Nat /\ a < y BY <1>1, <2>1, <2>6, <3>2 DEF Places
      <4>2. a + s[a] <= y BY <1>6, <4>1
      <4> QED BY <2>3, <3>2, <4>2
    <3>3. CASE x \in DOMAIN s /\ x # a
      <4>1. Stop(c, x) = Stop(s, x) BY <2>3, <3>3
      <4>2. CASE y \in DOMAIN s BY <2>6, <3>3, <4>1, <4>2 DEF Tiles
      <4>3. CASE y = a + w
        <5>1. x < a
          <6>1. ~(a < x) BY <1>1, <1>6, <2>2, <2>6, <3>3, <4>3 DEF Places
          <6> QED BY <1>1, <3>3, <6>1 DEF Places
        <5>2. Stop(s, x) <= a BY <1>6, <3>3, <5>1
        <5>3. Stop(s, x) \in Nat BY <1>1, <3>3 DEF Tiles, Places
        <5> QED BY <1>1, <2>2, <4>1, <4>3, <5>2, <5>3
      <4> QED BY <2>1, <4>2, <4>3
    <3> QED BY <2>1, <3>1, <3>2, <3>3
  <2>7. c = [x \in DOMAIN c |-> c[x]] BY <1>3 DEF c, Cut
  <2>8. c \in [DOMAIN c -> Nat \ {0}] BY <2>5, <2>7
  <2>9. Tiles(c)
    <3>1. DOMAIN c \subseteq Places /\ 0 \in DOMAIN c BY <1>1, <2>1, <2>4
    <3> QED BY <2>5, <2>6, <2>8, <3>1 DEF Tiles
  <2>10. a + w <= Stop(c, a) BY <1>1, <2>3
  <2> QED BY <1>2, <1>3, <1>4, <2>9, <2>10 DEF c
<1> QED BY <1>7, <1>8

\* A chunk takes in the one behind it.
LEMMA JoinTiles ==
  ASSUME NEW s, Tiles(s), NEW a \in DOMAIN s, NEW q \in DOMAIN s, Stop(s, a) = q,
         NEW c, c = [x \in DOMAIN s \ {q} |-> IF x = a THEN s[a] + s[q] ELSE s[x]]
  PROVE  Tiles(c) /\ a # q /\ Stop(c, a) = Stop(s, q)
<1>1. /\ HeapSize \in Nat /\ DOMAIN s \subseteq Places /\ 0 \in DOMAIN s
      /\ a \in Nat /\ q \in Nat /\ s[a] \in Nat \ {0} /\ s[q] \in Nat \ {0} /\ q = a + s[a]
  BY MemoryAssumption DEF Tiles, Places, Stop
<1>2. a < q /\ a # q /\ q # 0 BY <1>1
<1>3. DOMAIN c = DOMAIN s \ {q} /\ c[a] = s[a] + s[q] BY <1>2
<1>4. \A x \in DOMAIN c : x # a => c[x] = s[x] /\ Stop(c, x) = Stop(s, x) BY DEF Stop
<1>5. Stop(c, a) = q + s[q] /\ Stop(s, q) = q + s[q] BY <1>1, <1>3 DEF Stop
<1>6. ASSUME NEW x \in DOMAIN c PROVE c[x] \in Nat \ {0} /\ Stop(c, x) \in DOMAIN c \cup {HeapSize}
  <2>1. CASE x = a
    <3>1. Stop(s, q) \in DOMAIN s \cup {HeapSize} /\ Stop(s, q) # q
      BY <1>1, <1>5 DEF Tiles
    <3>2. s[a] + s[q] \in Nat \ {0} BY <1>1
    <3> QED BY <1>3, <1>5, <2>1, <3>1, <3>2
  <2>2. CASE x # a
    <3>1. Stop(s, x) # q
      <4>1. x \in Nat /\ x # q /\ x \in DOMAIN s BY <1>1, <1>3 DEF Places
      <4>2. x < a => Stop(s, x) <= a BY <4>1 DEF Tiles
      <4>3. a < x => q <= x
        <5>1. a < x => Stop(s, a) <= x BY <4>1 DEF Tiles
        <5> QED BY <5>1
      <4>4. Stop(s, x) \in Nat /\ x < Stop(s, x) BY <4>1 DEF Tiles, Stop
      <4> QED BY <1>1, <1>2, <2>2, <4>1, <4>2, <4>3, <4>4
    <3>2. s[x] \in Nat \ {0} /\ Stop(s, x) \in DOMAIN s \cup {HeapSize} BY <1>3 DEF Tiles
    <3> QED BY <1>3, <1>4, <2>2, <3>1, <3>2
  <2> QED BY <2>1, <2>2
<1>7. ASSUME NEW x \in DOMAIN c, NEW y \in DOMAIN c, x < y PROVE Stop(c, x) <= y
  <2>1. x \in DOMAIN s /\ y \in DOMAIN s /\ x \in Nat /\ y \in Nat /\ y # q BY <1>1, <1>3 DEF Places
  <2>2. CASE x = a
    <3>1. q <= y
      <4>1. Stop(s, a) <= y BY <1>7, <2>1, <2>2 DEF Tiles
      <4> QED BY <4>1
    <3>2. q < y BY <1>1, <2>1, <3>1
    <3>3. Stop(s, q) <= y BY <2>1, <3>2 DEF Tiles
    <3> QED BY <1>5, <2>2, <3>3
  <2>3. CASE x # a BY <1>4, <1>7, <2>1, <2>3 DEF Tiles
  <2> QED BY <2>2, <2>3
<1>8. DOMAIN c \subseteq Places /\ 0 \in DOMAIN c BY <1>1, <1>2, <1>3
<1>9. c = [x \in DOMAIN c |-> c[x]] OBVIOUS
<1>10. c \in [DOMAIN c -> Nat \ {0}] BY <1>6, <1>9
<1>11. Tiles(c) BY <1>6, <1>7, <1>8, <1>10 DEF Tiles
<1> QED BY <1>2, <1>5, <1>11

-----------------------------------------------------------------------------
\* A chain that shows the free chunks as the heap has them.
Shows(s) ==
  /\ Tiles(s) /\ DOMAIN s = Heads /\ is_free \subseteq Heads
  /\ \A b \in is_free : s[b] = size[b]

\* A run of free chunks ends behind its last one.
LEMMA RunEndIs ==
  ASSUME NEW s, Shows(s), NEW a \in is_free
  PROVE  /\ RunEnd(a) \in Nat /\ a < RunEnd(a)
         /\ RunEnd(a) \in Heads \cup {HeapSize} /\ RunEnd(a) \notin is_free
         /\ \A b \in is_free : a <= b /\ Stop(s, b) \notin is_free => RunEnd(a) <= Stop(s, b)
<1> DEFINE L == {c \in is_free : c >= a /\ End(c) \notin is_free}
<1> DEFINE E == {End(b) : b \in L}
<1>1. /\ HeapSize \in Nat /\ is_free \subseteq DOMAIN s /\ DOMAIN s \subseteq Places
      /\ DOMAIN s = Heads
  BY MemoryAssumption DEF Shows, Tiles
<1>2. \A b \in is_free : /\ b \in Nat /\ b < HeapSize /\ End(b) = Stop(s, b)
                         /\ Stop(s, b) \in Nat /\ b < Stop(s, b)
                         /\ Stop(s, b) \in DOMAIN s \cup {HeapSize}
  <2> SUFFICES ASSUME NEW b \in is_free
               PROVE  /\ b \in Nat /\ b < HeapSize /\ End(b) = Stop(s, b)
                      /\ Stop(s, b) \in Nat /\ b < Stop(s, b)
                      /\ Stop(s, b) \in DOMAIN s \cup {HeapSize}
    OBVIOUS
  <2>1. b \in Nat /\ b < HeapSize BY <1>1 DEF Places
  <2>2. b \in DOMAIN s /\ s[b] = size[b] BY <1>1 DEF Shows
  <2>3. s[b] \in Nat \ {0} /\ Stop(s, b) \in DOMAIN s \cup {HeapSize}
    BY <2>2 DEF Shows, Tiles
  <2> QED BY <2>1, <2>2, <2>3 DEF Stop, End
<1>3. PICK m \in is_free : \A k \in is_free : k <= m
  <2>1. is_free \in SUBSET Places /\ is_free # {} BY <1>1
  <2> QED BY <2>1, Greatest
<1>4. m \in L
  <2>1. End(m) \notin is_free BY <1>2, <1>3
  <2> QED BY <1>2, <1>3, <2>1
<1>5. E \in SUBSET Nat /\ E # {} BY <1>2, <1>4
<1>6. RunEnd(a) = Min(E) BY DEF RunEnd
<1>7. RunEnd(a) \in E /\ \A k \in E : RunEnd(a) <= k
  <2> HIDE DEF E
  <2> QED BY <1>5, <1>6, MinIs
<1>8. PICK b \in L : RunEnd(a) = End(b) BY <1>7
<1>9. a \in Nat /\ b \in Nat /\ a <= b /\ b < End(b) /\ End(b) \in Nat
  BY <1>2, <1>8
<1>10. RunEnd(a) \in Nat /\ a < RunEnd(a) BY <1>8, <1>9
<1>11. RunEnd(a) \in Heads \cup {HeapSize} /\ RunEnd(a) \notin is_free BY <1>1, <1>2, <1>8
<1>12. ASSUME NEW x \in is_free, a <= x, Stop(s, x) \notin is_free PROVE RunEnd(a) <= Stop(s, x)
  <2>1. End(x) \in E BY <1>2, <1>9, <1>12
  <2> QED BY <1>2, <1>7, <2>1
<1> QED BY <1>10, <1>11, <1>12

\* Every chunk within a run is free, and no run begins there.
LEMMA RunFree ==
  ASSUME NEW s, Shows(s), NEW a \in is_free, NEW h \in Heads, a < h, h < RunEnd(a)
  PROVE  h \in is_free /\ h \notin Runs
<1> DEFINE Good(x) == x \in is_free /\ x \notin Runs
<1> DEFINE S == {x \in Heads : a < x /\ x < RunEnd(a) /\ ~Good(x)}
<1> SUFFICES ASSUME S # {} PROVE FALSE OBVIOUS
<1>1. /\ Tiles(s) /\ DOMAIN s = Heads /\ is_free \subseteq Heads /\ Heads \subseteq Nat
      /\ RunEnd(a) \in Nat
      /\ \A b \in is_free : a <= b /\ Stop(s, b) \notin is_free => RunEnd(a) <= Stop(s, b)
  BY RunEndIs DEF Shows, Tiles, Places
<1>2. PICK x \in S : \A k \in S : x <= k
  <2>1. S \in SUBSET Nat BY <1>1
  <2> HIDE DEF S
  <2> QED BY <2>1, Least
<1>3. x \in Heads /\ x \in Nat /\ a \in Nat /\ a < x /\ x < RunEnd(a) /\ ~Good(x) BY <1>1, <1>2
<1>4. PICK b \in DOMAIN s : b < x /\ Stop(s, b) = x
  <2>1. x \in DOMAIN s /\ x # 0 BY <1>1, <1>3
  <2> QED BY <1>1, <2>1, HasBefore
<1>5. b \in Nat /\ ~(b < a)
  <2>1. b \in DOMAIN s /\ a \in DOMAIN s /\ b \in Nat BY <1>1, <1>4
  <2>2. b < a => Stop(s, b) <= a BY <1>1, <2>1 DEF Tiles
  <2> QED BY <1>3, <1>4, <2>1, <2>2
<1>6. b \in is_free
  <2>1. CASE b = a BY <2>1
  <2>2. CASE a < b
    <3>1. b \in Heads /\ b < RunEnd(a) /\ ~(x <= b) BY <1>1, <1>3, <1>4, <1>5
    <3>2. b \notin S BY <1>2, <3>1
    <3> QED BY <2>2, <3>1, <3>2
  <2> QED BY <1>3, <1>5, <2>1, <2>2
<1>7. x \in is_free
  <2> SUFFICES ASSUME x \notin is_free PROVE FALSE OBVIOUS
  <2>1. a <= b BY <1>3, <1>5
  <2>2. RunEnd(a) <= x BY <1>1, <1>4, <1>6, <2>1
  <2> QED BY <1>1, <1>3, <2>2
<1>8. End(b) = x BY <1>4, <1>6 DEF Shows, Stop, End
<1>9. x \notin Runs BY <1>6, <1>8 DEF Runs
<1> QED BY <1>3, <1>7, <1>9

\* The chain s after the walk of a malloc has merged the runs it came to.
MergedIn(s, want) ==
  [x \in DOMAIN s \ Absorbed(want) |-> IF x \in Visited(want) THEN RunEnd(x) - x ELSE s[x]]

\* What the chunks of a chain are, with its chunks named Heads.
LEMMA ShownChunks ==
  ASSUME NEW s, Shows(s)
  PROVE  /\ Heads \subseteq Nat /\ Heads \subseteq Places /\ 0 \in Heads
         /\ \A x \in Heads : s[x] \in Nat \ {0} /\ Stop(s, x) \in Heads \cup {HeapSize}
         /\ \A x \in Heads : Stop(s, x) \in Nat /\ x < Stop(s, x)
         /\ \A x, y \in Heads : x < y => Stop(s, x) <= y
<1>1. Tiles(s) /\ DOMAIN s = Heads BY DEF Shows
<1> DEFINE D == DOMAIN s
<1>2. /\ D \subseteq Places /\ 0 \in D
      /\ \A x \in D : s[x] \in Nat \ {0} /\ Stop(s, x) \in D \cup {HeapSize}
      /\ \A x, y \in D : x < y => Stop(s, x) <= y
  BY <1>1 DEF Tiles
<1>3. D \subseteq Nat BY <1>2, MemoryAssumption DEF Places
<1>4. \A x \in D : Stop(s, x) \in Nat /\ x < Stop(s, x) BY <1>2, <1>3 DEF Stop
<1>5. D = Heads BY <1>1
<1> HIDE DEF D
<1> QED BY <1>2, <1>3, <1>4, <1>5

LEMMA MergedTiles ==
  ASSUME NEW s, Shows(s), NEW want
  PROVE  LET c == MergedIn(s, want)
         IN /\ Tiles(c) /\ DOMAIN c = Heads \ Absorbed(want)
            /\ \A x \in Heads \ is_free : x \in DOMAIN c /\ c[x] = s[x]
            /\ \A x \in Visited(want) : x \in DOMAIN c /\ c[x] = RunEnd(x) - x
<1> DEFINE c == MergedIn(s, want)
<1>1. /\ DOMAIN s = Heads /\ is_free \subseteq Heads
      /\ Heads \subseteq Nat /\ Heads \subseteq Places /\ 0 \in Heads
      /\ \A x \in Heads : s[x] \in Nat \ {0} /\ Stop(s, x) \in Heads \cup {HeapSize}
      /\ \A x \in Heads : Stop(s, x) \in Nat /\ x < Stop(s, x)
      /\ \A x, y \in Heads : x < y => Stop(s, x) <= y
  BY ShownChunks DEF Shows
<1>2. Visited(want) \subseteq Runs /\ Runs \subseteq is_free BY DEF Visited, Runs
<1>3. Absorbed(want) \subseteq is_free \ Runs BY DEF Absorbed
<1>4. DOMAIN c = Heads \ Absorbed(want) BY <1>1 DEF MergedIn
<1>5. \A x \in Visited(want) : x \in DOMAIN c /\ c[x] = RunEnd(x) - x
  BY <1>1, <1>2, <1>3, <1>4 DEF MergedIn
<1>6. \A x \in DOMAIN c \ Visited(want) : c[x] = s[x] BY DEF MergedIn
<1>7. \A x \in Heads \ is_free : x \in DOMAIN c /\ c[x] = s[x] BY <1>2, <1>3, <1>4, <1>6
<1> HIDE DEF c
<1>8. \A x \in Visited(want) : /\ x \in is_free /\ RunEnd(x) \in Nat /\ x < RunEnd(x)
                               /\ RunEnd(x) \in Heads \cup {HeapSize} /\ RunEnd(x) \notin is_free
  BY <1>2, RunEndIs
<1>9. \A x \in Visited(want) : c[x] \in Nat \ {0} /\ Stop(c, x) = RunEnd(x)
  <2> SUFFICES ASSUME NEW x \in Visited(want)
               PROVE  c[x] \in Nat \ {0} /\ Stop(c, x) = RunEnd(x)
    OBVIOUS
  <2>1. x \in Nat /\ RunEnd(x) \in Nat /\ x < RunEnd(x) BY <1>1, <1>8
  <2> QED BY <1>5, <2>1 DEF Stop
<1>10. \A x \in DOMAIN c \ Visited(want) : Stop(c, x) = Stop(s, x) BY <1>6 DEF Stop
\* A chunk within a visited run is absorbed.
<1>11. ASSUME NEW a \in Visited(want), NEW h \in Heads, a < h, h < RunEnd(a)
       PROVE  h \in Absorbed(want)
  <2>1. h \in is_free /\ h \notin Runs BY <1>8, <1>11, RunFree
  <2> QED BY <1>11, <2>1 DEF Absorbed
<1>12. ASSUME NEW x \in DOMAIN c PROVE c[x] \in Nat \ {0} /\ Stop(c, x) \in DOMAIN c \cup {HeapSize}
  <2>1. CASE x \in Visited(want) BY <1>3, <1>4, <1>8, <1>9, <2>1
  <2>2. CASE x \notin Visited(want)
    <3>1. x \in Heads /\ c[x] = s[x] /\ Stop(c, x) = Stop(s, x) BY <1>4, <1>6, <1>10, <2>2
    <3>2. s[x] \in Nat \ {0} /\ Stop(s, x) \in Heads \cup {HeapSize} /\ x \in Nat
      BY <1>1, <3>1
    <3>3. Stop(s, x) \notin Absorbed(want)
      <4> SUFFICES ASSUME Stop(s, x) \in Absorbed(want) PROVE FALSE OBVIOUS
      <4>1. PICK a \in Visited(want) : a < Stop(s, x) /\ Stop(s, x) < RunEnd(a) BY DEF Absorbed
      <4>2. a \in Nat /\ a \in Heads /\ RunEnd(a) \in Nat BY <1>1, <1>8
      <4>3. Stop(s, x) \in Nat /\ x < Stop(s, x) BY <1>1, <3>1
      <4>4. ~(x < a)
        <5>1. x < a => Stop(s, x) <= a BY <1>1, <3>1, <4>2
        <5> QED BY <4>1, <4>2, <4>3, <5>1
      <4>5. x # a BY <2>2
      <4>6. a < x /\ x < RunEnd(a) BY <3>2, <4>1, <4>2, <4>3, <4>4, <4>5
      <4>7. x \in Absorbed(want) BY <1>4, <1>11, <4>6
      <4> QED BY <1>4, <4>7
    <3> QED BY <1>1, <1>4, <3>1, <3>2, <3>3
  <2> QED BY <2>1, <2>2
<1>13. ASSUME NEW x \in DOMAIN c, NEW y \in DOMAIN c, x < y PROVE Stop(c, x) <= y
  <2>1. x \in Heads /\ y \in Heads /\ y \in Nat /\ y \notin Absorbed(want) BY <1>1, <1>4
  <2>2. CASE x \in Visited(want)
    <3>1. ~(y < RunEnd(x)) BY <1>1, <1>11, <1>13, <2>1, <2>2
    <3> QED BY <1>8, <1>9, <2>1, <2>2, <3>1
  <2>3. CASE x \notin Visited(want) BY <1>1, <1>10, <1>13, <2>1, <2>3
  <2> QED BY <2>2, <2>3
<1>14. 0 \notin Absorbed(want)
  <2> SUFFICES ASSUME 0 \in Absorbed(want) PROVE FALSE OBVIOUS
  <2>1. PICK a \in Visited(want) : a < 0 BY DEF Absorbed
  <2>2. a \in Nat BY <1>1, <1>8
  <2> QED BY <2>1, <2>2
<1>15. c = [x \in DOMAIN c |-> c[x]] BY <1>4 DEF c, MergedIn
<1>16. c \in [DOMAIN c -> Nat \ {0}] BY <1>12, <1>15
<1>17. Tiles(c) BY <1>1, <1>4, <1>12, <1>13, <1>14, <1>16 DEF Tiles
<1> QED BY <1>4, <1>5, <1>7, <1>17 DEF c

-----------------------------------------------------------------------------
\* The owners, when no area changes hands, when one is given out and when one is
\* given back.
LEMMA OwnersKeep ==
  ASSUME NEW s, Owners(s), NEW c, Closed' = c, owned' = owned, Taken' = Taken,
         is_free' \subseteq DOMAIN c, DOMAIN c \ is_free' = DOMAIN s \ is_free,
         \A x \in DOMAIN s \ is_free : c[x] = s[x]
  PROVE  Owners(Closed)'
<1>1. \A o \in owned : Stop(c, o[2]) = Stop(s, o[2]) BY DEF Owners, Stop
<1>2. \A o \in owned : /\ o[2] \in DOMAIN c \ is_free' /\ o[2] \notin Taken'
                       /\ o[3] \in Nat /\ o[2] < o[3] /\ o[3] <= Stop(c, o[2])
  BY <1>1 DEF Owners
<1>3. DOMAIN c \ is_free' = {o[2] : o \in owned} \cup Taken' BY DEF Owners
<1>4. \A o, q \in owned : o # q => o[2] # q[2] BY DEF Owners
<1> QED BY <1>2, <1>3, <1>4 DEF Owners

LEMMA OwnersGain ==
  ASSUME NEW s, Owners(s), NEW c, Closed' = c, NEW a \in DOMAIN c, NEW e \in Nat, NEW whose,
         a < e, e <= Stop(c, a), owned' = owned \cup {<<whose, a, e>>},
         a \notin Taken', \A o \in owned : o[2] # a,
         Taken' \subseteq Taken,
         is_free' \subseteq DOMAIN c,
         DOMAIN c \ is_free' = ({o[2] : o \in owned} \cup Taken') \cup {a},
         \A o \in owned : c[o[2]] = s[o[2]]
  PROVE  Owners(Closed)'
<1> DEFINE n == <<whose, a, e>>
<1>1. n[2] = a /\ n[3] = e OBVIOUS
<1> HIDE DEF n
<1>2. owned' = owned \cup {n} BY DEF n
<1>3. \A o \in owned : Stop(c, o[2]) = Stop(s, o[2]) BY DEF Stop
<1>4. \A o \in owned : /\ o[2] \in DOMAIN c \ is_free' /\ o[2] \notin Taken'
                       /\ o[3] \in Nat /\ o[2] < o[3] /\ o[3] <= Stop(c, o[2])
  BY <1>3 DEF Owners
<1>5. n[2] \in DOMAIN c \ is_free' /\ n[2] \notin Taken' BY <1>1
<1>6. n[3] \in Nat /\ n[2] < n[3] /\ n[3] <= Stop(c, n[2]) BY <1>1
<1>7. DOMAIN c \ is_free' = {o[2] : o \in owned'} \cup Taken' BY <1>1, <1>2
<1>8. \A o, q \in owned' : o # q => o[2] # q[2] BY <1>1, <1>2 DEF Owners
<1>9. \A o \in owned' : /\ o[2] \in DOMAIN c \ is_free' /\ o[2] \notin Taken'
                        /\ o[3] \in Nat /\ o[2] < o[3] /\ o[3] <= Stop(c, o[2])
  BY <1>2, <1>4, <1>5, <1>6
<1> QED BY <1>7, <1>8, <1>9 DEF Owners

LEMMA OwnersLose ==
  ASSUME Owners(Closed), NEW o \in owned, Free(o), Closed' = Closed, Taken' = Taken
  PROVE  Owners(Closed)'
<1> DEFINE s == Closed
<1>1. is_free' = is_free \cup {o[2]} /\ owned' = owned \ {o} BY DEF Free
<1>2. o[2] \in DOMAIN s \ is_free /\ o[2] \notin Taken BY DEF Owners
<1>3. is_free' \subseteq DOMAIN s BY <1>1, <1>2 DEF Owners
<1>4. \A q \in owned' : q \in owned /\ q[2] # o[2] BY <1>1 DEF Owners
<1>5. DOMAIN s \ is_free' = {q[2] : q \in owned'} \cup Taken'
  <2>1. DOMAIN s \ is_free = {q[2] : q \in owned} \cup Taken BY DEF Owners
  <2>2. {q[2] : q \in owned'} = {q[2] : q \in owned} \ {o[2]} BY <1>1, <1>4
  <2> QED BY <1>1, <1>2, <2>1, <2>2
<1>6. \A q \in owned' : /\ q[2] \in DOMAIN s \ is_free' /\ q[2] \notin Taken'
                        /\ q[3] \in Nat /\ q[2] < q[3] /\ q[3] <= Stop(s, q[2])
  BY <1>1, <1>4 DEF Owners
<1>7. \A q, r \in owned' : q # r => q[2] # r[2] BY <1>4 DEF Owners
<1>8. Closed' = s OBVIOUS
<1> HIDE DEF s
<1> QED BY <1>3, <1>5, <1>6, <1>7, <1>8 DEF Owners

-----------------------------------------------------------------------------
\* What the places of main say of the chain.
LEMMA ClosedShows ==
  ASSUME Sane
  PROVE  /\ Shows(Closed) /\ DOMAIN Closed = Heads
         /\ pc # "rest" => Closed = size
         /\ pc = "rest" => p \in Heads \ is_free /\ Closed[p] = Wanted + next_size
         /\ \A x \in Heads : x \notin Taken => Closed[x] = size[x]
<1>1. Tiles(Closed) /\ is_free \subseteq DOMAIN Closed BY DEF Sane, Owners
<1>2. DOMAIN Closed = Heads BY DEF Closed, Heads
<1>3. pc = "rest" => p \in Heads \ is_free BY DEF Sane, Resting
<1>4. pc = "rest" => Closed[p] = Wanted + next_size BY <1>3 DEF Closed, Heads
<1>5. \A x \in Heads : x \notin Taken => Closed[x] = size[x] BY DEF Closed, Taken
<1>6. \A b \in is_free : Closed[b] = size[b]
  BY <1>1, <1>2, <1>3, <1>5 DEF Taken
<1>7. Shows(Closed) BY <1>1, <1>2, <1>6 DEF Shows
<1> QED BY <1>2, <1>3, <1>4, <1>5, <1>7 DEF Closed

-----------------------------------------------------------------------------
\* The walk of a handler's malloc, seen in the chain that main will have closed.
LEMMA MergedClosed ==
  ASSUME Sane, NEW want
  PROVE  LET c == MergedIn(Closed, want)
         IN /\ DOMAIN Merged(want) = DOMAIN c
            /\ pc # "rest" => Merged(want) = c
            /\ pc = "rest" => /\ p \in DOMAIN c /\ Merged(want)[p] = size[p]
                              /\ c = [Merged(want) EXCEPT ![p] = Wanted + next_size]
            /\ \A x \in DOMAIN c : x \notin Taken => Merged(want)[x] = c[x]
<1> DEFINE s == Closed
<1> DEFINE c == MergedIn(s, want)
<1> DEFINE g == Merged(want)
<1>1. /\ DOMAIN s = Heads /\ (pc # "rest" => s = size)
      /\ (pc = "rest" => p \in Heads \ is_free /\ s[p] = Wanted + next_size)
      /\ \A x \in Heads : x \notin Taken => s[x] = size[x]
  BY ClosedShows
<1> HIDE DEF s
<1>2. c = [x \in Heads \ Absorbed(want) |-> IF x \in Visited(want) THEN RunEnd(x) - x ELSE s[x]]
  BY <1>1 DEF MergedIn
<1>3. g = [x \in Heads \ Absorbed(want) |-> IF x \in Visited(want) THEN RunEnd(x) - x ELSE size[x]]
  BY DEF Merged
<1>4. DOMAIN g = DOMAIN c BY <1>2, <1>3
<1>5. \A x \in DOMAIN c : x \notin Taken => g[x] = c[x] BY <1>1, <1>2, <1>3
<1>6. pc # "rest" => g = c BY <1>1, <1>2, <1>3
<1>7. ASSUME pc = "rest"
      PROVE  p \in DOMAIN c /\ g[p] = size[p] /\ c = [g EXCEPT ![p] = Wanted + next_size]
  <2>1. p \notin Absorbed(want) /\ p \notin Visited(want)
    BY <1>1, <1>7 DEF Absorbed, Visited, Runs
  <2>2. p \in DOMAIN c /\ c[p] = Wanted + next_size /\ g[p] = size[p] BY <1>1, <1>2, <1>3, <1>7, <2>1
  <2>3. \A x \in DOMAIN c : x # p => g[x] = c[x] BY <1>5, <1>7 DEF Taken
  <2> DEFINE h == [g EXCEPT ![p] = Wanted + next_size]
  <2>4. DOMAIN h = DOMAIN c BY <1>4
  <2>5. \A x \in DOMAIN c : h[x] = c[x] BY <1>4, <2>2, <2>3
  <2>6. h = [x \in DOMAIN c |-> h[x]] BY <2>4
  <2>7. c = [x \in DOMAIN c |-> c[x]] BY <1>2
  <2> HIDE DEF h, c
  <2>8. h = c BY <2>5, <2>6, <2>7
  <2> QED BY <2>2, <2>8 DEF h
<1> QED BY <1>4, <1>5, <1>6, <1>7 DEF s

\* A malloc that finds its way keeps the chain whole and everyone's areas apart.
LEMMA MallocKeeps ==
  ASSUME Sane, NEW whose, NEW n \in Nat \ {0}, MallocInside(whose, n), ~lost', UNCHANGED <<locals, devices_size>>
  PROVE  Tiles(Closed)' /\ Owners(Closed)' /\ Resting'
<1> DEFINE want == n + HdrSize
<1> DEFINE s == Closed
<1> DEFINE c == MergedIn(s, want)
<1> DEFINE g == Merged(want)
<1> DEFINE a == Min(Fitting(want))
<1>1. want \in Nat \ {0} /\ HdrSize \in Nat \ {0}
  BY MemoryAssumption
<1>2. /\ Shows(s) /\ DOMAIN s = Heads /\ is_free \subseteq Heads /\ Owners(s)
      /\ (pc = "rest" => p \in Heads \ is_free)
  BY ClosedShows DEF Sane, Shows
<1>3. /\ Tiles(c) /\ DOMAIN c = Heads \ Absorbed(want)
      /\ \A x \in Heads \ is_free : x \in DOMAIN c /\ c[x] = s[x]
      /\ \A x \in Visited(want) : x \in DOMAIN c /\ c[x] = RunEnd(x) - x
  BY <1>2, MergedTiles
<1>4. /\ DOMAIN g = DOMAIN c
      /\ (pc # "rest" => g = c)
      /\ (pc = "rest" => p \in DOMAIN c /\ g[p] = size[p] /\ c = [g EXCEPT ![p] = Wanted + next_size])
      /\ \A x \in DOMAIN c : x \notin Taken => g[x] = c[x]
  BY MergedClosed
<1>5. Absorbed(want) \subseteq is_free BY DEF Absorbed
<1>6. pc' = pc /\ p' = p /\ next_size' = next_size /\ Taken' = Taken
      /\ devices_size' = devices_size
  BY DEF locals, Taken
<1>7. (pc = "rest" => size[p] = Wanted /\ next_size \in Nat) BY DEF Sane, Resting
<1>8. Closed' = IF pc = "rest" THEN [size' EXCEPT ![p] = Wanted + next_size] ELSE size'
  BY <1>6 DEF Closed, Wanted
<1>9. CASE size' = g /\ is_free' = is_free \ Absorbed(want) /\ owned' = owned
  <2> HIDE DEF g, c, want, s
  <2>1. Closed' = c BY <1>4, <1>8, <1>9
  <2>2. is_free' \subseteq DOMAIN c /\ DOMAIN c \ is_free' = DOMAIN s \ is_free
    BY <1>2, <1>3, <1>5, <1>9
  <2>3. \A x \in DOMAIN s \ is_free : c[x] = s[x] BY <1>2, <1>3
  <2>4. Owners(Closed)' BY <1>2, <1>6, <1>9, <2>1, <2>2, <2>3, OwnersKeep
  <2>5. Tiles(Closed)' BY <1>3, <2>1 DEF Tiles, Stop
  <2>6. Resting' BY <1>2, <1>4, <1>6, <1>7, <1>9 DEF Resting, Wanted, Heads
  <2> QED BY <2>4, <2>5, <2>6
<1>10. CASE /\ Fitting(want) # {}
            /\ size' = Cut(g, a, want)
            /\ is_free' = ((is_free \ Absorbed(want)) \ {a}) \cup (DOMAIN size' \ DOMAIN g)
            /\ owned' = owned \cup {Area(whose, a, n)}
  <2>1. a \in Fitting(want)
    <3>1. Fitting(want) \in SUBSET Nat
      <4>1. Heads \subseteq Nat BY <1>2, ShownChunks
      <4> QED BY <1>2, <4>1 DEF Fitting, Runs
    <3> QED BY <1>10, <3>1, MinIs
  <2>2. /\ a \in Runs /\ a \in is_free /\ a \in Nat /\ a \in Visited(want)
        /\ want < RunEnd(a) - a
    <3>1. a \in Runs /\ a \in is_free /\ want < RunEnd(a) - a BY <2>1 DEF Fitting, Runs
    <3>2. a \in Nat BY <1>2, <3>1, ShownChunks
    <3> QED BY <3>1, <3>2 DEF Visited
  <2>3. a \in DOMAIN c /\ c[a] = RunEnd(a) - a /\ want < c[a] BY <1>3, <2>2
  <2>4. a \notin Taken /\ g[a] = c[a] /\ (pc = "rest" => a # p)
    BY <1>2, <1>4, <2>2, <2>3 DEF Taken
  <2> DEFINE d == Cut(c, a, want)
  <2> DEFINE new == IF Leaves(c[a] - want) THEN {a + want} ELSE {}
  <2>5. /\ Tiles(d) /\ a + want \notin DOMAIN c /\ DOMAIN d = DOMAIN c \cup new
        /\ a + want <= Stop(d, a) /\ \A x \in DOMAIN c : x # a => d[x] = c[x]
    <3> HIDE DEF c, want
    <3> QED BY <1>1, <1>3, <2>3, CutTiles
  <2>6. DOMAIN size' = DOMAIN c \cup new /\ \A x \in DOMAIN c : x # a => size'[x] = g[x]
    <3> HIDE DEF c, want, g, a
    <3> QED BY <1>4, <1>10, <2>4, <2>5 DEF Cut
  <2>7. Closed' = d
    <3> HIDE DEF c, want, g, a, d
    <3>1. CASE pc # "rest" BY <1>4, <1>8, <1>10, <3>1 DEF d
    <3>2. CASE pc = "rest"
      <4>1. p \in DOMAIN c /\ p # a /\ p # a + want /\ c = [g EXCEPT ![p] = Wanted + next_size]
        BY <1>4, <2>4, <2>5, <3>2
      <4> DEFINE dom == DOMAIN c \cup new
      <4> DEFINE e == [size' EXCEPT ![p] = Wanted + next_size]
      <4>2. DOMAIN e = dom /\ DOMAIN d = dom BY <2>5, <2>6
      <4>3. \A x \in dom : e[x] = d[x]
        <5> SUFFICES ASSUME NEW x \in dom PROVE e[x] = d[x] OBVIOUS
        <5>1. CASE x = p
          <6>1. e[x] = Wanted + next_size BY <2>6, <4>1, <5>1
          <6>2. c[p] = Wanted + next_size BY <1>4, <4>1
          <6> QED BY <2>5, <4>1, <5>1, <6>1, <6>2
        <5>2. CASE x # p
          <6>1. e[x] = size'[x] BY <2>6, <4>1, <5>2
          <6>2. size'[x] = d[x]
            <7>1. size' = Cut(g, a, want) /\ d = Cut(c, a, want) BY <1>10 DEF d
            <7>2. x \in DOMAIN c => g[x] = c[x] BY <1>4, <3>2, <5>2 DEF Taken
            <7>3. g[a] = c[a] /\ DOMAIN g = DOMAIN c BY <1>4, <2>4
            <7>4. x \in DOMAIN c \/ (x = a + want /\ Leaves(c[a] - want)) OBVIOUS
            <7> QED BY <2>5, <7>1, <7>2, <7>3, <7>4 DEF Cut
          <6> QED BY <6>1, <6>2
        <5> QED BY <5>1, <5>2
      <4>4. e = [x \in dom |-> e[x]] BY <4>2
      <4>5. d = [x \in dom |-> d[x]] BY <4>2 DEF d, Cut
      <4>6. Closed' = e BY <1>8, <3>2
      <4> HIDE DEF dom, e
      <4> QED BY <4>3, <4>4, <4>5, <4>6
    <3> QED BY <3>1, <3>2
  <2>8. is_free' = ((is_free \ Absorbed(want)) \ {a}) \cup new
    <3> HIDE DEF c, want, g, a
    <3>1. new \cap DOMAIN c = {} BY <2>5
    <3> HIDE DEF new
    <3> QED BY <1>4, <1>10, <2>6, <3>1
  <2>9. Owners(Closed)'
    <3> DEFINE e == a + n + HdrSize
    <3>1. e = a + want /\ e \in Nat /\ a < e
      <4> HIDE DEF a
      <4> QED BY <1>1, <2>2
    <3>2. e <= Stop(d, a) BY <2>5, <3>1
    <3>3. owned' = owned \cup {<<whose, a, e>>} BY <1>10 DEF Area
    <3>4. DOMAIN s \ is_free = {o[2] : o \in owned} \cup Taken /\ \A o \in owned : o[2] \in DOMAIN s \ is_free
      <4> HIDE DEF s
      <4> QED BY <1>2 DEF Owners
    <3>5. a \notin Taken' /\ Taken' \subseteq Taken /\ \A o \in owned : o[2] # a
      BY <1>6, <2>2, <2>4, <3>4
    <3> HIDE DEF e, d, c, a, want, s, new
    <3>6. is_free' \subseteq DOMAIN d BY <1>2, <1>3, <2>5, <2>8
    <3>7. new \cap DOMAIN c = {} BY <2>5 DEF new
    <3>8. DOMAIN d \ is_free' = (DOMAIN s \ is_free) \cup {a}
      BY <1>2, <1>3, <1>5, <2>2, <2>3, <2>5, <2>8, <3>7
    <3>9. DOMAIN d \ is_free' = ({o[2] : o \in owned} \cup Taken') \cup {a}
      BY <1>6, <3>4, <3>8
    <3>10. \A o \in owned : d[o[2]] = s[o[2]] BY <1>2, <1>3, <2>5, <3>4, <3>5
    <3>11. a \in DOMAIN d BY <2>3, <2>5
    <3> QED BY <1>2, <2>7, <3>1, <3>2, <3>3, <3>5, <3>6, <3>9, <3>10, <3>11, OwnersGain
  <2>10. Tiles(Closed)'
    <3> HIDE DEF d
    <3> QED BY <2>5, <2>7 DEF Tiles, Stop
  <2>11. Resting'
    <3> SUFFICES ASSUME pc = "rest"
                 PROVE  p \in DOMAIN size' \ is_free' /\ size'[p] = Wanted /\ next_size \in Nat
      BY <1>6 DEF Resting, Heads, Wanted
    <3>1. p \in DOMAIN c /\ p # a /\ size'[p] = g[p] /\ g[p] = size[p]
      BY <1>4, <2>4, <2>6
    <3>2. p \notin new BY <2>5, <3>1
    <3> HIDE DEF c, a, g, want, new
    <3> QED BY <1>2, <1>7, <2>6, <2>8, <3>1, <3>2
  <2> QED BY <2>9, <2>10, <2>11
<1>11. \/ size' = g /\ is_free' = is_free \ Absorbed(want) /\ owned' = owned
       \/ /\ Fitting(want) # {} /\ size' = Cut(g, a, want)
          /\ is_free' = ((is_free \ Absorbed(want)) \ {a}) \cup (DOMAIN size' \ DOMAIN g)
          /\ owned' = owned \cup {Area(whose, a, n)}
  BY DEF MallocInside
<1> HIDE DEF g, a, want
<1> QED BY <1>9, <1>10, <1>11

-----------------------------------------------------------------------------
\* What pci_scan_bus and rtl8139_init leave of the heap at boot.
LEMMA FourTiles ==
  ASSUME NEW r \in Nat, NEW l \in Nat, NEW e \in Nat, 0 < r, r < l, l < e, e < HeapSize,
         NEW s, s = [x \in {0, r, l, e} |-> CASE x = 0 -> r [] x = r -> l - r
                                              [] x = l -> e - l [] OTHER -> HeapSize - e]
  PROVE  /\ Tiles(s) /\ DOMAIN s = {0, r, l, e}
         /\ Stop(s, 0) = r /\ Stop(s, r) = l /\ Stop(s, l) = e
<1>1. HeapSize \in Nat BY MemoryAssumption
<1>2. 0 # r /\ 0 # l /\ 0 # e /\ r # l /\ r # e /\ l # e OBVIOUS
<1>3. DOMAIN s = {0, r, l, e} OBVIOUS
<1>4. s[0] = r BY <1>2
<1>5. s[r] = l - r BY <1>2
<1>6. s[l] = e - l BY <1>2
<1>7. s[e] = HeapSize - e BY <1>2
<1>8. Stop(s, 0) = r /\ Stop(s, r) = l /\ Stop(s, l) = e /\ Stop(s, e) = HeapSize
  BY <1>1, <1>4, <1>5, <1>6, <1>7 DEF Stop
<1>9. s[0] \in Nat \ {0} /\ s[r] \in Nat \ {0} /\ s[l] \in Nat \ {0} /\ s[e] \in Nat \ {0}
  BY <1>1, <1>4, <1>5, <1>6, <1>7
<1>10. \A x \in DOMAIN s : s[x] \in Nat \ {0} /\ Stop(s, x) \in DOMAIN s \cup {HeapSize}
  BY <1>3, <1>8, <1>9
<1>11. \A x, y \in DOMAIN s : x < y => Stop(s, x) <= y
  BY <1>1, <1>3, <1>8
<1>12. DOMAIN s \subseteq Places /\ 0 \in DOMAIN s BY <1>1, <1>3 DEF Places
<1> QED BY <1>3, <1>8, <1>10, <1>11, <1>12 DEF Tiles

LEMMA MemoryInitInv == MemoryInit => MemoryInv
<1> SUFFICES ASSUME MemoryInit PROVE MemoryInv OBVIOUS
<1> DEFINE r == Table + HdrSize
<1> DEFINE l == r + Ring + HdrSize
<1> DEFINE e == l + List + HdrSize
<1>1. /\ r \in Nat /\ l \in Nat /\ e \in Nat /\ 0 < r /\ r < l /\ l < e /\ e < HeapSize
      /\ 0 + Table + HdrSize = r /\ r + Ring + HdrSize = l /\ l + List + HdrSize = e
  BY MemoryAssumption
<1>2. /\ size = [x \in {0, r, l, e} |-> CASE x = 0 -> r [] x = r -> l - r
                                          [] x = l -> e - l [] OTHER -> HeapSize - e]
      /\ is_free = {e}
      /\ owned = {Area("devices", 0, Table), Area("ring", r, Ring), Area("list", l, List)}
      /\ pc = "shell" /\ interleaved = FALSE /\ lost = FALSE
      /\ devices_size \in Nat \ {0}
  BY MemoryAssumption DEF MemoryInit
<1> HIDE DEF e
<1> HIDE DEF l
<1> HIDE DEF r
<1>3. /\ Tiles(size) /\ DOMAIN size = {0, r, l, e}
      /\ Stop(size, 0) = r /\ Stop(size, r) = l /\ Stop(size, l) = e
  BY <1>1, <1>2, FourTiles
<1>4. Closed = size /\ Taken = {} BY <1>2 DEF Closed, Taken
<1>5. owned = {<<"devices", 0, r>>, <<"ring", r, l>>, <<"list", l, e>>}
  BY <1>1, <1>2 DEF Area
<1>6. 0 # r /\ 0 # l /\ 0 # e /\ r # l /\ r # e /\ l # e BY <1>1
<1>7. {o[2] : o \in owned} = {0, r, l} BY <1>5
<1>8. DOMAIN size \ is_free = {o[2] : o \in owned} \cup Taken
  BY <1>2, <1>3, <1>4, <1>6, <1>7
<1>9. ASSUME NEW o \in owned
      PROVE  /\ o[2] \in DOMAIN size \ is_free /\ o[2] \notin Taken
             /\ o[3] \in Nat /\ o[2] < o[3] /\ o[3] <= Stop(size, o[2])
  <2>1. o[2] \in DOMAIN size \ is_free /\ o[2] \notin Taken BY <1>4, <1>8
  <2>2. (o[2] = 0 /\ o[3] = r) \/ (o[2] = r /\ o[3] = l) \/ (o[2] = l /\ o[3] = e) BY <1>5
  <2>3. o[3] \in Nat /\ o[2] < o[3] /\ o[3] <= Stop(size, o[2]) BY <1>1, <1>3, <2>2
  <2> QED BY <2>1, <2>3
<1>10. \A o, q \in owned : o # q => o[2] # q[2] BY <1>5, <1>6
<1>11. Owners(Closed) BY <1>2, <1>3, <1>4, <1>8, <1>9, <1>10 DEF Owners
<1>12. Walking /\ Resting BY <1>2 DEF Walking, Resting
<1>13. Sane BY <1>2, <1>3, <1>4, <1>11, <1>12 DEF Sane
<1> QED BY <1>2, <1>13 DEF MemoryInv

-----------------------------------------------------------------------------
\* The handlers, between any two steps of main.
LEMMA MallocInv ==
  ASSUME Sane, ~lost, NEW whose, NEW n \in Nat \ {0}, MallocInside(whose, n),
         UNCHANGED <<locals, devices_size>>
  PROVE  MemoryInv'
<1>1. /\ interleaved' = (interleaved \/ pc # "shell")
      /\ lost' = ReachesOpen(n + HdrSize)
  BY DEF MallocInside
<1>2. lost' \in BOOLEAN BY <1>1 DEF ReachesOpen
<1>3. CASE lost'
  <2>1. pc = "rest" BY <1>1, <1>3 DEF ReachesOpen
  <2> QED BY <1>1, <1>3, <2>1 DEF MemoryInv
<1>4. CASE ~lost'
  <2>1. Tiles(Closed)' /\ Owners(Closed)' /\ Resting' BY <1>4, MallocKeeps
  <2>2. pc' = pc /\ pc \in {"shell", "find", "concat", "fit", "take", "rest"}
    BY DEF locals, Sane
  <2>3. ~interleaved' => pc' = "shell" BY <1>1, <2>2
  <2>4. ~interleaved' => Walking' BY <2>3 DEF Walking
  <2>5. interleaved' \in BOOLEAN /\ devices_size' \in Nat \ {0} BY <1>1 DEF Sane
  <2> QED BY <1>2, <1>4, <2>1, <2>2, <2>4, <2>5 DEF MemoryInv, Sane
<1> QED BY <1>3, <1>4

LEMMA ReapInv ==
  ASSUME Sane, ~lost, NEW o \in owned, Reap(o)
  PROVE  MemoryInv'
<1>1. /\ Free(o) /\ size' = size /\ pc' = pc /\ p' = p /\ concat_ptr' = concat_ptr
      /\ next_size' = next_size /\ interleaved' = interleaved /\ lost' = lost
      /\ devices_size' = devices_size
  BY DEF Reap, locals, pci
<1>2. Closed' = Closed /\ Taken' = Taken BY <1>1 DEF Closed, Taken, Wanted
<1>3. Owners(Closed)' BY <1>1, <1>2, OwnersLose DEF Sane
<1>4. Tiles(Closed)' BY <1>2 DEF Sane, Tiles, Stop
<1>5. is_free' = is_free \cup {o[2]} /\ o[2] \notin Taken BY <1>1 DEF Free, Sane, Owners
<1>6. ~interleaved' => Walking'
  BY <1>1, <1>5 DEF Sane, Walking, Heads, End, Wanted
<1>7. Resting' BY <1>1, <1>5 DEF Sane, Resting, Taken, Heads, Wanted
<1> QED BY <1>1, <1>3, <1>4, <1>6, <1>7 DEF MemoryInv, Sane

-----------------------------------------------------------------------------
\* A step of main that leaves the chain, its owners and the handlers' mark alone.
LEMMA MainWalks ==
  ASSUME Sane, ~lost, UNCHANGED <<size, is_free, owned, interleaved, devices_size>>,
         pc # "rest", pc' \in {"shell", "find", "concat", "fit", "take"},
         lost' \in BOOLEAN, lost' => interleaved, ~interleaved /\ ~lost' => Walking'
  PROVE  MemoryInv'
<1>1. CASE lost' BY <1>1 DEF MemoryInv
<1>2. CASE ~lost'
  <2>1. Closed' = Closed /\ Closed = size /\ Taken' = Taken BY DEF Closed, Taken
  <2>2. Tiles(Closed)' BY <2>1 DEF Sane, Tiles, Stop
  <2>3. Owners(Closed)' BY <2>1, OwnersKeep DEF Sane, Owners
  <2>4. Resting' BY DEF Resting
  <2> QED BY <1>2, <2>2, <2>3, <2>4 DEF Sane, MemoryInv
<1> QED BY <1>1, <1>2

LEMMA ScanBusInv ==
  ASSUME Sane, ~lost, ScanBus
  PROVE  MemoryInv'
<1>1. /\ pc = "shell" /\ pc' = "find" /\ p' = 0 /\ size' = size /\ interleaved' = FALSE
      /\ lost' = lost /\ devices_size' \in Nat \ {0}
  BY MemoryAssumption DEF ScanBus, MainRuns, Counted, Sane
<1>2. Closed' = Closed /\ Taken' = Taken BY <1>1 DEF Closed, Taken
<1>3. Owners(Closed)'
  <2>1. CASE UNCHANGED <<is_free, owned>> BY <1>2, <2>1, OwnersKeep DEF Sane, Owners
  <2>2. CASE \E o \in owned : Free(o) BY <1>2, <2>2, OwnersLose DEF Sane
  <2> QED BY <2>1, <2>2 DEF ScanBus
<1>4. Tiles(Closed)' BY <1>2 DEF Sane, Tiles, Stop
<1>5. Walking'
  <2>1. 0 \in Heads BY ClosedShows, ShownChunks
  <2> QED BY <1>1, <2>1 DEF Walking, Heads
<1>6. Resting' BY <1>1 DEF Resting
<1> QED BY <1>1, <1>3, <1>4, <1>5, <1>6 DEF MemoryInv, Sane

LEMMA FindInv ==
  ASSUME Sane, ~lost, FindSkip \/ FindStop \/ FindEnd
  PROVE  MemoryInv'
<1>1. /\ pc = "find" /\ UNCHANGED <<size, is_free, owned, interleaved, devices_size>>
  BY DEF FindSkip, FindStop, FindEnd, MainRuns, chain, Loses, pci
<1>2. ~interleaved => p \in Heads \cup {HeapSize} BY <1>1 DEF Sane, Walking
<1>3. \A x \in Heads : End(x) \in Heads \cup {HeapSize}
  BY <1>1, ClosedShows, ShownChunks DEF Stop, End
<1>4. CASE FindSkip
  <2>1. /\ p < HeapSize /\ p' = (IF p \in Heads THEN End(p) ELSE p)
        /\ lost' = (p \notin Heads) /\ pc' = "find"
    BY <1>1, <1>4 DEF FindSkip, Loses
  <2>2. lost' => interleaved
    <3>1. p # HeapSize BY <2>1, MemoryAssumption
    <3> QED BY <1>2, <2>1, <3>1
  <2>3. ~interleaved /\ ~lost' => Walking' BY <1>1, <1>3, <2>1 DEF Walking, Heads
  <2> QED BY <1>1, <2>1, <2>2, <2>3, MainWalks
<1>5. CASE FindStop
  <2>1. /\ pc' = "concat" /\ p' = p /\ concat_ptr' = End(p) /\ p \in is_free /\ lost' = FALSE
    BY <1>5 DEF FindStop, Loses
  <2>2. Walking' BY <1>1, <2>1 DEF Walking, End
  <2> QED BY <1>1, <2>1, <2>2, MainWalks
<1>6. CASE FindEnd
  <2>1. pc' = "shell" /\ lost' \in BOOLEAN /\ ~lost' BY <1>6 DEF FindEnd, Sane
  <2>2. Walking' BY <2>1 DEF Walking
  <2> QED BY <1>1, <2>1, <2>2, MainWalks
<1> QED BY <1>4, <1>5, <1>6

LEMMA ConcatMergeInv ==
  ASSUME Sane, ~lost, ConcatMerge
  PROVE  MemoryInv'
<1>1. /\ pc = "concat" /\ pc' = "concat" /\ p' = p /\ interleaved' = interleaved
      /\ owned' = owned /\ concat_ptr \in is_free /\ devices_size' = devices_size
  BY DEF ConcatMerge, MainRuns, Loses, pci
<1>2. CASE ~Intact /\ lost' = TRUE
  <2>1. interleaved BY <1>1, <1>2 DEF Sane, Walking, Intact
  <2> QED BY <1>1, <1>2, <2>1 DEF MemoryInv
<1>3. CASE /\ Intact
           /\ size' = [a \in Heads \ {concat_ptr} |->
                         IF a = p THEN size[p] + size[concat_ptr] ELSE size[a]]
           /\ is_free' = is_free \ {concat_ptr}
           /\ concat_ptr' = End(concat_ptr) /\ lost' = FALSE
  <2> DEFINE q == concat_ptr
  <2> DEFINE c == [a \in Heads \ {q} |-> IF a = p THEN size[p] + size[q] ELSE size[a]]
  <2>1. Closed = size /\ Closed' = size' /\ size' = c BY <1>1, <1>3 DEF Closed
  <2>2. Tiles(size) /\ Owners(size) /\ DOMAIN size = Heads BY <2>1, ClosedShows DEF Sane
  <2>3. p \in is_free /\ q \in is_free /\ p \in DOMAIN size /\ q \in DOMAIN size /\ Stop(size, p) = q
    BY <1>1, <1>3, <2>2 DEF Intact, Stop, End, Owners
  <2> HIDE DEF q
  <2>4. Tiles(c) /\ p # q /\ Stop(c, p) = Stop(size, q)
    <3>1. c = [x \in DOMAIN size \ {q} |-> IF x = p THEN size[p] + size[q] ELSE size[x]] BY <2>2
    <3> HIDE DEF c
    <3> QED BY <2>2, <2>3, <3>1, JoinTiles
  <2>5. DOMAIN c = DOMAIN size \ {q} /\ \A x \in DOMAIN size \ is_free : c[x] = size[x]
    BY <2>2, <2>3
  <2>6. is_free' = is_free \ {q} BY <1>3 DEF q
  <2> HIDE DEF c
  <2>7. Owners(Closed)'
    <3>1. is_free' \subseteq DOMAIN c /\ DOMAIN c \ is_free' = DOMAIN size \ is_free
      BY <2>2, <2>3, <2>5, <2>6 DEF Owners
    <3>2. Taken' = Taken BY <1>1 DEF Taken
    <3> QED BY <1>1, <2>1, <2>2, <2>5, <3>1, <3>2, OwnersKeep
  <2>8. Tiles(Closed)' BY <2>1, <2>4 DEF Tiles, Stop
  <2>9. Walking'
    <3>1. p' \in is_free' BY <1>1, <2>3, <2>4, <2>6
    <3>2. End(q) = Stop(size, q) /\ Stop(c, p) = p + c[p] BY DEF End, Stop
    <3>3. concat_ptr' = p' + size'[p'] BY <1>1, <1>3, <2>1, <2>4, <3>2 DEF q
    <3> QED BY <1>1, <3>1, <3>3 DEF Walking, End
  <2>10. Resting' BY <1>1 DEF Resting
  <2> QED BY <1>1, <1>3, <2>7, <2>8, <2>9, <2>10 DEF MemoryInv, Sane
<1> QED BY <1>2, <1>3 DEF ConcatMerge, Loses

LEMMA ConcatStopInv ==
  ASSUME Sane, ~lost, ConcatStop
  PROVE  MemoryInv'
<1>1. /\ pc = "concat" /\ UNCHANGED <<size, is_free, owned, interleaved, p, devices_size>>
      /\ pc' = "fit"
      /\ lost' = (concat_ptr < HeapSize /\ concat_ptr \notin Heads)
  BY DEF ConcatStop, MainRuns, chain, Loses, pci
<1>2. \A x \in Heads : End(x) \in Heads \cup {HeapSize}
  BY <1>1, ClosedShows, ShownChunks DEF Stop, End
<1>3. is_free \subseteq Heads BY ClosedShows DEF Shows
<1>4. ~interleaved => p \in is_free /\ concat_ptr = End(p) BY <1>1 DEF Sane, Walking
<1>5. lost' => interleaved
  <2>1. concat_ptr < HeapSize => concat_ptr # HeapSize BY MemoryAssumption
  <2> QED BY <1>1, <1>2, <1>3, <1>4, <2>1
<1>6. ~interleaved => Walking' BY <1>1, <1>4 DEF Walking
<1> QED BY <1>1, <1>5, <1>6, MainWalks

LEMMA FitInv ==
  ASSUME Sane, ~lost, FitTaken \/ FitSkip \/ Fit \/ FitGone
  PROVE  MemoryInv'
<1>1. pc = "fit" /\ UNCHANGED <<size, is_free, owned, interleaved, devices_size>>
  BY DEF FitTaken, FitSkip, Fit, FitGone, MainRuns, chain, Loses, pci
<1>2. \A x \in Heads : End(x) \in Heads \cup {HeapSize}
  BY <1>1, ClosedShows, ShownChunks DEF Stop, End
<1>3. CASE FitTaken
  <2>1. pc' = "find" /\ p' = p /\ p \in Heads \cup {HeapSize} /\ lost' = FALSE
    BY <1>3 DEF FitTaken, Loses
  <2>2. Walking' BY <1>1, <2>1 DEF Walking, Heads
  <2> QED BY <1>1, <2>1, <2>2, MainWalks
<1>4. CASE FitSkip
  <2>1. pc' = "find" /\ p' = End(p) /\ p \in Heads /\ lost' = FALSE
    BY <1>4 DEF FitSkip, Loses
  <2>2. Walking' BY <1>1, <1>2, <2>1 DEF Walking, Heads
  <2> QED BY <1>1, <2>1, <2>2, MainWalks
<1>5. CASE Fit
  <2>1. pc' = "take" /\ p' = p /\ p \in is_free /\ Wanted < size[p] /\ lost' = FALSE
    BY <1>5 DEF Fit, Loses, StillFree
  <2>2. Walking' BY <1>1, <2>1 DEF Walking, Wanted
  <2> QED BY <1>1, <2>1, <2>2, MainWalks
<1>6. CASE FitGone
  <2>1. p \notin Heads /\ lost' = TRUE /\ pc' = "fit" BY <1>1, <1>6 DEF FitGone, Loses, locals
  <2>2. is_free \subseteq Heads BY ClosedShows DEF Shows
  <2>3. interleaved BY <1>1, <2>1, <2>2 DEF Sane, Walking
  <2> QED BY <1>1, <2>1, <2>3, MainWalks
<1> QED BY <1>3, <1>4, <1>5, <1>6

LEMMA TakeChunkInv ==
  ASSUME Sane, ~lost, TakeChunk
  PROVE  MemoryInv'
<1>1. /\ pc = "take" /\ pc' = "rest" /\ p' = p /\ owned' = owned /\ interleaved' = interleaved
      /\ lost' = (p \notin is_free \/ size[p] < Wanted) /\ is_free' = is_free \ {p}
      /\ next_size' = (IF p \in Heads THEN size[p] - Wanted ELSE 0)
      /\ size' = IF p \in Heads THEN [size EXCEPT ![p] = Wanted] ELSE size
      /\ devices_size' = devices_size
  BY DEF TakeChunk, MainRuns, Loses, pci
<1>2. Wanted \in Nat BY MemoryAssumption DEF Wanted, Sane
<1>3. Closed = size /\ Tiles(size) /\ Owners(size) /\ DOMAIN size = Heads /\ is_free \subseteq Heads
  BY <1>1, ClosedShows DEF Sane, Shows, Closed
<1>4. \A x \in Heads : size[x] \in Nat BY <1>3, ClosedShows, ShownChunks
<1>5. CASE lost'
  <2>1. interleaved
    <3> SUFFICES ASSUME ~interleaved PROVE FALSE OBVIOUS
    <3>1. p \in is_free /\ Wanted < size[p] BY <1>1 DEF Sane, Walking
    <3>2. size[p] \in Nat BY <1>3, <1>4, <3>1
    <3>3. p \notin is_free \/ size[p] < Wanted BY <1>1, <1>5
    <3>4. ~(size[p] < Wanted) BY <1>2, <3>1, <3>2
    <3> QED BY <3>1, <3>3, <3>4
  <2> QED BY <1>1, <1>5, <2>1 DEF MemoryInv
<1>6. CASE ~lost'
  <2>1. p \in is_free /\ p \in Heads /\ size[p] \in Nat /\ ~(size[p] < Wanted) BY <1>1, <1>3, <1>4, <1>6
  <2>2. size[p] - Wanted \in Nat /\ Wanted + (size[p] - Wanted) = size[p]
    BY <1>2, <2>1
  <2>3. size' = [size EXCEPT ![p] = Wanted] /\ next_size' = size[p] - Wanted BY <1>1, <2>1
  <2>4. Wanted' = Wanted BY <1>1 DEF Wanted
  <2>5. Closed' = [size' EXCEPT ![p] = size[p]] BY <1>1, <2>2, <2>3, <2>4 DEF Closed
  <2>6. Closed' = size
    <3>1. size = [x \in DOMAIN size |-> size[x]] BY <1>3 DEF Tiles
    <3> QED BY <1>3, <2>1, <2>3, <2>5, <3>1
  <2>7. Taken = {} /\ Taken' = {p} BY <1>1 DEF Taken
  <2>8. Owners(Closed)'
    <3>1. \A o \in owned : o[2] \in DOMAIN size \ is_free' /\ o[2] # p
      BY <1>1, <1>3, <2>1 DEF Owners
    <3>2. DOMAIN size \ is_free' = {o[2] : o \in owned} \cup {p}
      BY <1>1, <1>3, <2>1, <2>7 DEF Owners
    <3>3. is_free' \subseteq DOMAIN size BY <1>1, <1>3
    <3>4. \A o \in owned : o[3] \in Nat /\ o[2] < o[3] /\ o[3] <= Stop(size, o[2])
      BY <1>3 DEF Owners
    <3>5. \A o, q \in owned : o # q => o[2] # q[2] BY <1>3 DEF Owners
    <3> QED BY <1>1, <2>6, <2>7, <3>1, <3>2, <3>3, <3>4, <3>5 DEF Owners
  <2>9. Tiles(Closed)' BY <1>3, <2>6 DEF Tiles, Stop
  <2>10. Walking' BY <1>1 DEF Walking
  <2>11. Resting' BY <1>1, <1>3, <2>1, <2>2, <2>3, <2>4 DEF Resting, Heads
  <2> QED BY <1>1, <1>6, <2>8, <2>9, <2>10, <2>11 DEF MemoryInv, Sane
<1>7. lost' \in BOOLEAN BY <1>1
<1> QED BY <1>5, <1>6, <1>7

LEMMA CloseChunkInv ==
  ASSUME Sane, ~lost, CloseChunk
  PROVE  MemoryInv'
<1> DEFINE s == Closed
<1> DEFINE new == IF Leaves(next_size) THEN {p + Wanted} ELSE {}
<1> DEFINE c == [x \in Heads \cup new |->
                  IF x = p + Wanted /\ Leaves(next_size) THEN next_size
                  ELSE IF x = p /\ ~Leaves(next_size) THEN Wanted + next_size ELSE size[x]]
<1>1. /\ pc = "rest" /\ pc' = "shell" /\ interleaved' = interleaved /\ lost' = lost
      /\ size' = c /\ is_free' = is_free \cup (DOMAIN c \ Heads)
      /\ owned' = owned \cup {Area("devices", p, devices_size)}
      /\ devices_size' = devices_size
  BY DEF CloseChunk, MainRuns
<1>2. /\ Tiles(s) /\ Owners(s) /\ DOMAIN s = Heads /\ p \in Heads \ is_free
      /\ s[p] = Wanted + next_size /\ size[p] = Wanted /\ next_size \in Nat
      /\ is_free \subseteq Heads
      /\ \A x \in Heads : x # p => s[x] = size[x]
  BY <1>1, ClosedShows DEF Sane, Resting, Shows, Taken
<1>3. Wanted \in Nat \ {0} /\ HdrSize \in Nat /\ devices_size \in Nat
  BY MemoryAssumption DEF Wanted, Sane
<1>4. p \in Nat /\ s[p] \in Nat BY <1>2, ClosedShows, ShownChunks
<1>5. Closed' = c BY <1>1 DEF Closed
<1>6. s = [x \in Heads |-> s[x]]
  <2> HIDE DEF s
  <2> QED BY <1>2 DEF Tiles
<1> HIDE DEF s
<1>7. /\ Tiles(c) /\ DOMAIN c = Heads \cup new /\ new \cap Heads = {}
      /\ p + Wanted <= Stop(c, p) /\ \A x \in Heads : x # p => c[x] = s[x]
  <2>1. CASE ~Leaves(next_size)
    <3>1. new = {} BY <2>1
    <3>2. DOMAIN c = Heads /\ \A x \in Heads : c[x] = s[x] BY <1>2, <2>1, <3>1
    <3>3. c = [x \in Heads |-> c[x]] BY <3>1
    <3> HIDE DEF c
    <3>4. c = s BY <1>6, <3>2, <3>3
    <3>5. p + Wanted <= p + s[p] BY <1>2, <1>3, <1>4
    <3> QED BY <1>2, <3>1, <3>4, <3>5 DEF Stop
  <2>2. CASE Leaves(next_size)
    <3>1. next_size > HdrSize /\ Wanted < s[p] /\ s[p] - Wanted = next_size
      BY <1>2, <1>3, <2>2 DEF Leaves
    <3> DEFINE d == Cut(s, p, Wanted)
    <3>2. /\ Tiles(d) /\ p + Wanted \notin Heads /\ DOMAIN d = Heads \cup new
          /\ p + Wanted <= Stop(d, p) /\ \A x \in Heads : x # p => d[x] = s[x]
      <4> DEFINE more == IF Leaves(s[p] - Wanted) THEN {p + Wanted} ELSE {}
      <4>1. more = new BY <3>1
      <4> HIDE DEF c, new
      <4>2. Tiles(s) /\ p \in DOMAIN s /\ Wanted \in Nat \ {0} /\ Wanted < s[p]
        BY <1>2, <1>3, <3>1
      <4>3. /\ Tiles(d) /\ p + Wanted \notin DOMAIN s /\ DOMAIN d = DOMAIN s \cup more
            /\ p + Wanted <= Stop(d, p) /\ \A x \in DOMAIN s : x # p => d[x] = s[x]
        BY ONLY <4>2, CutTiles
      <4> HIDE DEF more, d
      <4> QED BY <1>2, <4>1, <4>3
    <3>3. \A x \in Heads \cup new : d[x] = c[x]
      <4> SUFFICES ASSUME NEW x \in Heads \cup new PROVE d[x] = c[x] OBVIOUS
      <4>1. c[x] = IF x = p + Wanted THEN next_size ELSE size[x] BY <2>2
      <4>2. d[x] = IF x = p THEN Wanted ELSE IF x = p + Wanted THEN next_size ELSE s[x]
        BY <1>2, <2>2, <3>1 DEF Cut
      <4>3. x \in Heads \/ x = p + Wanted OBVIOUS
      <4> HIDE DEF c, d
      <4> QED BY <1>2, <3>2, <4>1, <4>2, <4>3
    <3>4. d = [x \in Heads \cup new |-> d[x]] BY <3>2 DEF Cut
    <3>5. c = [x \in Heads \cup new |-> c[x]] OBVIOUS
    <3>6. d = c
      <4> HIDE DEF d, c, new
      <4> QED BY <3>3, <3>4, <3>5
    <3>7. new \cap Heads = {} BY <3>2
    <3> HIDE DEF d, c, new
    <3> QED BY <3>2, <3>6, <3>7
  <2> QED BY <2>1, <2>2
<1> HIDE DEF c, new
<1>8. is_free' = is_free \cup new BY <1>1, <1>7
<1>9. Taken = {p} /\ Taken' = {} BY <1>1 DEF Taken
<1>10. Owners(Closed)'
  <2> DEFINE e == p + devices_size + HdrSize
  <2>1. e = p + Wanted /\ e \in Nat /\ p < e BY <1>3, <1>4, MemoryAssumption DEF Wanted
  <2>2. owned' = owned \cup {<<"devices", p, e>>} BY <1>1 DEF Area
  <2>3. e <= Stop(c, p) BY <1>7, <2>1
  <2>4. /\ \A o \in owned : o[2] # p /\ o[2] \in Heads
        /\ Heads \ is_free = {o[2] : o \in owned} \cup {p}
    BY <1>2, <1>9 DEF Owners
  <2> HIDE DEF e
  <2>5. is_free' \subseteq DOMAIN c /\ p \in DOMAIN c BY <1>2, <1>7, <1>8
  <2>6. DOMAIN c \ is_free' = Heads \ is_free BY <1>2, <1>7, <1>8
  <2>7. DOMAIN c \ is_free' = ({o[2] : o \in owned} \cup Taken') \cup {p} BY <1>9, <2>4, <2>6
  <2>8. \A o \in owned : c[o[2]] = s[o[2]] BY <1>7, <2>4
  <2>9. p \notin Taken' /\ Taken' \subseteq Taken BY <1>9
  <2> QED BY <1>2, <1>5, <2>1, <2>2, <2>3, <2>4, <2>5, <2>7, <2>8, <2>9, OwnersGain
<1>11. Tiles(Closed)' BY <1>5, <1>7 DEF Tiles, Stop
<1>12. Walking' /\ Resting' BY <1>1 DEF Walking, Resting
<1> QED BY <1>1, <1>10, <1>11, <1>12 DEF MemoryInv, Sane

-----------------------------------------------------------------------------
LEMMA MemoryNextInv == MemoryInv /\ [MemoryNext]_memoryVars => MemoryInv'
<1> SUFFICES ASSUME MemoryInv, [MemoryNext]_memoryVars PROVE MemoryInv' OBVIOUS
<1>1. CASE UNCHANGED memoryVars
  BY <1>1 DEF memoryVars, MemoryInv, Sane, Tiles, Owners, Walking, Resting, Closed, Taken, Stop,
              Heads, End, Wanted
<1>2. CASE MemoryNext
  <2>1. ~lost
    BY <1>2 DEF MemoryNext, Receive, Spawn, Reap, ScanBus, FindSkip, FindStop, FindEnd,
       ConcatMerge, ConcatStop, FitTaken, FitSkip, Fit, FitGone, TakeChunk, CloseChunk, MainRuns
  <2>2. Sane BY <2>1 DEF MemoryInv
  <2>3. CASE Receive
    <3>1. FrameCopy \in Nat \ {0} BY MemoryAssumption
    <3> QED BY <2>1, <2>2, <2>3, <3>1, MallocInv DEF Receive, pci
  <2>4. CASE Spawn
    <3>1. Block \in Nat \ {0} BY MemoryAssumption
    <3> QED BY <2>1, <2>2, <2>4, <3>1, MallocInv DEF Spawn, pci
  <2>5. CASE \E o \in owned : Reap(o) BY <2>1, <2>2, <2>5, ReapInv
  <2>6. CASE ScanBus BY <2>1, <2>2, <2>6, ScanBusInv
  <2>7. CASE FindSkip \/ FindStop \/ FindEnd BY <2>1, <2>2, <2>7, FindInv
  <2>8. CASE ConcatMerge BY <2>1, <2>2, <2>8, ConcatMergeInv
  <2>9. CASE ConcatStop BY <2>1, <2>2, <2>9, ConcatStopInv
  <2>10. CASE FitTaken \/ FitSkip \/ Fit \/ FitGone BY <2>1, <2>2, <2>10, FitInv
  <2>11. CASE TakeChunk BY <2>1, <2>2, <2>11, TakeChunkInv
  <2>12. CASE CloseChunk BY <2>1, <2>2, <2>12, CloseChunkInv
  <2> QED BY <1>2, <2>3, <2>4, <2>5, <2>6, <2>7, <2>8, <2>9, <2>10, <2>11, <2>12 DEF MemoryNext
<1> QED BY <1>1, <1>2

LEMMA InvOwns == MemoryInv => EveryAreaItsOwn
<1> SUFFICES ASSUME MemoryInv, ~lost, pc # "rest" PROVE EveryAreaItsOwn
  BY DEF MemoryInv, Sane, EveryAreaItsOwn
<1>1. Sane BY DEF MemoryInv
<1>2. Closed = size /\ Taken = {} BY <1>1, ClosedShows DEF Taken
<1>3. Owners(size) /\ DOMAIN size = Heads BY <1>1, <1>2, ClosedShows DEF Sane
<1>4. /\ Heads \subseteq Nat /\ \A x \in Heads : End(x) \in Nat /\ End(x) \in Heads \cup {HeapSize}
      /\ \A x, y \in Heads : x < y => End(x) <= y
  BY <1>1, <1>2, ClosedShows, ShownChunks DEF Stop, End
<1>5. \A o \in owned : o[2] \in Heads \ is_free /\ o[3] \in Nat /\ o[3] <= End(o[2])
  BY <1>3 DEF Owners, Stop, End
<1>6. ASSUME NEW o \in owned, NEW q \in owned, o # q PROVE o[3] <= q[2] \/ q[3] <= o[2]
  <2>1. o[2] # q[2] BY <1>3, <1>6 DEF Owners
  <2>2. o[2] \in Heads /\ q[2] \in Heads /\ o[2] \in Nat /\ q[2] \in Nat BY <1>4, <1>5
  <2>3. CASE o[2] < q[2]
    <3>1. End(o[2]) <= q[2] /\ End(o[2]) \in Nat BY <1>4, <2>2, <2>3
    <3>2. o[3] \in Nat /\ o[3] <= End(o[2]) BY <1>5
    <3> QED BY <2>2, <3>1, <3>2
  <2>4. CASE q[2] < o[2]
    <3>1. End(q[2]) <= o[2] /\ End(q[2]) \in Nat BY <1>4, <2>2, <2>4
    <3>2. q[3] \in Nat /\ q[3] <= End(q[2]) BY <1>5
    <3> QED BY <2>2, <3>1, <3>2
  <2> QED BY <2>1, <2>2, <2>3, <2>4
<1>7. Heads \ is_free = {o[2] : o \in owned} BY <1>2, <1>3 DEF Owners
<1> QED BY <1>4, <1>5, <1>6, <1>7 DEF EveryAreaItsOwn

\* Whoever is given an area of the heap has it to himself, whatever the card, the
\* keyboard and the timer allocate and free between the steps of main's malloc,
\* and the heap is lost only when a handler's malloc came during main's
\* (malloc.c:33-107, pci.c:92-109, rtl8139.c:63, ctx.c:74, 143).
THEOREM AreasHaveOneOwner == MemorySpec => []EveryAreaItsOwn
<1>1. MemoryInit => MemoryInv BY MemoryInitInv
<1>2. MemoryInv /\ [MemoryNext]_memoryVars => MemoryInv' BY MemoryNextInv
<1>3. MemoryInv => EveryAreaItsOwn BY InvOwns
<1> QED BY <1>1, <1>2, <1>3, PTL DEF MemorySpec

=============================================================================
