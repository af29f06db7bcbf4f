------------------------------- MODULE Random --------------------------------
(***************************************************************************)
(* rand.c and math.c's abs: the generator the rand command and main use,   *)
(* with the width of int, since the seeding multiplies two large numbers   *)
(* and a bad seed makes the values grow.                                   *)
(***************************************************************************)
EXTENDS Integers

CONSTANTS
  RAND_MAX,   \* 4206911
  IntMax,     \* the largest int
  Seeds,      \* the seeds given to srand
  MaxDraws    \* bound: the calls of rand that are followed

\* The seeds whose product does not overflow lie close to 0 compared with
\* RAND_MAX, and RAND_MAX to 0 compared with the largest int.
SeedReach == (IntMax \div RAND_MAX) + 1
ASSUME RandomAssumption ==
  /\ RAND_MAX \in Nat \ {0} /\ IntMax \in Nat /\ MaxDraws \in Nat
  /\ Seeds \subseteq Int
  /\ 8 * RAND_MAX <= IntMax
  /\ 197 * SeedReach <= 3 * RAND_MAX

VARIABLES
  s0, s1, s2,
  seeded,     \* main has called srand
  draws,      \* the calls of rand since then, up to the bound
  overflowed, \* history: the product of the seeding did not fit an int
  wild        \* history: the seeding left s0 or s2 far from 0 .. RAND_MAX

randVars == <<s0, s1, s2, seeded, draws, overflowed, wild>>

\* An int wraps; a double that is too large becomes the smallest int.
IntOf(x) == ((x + IntMax + 1) % (2 * (IntMax + 1))) - (IntMax + 1)
Truncated(t) == IF t <= IntMax THEN t ELSE -(IntMax + 1)

abs(x) == IF x < 0 THEN IntOf(-x) ELSE x

\* The remainder of C, which has the sign of the dividend.
Rem(x, n) == IF x < 0 THEN -((-x) % n) ELSE x % n

\* d * 1.97 in doubles, without its fraction: where 1.97 d is whole, the
\* product may be rounded below it.
Scaled(d) ==
  LET t == (197 * d) \div 100
  IN IF d % 100 = 0 /\ d > 0 THEN {t - 1, t} ELSE {t}

__frns_Sum(x, y) == {abs(IntOf(RAND_MAX - Truncated(t))) : t \in Scaled(abs(IntOf(x + y)))}
__frns(x, y) == {abs(IntOf(RAND_MAX - Truncated(t))) : t \in Scaled(abs(IntOf(x - y)))}

\* So close to 0 .. RAND_MAX that the next call comes out between them.
Near(x) == -3 * RAND_MAX <= 197 * x /\ x <= RAND_MAX

RandInit ==
  /\ s0 = 0 /\ s1 = 0 /\ s2 = 0
  /\ seeded = FALSE /\ draws = 0 /\ overflowed = FALSE /\ wild = FALSE

\* srand, called once, with the product of the time and the last scan code:
\* seed %= RAND_MAX is s0, and s1 should be the remainder of -1.
srand(seed) ==
  /\ ~seeded /\ seeded' = TRUE
  /\ s0' = Rem(seed, RAND_MAX)
  /\ overflowed' = (s0' * RAND_MAX - 1 # IntOf(s0' * RAND_MAX - 1))
  /\ s1' = Rem(IntOf(s0' * RAND_MAX - 1), RAND_MAX)
  /\ s2' \in __frns(s0', s1')
  /\ wild' = ~(Near(s0') /\ Near(s2'))
  /\ UNCHANGED draws

rand ==
  /\ seeded /\ draws < MaxDraws
  /\ s0' \in __frns(s2, s0)
  /\ s1' \in __frns(s0', s1)
  /\ s2' \in __frns(s0', s2)
  /\ draws' = draws + 1
  /\ UNCHANGED <<seeded, overflowed, wild>>

RandNext == (\E seed \in Seeds : srand(seed)) \/ rand

RandSpec == RandInit /\ [][RandNext]_randVars

-----------------------------------------------------------------------------
\* What rand returns is never negative, whatever the seed, however often it is
\* called and with the product truncated either way, though values may grow
\* until a product no longer fits an int.  It is at most RAND_MAX unless the
\* seeding left s0 or s2 far outside, and that only a product that overflows
\* does (rand.c:19-39, math.c:11-13).
DrawnInRange ==
  /\ draws > 0 => s0 \in 0 .. IntMax
  /\ draws > 0 /\ ~wild => s0 <= RAND_MAX
  /\ seeded /\ wild => overflowed

\* mrand's name for RAND_MAX is max: what rand returns lies between 0 and it
\* (rand.c:17, 23-25).
RandInRange == draws > 0 => s0 \in 0 .. RAND_MAX

=============================================================================
