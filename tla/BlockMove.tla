----------------------------- MODULE BlockMove ------------------------------
(***************************************************************************)
(* memcpy, memmove and memset of libc/src/string.c, one step per iteration *)
(* of their loops: whole words first, the remaining bytes after.  A word   *)
(* is read before it is written, so a step reads the old contents of all   *)
(* its bytes.                                                              *)
(***************************************************************************)
EXTENDS Integers

CONSTANTS
  MemSize,   \* the bytes of memory looked at
  Memory0,   \* what they hold at the call
  Fill       \* the byte given to memset

Word == 4    \* sizeof(size_t) of the 32-bit build
Addresses == 0 .. MemSize - 1

ASSUME BlockMoveAssumption == MemSize \in Nat

VARIABLES
  mem,
  op,    \* the function called
  dest, src, len,
  at,    \* i, in bytes
  pos    \* "call", "words", "back" (words from the end on), "bytes", "done"

moveVars == <<mem, op, dest, src, len, at, pos>>
arguments == <<op, dest, src, len>>

Within(a, n) == a + n <= MemSize
Overlap(d, s, n) == d < s + n /\ s < d + n

MoveInit ==
  /\ mem = [a \in Addresses |-> Memory0[a]]
  /\ op = "none" /\ dest = 0 /\ src = 0 /\ len = 0 /\ at = 0
  /\ pos = "call"

Call(f, d, s, n) ==
  /\ pos = "call"
  /\ op' = f /\ dest' = d /\ src' = s /\ len' = n
  /\ UNCHANGED mem

\* Its callers never pass memcpy areas that overlap.
memcpy(d, s, n) ==
  /\ Within(d, n) /\ Within(s, n) /\ ~Overlap(d, s, n)
  /\ Call("memcpy", d, s, n)
  /\ at' = 0 /\ pos' = "words"

memset(d, n) ==
  /\ Within(d, n)
  /\ Call("memset", d, d, n)
  /\ at' = 0 /\ pos' = "words"

\* The destination lies behind the start of the source and inside it.
Behind_Never(d, s, n) == FALSE
Behind(d, s, n) == d > s /\ d - s < n

memmove(d, s, n) ==
  /\ Within(d, n) /\ Within(s, n)
  /\ Call("memmove", d, s, n)
  /\ CASE s = d \/ n = 0  -> at' = 0 /\ pos' = "done"
       [] s # d /\ n # 0 /\ Behind(d, s, n)  -> at' = n - (n % Word) /\ pos' = "back"
       [] s # d /\ n # 0 /\ ~Behind(d, s, n) -> at' = 0 /\ pos' = "words"

\* n bytes from at on.
Stored(n) ==
  [a \in Addresses |->
     IF dest + at <= a /\ a < dest + at + n
     THEN IF op = "memset" THEN Fill ELSE mem[src + (a - dest)]
     ELSE mem[a]]

WordForth ==
  /\ pos = "words" /\ at + Word <= len
  /\ mem' = Stored(Word)
  /\ at' = at + Word
  /\ UNCHANGED <<pos, arguments>>

WordsForthEnd ==
  /\ pos = "words" /\ ~(at + Word <= len)
  /\ pos' = "bytes"
  /\ UNCHANGED <<mem, at, arguments>>

\* d[i-1] = s[i-1], word by word.
WordBack ==
  /\ pos = "back" /\ at > 0
  /\ mem' = [a \in Addresses |->
               IF dest + at - Word <= a /\ a < dest + at THEN mem[src + (a - dest)] ELSE mem[a]]
  /\ at' = at - Word
  /\ UNCHANGED <<pos, arguments>>

WordsBackEnd ==
  /\ pos = "back" /\ at = 0
  /\ at' = len - (len % Word)
  /\ pos' = "bytes"
  /\ UNCHANGED <<mem, arguments>>

Byte ==
  /\ pos = "bytes" /\ at < len
  /\ mem' = Stored(1)
  /\ at' = at + 1
  /\ UNCHANGED <<pos, arguments>>

Done ==
  /\ pos = "bytes" /\ ~(at < len)
  /\ pos' = "done"
  /\ UNCHANGED <<mem, at, arguments>>

MoveNext ==
  \/ \E d, s, n \in 0 .. MemSize : memcpy(d, s, n) \/ memmove(d, s, n)
  \/ \E d, n \in 0 .. MemSize : memset(d, n)
  \/ WordForth \/ WordsForthEnd
  \/ WordBack \/ WordsBackEnd
  \/ Byte \/ Done

MoveSpec == MoveInit /\ [][MoveNext]_moveVars

-----------------------------------------------------------------------------
\* Every variable stays in its range.
MoveTypeOK ==
  /\ DOMAIN mem = Addresses
  /\ op \in {"none", "memcpy", "memset", "memmove"}
  /\ dest \in 0 .. MemSize /\ src \in 0 .. MemSize /\ len \in 0 .. MemSize
  /\ at \in 0 .. MemSize
  /\ pos \in {"call", "words", "back", "bytes", "done"}

\* memmove moves an area that overlaps a later one from its end on, but only
\* its words: the bytes behind the last word are copied after the words were
\* written over them (string.c:81-91).
TailLost == op = "memmove" /\ Behind(dest, src, len) /\ len % Word # 0

\* A finished call has given each byte of the destination the value its source
\* had at the call, or the fill byte, and has changed no other byte, for every
\* length modulo the word and every overlap but the one above.  The prompt
\* deletes characters by overlapping moves towards lower addresses
\* (string.c:3-38, 75-111; tty.c:344, 359).
MovedWhole ==
  pos = "done" /\ ~TailLost =>
    \A a \in Addresses :
      mem[a] = IF dest <= a /\ a < dest + len
               THEN IF op = "memset" THEN Fill ELSE Memory0[src + (a - dest)]
               ELSE Memory0[a]

=============================================================================
