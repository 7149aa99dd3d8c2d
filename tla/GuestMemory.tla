---------------------------- MODULE GuestMemory ----------------------------
(***************************************************************************)
(* The C library and compiler helpers the harness answers for the game:    *)
(* the string and memory functions of runtime/imports/estlib.py and        *)
(* runtime/archive.py over a small guest memory of which only the first    *)
(* MemTop bytes are mapped, and the signed 32-bit division of              *)
(* runtime/imports/euser.py, here for words below 2 * Top.                 *)
(***************************************************************************)
EXTENDS Integers, Sequences, SequencesExt, FiniteSetsExt

CONSTANTS
  MemTop,     \* addresses 0 .. MemTop - 1 are mapped, the next ones are not
  Bytes,      \* byte values the memory starts with
  StrlenCap, StrchrCap, StrcpyCap,  \* 4096, 512 and 260 in the code
  Counts,     \* byte counts the game passes
  Values,     \* numbers the game formats
  Top         \* 2^31 in the code: the first number a signed word does not hold

\* strlen looks farther than strchr and strcpy do: 4096 bytes to 512 and 260.
ASSUME MemoryAssumption ==
  /\ MemTop \in Nat \ {0} /\ Top \in Nat \ {0}
  /\ {StrlenCap, StrchrCap, StrcpyCap} \subseteq Nat
  /\ StrchrCap <= StrlenCap /\ StrcpyCap <= StrlenCap
  /\ 0 \in Bytes /\ Bytes \subseteq 0..255 /\ Counts \subseteq Nat /\ Values \subseteq Nat

VARIABLES
  mem,   \* the mapped bytes
  call   \* the last call and what it answered in R0

memVars == <<mem, call>>

\* One byte past the end stands for everything that is not mapped.
Addresses == 0 .. MemTop

\* Unicorn reads or writes a range whole or, when any byte is unmapped, fails.
Mapped(a, n) == a + n <= MemTop

Stored(m, a, bytes) ==
  [i \in DOMAIN m |-> IF i >= a /\ i < a + Len(bytes) THEN bytes[i - a + 1] ELSE m[i]]

Loaded(m, a, n) == [i \in 1..n |-> m[a + i - 1]]

Answer(op, a, b, n, r) ==
  call' = [op |-> op, a |-> a, b |-> b, n |-> n, result |-> r]

-----------------------------------------------------------------------------
(* Strings.                                                                *)

\* The first offset below the cap at which a scan from s stops: a byte of
\* Stop, or an unmapped byte; the cap when there is none.
ScanEnd(s, cap, Stop) ==
  LET ends == {i \in 0 .. (cap - 1) : ~Mapped(s + i, 1) \/ mem[s + i] \in Stop}
  IN  IF ends = {} THEN cap ELSE Min(ends)

Strlen(s) == ScanEnd(s, StrlenCap, {0})

HandleStrlen(s) ==
  /\ Answer("strlen", s, 0, 0, Strlen(s))
  /\ UNCHANGED mem

\* The address of the first c, the terminator itself included; 0 for none.
Strchr(s, c) ==
  LET i == ScanEnd(s, StrchrCap, {0, c})
  IN  IF i < StrchrCap /\ Mapped(s + i, 1) /\ mem[s + i] = c THEN s + i ELSE 0

HandleStrchr(s, c) ==
  /\ Answer("strchr", s, c, 0, Strchr(s, c))
  /\ UNCHANGED mem

ToUpper(c) == LET b == c % 256 IN IF b \in 97..122 THEN b - 32 ELSE b

HandleToupper(c) ==
  /\ Answer("toupper", c, 0, 0, ToUpper(c))
  /\ UNCHANGED mem

\* strcpy moves one byte at a time, so that a copy onto itself sees its own
\* stores; it stops behind the terminator, at the cap, or at the first fault,
\* and what was copied by then stays.
Strcpy(d, s) ==
  FoldLeft(LAMBDA acc, i :
             IF acc.done \/ ~Mapped(s + i, 1) \/ ~Mapped(d + i, 1)
             THEN [acc EXCEPT !.done = TRUE]
             ELSE [mem |-> Stored(acc.mem, d + i, <<acc.mem[s + i]>>),
                   done |-> acc.mem[s + i] = 0],
           [mem |-> mem, done |-> FALSE],
           [i \in 1..StrcpyCap |-> i - 1]).mem

HandleStrcpy(d, s) ==
  /\ mem' = Strcpy(d, s)
  /\ Answer("strcpy", d, s, 0, d)

\* "%02d%02d" and a terminator, each number modulo 100.
Digits(v, w) ==
  <<48 + ((v % 100) \div 10), 48 + (v % 10), 48 + ((w % 100) \div 10), 48 + (w % 10), 0>>

HandleSprintf2Digit(d, v, w) ==
  /\ mem' = IF Mapped(d, 5) THEN Stored(mem, d, Digits(v, w)) ELSE mem
  /\ Answer("sprintf", d, v, w, d)

-----------------------------------------------------------------------------
(* Memory.                                                                 *)

HandleMemcmp(a, b, n) ==
  /\ Answer("memcmp", a, b, n,
            IF Mapped(a, n) /\ Mapped(b, n) /\ Loaded(mem, a, n) = Loaded(mem, b, n)
            THEN 0 ELSE 1)
  /\ UNCHANGED mem

\* The copy of a C loop: a later byte may already have been overwritten.
MovedForward(d, s, n) ==
  FoldLeft(LAMBDA m, i : Stored(m, d + i, <<m[s + i]>>), mem, [i \in 1..n |-> i - 1])

\* memcpy and memmove: all bytes are read before the first is written.
Moved(d, s, n) == Stored(mem, d, Loaded(mem, s, n))

HandleMove(op, d, s, n) ==
  /\ mem' = IF Mapped(d, n) /\ Mapped(s, n) THEN Moved(d, s, n) ELSE mem
  /\ Answer(op, d, s, n, d)

-----------------------------------------------------------------------------
(* Signed division.                                                        *)

Modulus == 2 * Top

ToSigned(u) == IF u >= Top THEN u - Modulus ELSE u
ToUnsigned(i) == IF i < 0 THEN i + Modulus ELSE i

\* struct cannot pack a number outside the signed range.
Packable(i) == i >= -Top /\ i < Top

Sign(i) == IF i < 0 THEN -1 ELSE 1
Magnitude(i) == Sign(i) * i

\* math.trunc(a / b): towards zero; exact for words of 32 bits.
TruncDiv(a, b) ==
  IF b = 0 THEN 0 ELSE Sign(a) * Sign(b) * (Magnitude(a) \div Magnitude(b))

\* math.fmod(a, b): the sign of the dividend.
FMod(a, b) == IF b = 0 THEN 0 ELSE Sign(a) * (Magnitude(a) % Magnitude(b))

\* A quotient that cannot be packed raises, and the run ends.
HandleArith(op, u, v) ==
  LET q == IF op = "mod" THEN FMod(ToSigned(u), ToSigned(v)) ELSE TruncDiv(ToSigned(u), ToSigned(v))
  IN  /\ Answer(op, u, v, 0, IF Packable(q) THEN ToUnsigned(q) ELSE Modulus)
      /\ UNCHANGED mem

Raises(c) == c.op \in {"div", "mod"} /\ c.result = Modulus

-----------------------------------------------------------------------------
MemInit ==
  /\ mem \in [0 .. (MemTop - 1) -> Bytes]
  /\ call = [op |-> "none", a |-> 0, b |-> 0, n |-> 0, result |-> 0]

\* Every memory is an initial one, so a single call shows all that any call
\* in a sequence can do.
MemNext ==
  /\ call.op = "none"
  /\ \/ \E s \in Addresses :
          \/ HandleStrlen(s)
          \/ \E c \in Bytes : HandleStrchr(s, c)
     \/ \E c \in Bytes : HandleToupper(c)
     \/ \E d, s \in Addresses :
          \/ HandleStrcpy(d, s)
          \/ \E n \in Counts : \/ HandleMemcmp(d, s, n)
                               \/ \E op \in {"memcpy", "memmove"} : HandleMove(op, d, s, n)
     \/ \E d \in Addresses, v, w \in Values : HandleSprintf2Digit(d, v, w)
     \/ \E op \in {"div", "mod"}, u, v \in 0 .. (Modulus - 1) : HandleArith(op, u, v)

MemSpec == MemInit /\ [][MemNext]_memVars

-----------------------------------------------------------------------------
(* Properties.                                                             *)

Apart(a, m, b, n) == a + m <= b \/ b + n <= a
Untouched(d, n) == \A i \in DOMAIN mem : i < d \/ i >= d + n => mem'[i] = mem[i]

\* A string whose terminator lies within the cap arrives whole, terminator
\* included, at a place apart from it, and a move arrives whole even onto
\* itself: DZIP's table builder moves with dest = src + 4 (archive.py:183-187).
\* Neither touches another byte, and a move that would leave the mapped
\* memory touches none.
CopiesArrive ==
  [][/\ call'.op = "strcpy" =>
          LET d == call'.a  s == call'.b  n == Strlen(s)
          IN  n < StrcpyCap /\ Mapped(s, n + 1) /\ Mapped(d, n + 1) /\ Apart(d, n + 1, s, n + 1)
              => Loaded(mem', d, n + 1) = Loaded(mem, s, n + 1) /\ Untouched(d, n + 1)
     /\ call'.op \in {"memcpy", "memmove"} =>
          LET d == call'.a  s == call'.b  n == call'.n
          IN  IF Mapped(d, n) /\ Mapped(s, n)
              THEN Loaded(mem', d, n) = Loaded(mem, s, n) /\ Untouched(d, n)
              ELSE mem' = mem]_memVars

\* FindByName splits a name at the first separator and compares it byte by
\* byte: what strchr answers is the first occurrence inside the string, or
\* none, and a null answer is never a wrong "not found" while the string ends
\* before the cap (estlib.py:74-93).
StrchrFindsFirst ==
  call.op = "strchr" =>
    LET s == call.a  c == call.b  n == Strlen(s)
        inside == {i \in 0..n : Mapped(s + i, 1) /\ mem[s + i] = c}
    IN  n < StrchrCap => call.result = (IF inside = {} THEN 0 ELSE s + Min(inside))

\* The two helpers agree with each other as C demands: dividend = divisor *
\* quotient + remainder, the remainder smaller than the divisor and with the
\* sign of the dividend; and the one pair of words that ends the run is the
\* quotient no word can hold (euser.py:83-98).
DivisionAgrees ==
  call.op \in {"div", "mod"} =>
    LET a == ToSigned(call.a)  b == ToSigned(call.b)
        r == ToSigned(call.result)
    IN  IF Raises(call) THEN call.op = "div" /\ a = -Top /\ b = -1
        ELSE b # 0 =>
               LET rest == IF call.op = "mod" THEN r ELSE a - b * r
               IN  /\ Magnitude(rest) < Magnitude(b)
                   /\ rest # 0 => Sign(rest) = Sign(a)
                   /\ (a - rest) % Magnitude(b) = 0
=============================================================================
