------------------------------- MODULE Strings -------------------------------
(***************************************************************************)
(* The string library of the kernel (libs/string), which reads memory by   *)
(* the word, and that of user programs (ulib/ulib.c).  Memory is a         *)
(* function m from addresses, of which there are no more than whole words  *)
(* that hold a byte of the string: a read beyond has no value.  What may   *)
(* be a null pointer is a set of at most one address.                      *)
(*                                                                         *)
(* The bit operations of arch/x86_64/include/asm/bitops.h and bitcount of  *)
(* tools/libfs.c.  Memory is a string of bits m[0], m[1], ...  An          *)
(* operation whose bit number is a compile-time constant works on a byte   *)
(* with a mask, any other one on the bit string with bts, btr, btc and bt. *)
(***************************************************************************)
EXTENDS Integers, Sequences, FiniteSets, FiniteSetsExt, Bitwise

CONSTANTS
  BITS,   \* of a byte: 8, scaled down
  SS,     \* sizeof(size_t), scaled down
  GROW    \* 63, scaled down
CONSTANTS BYTE, LONG   \* the bits of a byte (8) and of a long (64)

B == 2 ^ BITS
W == B ^ SS
ONES == (W - 1) \div (B - 1)
HIGHS == ONES * (B \div 2)

\* The first of a, a + step, ... with P: a loop.
First(a, step, P(_)) == LET f[b \in Nat] == IF P(b) THEN b ELSE f[b + step] IN f[a]

\* The little-endian word at a.
Word(m, a) == LET f[i \in Nat] == IF i = SS THEN 0 ELSE m[a + i] + B * f[i + 1] IN f[0]

HASZERO(x) == (((((x - ONES) + W) % W) & (W - 1 - x)) & HIGHS) # 0
-----------------------------------------------------------------------------
\* Mutant: the word's start is taken for the string's end.
strlenWord(m, s) ==
  LET a == First(s, 1, LAMBDA b : b % SS = 0 \/ m[b] = 0)
  IN  IF a % SS # 0 THEN a - s ELSE First(a, SS, LAMBDA b : HASZERO(Word(m, b))) - s

strlen(m, s) ==
  LET a == First(s, 1, LAMBDA b : b % SS = 0 \/ m[b] = 0)
      w == First(a, SS, LAMBDA b : HASZERO(Word(m, b)))
  IN  IF a % SS # 0 THEN a - s ELSE First(w, 1, LAMBDA b : m[b] = 0) - s

memchr(m, s, c, n) ==
  LET end == s + n
      a == First(s, 1, LAMBDA b : b % SS = 0 \/ b = end \/ m[b] = c)
      w == First(a, SS, LAMBDA b : end - b < SS \/ HASZERO(Word(m, b) ^^ (ONES * c)))
      e == IF a = end \/ m[a] = c THEN a ELSE First(w, 1, LAMBDA b : b = end \/ m[b] = c)
  IN  {e} \ {end}

strchrnul(m, s, c) ==
  LET a == First(s, 1, LAMBDA b : b % SS = 0 \/ m[b] \in {0, c})
      w == First(a, SS, LAMBDA b : HASZERO(Word(m, b)) \/ HASZERO(Word(m, b) ^^ (ONES * c)))
  IN  IF c = 0 THEN s + strlen(m, s)
      ELSE IF a % SS # 0 THEN a
      ELSE First(w, 1, LAMBDA b : m[b] \in {0, c})

strchr(m, s, c) == {a \in {strchrnul(m, s, c)} : m[a] = c}

strnlen(m, s, n) == LET p == memchr(m, s, 0, n) IN IF p = {} THEN n ELSE (CHOOSE a \in p : TRUE) - s

memcmp(m, l, r, n) ==
  LET i == First(0, 1, LAMBDA k : k = n \/ m[l + k] # m[r + k])
  IN  IF i = n THEN 0 ELSE m[l + i] - m[r + i]
-----------------------------------------------------------------------------
\* strstr: needles of two to four bytes are compared as one number.
Short(h, n, at, k) ==
  LET Value(f, a) == LET v[i \in Nat] == IF i = k THEN 0 ELSE f[a + i] * B ^ (k - 1 - i) + v[i + 1] IN v[0]
      r[i \in Nat] == IF i = at + k - 1 THEN Value(h, at)             \* hw when h is at i
                      ELSE (r[i - 1] * B + h[i]) % B ^ k
      e == First(at + k - 1, 1, LAMBDA i : h[i] = 0 \/ r[i] = Value(n, 0))
  IN  IF h[e] # 0 THEN {e - (k - 1)} ELSE {}

twobyte_strstr(h, n, at) == Short(h, n, at, 2)
threebyte_strstr(h, n, at) == Short(h, n, at, 3)
fourbyte_strstr(h, n, at) == Short(h, n, at, 4)

\* The maximal suffix of the needle in the order of bytes or its opposite:
\* where it starts, less one, and its period.
RECURSIVE suffix(_, _, _, _)
suffix(n, l, up, s) ==
  IF s.jp + s.k >= l THEN s
  ELSE LET a == n[s.ip + s.k]
           b == n[s.jp + s.k]
       IN  suffix(n, l, up,
             CASE a = b /\ s.k = s.p -> [s EXCEPT !.jp = @ + s.p, !.k = 1]
               [] a = b /\ s.k # s.p -> [s EXCEPT !.k = @ + 1]
               [] a # b /\ up = (a > b) -> [s EXCEPT !.jp = @ + s.k, !.k = 1, !.p = s.jp + s.k - s.ip]
               [] OTHER -> [ip |-> s.jp, jp |-> s.jp + 1, k |-> 1, p |-> 1])

\* Mutant: every needle is taken for periodic.
FactorPeriodic(n, l) ==
  LET from == [ip |-> -1, jp |-> 0, k |-> 1, p |-> 1]
      a == suffix(n, l, TRUE, from)
      b == suffix(n, l, FALSE, from)
      c == IF b.ip + 1 > a.ip + 1 THEN b ELSE a
  IN  [ms |-> c.ip, p |-> c.p, mem0 |-> l - c.p]

\* The needle's critical factorization and period, and what a match of its
\* left half is worth at the next place.
Factor(n, l) ==
  LET from == [ip |-> -1, jp |-> 0, k |-> 1, p |-> 1]
      a == suffix(n, l, TRUE, from)
      b == suffix(n, l, FALSE, from)
      c == IF b.ip + 1 > a.ip + 1 THEN b ELSE a
      periodic == memcmp(n, 0, c.p, c.ip + 1) = 0
  IN  [ms |-> c.ip,
       p |-> IF periodic THEN c.p ELSE Max({c.ip, l - c.ip - 1}) + 1,
       mem0 |-> IF periodic THEN l - c.p ELSE 0]

\* The search loop: at is h, z how far the haystack is known to go.
RECURSIVE search(_, _, _, _, _, _, _)
search(h, n, l, f, at, z, mem) ==
  LET grow == l | GROW
      nul == memchr(h, z, 0, grow)
      z2 == IF z - at >= l THEN z ELSE IF nul = {} THEN z + grow ELSE CHOOSE a \in nul : TRUE
      last == h[at + l - 1]
      shift == {b \in 0..(l - 1) : n[b] = last}       \* byteset and shift table
      skip == l - (Max(shift) + 1)
      right == First(Max({f.ms + 1, mem}), 1, LAMBDA k : n[k] = 0 \/ n[k] # h[at + k])
      left == LET d[k \in Nat] == IF k > mem /\ n[k - 1] = h[at + k - 1] THEN d[k - 1] ELSE k IN d[f.ms + 1]
  IN  IF z2 - at < l THEN {}
      ELSE IF shift = {} THEN search(h, n, l, f, at + l, z2, 0)
      ELSE IF skip # 0
      THEN search(h, n, l, f, at + (IF f.mem0 # 0 /\ mem # 0 /\ skip < f.p THEN l - f.p ELSE skip), z2, 0)
      ELSE IF n[right] # 0 THEN search(h, n, l, f, at + right - f.ms, z2, 0)
      ELSE IF left <= mem THEN {at}
      ELSE search(h, n, l, f, at + f.p, z2, f.mem0)

twoway_strstr(h, n, at) ==
  LET l == First(0, 1, LAMBDA k : n[k] = 0 \/ h[at + k] = 0)
  IN  IF n[l] # 0 THEN {} ELSE search(h, n, l, Factor(n, l), at, at, 0)

strstr(h, n) ==
  LET hit == strchr(h, 0, n[0])
      at == CHOOSE a \in hit : TRUE
  IN  IF n[0] = 0 THEN {0}
      ELSE IF hit = {} \/ n[1] = 0 THEN hit
      ELSE IF h[at + 1] = 0 THEN {}
      ELSE IF n[2] = 0 THEN twobyte_strstr(h, n, at)
      ELSE IF h[at + 2] = 0 THEN {}
      ELSE IF n[3] = 0 THEN threebyte_strstr(h, n, at)
      ELSE IF h[at + 3] = 0 THEN {}
      ELSE IF n[4] = 0 THEN fourbyte_strstr(h, n, at)
      ELSE twoway_strstr(h, n, at)
-----------------------------------------------------------------------------
\* ulib.c

ulib_strcpy(m, s, t) ==
  LET e == First(0, 1, LAMBDA i : m[t + i] = 0)
  IN  [a \in DOMAIN m |-> IF a \in s..(s + e) THEN m[t + a - s] ELSE m[a]]

ulib_strcmp(m, p, q) ==
  LET i == First(0, 1, LAMBDA k : m[p + k] = 0 \/ m[p + k] # m[q + k])
  IN  m[p + i] - m[q + i]

ulib_strlen(m, s) == First(0, 1, LAMBDA k : m[s + k] = 0)

ulib_strchr(m, s, c) ==
  LET e == First(s, 1, LAMBDA a : m[a] \in {0, c}) IN IF m[e] = 0 THEN {} ELSE {e}

\* Byte by byte upwards, whichever way the two ranges overlap.
ulib_memmove(m, dst, src, n) ==
  LET f[k \in Nat] == IF k = 0 THEN m ELSE [f[k - 1] EXCEPT ![dst + k - 1] = f[k - 1][src + k - 1]] IN f[n]

\* A line of at most max - 1 bytes of input; newline is any of NL.
gets(in, max, NL) ==
  LET e == First(0, 1, LAMBDA i : i + 1 >= max \/ i >= Len(in) \/ (i > 0 /\ in[i] \in NL))
  IN  [buf |-> [i \in 1..(e + 1) |-> IF i <= e THEN in[i] ELSE 0], rest |-> SubSeq(in, e + 1, Len(in))]
-----------------------------------------------------------------------------
\* The first address from s on, below e, that holds one of cs.
FirstOf(m, s, e, cs) ==
  LET as == {a \in s..(e - 1) : m[a] \in cs} IN IF as = {} THEN {} ELSE {Min(as)}

\* Reading a word at a time finds what reading bytes one by one would, from
\* every alignment and whatever lies before the string and behind it: no byte
\* hides another one in a word by a borrow or a carry.  Comparing two strings
\* is the same from both libraries, and what is moved to a lower place or to
\* one that does not overlap arrives.  gets never fills more than it may and
\* loses no byte of the input.
BytesFound(m) ==
  LET size == Cardinality(DOMAIN m)
      End(s) == CHOOSE a \in FirstOf(m, s, size, {0}) : TRUE
  IN  \A s \in DOMAIN m :
        /\ FirstOf(m, s, size, {0}) # {} =>
             /\ strlen(m, s) = End(s) - s /\ ulib_strlen(m, s) = End(s) - s
             /\ \A c \in 0..(B - 1) :
                  /\ strchrnul(m, s, c) \in FirstOf(m, s, size, {0, c})
                  /\ strchr(m, s, c) = FirstOf(m, s, End(s) + 1, {c})
                  /\ ulib_strchr(m, s, c) = FirstOf(m, s, End(s), {c})
             /\ \A t \in 0..(s - 1) :
                  /\ ulib_strcmp(ulib_strcpy(m, t, s), t, s) = 0 \/ End(s) - s >= s - t
                  /\ LET n == Min({End(s) - s, End(t) - t}) + 1
                     IN  /\ ulib_strcmp(m, s, t) = memcmp(m, s, t, n)
                         /\ (ulib_strcmp(m, s, t) = 0) = (SubSeq([i \in 1..size |-> m[i - 1]], s + 1, End(s)) =
                                                        SubSeq([i \in 1..size |-> m[i - 1]], t + 1, End(t)))
        /\ \A n \in 0..(size - s) :
             /\ \A c \in 0..(B - 1) : memchr(m, s, c, n) = FirstOf(m, s, s + n, {c})
             /\ strnlen(m, s, n) = Cardinality({a \in s..(s + n - 1) : \A b \in s..a : m[b] # 0})
             /\ \A d \in 0..(size - n) : d <= s \/ d >= s + n =>
                  \A i \in 0..(n - 1) : ulib_memmove(m, d, s, n)[d + i] = m[s + i]
             /\ LET in == [i \in 1..size |-> m[i - 1]]
                    g == gets(in, n + 1, {1})
                IN  Len(g.buf) <= n + 1 /\ SubSeq(g.buf, 1, Len(g.buf) - 1) \o g.rest = in

\* strstr finds the first place where the needle n is, in each of the
\* haystacks hs, be the needle short, periodic or not, and the haystack's end
\* known or still to be looked for.
NeedleFound(n, hs) ==
  LET l == ulib_strlen(n, 0)
  IN  \A h \in hs :
        LET hits == {a \in 0..(ulib_strlen(h, 0) - l) : \A i \in 0..(l - 1) : h[a + i] = n[i]}
        IN  strstr(h, n) = IF hits = {} THEN {} ELSE {Min(hits)}
-----------------------------------------------------------------------------
\* Mutant: the byte of the long, not of the bit.
CONST_MASK_ADDRLong(nr) == nr \div LONG

\* The bits of byte k that a mask selects.
CONST_MASK_ADDR(nr) == nr \div BYTE
CONST_MASK(nr) == {nr % BYTE}

orb(m, k, mask) == [b \in DOMAIN m |-> IF b \div BYTE = k /\ b % BYTE \in mask THEN 1 ELSE m[b]]
andb(m, k, mask) == [b \in DOMAIN m |-> IF b \div BYTE = k /\ b % BYTE \notin mask THEN 0 ELSE m[b]]
xorb(m, k, mask) == [b \in DOMAIN m |-> IF b \div BYTE = k /\ b % BYTE \in mask THEN 1 - m[b] ELSE m[b]]

\* bts, btr, btc and bt with a register: the long is nr div LONG longs away.
bit_at(nr) == LONG * (nr \div LONG) + (nr % LONG)
bts(m, nr) == [m EXCEPT ![bit_at(nr)] = 1]
btr(m, nr) == [m EXCEPT ![bit_at(nr)] = 0]
btc(m, nr) == [m EXCEPT ![bit_at(nr)] = 1 - @]
\* The carry that they leave, as sbb makes an integer of it.
sbb(m, nr) == 0 - m[bit_at(nr)]
-----------------------------------------------------------------------------
set_bit(immediate, nr, m) ==
  IF immediate THEN orb(m, CONST_MASK_ADDR(nr), CONST_MASK(nr)) ELSE bts(m, nr)
__set_bit(nr, m) == bts(m, nr)

clear_bit(immediate, nr, m) ==
  IF immediate THEN andb(m, CONST_MASK_ADDR(nr), (0..(BYTE - 1)) \ CONST_MASK(nr)) ELSE btr(m, nr)
clear_bit_unlock(immediate, nr, m) == clear_bit(immediate, nr, m)
__clear_bit(nr, m) == btr(m, nr)
__clear_bit_unlock(nr, m) == __clear_bit(nr, m)

change_bit(immediate, nr, m) ==
  IF immediate THEN xorb(m, CONST_MASK_ADDR(nr), CONST_MASK(nr)) ELSE btc(m, nr)
__change_bit(nr, m) == btc(m, nr)

\* The locked forms return the carry with setc, the others with sbb.
test_and_set_bit(nr, m) == [m |-> bts(m, nr), ret |-> m[bit_at(nr)]]
test_and_set_bit_lock(nr, m) == test_and_set_bit(nr, m)
__test_and_set_bit(nr, m) == [m |-> bts(m, nr), ret |-> sbb(m, nr)]
test_and_clear_bit(nr, m) == [m |-> btr(m, nr), ret |-> m[bit_at(nr)]]
__test_and_clear_bit(nr, m) == [m |-> btr(m, nr), ret |-> sbb(m, nr)]
test_and_change_bit(nr, m) == [m |-> btc(m, nr), ret |-> m[bit_at(nr)]]
__test_and_change_bit(nr, m) == [m |-> btc(m, nr), ret |-> sbb(m, nr)]

\* A word is the set of its bits that are set.
word(m, k) == {b \in 0..(LONG - 1) : m[LONG * k + b] = 1}
constant_test_bit(nr, m) == IF {nr % LONG} \cap word(m, nr \div LONG) # {} THEN 1 ELSE 0
variable_test_bit(nr, m) == sbb(m, nr)
-----------------------------------------------------------------------------
\* bsf and bsr leave the destination as it was when no bit is set.
bsf(w, dest) == IF w = {} THEN dest ELSE Min(w)
bsr(w, dest) == IF w = {} THEN dest ELSE Max(w)

__ffs(w) == bsf(w, 0)
ffz(w) == bsf((0..(LONG - 1)) \ w, 0)
__fls(w) == bsr(w, 0)
\* x is an int: its lower half.
ffs(w) == bsf(w \cap 0..(LONG \div 2 - 1), -1) + 1
fls(w) == bsr(w \cap 0..(LONG \div 2 - 1), -1) + 1
fls64(w) == bsr(w, -1) + 1

\* bitcount of tools/libfs.c: the ones of a 32-bit number, added up in pairs,
\* in nibbles and in bytes.
bitcount(x0) ==
  LET x1 == x0 - (shiftR(x0, 1) & 1431655765)
      x2 == (x1 & 858993459) + (shiftR(x1, 2) & 858993459)
      x3 == (x2 + shiftR(x2, 4)) & 252645135
      x4 == x3 + shiftR(x3, 8)
      x5 == x4 + shiftR(x4, 16)
  IN  x5 & 63
-----------------------------------------------------------------------------
\* The forms of one operation agree, whichever the compiler chooses: they
\* change bit nr and no other, also when nr is beyond the first byte and the
\* first long, and what they return tells whether it was set.
FormsAgree(nr, m) ==
  LET set == [m EXCEPT ![nr] = 1]
      clear == [m EXCEPT ![nr] = 0]
      change == [m EXCEPT ![nr] = 1 - @]
      Was(r) == (r # 0) <=> m[nr] = 1
  IN  /\ \A i \in BOOLEAN : /\ set_bit(i, nr, m) = set
                            /\ clear_bit(i, nr, m) = clear /\ clear_bit_unlock(i, nr, m) = clear
                            /\ change_bit(i, nr, m) = change
      /\ __set_bit(nr, m) = set /\ __clear_bit_unlock(nr, m) = clear /\ __change_bit(nr, m) = change
      /\ \A r \in {test_and_set_bit_lock(nr, m), __test_and_set_bit(nr, m)} : r.m = set /\ Was(r.ret)
      /\ \A r \in {test_and_clear_bit(nr, m), __test_and_clear_bit(nr, m)} : r.m = clear /\ Was(r.ret)
      /\ \A r \in {test_and_change_bit(nr, m), __test_and_change_bit(nr, m)} : r.m = change /\ Was(r.ret)
      /\ Was(constant_test_bit(nr, m)) /\ Was(variable_test_bit(nr, m))

\* The searches find the first and the last bit: no other bit is set before,
\* or after, the one returned, the positions of ffs, fls and fls64 count from
\* 1, and 0 stands for none, of the lower half for the two that take an int.
BitsLocated(w) ==
  LET low == w \cap 0..(LONG \div 2 - 1)
      Lowest(b, s) == b \in s /\ \A c \in s : b <= c
      Final(b, s) == b \in s /\ \A c \in s : b >= c
  IN  /\ w # {} => Lowest(__ffs(w), w) /\ Final(__fls(w), w) /\ Final(fls64(w) - 1, w)
      /\ w # 0..(LONG - 1) => Lowest(ffz(w), (0..(LONG - 1)) \ w)
      /\ low # {} => Lowest(ffs(w) - 1, low) /\ Final(fls(w) - 1, low)
      /\ (ffs(w) = 0 <=> low = {}) /\ (fls(w) = 0 <=> low = {}) /\ (fls64(w) = 0 <=> w = {})

\* bitcount, which diskinfo adds up over the bitmap, counts the bits set.
OnesCounted(x) == bitcount(x) = Cardinality({b \in 0..30 : (x \div 2^b) % 2 = 1})
=============================================================================
