------------------------------- MODULE UMalloc -------------------------------
(***************************************************************************)
(* ulib/umalloc.c, malloc and free of user programs: a ring of free blocks *)
(* in the order of their addresses, through base.  Addresses and sizes are *)
(* in units of a Header; base, a static variable, lies below the heap.     *)
(* The program may also move the end of its memory itself.                 *)
(***************************************************************************)
EXTENDS Integers, Sequences, FiniteSets

CONSTANTS
  HeapEnd,    \* as far as sbrk goes
  MINUNITS,   \* 4096: what morecore asks for at least
  Requests    \* sizes in bytes

VARIABLES
  hdr,    \* [ptr, size] of every unit that may be a header
  freep,  \* NULL is -1
  brk,    \* the end of the program's memory
  held    \* history: <<block, bytes>> that the program holds

umvars == <<hdr, freep, brk, held>>

base == 0
SIZEOF == 16
nunits(nbytes) == (nbytes + SIZEOF - 1) \div SIZEOF + 1

UMallocInit ==
  /\ hdr = [a \in 0..HeapEnd |-> [ptr |-> 0, size |-> 0]]
  /\ freep = -1 /\ brk = 1 /\ held = {}

\* The free block that bp belongs behind.
RECURSIVE place(_, _, _)
place(h, p, bp) ==
  IF \/ bp > p /\ bp < h[p].ptr
     \/ p >= h[p].ptr /\ (bp > p \/ bp < h[p].ptr)
  THEN p ELSE place(h, h[p].ptr, bp)

\* Mutant: a block is not merged with the one below it.
free_atUp(h, f, bp) ==
  LET p == place(h, f, bp)
      up == h[p].ptr
      h1 == IF bp + h[bp].size = up THEN [h EXCEPT ![bp] = [ptr |-> h[up].ptr, size |-> @.size + h[up].size]]
            ELSE [h EXCEPT ![bp].ptr = up]
  IN  [h |-> [h1 EXCEPT ![p].ptr = bp], f |-> p]

free_at(h, f, bp) ==
  LET p == place(h, f, bp)
      up == h[p].ptr
      h1 == IF bp + h[bp].size = up THEN [h EXCEPT ![bp] = [ptr |-> h[up].ptr, size |-> @.size + h[up].size]]
            ELSE [h EXCEPT ![bp].ptr = up]
      h2 == IF p + h1[p].size = bp THEN [h1 EXCEPT ![p] = [ptr |-> h1[bp].ptr, size |-> @.size + h1[bp].size]]
            ELSE [h1 EXCEPT ![p].ptr = bp]
  IN  [h |-> h2, f |-> p]

\* More memory as one block, freed: nothing if sbrk fails.
morecore(h, f, b, nu) ==
  LET n == IF nu < MINUNITS THEN MINUNITS ELSE nu
  IN  IF b + n > HeapEnd + 1 THEN {} ELSE {free_at([h EXCEPT ![b].size = n], f, b)}

\* The search from p on, behind prevp.
RECURSIVE look(_, _, _, _, _, _)
look(h, f, b, prevp, p, n) ==
  LET rest == h[p].size - n
      more == morecore(h, f, b, n)
      m == CHOOSE x \in more : TRUE
  IN  IF rest = 0 THEN [h |-> [h EXCEPT ![prevp].ptr = h[p].ptr], f |-> prevp, b |-> b, at |-> p]
      ELSE IF rest > 0
      THEN [h |-> [h EXCEPT ![p].size = rest, ![p + rest].size = n], f |-> prevp, b |-> b, at |-> p + rest]
      ELSE IF p # f THEN look(h, f, b, p, h[p].ptr, n)
      ELSE IF more = {} THEN [h |-> h, f |-> f, b |-> b, at |-> -1]
      ELSE look(m.h, m.f, b + (IF n < MINUNITS THEN MINUNITS ELSE n), m.f, m.h[m.f].ptr, n)

malloc(nbytes) ==
  LET h == IF freep = -1 THEN [hdr EXCEPT ![base] = [ptr |-> base, size |-> 0]] ELSE hdr
      f == IF freep = -1 THEN base ELSE freep
      r == look(h, f, brk, f, h[f].ptr, nunits(nbytes))
  IN  /\ hdr' = r.h /\ freep' = r.f /\ brk' = r.b
      /\ held' = IF r.at = -1 THEN held ELSE held \cup {<<r.at, nbytes>>}

free(b) ==
  LET r == free_at(hdr, freep, b[1])
  IN  hdr' = r.h /\ freep' = r.f /\ held' = held \ {b} /\ UNCHANGED brk

\* The program takes a unit for itself.
sbrk == brk <= HeapEnd /\ brk' = brk + 1 /\ UNCHANGED <<hdr, freep, held>>

UMallocNext == (\E n \in Requests : malloc(n)) \/ (\E b \in held : free(b)) \/ sbrk
-----------------------------------------------------------------------------
\* The free blocks, round the ring from base.
Ring ==
  LET f[k \in Nat] == IF k = 0 THEN <<hdr[base].ptr>>
                      ELSE LET r == f[k - 1]
                           IN  IF r[Len(r)] = base THEN r ELSE Append(r, hdr[r[Len(r)]].ptr)
  IN  f[HeapEnd]

Span(a) == a..(a + hdr[a].size - 1)

\* Whatever a program allocates and frees, and in whatever order, its blocks
\* are as large as it asked for, apart from each other and from the free ones;
\* the ring is in order of addresses, comes back to base, and never holds two
\* neighbours, so that memory freed bit by bit is given out again as a whole.
HeapPartitioned ==
  LET ring == Ring
      frees == {ring[k] : k \in DOMAIN ring} \ {base}
      blocks == {b[1] : b \in held}
  IN  freep # -1 =>
        /\ ring[Len(ring)] = base
        /\ \A k \in 1..(Len(ring) - 2) : ring[k] + hdr[ring[k]].size < ring[k + 1]
        /\ freep \in frees \cup {base}
        /\ frees \cap blocks = {} /\ Cardinality(blocks) = Cardinality(held)
        /\ \A a, b \in frees \cup blocks : a # b => Span(a) \cap Span(b) = {}
        /\ \A a \in frees \cup blocks : Span(a) \subseteq 1..(brk - 1)
        /\ \A b \in held : (hdr[b[1]].size - 1) * SIZEOF >= b[2]
=============================================================================
