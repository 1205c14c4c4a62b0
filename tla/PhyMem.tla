------------------------------- MODULE PhyMem -------------------------------
(***************************************************************************)
(* The allocator of 2M physical pages, arch/x86_64/phymem.c: a bitmap of   *)
(* free pages, a rotating word pointer pnow and a page count, used by      *)
(* several CPUs without a lock.                                            *)
(*                                                                         *)
(* The bit operations are atomic.  pages++ and pages-- are a load and a    *)
(* store.  In get_none_zero the build loads pnow once, keeps it in a       *)
(* register and stores every value it gives it, one step each.  Pages and  *)
(* bits are numbers; a word is a multiple of WORD of them, and ffs, which  *)
(* takes an int, looks at the low INT bits of one.                         *)
(***************************************************************************)
EXTENDS Integers, FiniteSets, FiniteSetsExt

CONSTANTS
  CPUs,
  Bits,      \* __max_phy_addr / PAGE_SIZE
  WORD, INT, \* 64 and 32
  ULONG,     \* 2^64: pages wraps there
  Usable     \* the pages of RAM that boot code frees

ASSUME PhyMemAssumption ==
  /\ CPUs # {}
  /\ Bits \in Nat /\ INT \in Nat /\ WORD \in Nat \ {0} /\ INT <= WORD
  /\ Usable \subseteq 0..(Bits - 1) /\ 0 \notin Usable
  /\ ULONG \in Nat \ {0} /\ Cardinality(Usable) < ULONG

VARIABLES
  pgbits,  \* the set of bits that are set
  pnow,    \* index of the word the scan starts at
  pages,
  call,    \* per CPU, the call in progress
  owned,   \* history: the pages that callers hold
  alone    \* history: no two calls have overlapped so far

vars == <<pgbits, pnow, pages, call, owned, alone>>

pmax == Bits \div WORD
Word(v) == {b \in pgbits : b \div WORD = v}
NoBit == -1

Idle == [pc |-> "idle", v |-> 0, pos |-> 0, bit |-> NoBit, reg |-> 0, left |-> 0]
To(c, new) == call' = [call EXCEPT ![c] = new]

\* CPU c enters the allocator.
Enter(c) == alone' = (alone /\ \A d \in CPUs \ {c} : call[d].pc = "idle")

\* init_phy_mem: no page is free yet; boot code owns them.
Init ==
  /\ pgbits = {} /\ pnow = 0 /\ pages = 0
  /\ call = [c \in CPUs |-> Idle]
  /\ owned = Usable /\ alone = TRUE

\* Mutant: the position counts from 1.
ffsFromOne(v) ==
  LET low == {b \in Word(v) : b % WORD < INT}
  IN  IF low = {} THEN NoBit ELSE Min(low) + 1

\* ffs(*p): the lowest bit that is set, NoBit when the int is 0.
ffs(v) ==
  LET low == {b \in Word(v) : b % WORD < INT}
  IN  IF low = {} THEN NoBit ELSE Min(low)

-----------------------------------------------------------------------------
(* alloc_phy_page *)

Alloc(c) ==
  /\ call[c].pc = "idle"
  /\ To(c, [Idle EXCEPT !.pc = "check"])
  /\ Enter(c)
  /\ UNCHANGED <<pgbits, pnow, pages, owned>>

\* while (pages)
CheckPages(c) ==
  /\ call[c].pc \in {"check", "retry"}
  /\ To(c, IF pages # 0 THEN [Idle EXCEPT !.pc = "load"] ELSE [Idle EXCEPT !.pc = "none"])
  /\ UNCHANGED <<pgbits, pnow, pages, owned, alone>>

\* The scan stands at word v: take its first bit, continue the loop when ffs
\* finds none, or go on at pc `else' when the word is 0.  Behind the word
\* at pmax the bitmap's allocation ends.
Look(c, v, pos, else) ==
  To(c, [pc |-> CASE v > pmax -> "wild"
                  [] v <= pmax /\ Word(v) = {} -> else
                  [] v <= pmax /\ Word(v) # {} /\ ffs(v) = NoBit -> "retry"
                  [] OTHER -> "clear",
         v |-> v, pos |-> pos, bit |-> ffs(v), reg |-> 0, left |-> 0])

\* Mutant: the scan of the higher words stops one short.
ScanUpShort(c) ==
  /\ call[c].pc = "up"
  /\ LET v == call[c].v + 1
     IN  /\ pnow' = v
         /\ IF v < pmax - 1 THEN Look(c, v, call[c].pos, "up")
                            ELSE To(c, [call[c] EXCEPT !.pc = "wrap"])
  /\ UNCHANGED <<pgbits, pages, owned, alone>>

\* Mutant: pnow is not set back to the first word.
WrapStays(c) ==
  /\ call[c].pc = "wrap"
  /\ Look(c, call[c].v, call[c].pos, "low")
  /\ UNCHANGED <<pgbits, pnow, pages, owned, alone>>

\* if (*pnow) return pnow; pos = pnow;
LoadNow(c) ==
  /\ call[c].pc = "load"
  /\ Look(c, pnow, pnow, "up")
  /\ UNCHANGED <<pgbits, pnow, pages, owned, alone>>

\* while (++pnow < pmax) if (*pnow) return pnow;
ScanUp(c) ==
  /\ call[c].pc = "up"
  /\ LET v == call[c].v + 1
     IN  /\ pnow' = v
         /\ IF v < pmax THEN Look(c, v, call[c].pos, "up")
                        ELSE To(c, [call[c] EXCEPT !.pc = "wrap"])
  /\ UNCHANGED <<pgbits, pages, owned, alone>>

\* pnow = pgbits; if (*pnow) return pnow;
Wrap(c) ==
  /\ call[c].pc = "wrap"
  /\ pnow' = 0
  /\ Look(c, 0, call[c].pos, "low")
  /\ UNCHANGED <<pgbits, pages, owned, alone>>

\* while (++pnow < pos) if (*pnow) return pnow;  return NULL_PTR;
ScanLow(c) ==
  /\ call[c].pc = "low"
  /\ LET v == call[c].v + 1
     IN  /\ pnow' = v
         /\ IF v < call[c].pos THEN Look(c, v, call[c].pos, "low")
                               ELSE To(c, [Idle EXCEPT !.pc = "none"])
  /\ UNCHANGED <<pgbits, pages, owned, alone>>

\* Mutant: the bit is cleared without looking at its old value.
TestAndClearBlind(c) ==
  /\ call[c].pc = "clear"
  /\ pgbits' = pgbits \ {call[c].bit}
  /\ To(c, [call[c] EXCEPT !.pc = "dec"])
  /\ UNCHANGED <<pnow, pages, owned, alone>>

\* if (test_and_clear_bit(--pos, p)): the page is the caller's.
TestAndClear(c) ==
  /\ call[c].pc = "clear"
  /\ pgbits' = pgbits \ {call[c].bit}
  /\ IF call[c].bit \in pgbits
     THEN To(c, [call[c] EXCEPT !.pc = "dec"])
     ELSE To(c, [Idle EXCEPT !.pc = "check"])
  /\ UNCHANGED <<pnow, pages, owned, alone>>

DecLoad(c) ==
  /\ call[c].pc = "dec"
  /\ To(c, [call[c] EXCEPT !.pc = "decstore", !.reg = (pages + ULONG - 1) % ULONG])
  /\ UNCHANGED <<pgbits, pnow, pages, owned, alone>>

\* Mutant: the count keeps its value.
DecStoreMissing(c) ==
  /\ call[c].pc = "decstore"
  /\ owned' = owned \cup {call[c].bit}
  /\ To(c, Idle)
  /\ UNCHANGED <<pgbits, pnow, pages, alone>>

DecStore(c) ==
  /\ call[c].pc = "decstore"
  /\ pages' = call[c].reg
  /\ owned' = owned \cup {call[c].bit}
  /\ To(c, Idle)
  /\ UNCHANGED <<pgbits, pnow, alone>>

\* return 0
ReturnZero(c) ==
  /\ call[c].pc = "none"
  /\ To(c, Idle)
  /\ UNCHANGED <<pgbits, pnow, pages, owned, alone>>

-----------------------------------------------------------------------------
(* free_phy_pages; free_phy_one_page is the case n = 1 *)

free_phy_pages(c, first, n) ==
  /\ call[c].pc = "idle" /\ first # 0 /\ first..(first + n - 1) \subseteq owned
  /\ owned' = owned \ (first..(first + n - 1))
  /\ To(c, [pc |-> "set", v |-> 0, pos |-> 0, bit |-> first, reg |-> 0, left |-> n])
  /\ Enter(c)
  /\ UNCHANGED <<pgbits, pnow, pages>>

\* Mutant: the loop frees one page too many.
FreeNextFar(k) ==
  IF k.left = 0 THEN Idle ELSE [k EXCEPT !.pc = "set", !.bit = @ + 1, !.left = @ - 1, !.reg = 0]

\* What the loop does after one page.
FreeNext(k) ==
  IF k.left = 1 THEN Idle ELSE [k EXCEPT !.pc = "set", !.bit = @ + 1, !.left = @ - 1, !.reg = 0]

\* test_and_set_bit(pos, pgbits)
TestAndSet(c) ==
  /\ call[c].pc = "set"
  /\ pgbits' = pgbits \cup {call[c].bit}
  /\ To(c, IF call[c].bit \in pgbits THEN FreeNext(call[c]) ELSE [call[c] EXCEPT !.pc = "inc"])
  /\ UNCHANGED <<pnow, pages, owned, alone>>

IncLoad(c) ==
  /\ call[c].pc = "inc"
  /\ To(c, [call[c] EXCEPT !.pc = "incstore", !.reg = (pages + 1) % ULONG])
  /\ UNCHANGED <<pgbits, pnow, pages, owned, alone>>

IncStore(c) ==
  /\ call[c].pc = "incstore"
  /\ pages' = call[c].reg
  /\ To(c, FreeNext(call[c]))
  /\ UNCHANGED <<pgbits, pnow, owned, alone>>

AllocStep(c) ==
  \/ CheckPages(c) \/ LoadNow(c) \/ ScanUp(c) \/ Wrap(c) \/ ScanLow(c)
  \/ TestAndClear(c) \/ DecLoad(c) \/ DecStore(c) \/ ReturnZero(c)

FreeStep(c) == TestAndSet(c) \/ IncLoad(c) \/ IncStore(c)

Next ==
  \E c \in CPUs :
    \/ Alloc(c) \/ AllocStep(c)
    \/ \E first \in Usable, n \in 1..2 : free_phy_pages(c, first, n)
    \/ FreeStep(c)

Spec == Init /\ [][Next]_vars

\* A CPU that is inside the allocator goes on.
FairSpec == Spec /\ \A c \in CPUs : WF_vars(AllocStep(c)) /\ WF_vars(FreeStep(c))

-----------------------------------------------------------------------------
(* Properties *)

Points == {"idle", "check", "retry", "load", "up", "wrap", "low", "clear", "dec", "decstore",
           "none", "set", "inc", "incstore", "wild"}

Calls == [pc : Points, v : Nat, pos : Nat, bit : Usable \cup {NoBit}, reg : 0..(ULONG - 1),
          left : Nat]

TypeOK ==
  /\ alone \in BOOLEAN
  /\ pgbits \subseteq Usable /\ owned \subseteq Usable
  /\ pnow \in Nat /\ pages \in 0..(ULONG - 1)
  /\ call \in [CPUs -> Calls]

\* The pages a call took out of the bitmap and did not hand over yet, and those
\* it was handed and did not put in yet.
HeldBy(k) ==
  CASE k.pc \in {"dec", "decstore"} -> {k.bit}
    [] k.pc = "set" -> k.bit..(k.bit + k.left - 1)
    [] k.pc \in {"inc", "incstore"} -> (k.bit + 1)..(k.bit + k.left - 1)
    [] OTHER -> {}

Held(c) == HeldBy(call[c])

\* No page has two owners: it is free in the bitmap, held by a caller, or in
\* the hands of one CPU inside the allocator; and none is lost.
PageHasOneOwner ==
  /\ pgbits \cap owned = {}
  /\ \A c \in CPUs : Held(c) \cap (pgbits \cup owned) = {}
  /\ \A c, d \in CPUs : c # d => Held(c) \cap Held(d) = {}
  /\ pgbits \cup owned \cup UNION {Held(c) : c \in CPUs} = Usable

\* As long as no two calls overlapped, the page count is the number of free
\* pages between two calls.
CountExact ==
  alone /\ (\A c \in CPUs : call[c].pc = "idle") => pages = Cardinality(pgbits)

\* As long as no two calls overlapped, the scan never leaves the bitmap,
\* wherever the calls before left pnow.
ScanInBounds == alone => \A c \in CPUs : call[c].pc # "wild"

\* As long as no two calls overlapped, and when the bitmap has whole words
\* only, alloc_phy_page returns 0 only when no page is free.
ZeroMeansNone ==
  alone /\ Bits % WORD = 0 => \A c \in CPUs : call[c].pc = "none" => pgbits = {}

\* "ffs(value) returns 0 if value is 0 or the position of the first set bit if
\* value is nonzero": ffs(*p) finds a bit in every word the scan returns.
FfsFindsBit == \A c \in CPUs : call[c].pc # "retry"

\* A call of alloc_phy_page returns, as long as no two calls overlapped, when
\* no page lies in the upper half of its word (there ffs does not see it).
AllocReturns ==
  \A c \in CPUs : call[c].pc = "check" ~> (call[c].pc = "idle" \/ ~alone)

\* As long as no two calls overlapped, the count of phymem.c is exact, the scan
\* stays in the bitmap, and 0 is returned only when no page is free.
PhyMemSafe == TypeOK /\ CountExact /\ ScanInBounds /\ ZeroMeansNone
=============================================================================
