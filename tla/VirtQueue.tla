----------------------------- MODULE VirtQueue -----------------------------
(***************************************************************************)
(* A virtio queue, libs/libvirtio/virtio.c: descriptors linked in a free   *)
(* list, chains of them handed to the device through the available ring,   *)
(* and taken back through the used ring.  The device is external: it takes *)
(* chains in the order they were made available and completes them in any  *)
(* order.  A call of the library is one step: it reads used->idx once, and *)
(* what it reads after that the device has written before.                 *)
(***************************************************************************)
EXTENDS Integers, Sequences, FiniteSets, FiniteSetsExt

CONSTANTS
  Buffers,       \* what callers pass as data
  NULL,
  threads,       \* dev->threads
  num_indirect,  \* indirect tables of the device
  U16            \* values of the ring indices, a multiple of every num

ASSUME VirtQueueAssumption ==
  NULL \notin Buffers /\ threads \in Nat /\ num_indirect \in Nat /\ U16 \in Nat \ {0}

VARIABLES
  num,        \* descriptors of the queue, as the device says
  desc,       \* [next, flags, table] of each descriptor
  free_num, free_head, free_tail,
  last_used,
  data,       \* by first descriptor
  avail,      \* [idx, ring]
  used,       \* [idx, ring]
  in_use,     \* the indirect tables in use
  taken,      \* device: available entries taken so far
  working,    \* device: the heads it works on
  chains,     \* history: the descriptors handed out, by buffer
  back,       \* history: the buffers completed by the device, in order
  halted      \* why the processor stopped, or "no"

dvars == <<taken, working>>
qvars == <<num, desc, free_num, free_head, free_tail, last_used, data, avail, used,
           in_use, taken, working, chains, back, halted>>

NEXT == "next"
INDIRECT == "indirect"

\* init_indirect_desc_tables: no table is in use; one that heap_alloc_4k
\* refuses is a panic.
init_indirect_desc_tables(refused) ==
  /\ in_use = {}
  /\ refused /\ num_indirect > 0 => halted = "panic"

\* init_phys_queue with n descriptors.
init_phys_queue(n) ==
  /\ num = n
  /\ desc = [i \in 0..(n - 1) |-> [next |-> (i + 1) % n, flags |-> {NEXT}, table |-> 0]]
  /\ free_num = n /\ free_head = 0 /\ free_tail = n - 1 /\ last_used = 0
  /\ data = [i \in 0..(n - 1) |-> NULL]
  /\ avail = [idx |-> 0, ring |-> [i \in 0..(n - 1) |-> 0]]
  /\ used = [idx |-> 0, ring |-> [i \in 0..(n - 1) |-> 0]]
  /\ taken = 0 /\ working = {}
  /\ chains = [b \in Buffers |-> <<>>] /\ back = <<>>

\* q->num & (q->num - 1) is zero.
PowerOfTwo(n) == n \in {2^k : k \in 0..15}

PAGE_SIZE_4K == 4096

\* init_phys_queues for queues of the sizes the device says, nomem those that
\* heap_alloc_4k refuses: the error path frees the queue that failed, once for
\* each one before it, and asserts that it has memory.  The array of data
\* has to be shorter than a page.
init_phys_queues(sizes, nomem) ==
  LET bad == {i \in DOMAIN sizes : ~PowerOfTwo(sizes[i]) \/ i \in nomem}
      large == {i \in DOMAIN sizes : sizes[i] * 8 >= PAGE_SIZE_4K}
      stop == bad \cup large
  IN  CASE stop = {} -> "ok"
        [] stop # {} /\ Min(stop) = 1 /\ 1 \in bad -> "error"
        [] OTHER -> "assert"

-----------------------------------------------------------------------------
\* The n descriptors linked one behind the other from h.
RECURSIVE Linked(_, _, _)
Linked(d, h, n) == IF n = 0 THEN <<>> ELSE <<h>> \o Linked(d, d[h].next, n - 1)

\* use_vring_desc on the chain, NEXT taken off its last one.
Chained(chain) ==
  [i \in DOMAIN desc |->
     IF \E k \in DOMAIN chain : chain[k] = i
     THEN [desc[i] EXCEPT !.flags = IF i = chain[Len(chain)] THEN {} ELSE {NEXT}]
     ELSE desc[i]]

\* set_direct_descriptors: the first n descriptors of the free list.
set_direct_descriptors(n) ==
  LET chain == Linked(desc, free_head, n)
  IN  /\ desc' = Chained(chain)
      /\ free_num' = free_num - n
      /\ free_head' = desc[chain[n]].next
      /\ UNCHANGED in_use

\* set_indirect_descriptors: one descriptor for the first unused table.
set_indirect_descriptors ==
  LET t == Min((1..num_indirect) \ in_use)
  IN  /\ in_use' = in_use \cup {t}
      /\ desc' = [desc EXCEPT ![free_head].flags = {INDIRECT}, ![free_head].table = t]
      /\ free_num' = (free_num - 1) % U16
      /\ free_head' = desc[free_head].next

\* Mutant: the old head stays the head of the free list.
virtio_to_queueSameHead(n, d) ==
  LET first == free_head
  IN  /\ desc' = Chained(Linked(desc, first, n))
      /\ free_num' = free_num - n
      /\ chains' = [chains EXCEPT ![d] = Linked(desc, first, n)]
      /\ avail' = [idx |-> (avail.idx + 1) % U16, ring |-> [avail.ring EXCEPT ![avail.idx % num] = first]]
      /\ data' = [data EXCEPT ![first] = d]
      /\ UNCHANGED <<halted, in_use, free_head>>

\* virtio_to_queue: n descriptors, or one with a table when that leaves less
\* than threads of them.
virtio_to_queue(n, d) ==
  LET first == free_head
      indirect == free_num - n < threads
      chain == IF indirect THEN <<first>> ELSE Linked(desc, first, n)
      stop == IF indirect
              THEN IF in_use = 1..num_indirect THEN "no table" ELSE "no"
              ELSE IF \E k \in DOMAIN chain : NEXT \notin desc[chain[k]].flags
                   THEN "assert" ELSE "no"
  IN  /\ halted' = stop
      /\ IF stop # "no" THEN UNCHANGED <<desc, free_num, free_head, in_use, avail, data, chains>>
         ELSE /\ IF indirect THEN set_indirect_descriptors ELSE set_direct_descriptors(n)
              /\ avail' = [idx |-> (avail.idx + 1) % U16,
                           ring |-> [avail.ring EXCEPT ![avail.idx % num] = first]]
              /\ data' = [data EXCEPT ![first] = d]
              /\ chains' = [chains EXCEPT ![d] = chain]

\* The chain from idx to the first descriptor without NEXT, <<>> if there is
\* none.  The tail of the free list has been linked to idx.
Returned(d, idx) ==
  LET walk == Linked(d, idx, num)
      ends == {k \in 1..num : NEXT \notin d[walk[k]].flags}
  IN  IF ends = {} THEN <<>> ELSE SubSeq(walk, 1, Min(ends))

used_idx == used.idx % num

\* Mutant: the chain is counted without its last descriptor.
CountShort(chain) == Len(chain) - 1

\* The descriptors a returned chain gives back.
Count(chain) == Len(chain)

\* clear_indirect_table for the descriptors of a returned chain that have one.
clear_indirect_table(d, chain) == {d[chain[k]].table : k \in DOMAIN chain} \ {0}

\* virtio_from_queue, with a completion to see.
virtio_from_queue ==
  LET id == used.ring[last_used]
      linked == [desc EXCEPT ![free_tail].next = id]
      chain == Returned(linked, id)
      tail == chain[Len(chain)]
      stop == IF data[id] = NULL THEN "assert"
              ELSE IF NEXT \notin desc[free_tail].flags THEN "assert"
              ELSE IF chain = <<>> THEN "endless"
              ELSE IF free_num + Count(chain) > num THEN "assert" ELSE "no"
  IN  /\ last_used # used_idx
      /\ last_used' = (last_used + 1) % num
      /\ halted' = stop
      /\ IF stop # "no" THEN UNCHANGED <<desc, free_num, free_tail, in_use, data, chains>>
         ELSE /\ desc' = [i \in DOMAIN desc |->
                            IF i = tail THEN [next |-> free_head, flags |-> {NEXT}, table |-> 0]
                            ELSE linked[i]]
              /\ free_tail' = tail
              /\ free_num' = free_num + Count(chain)
              /\ in_use' = in_use \ clear_indirect_table(linked, chain)
              /\ data' = [data EXCEPT ![id] = NULL]
              /\ chains' = [chains EXCEPT ![data[id]] = <<>>]
      /\ back' = IF stop = "no" THEN Tail(back) ELSE back
      /\ UNCHANGED <<num, free_head, avail, used, taken, working>>

-----------------------------------------------------------------------------
\* The device takes the next available chain,
DeviceTakes ==
  /\ taken # avail.idx
  /\ taken' = (taken + 1) % U16
  /\ working' = working \cup {avail.ring[taken % num]}
  /\ UNCHANGED <<num, desc, free_num, free_head, free_tail, last_used, data, avail, used,
                 in_use, chains, back, halted>>

\* and completes one it works on.
DeviceCompletes ==
  \E h \in working :
    /\ working' = working \ {h}
    /\ used' = [idx |-> (used.idx + 1) % U16, ring |-> [used.ring EXCEPT ![used.idx % num] = h]]
    /\ back' = Append(back, data[h])
    /\ UNCHANGED <<num, desc, free_num, free_head, free_tail, last_used, data, avail, in_use,
                   taken, chains, halted>>

-----------------------------------------------------------------------------
\* Properties

InFlight == {b \in Buffers : chains[b] # <<>>}

\* Every descriptor is in the free list or in one chain handed out, in one
\* place: the list ends at free_tail, and every chain
\* is still linked as it was handed out, so the device sees its buffers.
DescriptorsPartitioned ==
  LET list == Linked(desc, free_head, free_num)
      free == {list[k] : k \in 1..free_num}
      out == {{chains[b][k] : k \in DOMAIN chains[b]} : b \in InFlight}
  IN  /\ free_num \in 1..num /\ Cardinality(free) = free_num
      /\ list[free_num] = free_tail
      /\ \A i \in free : desc[i].flags = {NEXT}
      /\ free \cap UNION out = {} /\ free \cup UNION out = DOMAIN desc
      /\ \A b, c \in InFlight : b # c =>
           {chains[b][k] : k \in DOMAIN chains[b]} \cap {chains[c][k] : k \in DOMAIN chains[c]} = {}
      /\ \A b \in InFlight : Returned(desc, chains[b][1]) = chains[b]

\* The completions a driver has not seen are the ones last_used is behind by:
\* none is missed or seen twice, and each gives back the buffer it was made
\* available with.
CompletionsSeen ==
  /\ Len(back) = (used_idx - last_used) % num
  /\ \A k \in DOMAIN back : data[used.ring[(last_used + k - 1) % num]] = back[k]
=============================================================================
