----------------------------- MODULE VirtioNet -----------------------------
(***************************************************************************)
(* The network driver module/drivers/net/virtio/virtio_net.c on its        *)
(* receive queue, and the library below it under any other driver that     *)
(* never hands out the last free descriptor.  The transmit queue is never  *)
(* given a packet.  The timer that runs vn_timeout is external: it fires   *)
(* again and again, as vn_timeout arms it before it does anything else.    *)
(***************************************************************************)
EXTENDS VirtQueue, SequencesExt

CONSTANTS
  BUF_PACKETS,
  QueueSizes,    \* the sizes a device may say
  AnySize,       \* the queue of the other drivers
  ChainSizes,    \* the buffers they pass at once
  MaxAdds        \* bound: how many times they do

ASSUME VirtioNetAssumption == BUF_PACKETS \in Nat \ {0} /\ Buffers = 0..(BUF_PACKETS - 1)

VARIABLES
  driver,     \* "net" or "any"
  sizes,      \* the sizes of the queues
  nomem,      \* the queues, or TABLES, that the heap has no memory for
  pc,         \* "refill", "wait" or "check"
  free_list, recv_list,
  in_rx,
  adds        \* chains the other driver has added

nvars == <<driver, sizes, nomem, pc, free_list, recv_list, in_rx, adds>>
vars == <<qvars, nvars>>

RX_Q == 1
TX_Q == 2
TABLES == 3

\* virtio_net_init_queues: every packet is put at the head of free_list.
virtio_net_init_queues == [k \in 1..BUF_PACKETS |-> BUF_PACKETS - k]

\* init_virtio_net up to the refill: the indirect tables (a panic without
\* them), then the queues.  It does not look at what virtio_alloc_queues
\* returns; without queues the first packet added faults.
init_virtio_net ==
  /\ driver = "net" /\ pc = "refill"
  /\ sizes \in [{RX_Q, TX_Q} -> QueueSizes]
  /\ nomem \in SUBSET {RX_Q, TX_Q, TABLES}
  /\ LET r == init_phys_queues(sizes, nomem)
     IN  /\ halted = CASE TABLES \in nomem -> "panic"
                       [] TABLES \notin nomem /\ r = "error" -> "fault"
                       [] TABLES \notin nomem /\ r = "ok" -> "no"
                       [] OTHER -> r
         /\ init_indirect_desc_tables(TABLES \in nomem)
         /\ init_phys_queue(IF r = "ok" THEN sizes[RX_Q] ELSE 1)
  /\ free_list = virtio_net_init_queues /\ recv_list = <<>> /\ in_rx = 0 /\ adds = 0

AnyInit ==
  /\ driver = "any" /\ pc = "wait" /\ sizes = [q \in {RX_Q, TX_Q} |-> AnySize]
  /\ nomem = {}
  /\ halted = "no" /\ init_indirect_desc_tables(FALSE) /\ init_phys_queue(AnySize)
  /\ free_list = <<>> /\ recv_list = <<>> /\ in_rx = 0 /\ adds = 0

Init == init_virtio_net \/ AnyInit

-----------------------------------------------------------------------------
running == halted = "no"

\* One round of virtio_net_refill_rx_queue, or its end and device_ready.
virtio_net_refill_rx_queue ==
  /\ running /\ driver = "net" /\ pc = "refill"
  /\ IF in_rx < BUF_PACKETS \div 2 /\ free_list # <<>>
     THEN /\ virtio_to_queue(2, Head(free_list))
          /\ free_list' = Tail(free_list)
          /\ in_rx' = in_rx + 1
          /\ UNCHANGED <<num, free_tail, last_used, used, dvars, back, driver, sizes, nomem, pc, recv_list, adds>>
     ELSE pc' = "wait" /\ UNCHANGED <<qvars, driver, sizes, nomem, free_list, recv_list, in_rx, adds>>

\* Mutant: the timer is not armed again once a packet has come in.
vn_timeoutOnce ==
  /\ running /\ driver = "net" /\ pc = "wait" /\ recv_list = <<>>
  /\ pc' = "check"
  /\ UNCHANGED <<qvars, driver, sizes, nomem, free_list, recv_list, in_rx, adds>>

\* The timer runs vn_timeout, which arms it again and checks the queues.
vn_timeout ==
  /\ running /\ driver = "net" /\ pc = "wait"
  /\ pc' = "check"
  /\ UNCHANGED <<qvars, driver, sizes, nomem, free_list, recv_list, in_rx, adds>>

\* One round of virtio_net_check_queues, or its end.
virtio_net_check_queues ==
  /\ running /\ pc = "check"
  /\ \/ /\ virtio_from_queue
        /\ recv_list' = Append(recv_list, data[used.ring[last_used]])
        /\ in_rx' = in_rx - 1
        /\ UNCHANGED <<driver, sizes, nomem, pc, free_list, adds>>
     \/ /\ last_used = used_idx
        /\ pc' = "wait"
        /\ UNCHANGED <<qvars, driver, sizes, nomem, free_list, recv_list, in_rx, adds>>

\* Any other driver adds a chain that leaves a descriptor free and finds a
\* table if it needs one (which buffer it takes makes no difference),
AnyAdds ==
  \E n \in ChainSizes :
    LET b == Min(Buffers \ InFlight) IN
    /\ running /\ driver = "any" /\ adds < MaxAdds
    /\ IF free_num - n < threads THEN free_num > 1 /\ in_use # 1..num_indirect
       ELSE free_num > n
    /\ virtio_to_queue(n, b)
    /\ adds' = adds + 1
    /\ UNCHANGED <<num, free_tail, last_used, used, dvars, back,
                   driver, sizes, nomem, pc, free_list, recv_list, in_rx>>

\* and takes what has been completed.
AnyTakes ==
  /\ running /\ driver = "any"
  /\ virtio_from_queue
  /\ UNCHANGED nvars

\* The device works once the driver is ready.
Device ==
  /\ running /\ pc # "refill"
  /\ DeviceTakes \/ DeviceCompletes
  /\ UNCHANGED nvars

Next ==
  \/ virtio_net_refill_rx_queue \/ vn_timeout \/ virtio_net_check_queues
  \/ AnyAdds \/ AnyTakes \/ Device

\* The refill goes on, the timer fires again and the check goes on; other
\* drivers poll.
Fairness ==
  /\ WF_vars(virtio_net_refill_rx_queue)
  /\ WF_vars(vn_timeout)
  /\ WF_vars(virtio_net_check_queues)
  /\ WF_vars(AnyTakes)

Spec == Init /\ [][Next]_vars /\ Fairness

-----------------------------------------------------------------------------
\* Properties

\* What the driver takes for granted and does not check: every queue has a
\* size that is a power of two and its memory, the tables have theirs, and the
\* receive queue is longer than what the refill adds.
Roomy ==
  /\ TABLES \notin nomem /\ init_phys_queues(sizes, nomem) = "ok"
  /\ driver = "net" => sizes[RX_Q] > 2 * (BUF_PACKETS \div 2)

\* With room, every descriptor of virtio_to_queue and virtio_from_queue is in
\* the free list or in one chain handed out, and in one place only.
RoomyPartitioned == Roomy => DescriptorsPartitioned

\* With room, no ASSERT of the library fails, a table is there when it wants
\* one, and the walk of virtio_from_queue ends.
RoomyRuns == Roomy => halted = "no"

\* With room, virtio_from_queue misses no completion, sees none twice and
\* gives back the buffer virtio_to_queue was given for it.
RoomyCompletions == Roomy => CompletionsSeen

\* With room, virtio_to_queue and virtio_from_queue lose and duplicate nothing
\* and never stop the kernel.
QueueKept == RoomyPartitioned /\ RoomyRuns /\ RoomyCompletions

\* A packet of virtio_net is free, received or with the device, and in_rx
\* counts those with the device.
PacketsConserved ==
  (Roomy /\ driver = "net") =>
    LET lists == free_list \o recv_list
    IN  /\ Cardinality(Range(lists)) = Len(lists)
        /\ Range(lists) \cap InFlight = {} /\ Range(lists) \cup InFlight = Buffers
        /\ in_rx = Cardinality(InFlight)

\* The driver catches up with the device, although only a timer makes
\* virtio_net look: what has been completed is collected.
CompletionsCollected == (Roomy /\ back # <<>>) ~> (back = <<>>)
=============================================================================
