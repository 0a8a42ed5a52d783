---------------------------- MODULE RequestQueue -----------------------------
(***************************************************************************)
(* The buffer of model/myprotocol4-rqueue.{h,cc}: a vector of data packets *)
(* waiting for the position of their destination.  The vector is the set   *)
(* of its entries [packet, dst, expire, ticket] in the order of their      *)
(* tickets: push_back appends because tickets are given out in order.      *)
(***************************************************************************)
EXTENDS Naturals, FiniteSets

CONSTANTS
  MaxQueueLen,   \* m_maxLen (64 in the code)
  QueueTimeout   \* m_queueTimeout (30 s in the code)

\* Mutants, used by no specification: the newest for the oldest; no Purge; the
\* limit off by one; a flush that erases nothing.
FrontIsBack(queue) == CHOOSE e \in queue : \A f \in queue : f.ticket <= e.ticket
PurgeNothing(queue, now) == queue
RoomLate(queue) ==
  IF Cardinality(queue) > MaxQueueLen
    THEN queue \ {CHOOSE e \in queue : \A f \in queue : e.ticket <= f.ticket} ELSE queue
WithoutErase(queue, dst, now) == {e \in queue : e.expire >= now}

\* front () of the vector, and of what the vector holds for one destination.
Front(queue) == CHOOSE e \in queue : \A f \in queue : e.ticket <= f.ticket
ForDst(queue, dst) == {e \in queue : e.dst = dst}

\* Purge: IsExpired is "GetExpireTime () < 0", so an entry survives its last tick.
PurgeQueue(queue, now) == {e \in queue : e.expire >= now}

\* A full queue loses its oldest entry.
Room(queue) == IF Cardinality(queue) = MaxQueueLen THEN queue \ {Front(queue)} ELSE queue

\* Mutant, used by no specification: Now is added by Enqueue and by SetExpireTime.
EnqueueLate(queue, packet, dst, ticket, now) ==
  LET live == PurgeQueue(queue, now) IN
  IF \E e \in live : e.packet = packet /\ e.dst = dst
    THEN live
    ELSE Room(live) \cup {[packet |-> packet, dst |-> dst,
                           expire |-> now + now + QueueTimeout, ticket |-> ticket]}

\* Enqueue refuses a packet it holds.
Enqueue(queue, packet, dst, ticket, now) ==
  LET live == PurgeQueue(queue, now) IN
  IF \E e \in live : e.packet = packet /\ e.dst = dst
    THEN live
    ELSE Room(live) \cup
           {[packet |-> packet, dst |-> dst, expire |-> now + QueueTimeout, ticket |-> ticket]}

\* Find looks at expired entries too: it does not purge.
Find(queue, dst) == ForDst(queue, dst) # {}

\* What DropPacketWithDst leaves, and what is left once Dequeue returns false.
WithoutDst(queue, dst, now) ==
  LET live == PurgeQueue(queue, now) IN live \ ForDst(live, dst)
==============================================================================
