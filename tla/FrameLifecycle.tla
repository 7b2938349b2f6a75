--------------------------- MODULE FrameLifecycle ---------------------------
(***************************************************************************)
(* What the firmware promises about its frame objects: each is in exactly  *)
(* one place, and moves between places only along the arrows of its life   *)
(* cycle.                                                                  *)
(*                                                                         *)
(*   pool -> rx -> queue(c) -> work(c) -> outbox -> tx -> pool             *)
(*                                                                         *)
(* A frame the host sends waits in rx, is queued for one channel, is       *)
(* worked on for that channel (and returns to the same queue if it cannot  *)
(* be sent), is echoed through the outbox and is in tx while the host      *)
(* fetches it.  A frame the device creates goes from the pool straight to  *)
(* work(c).  Queues and outbox can be purged into the pool.                *)
(***************************************************************************)
EXTENDS Integers, FiniteSets

CONSTANTS Frames, Chans, RxBufs

VARIABLE where

Pool     == <<"pool", 0>>
Rx       == <<"rx", 0>>
Queue(c) == <<"queue", c>>
Work(c)  == <<"work", c>>
Outbox   == <<"outbox", 0>>
Tx       == <<"tx", 0>>

Places == {Pool, Rx, Outbox, Tx}
            \cup {Queue(c) : c \in Chans} \cup {Work(c) : c \in Chans}

\* The arrows.
Arrows ==
  {<<Pool, Rx>>, <<Outbox, Tx>>, <<Tx, Pool>>, <<Outbox, Pool>>}
    \cup UNION {{<<Rx, Queue(c)>>, <<Queue(c), Work(c)>>, <<Work(c), Queue(c)>>,
                 <<Work(c), Outbox>>, <<Work(c), Pool>>, <<Pool, Work(c)>>,
                 <<Queue(c), Pool>>} : c \in Chans}

InPlace(p) == {f \in Frames : where[f] = p}

\* The device works on one frame at a time, offers the host one frame at a time
\* and holds RxBufs frames back for what the host sends.
Capacity ==
  /\ Cardinality(InPlace(Tx)) <= 1
  /\ Cardinality(InPlace(Rx)) <= RxBufs
  /\ Cardinality(UNION {InPlace(Work(c)) : c \in Chans}) <= 1

Init == where = [f \in Frames |-> Pool]

\* Some frames move along one arrow each.
Move ==
  /\ where' \in [Frames -> Places]
  /\ \A f \in Frames : where'[f] # where[f] => <<where[f], where'[f]>> \in Arrows
  /\ Capacity'

Spec == Init /\ [][Move]_where
=============================================================================
