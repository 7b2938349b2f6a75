---------------------------- MODULE FrameQueues ----------------------------
(***************************************************************************)
(* What the users of src/include/list.h rely on: each list is a sequence   *)
(* of frames, and an operation on one frame or one list leaves the order   *)
(* of all others alone.                                                    *)
(***************************************************************************)
EXTENDS Naturals, Sequences, SequencesExt

CONSTANTS Frames, Heads, Pool, ToHost

VARIABLE queue   \* the frames of each list, first to last

Init == queue = [h \in Heads |-> <<>>]

\* The frames on some list.
Listed(q) == UNION {ToSet(q[h]) : h \in Heads}

\* A frame on no list is added.
AddLast(q, f, h)  == [q EXCEPT ![h] = Append(@, f)]
AddFirst(q, f, h) == [q EXCEPT ![h] = <<f>> \o @]

\* The first frame is taken off.
Take(q, h) == [q EXCEPT ![h] = Tail(@)]

\* All frames go to the end of the pool, in their order.
Flush(q, h) == [q EXCEPT ![h] = <<>>, ![Pool] = @ \o q[h]]

\* One frame, wherever it is in the list to the host, goes to the end of the pool.
Drop(q, i) == [q EXCEPT ![ToHost] = RemoveAt(@, i), ![Pool] = Append(@, q[ToHost][i])]

\* What one operation can make of the lists q.
After(q) ==
  {AddLast(q, f, h) : f \in Frames \ Listed(q), h \in Heads}
    \cup {AddFirst(q, f, h) : f \in Frames \ Listed(q), h \in Heads}
    \cup {Take(q, h) : h \in {g \in Heads : q[g] # <<>>}}
    \cup {Flush(q, h) : h \in Heads \ {Pool}}
    \cup {Drop(q, i) : i \in DOMAIN q[ToHost]}

Next == \E q \in {queue} : queue' \in After(q)

Spec == Init /\ [][Next]_queue
=============================================================================
