----------------------------- MODULE FrameLists -----------------------------
(***************************************************************************)
(* The doubly linked lists of src/include/list.h as the firmware uses      *)
(* them: rings of pointers through the list heads and the frame objects.   *)
(* Every operation runs with interrupts disabled, so it is one action; the *)
(* loop that purges one channel's frames from the list to the host is one  *)
(* action per turn.                                                        *)
(***************************************************************************)
EXTENDS Naturals, Sequences, FiniteSets

CONSTANTS
  Frames,        \* the list_head in each frame object
  Heads,         \* the list heads: the pool, the list to the host, one per channel
  Pool, ToHost,  \* list_frame_pool, list_to_host
  Channels,      \* channel numbers
  None           \* no list, no channel

ASSUME CellsAssumption ==
  /\ Frames \cap Heads = {} /\ None \notin Frames \cup Heads \cup Channels
  /\ Pool \in Heads /\ ToHost \in Heads /\ Pool # ToHost

Cells == Frames \cup Heads

VARIABLES
  next, prev,   \* the pointers; those of a frame on no list are stale
  on,           \* history: the list a frame was put on, or None
  chan,         \* frame.channel
  purging,      \* the channel whose frames are being purged, or None
  iter, after   \* the loop of the purge: iter and next

pointers == <<next, prev>>
loopVars == <<purging, iter, after>>
vars == <<pointers, on, chan, loopVars>>

-----------------------------------------------------------------------------
(* list.h. *)

\* linux_list_add: new between p and n.
LinkBetween(new, p, n) ==
  /\ next' = [next EXCEPT ![new] = n, ![p] = new]
  /\ prev' = [prev EXCEPT ![new] = p, ![n] = new]

\* Mutant: the pointer back is left.
UnlinkForward(f) ==
  /\ next' = [next EXCEPT ![prev[f]] = next[f]]
  /\ UNCHANGED prev

\* list_del: the neighbours of f are linked, f keeps its pointers.
Unlink(f) ==
  /\ next' = [next EXCEPT ![prev[f]] = next[f]]
  /\ prev' = [prev EXCEPT ![next[f]] = prev[f]]

\* list_move_tail to another list.
MoveTail(f, h) ==
  /\ next' = [next EXCEPT ![prev[f]] = next[f], ![f] = h, ![prev[h]] = f]
  /\ prev' = [prev EXCEPT ![next[f]] = prev[f], ![f] = prev[h], ![h] = f]

\* Mutant: list_splice_init, in front of what h has.
SpliceHead(l, h) ==
  /\ next' = [next EXCEPT ![h] = next[l], ![prev[l]] = next[h], ![l] = l]
  /\ prev' = [prev EXCEPT ![next[l]] = h, ![next[h]] = prev[l], ![l] = l]

\* list_splice_tail_init, of a list that is not empty: the ring of l without l
\* itself in front of h.
SpliceTail(l, h) ==
  /\ next' = [next EXCEPT ![prev[h]] = next[l], ![prev[l]] = h, ![l] = l]
  /\ prev' = [prev EXCEPT ![next[l]] = prev[h], ![h] = prev[l], ![l] = l]

-----------------------------------------------------------------------------
(* The firmware. *)

\* main: INIT_LIST_HEAD of every list.  The frames are added to the pool next.
Init ==
  /\ next = [c \in Cells |-> c] /\ prev = [c \in Cells |-> c]
  /\ on = [f \in Frames |-> None]
  /\ chan \in [Frames -> Channels]
  /\ purging = None /\ iter = ToHost /\ after = ToHost

Idle == purging = None

\* list_add_tail; a frame for the host is written for channel c before.
AddTail(f, h, c) ==
  /\ Idle /\ on[f] = None
  /\ h # ToHost => c = chan[f]
  /\ LinkBetween(f, prev[h], h)
  /\ on' = [on EXCEPT ![f] = h] /\ chan' = [chan EXCEPT ![f] = c]
  /\ UNCHANGED loopVars

\* list_add: back to where it was taken from.
AddFront(f, h) ==
  /\ Idle /\ on[f] = None
  /\ LinkBetween(f, h, next[h])
  /\ on' = [on EXCEPT ![f] = h]
  /\ UNCHANGED <<chan, loopVars>>

\* list_first_entry_or_null, list_del.
TakeFirst(h) ==
  /\ Idle /\ next[h] # h
  /\ Unlink(next[h])
  /\ on' = [on EXCEPT ![next[h]] = None]
  /\ UNCHANGED <<chan, loopVars>>

\* usbd_gs_can_purge_from_host_list_by_channel; with a single channel the list to
\* the host is purged in the same way.
Flush(h) ==
  /\ Idle /\ h # Pool /\ (h = ToHost => Cardinality(Channels) = 1)
  /\ next[h] # h
  /\ SpliceTail(h, Pool)
  /\ on' = [f \in Frames |-> IF on[f] = h THEN Pool ELSE on[f]]
  /\ UNCHANGED <<chan, loopVars>>

\* usbd_gs_can_purge_to_host_list_by_channel: list_for_each_entry_safe begins.
PurgeBegin(c) ==
  /\ Idle /\ Cardinality(Channels) > 1
  /\ purging' = c
  /\ iter' = next[ToHost] /\ after' = next[next[ToHost]]
  /\ UNCHANGED <<pointers, on, chan>>

\* The body: list_move_tail of this channel's frames.
PurgeBody ==
  IF chan[iter] = purging
  THEN /\ MoveTail(iter, Pool)
       /\ on' = [on EXCEPT ![iter] = Pool]
  ELSE UNCHANGED <<pointers, on>>

\* Mutant: the entry after one that is moved is left out.
PurgeStepSkips ==
  /\ ~Idle /\ iter \in Frames
  /\ PurgeBody
  /\ iter' = IF chan[iter] = purging THEN next'[after] ELSE after
  /\ after' = next'[iter']
  /\ UNCHANGED <<purging, chan>>

\* Mutant: list_for_each_entry, which goes on from the entry that was moved.
PurgeStepUnsafe ==
  /\ ~Idle /\ iter # ToHost
  /\ IF iter \in Frames THEN PurgeBody ELSE UNCHANGED <<pointers, on>>
  /\ iter' = next'[iter] /\ after' = next'[iter']
  /\ UNCHANGED <<purging, chan>>

\* One turn: the body may have moved iter, so next is read before and its
\* successor after it.
PurgeStep ==
  /\ ~Idle /\ iter # ToHost
  /\ PurgeBody
  /\ iter' = after /\ after' = next'[after]
  /\ UNCHANGED <<purging, chan>>

PurgeEnd ==
  /\ ~Idle /\ iter = ToHost
  /\ purging' = None
  /\ UNCHANGED <<pointers, on, chan, iter, after>>

Purge == PurgeStep \/ PurgeEnd

Next ==
  \/ \E f \in Frames, h \in Heads : AddFront(f, h) \/ \E c \in Channels : AddTail(f, h, c)
  \/ \E h \in Heads : TakeFirst(h) \/ Flush(h)
  \/ \E c \in Channels : PurgeBegin(c)
  \/ Purge

Spec == Init /\ [][Next]_vars

\* The purge runs in the interrupt handler, to its end.
FairSpec == Spec /\ WF_vars(Purge)

-----------------------------------------------------------------------------
(* Properties. *)

\* The list a cell belongs to.
Owner(c) == IF c \in Heads THEN c ELSE on[c]

Linked == {c \in Cells : Owner(c) # None}

TypeOK ==
  /\ next \in [Cells -> Cells] /\ prev \in [Cells -> Cells]
  /\ on \in [Frames -> Heads \cup {None}]
  /\ chan \in [Frames -> Channels]
  /\ purging \in Channels \cup {None} /\ iter \in Cells /\ after \in Cells

\* The cells of a list form a ring in both directions; no pointer of one leads to
\* another list, or to a frame that somebody else owns.
Ring ==
  \A c \in Linked :
    /\ Owner(next[c]) = Owner(c) /\ prev[next[c]] = c
    /\ Owner(prev[c]) = Owner(c) /\ next[prev[c]] = c

\* The loop of the purge stays on the list to the host, whatever it moves.
LoopOnList ==
  purging # None =>
    Owner(iter) = ToHost /\ (iter # ToHost => after = next[iter])

WellLinked == TypeOK /\ Ring /\ LoopOnList

\* Round the list h with the frames s: the head, the frames, the head again.
At(h, s, i) == IF i \in 1 .. Len(s) THEN s[i] ELSE h

\* The pointers nx lead from the head along the frames s and back to the head.
Follows(nx, h, s) == \A i \in 0 .. Len(s) : nx[At(h, s, i)] = At(h, s, i + 1)

\* The frames of a list, first to last.
On(h) == {f \in Frames : on[f] = h}
Walk(h) == CHOOSE s \in [1 .. Cardinality(On(h)) -> On(h)] : Follows(next, h, s)

\* Every operation on pointers does to the list what its name says, and nothing
\* to another list (module FrameQueues).
Queues == INSTANCE FrameQueues WITH Frames <- Frames, Heads <- Heads, Pool <- Pool, ToHost <- ToHost, queue <- [h \in Heads |-> Walk(h)]
ImplementsQueues == Queues!Spec

\* "Iterate over each object" (usbd_gs_can.c:239): at the end of the purge no
\* frame of the channel is left in the list to the host.
PurgeComplete ==
  purging # None /\ iter = ToHost => \A f \in Frames : on[f] = ToHost => chan[f] # purging

\* The purge ends, although it changes the list it walks along.
PurgeEnds == purging # None ~> purging = None
=============================================================================
