------------------------------ MODULE LruQueue ------------------------------
(***************************************************************************)
(* What a least-recently-used cache with a budget promises, whatever its   *)
(* indexes: the entries in order of last use, the oldest first.  An entry  *)
(* that is used goes to the end; a new one pushes out the oldest entries,  *)
(* as few as make room for it.                                             *)
(***************************************************************************)
EXTENDS Naturals, Sequences, SequencesExt, FiniteSetsExt

CONSTANTS Oids,         \* object ids
          Size,         \* object id -> what its entry costs
          Capacity,     \* the budget
          PerEntryMax   \* an entry that costs more is never cached

VARIABLE queue

Weight(q) == MapThenSumSet(LAMBDA i : Size[q[i]], DOMAIN q)

\* The longest end of q that leaves room for o.
RoomFor(q, o) ==
    LET from == {i \in 1..Len(q) + 1 : Weight(SubSeq(q, i, Len(q))) + Size[o] <= Capacity}
    IN  IF from = {} THEN <<>> ELSE SubSeq(q, Min(from), Len(q))

Pushed(q, o) == IF Size[o] <= Capacity THEN Append(RoomFor(q, o), o) ELSE RoomFor(q, o)

Init == queue = <<>>

Use(o) ==
    \E i \in DOMAIN queue : queue[i] = o /\ queue' = Append(RemoveAt(queue, i), o)

Push(o) ==
    /\ ~Contains(queue, o)
    /\ Size[o] <= PerEntryMax
    /\ queue' = Pushed(queue, o)

Next == \E o \in Oids : Use(o) \/ Push(o)

Spec == Init /\ [][Next]_queue
=============================================================================
