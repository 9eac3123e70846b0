------------------------------ MODULE BatchPool ------------------------------
(***************************************************************************)
(* The pool of `git cat-file --batch-check` children of GitCliFetcher      *)
(* (projgit-core/src/fetcher/git_cli.rs: BatchChild, BatchChildPool,       *)
(* PoolGuard) and the round trip its two users share: acquire a slot,      *)
(* query its child, read the answers, tear the child down on an I/O error  *)
(* and try once more.                                                      *)
(*                                                                         *)
(* An actor is a thread inside raw_fetch or prefetch_headers.  The scan    *)
(* for a free slot is not atomic: each try_lock is a step.  The pipes are  *)
(* unbounded here; BatchPipe.tla bounds them.                              *)
(***************************************************************************)
EXTENDS Naturals, Sequences, Functions

CONSTANTS Actors,      \* threads that use the pool
          Oids,        \* object ids
          Upstream,    \* the objects the promisor remote can deliver
          PoolSize,    \* K, the number of slots
          Requests,    \* what a caller may ask for: non-empty sequences of object ids
          MaxFaults,   \* bound on child exits and I/O errors
          MaxRefusals, \* bound on failing spawns
          NoOne        \* the owner of a free slot

ASSUME PoolAssumption ==
    /\ PoolSize \in Nat \ {0}
    /\ MaxFaults \in Nat
    /\ MaxRefusals \in Nat
    /\ Upstream \subseteq Oids
    /\ Requests \subseteq Seq(Oids) \ {<<>>}
    /\ NoOne \notin Actors

Slots == 0 .. PoolSize - 1

\* One answer line: `<sha> <type> <size>` or `<sha> missing`.
Lines == [oid : Oids, kind : {"header", "missing"}]

VARIABLES
    next,       \* the round-robin counter, modulo PoolSize
    owner,      \* slot -> the actor that holds its mutex
    child,      \* slot -> its child: status, unanswered requests, unread answers
    disk,       \* objects in the local object database
    faults,     \* child exits and I/O errors so far
    refusals,   \* failed spawns so far
    op,         \* actor -> where it is in the round trip
    start,      \* actor -> its round-robin starting slot
    tried,      \* actor -> slots tried in this scan
    mine,       \* actor -> the slot it holds (held, sent)
    want,       \* actor -> the objects it asks for
    got,        \* actor -> the answers it has read in this attempt
    attempt     \* actor -> 1 or 2

vars == <<next, owner, child, disk, faults, refusals, op, start, tried, mine, want, got,
              attempt>>

NoChild == [status |-> "none", in |-> <<>>, out |-> <<>>]
Children == [status : {"none", "alive", "dead"}, in : Seq(Oids), out : Seq(Lines)]

Ops == {"none",        \* outside a round trip
        "acquire",     \* about to advance the counter
        "scan",        \* in the try_lock pass
        "block",       \* every slot was busy: waiting for the starting slot
        "held",        \* holds a slot, has asked nothing yet
        "sent",        \* holds a slot, has written its requests
        "abandoned",   \* left without asking (raw_fetch's double check)
        "answered",    \* has every answer; the slot is released
        "exhausted",   \* two I/O errors
        "unspawned"}   \* the child could not be started

Over == {"abandoned", "answered", "exhausted", "unspawned"}

OidsOf(lines) == [i \in DOMAIN lines |-> lines[i].oid]

Init ==
    /\ next = 0
    /\ owner = [s \in Slots |-> NoOne]
    /\ child = [s \in Slots |-> NoChild]
    /\ disk = {}
    /\ faults = 0
    /\ refusals = 0
    /\ op = [a \in Actors |-> "none"]
    /\ start = [a \in Actors |-> 0]
    /\ tried = [a \in Actors |-> 0]
    /\ mine = [a \in Actors |-> 0]
    /\ want = [a \in Actors |-> <<>>]
    /\ got = [a \in Actors |-> <<>>]
    /\ attempt = [a \in Actors |-> 1]

-----------------------------------------------------------------------------
(* The caller's side.                                                      *)

\* raw_fetch or prefetch_headers enters its retry loop to ask for w.
Begin(a, w) ==
    /\ op[a] = "none"
    /\ op' = [op EXCEPT ![a] = "acquire"]
    /\ want' = [want EXCEPT ![a] = w]
    /\ UNCHANGED <<next, owner, child, disk, faults, refusals, start, tried, mine, got, attempt>>

\* next.fetch_add(1) % n
Acquire(a) ==
    /\ op[a] = "acquire"
    /\ start' = [start EXCEPT ![a] = next]
    /\ next' = (next + 1) % PoolSize
    /\ tried' = [tried EXCEPT ![a] = 0]
    /\ op' = [op EXCEPT ![a] = "scan"]
    /\ UNCHANGED <<owner, child, disk, faults, refusals, mine, want, got, attempt>>

Probe(a) == (start[a] + tried[a]) % PoolSize

\* Take slot s: the MutexGuard now belongs to a.
Lock(a, s) ==
    /\ owner[s] = NoOne
    /\ owner' = [owner EXCEPT ![s] = a]
    /\ mine' = [mine EXCEPT ![a] = s]
    /\ op' = [op EXCEPT ![a] = "held"]
    /\ UNCHANGED <<next, child, disk, faults, refusals, start, tried, want, got, attempt>>

TryLock(a) == op[a] = "scan" /\ Lock(a, Probe(a))

TryLockBusy(a) ==
    /\ op[a] = "scan"
    /\ owner[Probe(a)] # NoOne
    /\ tried' = [tried EXCEPT ![a] = @ + 1]
    /\ op' = [op EXCEPT ![a] = IF tried[a] + 1 = PoolSize THEN "block" ELSE "scan"]
    /\ UNCHANGED <<next, owner, child, disk, faults, refusals, start, mine, want, got, attempt>>

\* Every slot was busy when it was tried: slots[start].lock().
LockStart(a) == op[a] = "block" /\ Lock(a, start[a])

\* The guard is dropped.
Release(a) == owner' = [owner EXCEPT ![mine[a]] = NoOne]

\* The double check of raw_fetch found the object: return without asking.
AbandonMutantKeepsSlot(a) ==
    /\ op[a] = "held"
    /\ op' = [op EXCEPT ![a] = "abandoned"]
    /\ UNCHANGED <<owner, next, child, disk, faults, refusals, start, tried, mine, want, got,
                   attempt>>

Abandon(a) ==
    /\ op[a] = "held"
    /\ Release(a)
    /\ op' = [op EXCEPT ![a] = "abandoned"]
    /\ UNCHANGED <<next, child, disk, faults, refusals, start, tried, mine, want, got, attempt>>

\* with_child: start the child if the slot has none, then write the requests.  A
\* dead child takes nothing: the write, or the read after it, fails (IoFails).
Query(a) ==
    /\ op[a] = "held"
    /\ child' = [child EXCEPT ![mine[a]] =
          IF @.status = "dead" THEN @
          ELSE [status |-> "alive", in |-> @.in \o want[a], out |-> @.out]]
    /\ op' = [op EXCEPT ![a] = "sent"]
    /\ UNCHANGED <<next, owner, disk, faults, refusals, start, tried, mine, want, got, attempt>>

\* with_child: the child cannot be started.  No second attempt.
SpawnFails(a) ==
    /\ op[a] = "held"
    /\ child[mine[a]].status = "none"
    /\ refusals < MaxRefusals
    /\ refusals' = refusals + 1
    /\ Release(a)
    /\ op' = [op EXCEPT ![a] = "unspawned"]
    /\ UNCHANGED <<next, child, disk, faults, start, tried, mine, want, got, attempt>>

\* read_line returns one line; with the last one the guard is dropped.
ReadLine(a) ==
    LET s == mine[a]
        last == Len(got[a]) + 1 = Len(want[a])
    IN  /\ op[a] = "sent"
        /\ child[s].out # <<>>
        /\ got' = [got EXCEPT ![a] = Append(@, Head(child[s].out))]
        /\ child' = [child EXCEPT ![s].out = Tail(@)]
        /\ owner' = IF last THEN [owner EXCEPT ![s] = NoOne] ELSE owner
        /\ op' = [op EXCEPT ![a] = IF last THEN "answered" ELSE @]
        /\ UNCHANGED <<next, disk, faults, refusals, start, tried, mine, want, attempt>>

\* A write or a read fails: end of file from a dead child, or any other error.  The
\* slot's child is dropped (stdin is closed and the child waited for, so a living
\* child first serves what it was sent), the guard too; there are two attempts.
IoFailsMutantNoReset(a) ==
    LET s == mine[a] IN
    /\ op[a] = "sent"
    /\ \/ /\ child[s].status = "dead"
          /\ child[s].out = <<>>
          /\ UNCHANGED faults
       \/ /\ child[s].status = "alive"
          /\ faults < MaxFaults
          /\ faults' = faults + 1
    /\ Release(a)
    /\ got' = [got EXCEPT ![a] = <<>>]
    /\ attempt' = [attempt EXCEPT ![a] = 2]
    /\ op' = [op EXCEPT ![a] = IF attempt[a] = 1 THEN "acquire" ELSE "exhausted"]
    /\ UNCHANGED <<next, child, disk, refusals, start, tried, mine, want>>

IoFails(a) ==
    LET s == mine[a] IN
    /\ op[a] = "sent"
    /\ \/ /\ child[s].status = "dead"
          /\ child[s].out = <<>>
          /\ UNCHANGED faults
       \/ /\ child[s].status = "alive"
          /\ faults < MaxFaults
          /\ faults' = faults + 1
    /\ disk' = disk \cup (Range(child[s].in) \cap Upstream)
    /\ child' = [child EXCEPT ![s] = NoChild]
    /\ Release(a)
    /\ got' = [got EXCEPT ![a] = <<>>]
    /\ attempt' = [attempt EXCEPT ![a] = 2]
    /\ op' = [op EXCEPT ![a] = IF attempt[a] = 1 THEN "acquire" ELSE "exhausted"]
    /\ UNCHANGED <<next, refusals, start, tried, mine, want>>

\* The caller has used the outcome of the round trip; its locals go out of scope.
Finish(a) ==
    /\ op[a] \in Over
    /\ op' = [op EXCEPT ![a] = "none"]
    /\ start' = [start EXCEPT ![a] = 0]
    /\ tried' = [tried EXCEPT ![a] = 0]
    /\ mine' = [mine EXCEPT ![a] = 0]
    /\ want' = [want EXCEPT ![a] = <<>>]
    /\ got' = [got EXCEPT ![a] = <<>>]
    /\ attempt' = [attempt EXCEPT ![a] = 1]
    /\ UNCHANGED <<next, owner, child, disk, faults, refusals>>

-----------------------------------------------------------------------------
(* The child's side (external: git).                                       *)

\* One request: an object that is not local is fetched from the promisor remote.
Serve(s) ==
    /\ child[s].status = "alive"
    /\ child[s].in # <<>>
    /\ LET o == Head(child[s].in)
           there == o \in disk \cup Upstream
       IN  /\ disk' = IF there THEN disk \cup {o} ELSE disk
           /\ child' = [child EXCEPT ![s].in = Tail(@),
                                     ![s].out = Append(@, [oid |-> o,
                                        kind |-> IF there THEN "header" ELSE "missing"])]
    /\ UNCHANGED <<next, owner, faults, refusals, op, start, tried, mine, want, got, attempt>>

\* The child dies (killed, or git gives up on the remote), idle or in mid-batch; what
\* it has written can still be read.
Exit(s) ==
    /\ child[s].status = "alive"
    /\ faults < MaxFaults
    /\ faults' = faults + 1
    /\ child' = [child EXCEPT ![s].status = "dead", ![s].in = <<>>]
    /\ UNCHANGED <<next, owner, disk, refusals, op, start, tried, mine, want, got, attempt>>

-----------------------------------------------------------------------------
\* The steps an actor takes by itself between Begin and the end of its round trip.
Progress(a) ==
    \/ Acquire(a)
    \/ TryLock(a)
    \/ TryLockBusy(a)
    \/ LockStart(a)
    \/ Query(a)
    \/ SpawnFails(a)
    \/ ReadLine(a)
    \/ IoFails(a)

\* Any actor may start a round trip; a caller that holds a slot may find that it
\* no longer needs to ask.
Next ==
    \/ \E a \in Actors :
        \/ \E w \in Requests : Begin(a, w)
        \/ Progress(a)
        \/ Abandon(a)
        \/ Finish(a)
    \/ \E s \in Slots : Serve(s) \/ Exit(s)

\* Threads run and children answer.  Weak fairness of a blocked lock() is all that
\* std::sync::Mutex gives: a slot that keeps changing hands may never reach a waiter.
Fairness ==
    /\ \A a \in Actors : WF_vars(Progress(a)) /\ WF_vars(Finish(a))
    /\ \A s \in Slots : WF_vars(Serve(s))

Spec == Init /\ [][Next]_vars /\ Fairness

-----------------------------------------------------------------------------
(* Type invariant. *)
TypeOK ==
    /\ next \in Slots
    /\ owner \in [Slots -> Actors \cup {NoOne}]
    /\ child \in [Slots -> Children]
    /\ disk \subseteq Oids
    /\ faults \in 0..MaxFaults
    /\ refusals \in 0..MaxRefusals
    /\ op \in [Actors -> Ops]
    /\ start \in [Actors -> Slots]
    /\ tried \in [Actors -> 0..PoolSize]
    /\ mine \in [Actors -> Slots]
    /\ want \in [Actors -> Seq(Oids)]
    /\ got \in [Actors -> Seq(Lines)]
    /\ attempt \in [Actors -> {1, 2}]

Holding(a) == op[a] \in {"held", "sent"}

(* A slot's mutex is held exactly by the actor that is using its child: no *)
(* early return, error or retry leaves a slot locked, and no two actors    *)
(* talk to one child.                                                      *)
SlotsHeldExactly ==
    \A s \in Slots : \A a \in Actors : owner[s] = a <=> Holding(a) /\ mine[a] = s

(* What is in a child's pipes belongs to the actor that holds the slot: a  *)
(* child nobody waits for has nothing unread, and one somebody waits for   *)
(* owes exactly the answers that actor has not read yet, in its order (a   *)
(* dead one may owe less).  This is why an I/O error must drop the child.  *)
PipesInStep ==
    \A s \in Slots :
        LET ahead == OidsOf(child[s].out) \o child[s].in IN
        IF \E a \in Actors : op[a] = "sent" /\ mine[a] = s
        THEN \A a \in Actors : op[a] = "sent" /\ mine[a] = s =>
               LET all == OidsOf(got[a]) \o ahead IN
               /\ Len(got[a]) < Len(want[a])
               /\ all = SubSeq(want[a], 1, Len(all))
               /\ child[s].status = "alive" => Len(all) = Len(want[a])
               /\ child[s].status # "none"
        ELSE ahead = <<>>

(* One line per request, in request order: a finished round trip has, for  *)
(* every object it asked for, the answer about that object, and the answer *)
(* is true: "header" only for an object that is in the object database,    *)
(* "missing" only for one the remote cannot deliver.                       *)
AnswersMatchRequests ==
    \A a \in Actors : op[a] = "answered" =>
        /\ OidsOf(got[a]) = want[a]
        /\ \A i \in DOMAIN got[a] :
              IF got[a][i].kind = "header" THEN got[a][i].oid \in disk
                                           ELSE got[a][i].oid \notin Upstream
=============================================================================
