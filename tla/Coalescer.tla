------------------------------ MODULE Coalescer ------------------------------
(***************************************************************************)
(* `Coalescer::do_or_join` of projgit-core/src/fetcher/coalesce.rs: one    *)
(* execution of `f` per key at a time, everybody else waits on a condition *)
(* variable for its result.                                                *)
(*                                                                         *)
(* Two locks are involved, the map's and the slot's; each critical section *)
(* is one action.  Between them other threads run, and that is where the   *)
(* interesting behaviours are: the leader publishes under the slot's lock  *)
(* and evicts the slot from the map later, under the map's lock.           *)
(***************************************************************************)
EXTENDS Naturals

CONSTANTS Threads,    \* threads that call do_or_join
          Keys,       \* keys
          Results,    \* what f may return: Ok(v), Err(string)
          MaxCalls,   \* bound on the calls one thread makes
          NoSlot,     \* no entry in the map
          Pending     \* SlotState::Pending

ASSUME ConstantsAssumption ==
    /\ MaxCalls \in Nat
    /\ NoSlot \notin Threads \X (1..MaxCalls)
    /\ Pending \notin Results

\* An Arc<Slot> is named by the call that allocates it.
Slots == Threads \X (1..MaxCalls)

VARIABLES
    inflight,   \* the map: key -> slot, or NoSlot
    state,      \* SlotState of every slot: Pending or the result in Done(_)
    pc,         \* where the thread is in do_or_join
    key,        \* the `key` argument of its current (or last) call
    slot,       \* the local `slot` of its current (or last) call
    result,     \* the leader's local `result`
    seen,       \* the slot whose result the thread's last finished call returned
    calls       \* calls made so far

vars == <<inflight, state, pc, key, slot, result, seen, calls>>

PC == {"idle",      \* outside do_or_join
       "enter",     \* about to lock the map
       "run",       \* leader, executing f
       "publish",   \* leader, about to lock the slot and store the result
       "evict",     \* leader, about to lock the map and remove the slot
       "wait",      \* follower, about to lock the slot and look at its state
       "asleep"}    \* follower, in Condvar::wait

Init ==
    /\ inflight = [k \in Keys |-> NoSlot]
    /\ state = [s \in Slots |-> Pending]
    /\ pc = [t \in Threads |-> "idle"]
    /\ key \in [Threads -> Keys]
    /\ slot = [t \in Threads |-> NoSlot]
    /\ result = [t \in Threads |-> Pending]
    /\ seen = [t \in Threads |-> NoSlot]
    /\ calls = [t \in Threads |-> 0]

Call(t, k) ==
    /\ pc[t] = "idle"
    /\ calls[t] < MaxCalls
    /\ pc' = [pc EXCEPT ![t] = "enter"]
    /\ key' = [key EXCEPT ![t] = k]
    /\ calls' = [calls EXCEPT ![t] = @ + 1]
    /\ UNCHANGED <<inflight, state, slot, result, seen>>

\* Under the map's lock: no entry, so insert a fresh Pending slot and lead.
LeadMutantNoInsert(t) ==
    /\ pc[t] = "enter"
    /\ inflight[key[t]] = NoSlot
    /\ slot' = [slot EXCEPT ![t] = <<t, calls[t]>>]
    /\ pc' = [pc EXCEPT ![t] = "run"]
    /\ UNCHANGED <<inflight, state, key, result, seen, calls>>

Lead(t) ==
    /\ pc[t] = "enter"
    /\ inflight[key[t]] = NoSlot
    /\ inflight' = [inflight EXCEPT ![key[t]] = <<t, calls[t]>>]
    /\ slot' = [slot EXCEPT ![t] = <<t, calls[t]>>]
    /\ pc' = [pc EXCEPT ![t] = "run"]
    /\ UNCHANGED <<state, key, result, seen, calls>>

\* Under the map's lock: there is an entry, so take a reference and follow.
Join(t) ==
    /\ pc[t] = "enter"
    /\ inflight[key[t]] # NoSlot
    /\ slot' = [slot EXCEPT ![t] = inflight[key[t]]]
    /\ pc' = [pc EXCEPT ![t] = "wait"]
    /\ UNCHANGED <<inflight, state, key, result, seen, calls>>

\* f returns r.  No lock is held while f runs.
FReturns(t, r) ==
    /\ pc[t] = "run"
    /\ result' = [result EXCEPT ![t] = r]
    /\ pc' = [pc EXCEPT ![t] = "publish"]
    /\ UNCHANGED <<inflight, state, key, slot, seen, calls>>

\* notify_all: every thread asleep on slot s is about to look again.
Awakened(s) == [u \in Threads |-> IF pc[u] = "asleep" /\ slot[u] = s THEN "wait" ELSE pc[u]]

\* Under the slot's lock: store Done(result) and wake the followers.
PublishMutantNotifyOne(t) ==
    /\ pc[t] = "publish"
    /\ state' = [state EXCEPT ![slot[t]] = result[t]]
    /\ LET sleepers == {u \in Threads : pc[u] = "asleep" /\ slot[u] = slot[t]}
       IN IF sleepers = {} THEN pc' = [pc EXCEPT ![t] = "evict"]
          ELSE \E u \in sleepers : pc' = [pc EXCEPT ![t] = "evict", ![u] = "wait"]
    /\ UNCHANGED <<inflight, key, slot, result, seen, calls>>

Publish(t) ==
    /\ pc[t] = "publish"
    /\ state' = [state EXCEPT ![slot[t]] = result[t]]
    /\ pc' = [Awakened(slot[t]) EXCEPT ![t] = "evict"]
    /\ UNCHANGED <<inflight, key, slot, result, seen, calls>>

\* Under the map's lock: remove the key; the leader returns its result.
EvictMutantNoRemove(t) ==
    /\ pc[t] = "evict"
    /\ seen' = [seen EXCEPT ![t] = slot[t]]
    /\ pc' = [pc EXCEPT ![t] = "idle"]
    /\ UNCHANGED <<inflight, state, key, slot, result, calls>>

Evict(t) ==
    /\ pc[t] = "evict"
    /\ inflight' = [inflight EXCEPT ![key[t]] = NoSlot]
    /\ seen' = [seen EXCEPT ![t] = slot[t]]
    /\ pc' = [pc EXCEPT ![t] = "idle"]
    /\ UNCHANGED <<state, key, slot, result, calls>>

\* Under the slot's lock: the slot is Pending, so release the lock and sleep.
SleepMutantUnlocked(t) ==
    /\ pc[t] = "wait"
    /\ pc' = [pc EXCEPT ![t] = "asleep"]
    /\ UNCHANGED <<inflight, state, key, slot, result, seen, calls>>

Sleep(t) ==
    /\ pc[t] = "wait"
    /\ state[slot[t]] = Pending
    /\ pc' = [pc EXCEPT ![t] = "asleep"]
    /\ UNCHANGED <<inflight, state, key, slot, result, seen, calls>>

\* Condvar::wait may return without a notification; the `while` looks again.
SpuriousWakeup(t) ==
    /\ pc[t] = "asleep"
    /\ pc' = [pc EXCEPT ![t] = "wait"]
    /\ UNCHANGED <<inflight, state, key, slot, result, seen, calls>>

\* Under the slot's lock: the slot is Done, so return a clone of the result.
Follow(t) ==
    /\ pc[t] = "wait"
    /\ state[slot[t]] # Pending
    /\ seen' = [seen EXCEPT ![t] = slot[t]]
    /\ pc' = [pc EXCEPT ![t] = "idle"]
    /\ UNCHANGED <<inflight, state, key, slot, result, calls>>

FReturnsSome(t) == \E r \in Results : FReturns(t, r)

Next == \E t \in Threads :
    \/ \E k \in Keys : Call(t, k)
    \/ Lead(t)
    \/ Join(t)
    \/ FReturnsSome(t)
    \/ Publish(t)
    \/ Evict(t)
    \/ Sleep(t)
    \/ SpuriousWakeup(t)
    \/ Follow(t)

\* Threads run; f returns (the fetchers bound their retries).  No thread has to
\* call, and no wakeup that nobody sent has to happen.
Fairness == \A t \in Threads :
    /\ WF_vars(Lead(t) \/ Join(t))
    /\ WF_vars(FReturnsSome(t))
    /\ WF_vars(Publish(t))
    /\ WF_vars(Evict(t))
    /\ WF_vars(Sleep(t) \/ Follow(t))

Spec == Init /\ [][Next]_vars /\ Fairness

-----------------------------------------------------------------------------
(* Type invariant: the map holds slots of past calls, a slot is Pending or *)
(* holds a result, a thread is at a step of do_or_join.                    *)
TypeOK ==
    /\ inflight \in [Keys -> Slots \cup {NoSlot}]
    /\ state \in [Slots -> Results \cup {Pending}]
    /\ pc \in [Threads -> PC]
    /\ key \in [Threads -> Keys]
    /\ slot \in [Threads -> Slots \cup {NoSlot}]
    /\ result \in [Threads -> Results \cup {Pending}]
    /\ seen \in [Threads -> Slots \cup {NoSlot}]
    /\ calls \in [Threads -> 0..MaxCalls]

Leading(t) == pc[t] \in {"run", "publish", "evict"}
Following(t) == pc[t] \in {"wait", "asleep"}

(* "Exactly one execution of f" (coalesce.rs, module comment): two threads *)
(* never execute f, nor publish, nor evict, for one key at the same time.  *)
(* A leader that evicted the entry of another leader would break it.       *)
OneExecutionPerKey ==
    \A t, u \in Threads : Leading(t) /\ Leading(u) /\ key[t] = key[u] => t = u

(* No follower is left behind: a thread that sleeps on a slot has a leader *)
(* that is still to publish that very slot, so a notification is still to  *)
(* come.  Needs the state check and the sleep to be one critical section,  *)
(* and notify_all rather than notify_one.                                  *)
NoLostWakeup ==
    \A t \in Threads : pc[t] = "asleep" =>
        \E l \in Threads : pc[l] \in {"run", "publish"} /\ slot[l] = slot[t]

(* What a caller gets is the result of an execution of f that finished:    *)
(* the slot a call returns from is Done.  A wakeup nobody sent must not    *)
(* make a follower return.                                                 *)
ReturnsAfterDone ==
    \A t \in Threads : seen[t] # NoSlot => state[seen[t]] # Pending

(* A result is given once: a slot that is Done never changes (followers    *)
(* that look at different times get clones of one result).                 *)
DoneIsFinal == [][\A s \in Slots : state[s] # Pending => state'[s] = state[s]]_vars

(* Every call of do_or_join returns.                                       *)
EveryCallReturns == \A t \in Threads : pc[t] = "enter" ~> pc[t] = "idle"

-----------------------------------------------------------------------------
(* The refinement: outcome is the slot's state; sleeping, and holding the  *)
(* result before it is published, are invisible.                           *)
Phase(t) == CASE pc[t] = "idle" -> "idle"
              [] pc[t] = "enter" -> "called"
              [] Leading(t) -> "leader"
              [] OTHER -> "follower"

SF == INSTANCE SingleFlight WITH
        NoFlight <- NoSlot, open <- inflight, outcome <- state,
        phase <- [t \in Threads |-> Phase(t)], flight <- slot

(* The coalescer implements the single-flight specification, its fairness  *)
(* included.                                                               *)
ImplementsSingleFlight == SF!Spec
=============================================================================
