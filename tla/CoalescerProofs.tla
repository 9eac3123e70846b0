--------------------------- MODULE CoalescerProofs ---------------------------
(***************************************************************************)
(* Theorems about Coalescer, for any number of threads, keys and calls.    *)
(*                                                                         *)
(* The inductive invariant says what ties the map, the slots and the       *)
(* threads together: a leader's entry is in the map and is its own, every  *)
(* entry has a leader, a slot becomes Done exactly when its leader         *)
(* publishes, and a follower of a Pending slot has a leader to wait for.   *)
(***************************************************************************)
EXTENDS Coalescer, TLAPS

\* A leader's slot is the one its call allocated, it is in the map under the
\* leader's key, and it is Pending until the leader has published.
LeaderOwnsEntry ==
    \A t \in Threads : Leading(t) =>
        /\ slot[t] = <<t, calls[t]>>
        /\ inflight[key[t]] = slot[t]
        /\ pc[t] = "evict" <=> state[slot[t]] # Pending
        /\ pc[t] = "publish" => result[t] \in Results

\* Every entry of the map has a leader at work on its key.
EntryHasLeader ==
    \A k \in Keys : inflight[k] # NoSlot =>
        \E t \in Threads : Leading(t) /\ key[t] = k /\ slot[t] = inflight[k]

\* A follower has a slot; as long as it is Pending a leader is still to publish it.
\* Only a Pending slot is slept on.
FollowerHasLeader ==
    \A t \in Threads : Following(t) =>
        /\ slot[t] \in Slots
        /\ state[slot[t]] = Pending =>
              \E l \in Threads : pc[l] \in {"run", "publish"} /\ slot[l] = slot[t]
        /\ pc[t] = "asleep" => state[slot[t]] = Pending

\* The slots that calls to come will allocate are untouched.
FreshSlotsPending ==
    \A t \in Threads : \A n \in 1..MaxCalls :
        n > calls[t] \/ (n = calls[t] /\ pc[t] = "enter") => state[<<t, n>>] = Pending

\* A thread inside do_or_join has made a call.
InsideACall == \A t \in Threads : pc[t] # "idle" => calls[t] > 0

CoalescerInv ==
    /\ TypeOK
    /\ LeaderOwnsEntry
    /\ EntryHasLeader
    /\ FollowerHasLeader
    /\ FreshSlotsPending
    /\ InsideACall
    /\ ReturnsAfterDone

-----------------------------------------------------------------------------
(* The initial state of a new Coalescer satisfies the invariant.           *)
LEMMA InitInv == Init => CoalescerInv
<1> SUFFICES ASSUME Init PROVE CoalescerInv
    OBVIOUS
<1> USE ConstantsAssumption DEF Init
<1>1. TypeOK
    BY DEF TypeOK, PC, Slots
<1>2. LeaderOwnsEntry /\ FollowerHasLeader /\ InsideACall
    BY DEF LeaderOwnsEntry, FollowerHasLeader, InsideACall, Leading, Following
<1>3. EntryHasLeader
    BY DEF EntryHasLeader
<1>4. FreshSlotsPending
    BY DEF FreshSlotsPending, Slots
<1>5. ReturnsAfterDone
    BY DEF ReturnsAfterDone
<1> QED
    BY <1>1, <1>2, <1>3, <1>4, <1>5 DEF CoalescerInv

(* The step of a caller that enters do_or_join.                            *)
LEMMA CallInv ==
    ASSUME CoalescerInv, NEW t \in Threads, NEW k \in Keys, Call(t, k)
    PROVE  CoalescerInv'
<1> USE ConstantsAssumption DEF CoalescerInv, Call
<1>1. TypeOK'
    BY DEF TypeOK, PC
<1>2. LeaderOwnsEntry'
    BY DEF LeaderOwnsEntry, Leading, TypeOK, PC
<1>3. EntryHasLeader'
    BY DEF EntryHasLeader, Leading, TypeOK, PC
<1>4. FollowerHasLeader'
    BY DEF FollowerHasLeader, Following, TypeOK, PC
<1>5. FreshSlotsPending'
    BY DEF FreshSlotsPending, TypeOK
<1>6. InsideACall' /\ ReturnsAfterDone'
    BY DEF InsideACall, ReturnsAfterDone, TypeOK
<1> QED
    BY <1>1, <1>2, <1>3, <1>4, <1>5, <1>6

(* The step of a call that finds no entry: it inserts its slot and leads.  *)
LEMMA LeadInv ==
    ASSUME CoalescerInv, NEW t \in Threads, Lead(t)
    PROVE  CoalescerInv'
<1> USE ConstantsAssumption DEF CoalescerInv, Lead
<1>0. <<t, calls[t]>> \in Slots /\ calls[t] \in 1..MaxCalls
    BY DEF TypeOK, InsideACall, Slots
<1>1. TypeOK'
    BY <1>0 DEF TypeOK, PC
<1>2. LeaderOwnsEntry'
    <2> SUFFICES ASSUME NEW u \in Threads, Leading(u)'
                 PROVE  /\ slot'[u] = <<u, calls'[u]>>
                        /\ inflight'[key'[u]] = slot'[u]
                        /\ pc'[u] = "evict" <=> state'[slot'[u]] # Pending
                        /\ pc'[u] = "publish" => result'[u] \in Results
        BY DEF LeaderOwnsEntry
    <2>1. CASE u = t
        BY <1>0, <2>1 DEF TypeOK, FreshSlotsPending
    <2>2. CASE u # t
        <3>1. slot[u] \in Slots /\ slot[u] = <<u, calls[u]>> /\ inflight[key[u]] = slot[u]
            BY <2>2 DEF TypeOK, LeaderOwnsEntry, Leading, InsideACall, Slots
        <3>2. key[u] # key[t]
            BY <3>1 DEF Slots
        <3> QED
            BY <2>2, <3>1, <3>2 DEF TypeOK, LeaderOwnsEntry, Leading
    <2> QED
        BY <2>1, <2>2
<1>3. EntryHasLeader'
    BY DEF EntryHasLeader, Leading, TypeOK, PC
<1>4. FollowerHasLeader'
    BY DEF FollowerHasLeader, Following, TypeOK, PC
<1>5. FreshSlotsPending'
    BY DEF FreshSlotsPending, TypeOK
<1>6. InsideACall' /\ ReturnsAfterDone'
    BY DEF InsideACall, ReturnsAfterDone, TypeOK
<1> QED
    BY <1>1, <1>2, <1>3, <1>4, <1>5, <1>6

(* The step of a call that finds an entry: it follows that entry's leader. *)
LEMMA JoinInv ==
    ASSUME CoalescerInv, NEW t \in Threads, Join(t)
    PROVE  CoalescerInv'
<1> USE ConstantsAssumption DEF CoalescerInv, Join
<1>0. inflight[key[t]] \in Slots
    BY DEF TypeOK
<1>1. TypeOK'
    BY <1>0 DEF TypeOK, PC
<1>2. LeaderOwnsEntry'
    BY DEF LeaderOwnsEntry, Leading, TypeOK, PC
<1>3. EntryHasLeader'
    BY DEF EntryHasLeader, Leading, TypeOK, PC
<1>4. FollowerHasLeader'
    <2>1. PICK l \in Threads : Leading(l) /\ key[l] = key[t] /\ slot[l] = inflight[key[t]]
        BY DEF EntryHasLeader, TypeOK
    <2>2. l # t /\ (state[slot[l]] = Pending => pc[l] \in {"run", "publish"})
        BY <2>1 DEF LeaderOwnsEntry, Leading
    <2> QED
        BY <1>0, <2>1, <2>2 DEF FollowerHasLeader, Following, TypeOK, PC
<1>5. FreshSlotsPending'
    BY DEF FreshSlotsPending, TypeOK
<1>6. InsideACall' /\ ReturnsAfterDone'
    BY DEF InsideACall, ReturnsAfterDone, TypeOK
<1> QED
    BY <1>1, <1>2, <1>3, <1>4, <1>5, <1>6

(* f returns: only the leader's own locals change.                         *)
LEMMA FReturnsInv ==
    ASSUME CoalescerInv, NEW t \in Threads, NEW r \in Results, FReturns(t, r)
    PROVE  CoalescerInv'
<1> USE ConstantsAssumption DEF CoalescerInv, FReturns
<1>1. TypeOK'
    BY DEF TypeOK, PC
<1>2. LeaderOwnsEntry'
    BY DEF LeaderOwnsEntry, Leading, TypeOK, PC
<1>3. EntryHasLeader'
    BY DEF EntryHasLeader, Leading, TypeOK, PC
<1>4. FollowerHasLeader'
    BY DEF FollowerHasLeader, Following, TypeOK, PC
<1>5. FreshSlotsPending'
    BY DEF FreshSlotsPending, TypeOK
<1>6. InsideACall' /\ ReturnsAfterDone'
    BY DEF InsideACall, ReturnsAfterDone, TypeOK
<1> QED
    BY <1>1, <1>2, <1>3, <1>4, <1>5, <1>6

(* The leader publishes: its slot becomes Done and nobody sleeps on it any *)
(* more.  The other slots, and those who wait for them, are not concerned. *)
LEMMA PublishInv ==
    ASSUME CoalescerInv, NEW t \in Threads, Publish(t)
    PROVE  CoalescerInv'
<1> USE ConstantsAssumption DEF CoalescerInv, Publish
<1>0. /\ slot[t] = <<t, calls[t]>> /\ slot[t] \in Slots
      /\ result[t] \in Results
      /\ state[slot[t]] = Pending
    <2>1. /\ slot[t] = <<t, calls[t]>>
          /\ pc[t] = "evict" <=> state[slot[t]] # Pending
          /\ result[t] \in Results
        BY DEF LeaderOwnsEntry, Leading
    <2>2. slot[t] \in Slots
        BY <2>1 DEF TypeOK, InsideACall, Slots
    <2> QED
        BY <2>1, <2>2
<1>a. pc' \in [Threads -> PC] /\ pc'[t] = "evict"
    BY DEF TypeOK, Awakened, PC
<1>b. \A u \in Threads \ {t} :
          pc'[u] = IF pc[u] = "asleep" /\ slot[u] = slot[t] THEN "wait" ELSE pc[u]
    BY DEF TypeOK, Awakened
<1>1. TypeOK'
    BY <1>0, <1>a DEF TypeOK
<1>2. LeaderOwnsEntry'
    <2> SUFFICES ASSUME NEW u \in Threads, Leading(u)'
                 PROVE  /\ slot'[u] = <<u, calls'[u]>>
                        /\ inflight'[key'[u]] = slot'[u]
                        /\ pc'[u] = "evict" <=> state'[slot'[u]] # Pending
                        /\ pc'[u] = "publish" => result'[u] \in Results
        BY DEF LeaderOwnsEntry
    <2>1. CASE u = t
        BY <1>0, <1>a, <2>1 DEF LeaderOwnsEntry, Leading, TypeOK
    <2>2. CASE u # t
        <3>1. pc'[u] = pc[u] /\ Leading(u)
            BY <1>b, <2>2 DEF Leading
        <3>2. slot[u] = <<u, calls[u]>> /\ slot[u] # slot[t]
            BY <1>0, <2>2, <3>1 DEF LeaderOwnsEntry
        <3>3. state'[slot[u]] = state[slot[u]]
            BY <1>0, <3>1, <3>2 DEF TypeOK, InsideACall, Leading, Slots
        <3> QED
            BY <3>1, <3>2, <3>3 DEF LeaderOwnsEntry
    <2> QED
        BY <2>1, <2>2
<1>3. EntryHasLeader'
    BY <1>a, <1>b DEF EntryHasLeader, Leading
<1>4. FollowerHasLeader'
    <2> SUFFICES ASSUME NEW u \in Threads, Following(u)'
                 PROVE  /\ slot'[u] \in Slots
                        /\ state'[slot'[u]] = Pending =>
                              \E l \in Threads : pc'[l] \in {"run", "publish"} /\ slot'[l] = slot'[u]
                        /\ pc'[u] = "asleep" => state'[slot'[u]] = Pending
        BY DEF FollowerHasLeader
    <2>1. u # t /\ Following(u) /\ slot'[u] = slot[u] /\ slot[u] \in Slots
        BY <1>a, <1>b DEF Following, FollowerHasLeader
    <2>2. CASE slot[u] = slot[t]
        BY <1>0, <1>b, <2>1, <2>2 DEF TypeOK
    <2>3. CASE slot[u] # slot[t]
        <3>1. state'[slot[u]] = state[slot[u]] /\ pc'[u] = pc[u]
            BY <1>0, <1>b, <2>1, <2>3 DEF TypeOK
        <3>2. ASSUME state[slot[u]] = Pending
              PROVE  \E l \in Threads : pc'[l] \in {"run", "publish"} /\ slot'[l] = slot[u]
            <4>1. PICK l \in Threads : pc[l] \in {"run", "publish"} /\ slot[l] = slot[u]
                BY <2>1, <3>2 DEF FollowerHasLeader
            <4> QED
                BY <1>b, <2>3, <4>1
        <3> QED
            BY <2>1, <3>1, <3>2 DEF FollowerHasLeader
    <2> QED
        BY <2>2, <2>3
<1>5. FreshSlotsPending'
    <2> SUFFICES ASSUME NEW u \in Threads, NEW n \in 1..MaxCalls,
                        n > calls[u] \/ (n = calls[u] /\ pc'[u] = "enter")
                 PROVE  state'[<<u, n>>] = Pending
        BY DEF FreshSlotsPending
    <2>1. n > calls[u] \/ (n = calls[u] /\ pc[u] = "enter")
        BY <1>a, <1>b
    <2>2. <<u, n>> # slot[t]
        BY <1>0, <2>1 DEF TypeOK
    <2> QED
        BY <1>0, <2>1, <2>2 DEF FreshSlotsPending, TypeOK, Slots
<1>6. InsideACall'
    BY <1>a, <1>b DEF InsideACall
<1>7. ReturnsAfterDone'
    BY <1>0 DEF ReturnsAfterDone, TypeOK
<1> QED
    BY <1>1, <1>2, <1>3, <1>4, <1>5, <1>6, <1>7

(* The leader evicts its entry, which is its own, and returns.             *)
LEMMA EvictInv ==
    ASSUME CoalescerInv, NEW t \in Threads, Evict(t)
    PROVE  CoalescerInv'
<1> USE ConstantsAssumption DEF CoalescerInv, Evict
<1>0. slot[t] = <<t, calls[t]>> /\ inflight[key[t]] = slot[t] /\ state[slot[t]] # Pending
    BY DEF LeaderOwnsEntry, Leading
<1>1. TypeOK'
    BY DEF TypeOK, PC
<1>2. LeaderOwnsEntry'
    <2> SUFFICES ASSUME NEW u \in Threads, Leading(u)'
                 PROVE  /\ slot'[u] = <<u, calls'[u]>>
                        /\ inflight'[key'[u]] = slot'[u]
                        /\ pc'[u] = "evict" <=> state'[slot'[u]] # Pending
                        /\ pc'[u] = "publish" => result'[u] \in Results
        BY DEF LeaderOwnsEntry
    <2>1. u # t /\ Leading(u)
        BY DEF Leading, TypeOK
    <2>2. key[u] # key[t]
        BY <1>0, <2>1 DEF LeaderOwnsEntry
    <2> QED
        BY <2>1, <2>2 DEF LeaderOwnsEntry, TypeOK
<1>3. EntryHasLeader'
    <2> SUFFICES ASSUME NEW k \in Keys, inflight'[k] # NoSlot
                 PROVE  \E u \in Threads : Leading(u)' /\ key'[u] = k /\ slot'[u] = inflight'[k]
        BY DEF EntryHasLeader
    <2>1. k # key[t] /\ inflight'[k] = inflight[k]
        BY DEF TypeOK
    <2>2. PICK u \in Threads : Leading(u) /\ key[u] = k /\ slot[u] = inflight[k]
        BY <2>1 DEF EntryHasLeader
    <2> QED
        BY <2>1, <2>2 DEF Leading, TypeOK
<1>4. FollowerHasLeader'
    BY <1>0 DEF FollowerHasLeader, Following, TypeOK, PC
<1>5. FreshSlotsPending'
    BY DEF FreshSlotsPending, TypeOK
<1>6. InsideACall' /\ ReturnsAfterDone'
    BY <1>0 DEF InsideACall, ReturnsAfterDone, TypeOK
<1> QED
    BY <1>1, <1>2, <1>3, <1>4, <1>5, <1>6

(* The three steps of a follower: sleep on a Pending slot, wake up for no  *)
(* reason, return from a Done one.                                         *)
LEMMA FollowerInv ==
    ASSUME CoalescerInv, NEW t \in Threads, Sleep(t) \/ SpuriousWakeup(t) \/ Follow(t)
    PROVE  CoalescerInv'
<1> USE ConstantsAssumption DEF CoalescerInv, Sleep, SpuriousWakeup, Follow
<1>0. Following(t) /\ slot[t] \in Slots
    BY DEF FollowerHasLeader, Following
<1>1. TypeOK'
    BY DEF TypeOK, PC
<1>2. LeaderOwnsEntry'
    BY DEF LeaderOwnsEntry, Leading, TypeOK, PC
<1>3. EntryHasLeader'
    BY DEF EntryHasLeader, Leading, TypeOK, PC
<1>4. FollowerHasLeader'
    BY DEF FollowerHasLeader, Following, TypeOK, PC
<1>5. FreshSlotsPending'
    BY DEF FreshSlotsPending, TypeOK
<1>6. InsideACall' /\ ReturnsAfterDone'
    BY <1>0 DEF InsideACall, ReturnsAfterDone, TypeOK
<1> QED
    BY <1>1, <1>2, <1>3, <1>4, <1>5, <1>6

(* Every step of do_or_join preserves the invariant.                       *)
LEMMA NextInv == CoalescerInv /\ [Next]_vars => CoalescerInv'
<1> SUFFICES ASSUME CoalescerInv, [Next]_vars PROVE CoalescerInv'
    OBVIOUS
<1>1. CASE UNCHANGED vars
    BY <1>1 DEF vars, CoalescerInv, TypeOK, LeaderOwnsEntry, EntryHasLeader, FollowerHasLeader,
                FreshSlotsPending, InsideACall, ReturnsAfterDone, Leading, Following
<1>2. ASSUME NEW t \in Threads, NEW k \in Keys, Call(t, k) PROVE CoalescerInv'
    BY <1>2, CallInv
<1>3. ASSUME NEW t \in Threads, Lead(t) PROVE CoalescerInv'
    BY <1>3, LeadInv
<1>4. ASSUME NEW t \in Threads, Join(t) PROVE CoalescerInv'
    BY <1>4, JoinInv
<1>5. ASSUME NEW t \in Threads, FReturnsSome(t) PROVE CoalescerInv'
    BY <1>5, FReturnsInv DEF FReturnsSome
<1>6. ASSUME NEW t \in Threads, Publish(t) PROVE CoalescerInv'
    BY <1>6, PublishInv
<1>7. ASSUME NEW t \in Threads, Evict(t) PROVE CoalescerInv'
    BY <1>7, EvictInv
<1>8. ASSUME NEW t \in Threads, Sleep(t) \/ SpuriousWakeup(t) \/ Follow(t) PROVE CoalescerInv'
    BY <1>8, FollowerInv
<1> QED
    BY <1>1, <1>2, <1>3, <1>4, <1>5, <1>6, <1>7, <1>8 DEF Next

(* The inductive invariant holds in every reachable state.                 *)
LEMMA SpecInv == Spec => []CoalescerInv
    BY InitInv, NextInv, PTL DEF Spec

-----------------------------------------------------------------------------
(* Type correctness of do_or_join's state.                                 *)
THEOREM TypeCorrectness == Spec => []TypeOK
<1>1. CoalescerInv => TypeOK
    BY DEF CoalescerInv
<1> QED
    BY <1>1, SpecInv, PTL

(* One execution of f per key, for any number of threads and keys: two     *)
(* leaders of a key would both own the key's one entry in the map.         *)
THEOREM SingleExecution == Spec => []OneExecutionPerKey
<1>1. CoalescerInv => OneExecutionPerKey
    <2> SUFFICES ASSUME CoalescerInv, NEW t \in Threads, NEW u \in Threads,
                        Leading(t), Leading(u), key[t] = key[u]
                 PROVE  t = u
        BY DEF OneExecutionPerKey
    <2>1. <<t, calls[t]>> = <<u, calls[u]>>
        BY DEF CoalescerInv, LeaderOwnsEntry
    <2> QED
        BY <2>1
<1> QED
    BY <1>1, SpecInv, PTL

(* A sleeping follower always has a leader that is still to wake it.       *)
THEOREM WakeupsAreNotLost == Spec => []NoLostWakeup
<1>1. CoalescerInv => NoLostWakeup
    BY DEF CoalescerInv, NoLostWakeup, FollowerHasLeader, Following
<1> QED
    BY <1>1, SpecInv, PTL

(* A call returns only what a finished execution of f has produced.        *)
THEOREM ResultsAreDone == Spec => []ReturnsAfterDone
<1>1. CoalescerInv => ReturnsAfterDone
    BY DEF CoalescerInv
<1> QED
    BY <1>1, SpecInv, PTL

(* The result in a slot never changes once it is there.                    *)
THEOREM ResultsAreFinal == Spec => DoneIsFinal
<1>1. CoalescerInv /\ [Next]_vars =>
        [\A s \in Slots : state[s] # Pending => state'[s] = state[s]]_vars
    <2> SUFFICES ASSUME CoalescerInv, [Next]_vars, NEW s \in Slots, state[s] # Pending
                 PROVE  state'[s] = state[s]
        OBVIOUS
    <2>1. ASSUME NEW t \in Threads, Publish(t) PROVE state'[s] = state[s]
        <3>1. state[slot[t]] = Pending
            BY <2>1 DEF Publish, CoalescerInv, LeaderOwnsEntry, Leading
        <3> QED
            BY <2>1, <3>1 DEF Publish, CoalescerInv, TypeOK
    <2> QED
        BY <2>1 DEF Next, vars, Call, Lead, Join, FReturnsSome, FReturns, Evict, Sleep,
                    SpuriousWakeup, Follow
<1> QED
    BY <1>1, SpecInv, PTL DEF Spec, DoneIsFinal

-----------------------------------------------------------------------------
(* The refinement mapping's phase, one step at a time: a step that moves   *)
(* one thread changes one thread's phase.                                  *)
phaseMap == [t \in Threads |-> Phase(t)]

\* A step of thread t that leaves the others alone changes at most the phase of t.
LEMMA PhaseOfStep ==
    ASSUME NEW t \in Threads, NEW v, pc \in [Threads -> PC], pc' = [pc EXCEPT ![t] = v]
    PROVE  /\ \A u \in Threads \ {t} : Phase(u)' = Phase(u)
           /\ phaseMap' = [phaseMap EXCEPT ![t] = Phase(t)']
<1>1. \A u \in Threads \ {t} : Phase(u)' = Phase(u)
    BY DEF Phase, Leading
<1> QED
    BY <1>1 DEF phaseMap

(* Each step of do_or_join is a step of the single-flight specification,   *)
(* or changes nothing that specification sees.                             *)
LEMMA StepRefines == CoalescerInv /\ [Next]_vars => [SF!Next]_(SF!vars)
<1> SUFFICES ASSUME CoalescerInv, [Next]_vars PROVE [SF!Next]_(SF!vars)
    OBVIOUS
<1>0. TypeOK /\ pc \in [Threads -> PC]
    BY DEF CoalescerInv, TypeOK
<1>1. CASE UNCHANGED vars
    BY <1>1 DEF vars, SF!vars, Phase, Leading
<1>2. ASSUME NEW t \in Threads, NEW k \in Keys, Call(t, k) PROVE SF!Next
    <2>1. Phase(t) = "idle" /\ Phase(t)' = "called"
        BY <1>0, <1>2 DEF Call, Phase, Leading, TypeOK
    <2>2. phaseMap' = [phaseMap EXCEPT ![t] = "called"]
        BY <1>0, <1>2, <2>1, PhaseOfStep DEF Call
    <2>3. SF!Call(t, k)
        BY <1>2, <2>1, <2>2 DEF Call, SF!Call, phaseMap
    <2> QED
        BY <2>3 DEF SF!Next
<1>3. ASSUME NEW t \in Threads, Lead(t) PROVE SF!Next
    <2>1. Phase(t) = "called" /\ Phase(t)' = "leader"
        BY <1>0, <1>3 DEF Lead, Phase, Leading, TypeOK
    <2>2. phaseMap' = [phaseMap EXCEPT ![t] = "leader"]
        BY <1>0, <1>3, <2>1, PhaseOfStep DEF Lead
    <2>3. SF!Open(t)
        BY <1>3, <2>1, <2>2 DEF Lead, SF!Open, phaseMap
    <2> QED
        BY <2>3 DEF SF!Next
<1>4. ASSUME NEW t \in Threads, Join(t) PROVE SF!Next
    <2>1. Phase(t) = "called" /\ Phase(t)' = "follower"
        BY <1>0, <1>4 DEF Join, Phase, Leading, TypeOK
    <2>2. phaseMap' = [phaseMap EXCEPT ![t] = "follower"]
        BY <1>0, <1>4, <2>1, PhaseOfStep DEF Join
    <2>3. SF!Attach(t)
        BY <1>4, <2>1, <2>2 DEF Join, SF!Attach, phaseMap
    <2> QED
        BY <2>3 DEF SF!Next
<1>5. ASSUME NEW t \in Threads, FReturnsSome(t) PROVE UNCHANGED SF!vars
    <2>1. Phase(t) = "leader" /\ Phase(t)' = "leader" /\ pc' = [pc EXCEPT ![t] = "publish"]
        BY <1>0, <1>5 DEF FReturnsSome, FReturns, Phase, Leading, TypeOK
    <2>2. phaseMap' = phaseMap
        BY <1>0, <2>1, PhaseOfStep DEF phaseMap
    <2> QED
        BY <1>5, <2>2 DEF FReturnsSome, FReturns, SF!vars, phaseMap
<1>6. ASSUME NEW t \in Threads, Publish(t) PROVE SF!Next
    <2>1. /\ state[slot[t]] = Pending /\ result[t] \in Results
          /\ Phase(t) = "leader" /\ Phase(t)' = "leader"
        BY <1>0, <1>6 DEF CoalescerInv, LeaderOwnsEntry, Publish, Phase, Leading, TypeOK, Awakened
    <2>2. \A u \in Threads \ {t} : Phase(u)' = Phase(u)
        BY <1>0, <1>6 DEF Publish, Awakened, Phase, Leading
    <2>3. phaseMap' = phaseMap
        BY <2>1, <2>2 DEF phaseMap
    <2>4. SF!Settle(t, result[t])
        BY <1>6, <2>1, <2>3 DEF Publish, SF!Settle, phaseMap
    <2> QED
        BY <2>1, <2>4 DEF SF!Next, SF!SettleSome
<1>7. ASSUME NEW t \in Threads, Evict(t) PROVE SF!Next
    <2>1. state[slot[t]] # Pending /\ Phase(t) = "leader" /\ Phase(t)' = "idle"
        BY <1>0, <1>7 DEF CoalescerInv, LeaderOwnsEntry, Evict, Phase, Leading, TypeOK
    <2>2. phaseMap' = [phaseMap EXCEPT ![t] = "idle"]
        BY <1>0, <1>7, <2>1, PhaseOfStep DEF Evict
    <2>3. SF!Close(t)
        BY <1>7, <2>1, <2>2 DEF Evict, SF!Close, phaseMap
    <2> QED
        BY <2>3 DEF SF!Next
<1>8. ASSUME NEW t \in Threads, Sleep(t) \/ SpuriousWakeup(t) PROVE UNCHANGED SF!vars
    <2>1. PICK v : pc' = [pc EXCEPT ![t] = v] /\ v \in {"wait", "asleep"}
        BY <1>8 DEF Sleep, SpuriousWakeup
    <2>2. Phase(t) = "follower" /\ Phase(t)' = "follower"
        BY <1>0, <1>8 DEF Sleep, SpuriousWakeup, Phase, Leading, TypeOK
    <2>3. phaseMap' = phaseMap
        BY <1>0, <2>1, <2>2, PhaseOfStep DEF phaseMap
    <2> QED
        BY <1>8, <2>3 DEF Sleep, SpuriousWakeup, SF!vars, phaseMap
<1>9. ASSUME NEW t \in Threads, Follow(t) PROVE SF!Next
    <2>1. Phase(t) = "follower" /\ Phase(t)' = "idle"
        BY <1>0, <1>9 DEF Follow, Phase, Leading, TypeOK
    <2>2. phaseMap' = [phaseMap EXCEPT ![t] = "idle"]
        BY <1>0, <1>9, <2>1, PhaseOfStep DEF Follow
    <2>3. SF!Return(t)
        BY <1>9, <2>1, <2>2 DEF Follow, SF!Return, phaseMap
    <2> QED
        BY <2>3 DEF SF!Next
<1> QED
    BY <1>1, <1>2, <1>3, <1>4, <1>5, <1>6, <1>7, <1>8, <1>9 DEF Next

(* do_or_join, with its two locks and its condition variable, implements   *)
(* the single-flight specification for any threads, keys and calls: its    *)
(* initial states and its steps are the abstract ones.  (Its fairness is   *)
(* checked by TLC.)                                                        *)
THEOREM Refinement == Spec => SF!SafetySpec
<1>1. Init => SF!Init
    BY DEF Init, SF!Init, SF!Flights, Slots, Phase, Leading
<1> QED
    BY <1>1, StepRefines, SpecInv, PTL DEF Spec, SF!SafetySpec
=============================================================================
