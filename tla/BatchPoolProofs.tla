--------------------------- MODULE BatchPoolProofs ---------------------------
(***************************************************************************)
(* Theorems about BatchPool, for any number of callers, any pool size and  *)
(* any number of faults.                                                   *)
(***************************************************************************)
EXTENDS BatchPool, SequenceTheorems, TLAPS

\* The try_lock pass ends after one round: a scan has a slot left to try.
ScanInRange == \A a \in Actors : op[a] = "scan" => tried[a] < PoolSize

PoolInv ==
    /\ TypeOK
    /\ SlotsHeldExactly
    /\ ScanInRange

-----------------------------------------------------------------------------
(* Round-robin arithmetic stays within the slots.                          *)
LEMMA SlotArithmetic ==
    /\ 0 \in Slots
    /\ \A i \in Nat : i % PoolSize \in Slots
<1>1. \A i \in Nat : i % PoolSize \in 0..(PoolSize - 1)
    BY PoolAssumption
<1> QED
    BY <1>1, PoolAssumption DEF Slots

(* A pool of empty slots that nobody uses.                                 *)
LEMMA InitInv == Init => PoolInv
<1> SUFFICES ASSUME Init PROVE PoolInv
    OBVIOUS
<1>1. NoChild \in Children
    BY DEF NoChild, Children
<1>2. TypeOK
    BY <1>1, PoolAssumption, SlotArithmetic DEF Init, TypeOK, Ops
<1>3. SlotsHeldExactly
    BY PoolAssumption DEF Init, SlotsHeldExactly, Holding
<1>4. ScanInRange
    BY DEF Init, ScanInRange
<1> QED
    BY <1>2, <1>3, <1>4 DEF PoolInv

(* Steps that take no slot and release none.                               *)
LEMMA OutsideInv ==
    ASSUME PoolInv, NEW a \in Actors,
           (\E w \in Requests : Begin(a, w)) \/ Acquire(a) \/ TryLockBusy(a) \/ Finish(a)
    PROVE  PoolInv'
<1> USE DEF PoolInv
<1>1. ASSUME NEW w \in Requests, Begin(a, w) PROVE PoolInv'
    <2>1. TypeOK'
        BY <1>1, PoolAssumption DEF Begin, TypeOK, Ops
    <2>2. SlotsHeldExactly' /\ ScanInRange'
        BY <1>1 DEF Begin, TypeOK, SlotsHeldExactly, Holding, ScanInRange
    <2> QED
        BY <2>1, <2>2
<1>2. CASE Acquire(a)
    <2>1. TypeOK'
        <3>1. next + 1 \in Nat
            BY PoolAssumption DEF TypeOK, Slots
        <3>2. (next + 1) % PoolSize \in Slots
            BY <3>1, SlotArithmetic
        <3> QED
            BY <1>2, <3>2, PoolAssumption DEF Acquire, TypeOK, Ops
    <2>2. SlotsHeldExactly' /\ ScanInRange'
        BY <1>2, PoolAssumption DEF Acquire, TypeOK, SlotsHeldExactly, Holding, ScanInRange
    <2> QED
        BY <2>1, <2>2
<1>3. CASE TryLockBusy(a)
    <2>1. tried[a] + 1 \in 0..PoolSize
        BY <1>3, PoolAssumption DEF TryLockBusy, TypeOK, ScanInRange
    <2>2. TypeOK'
        BY <1>3, <2>1 DEF TryLockBusy, TypeOK, Ops
    <2>3. SlotsHeldExactly' /\ ScanInRange'
        BY <1>3, <2>1, PoolAssumption DEF TryLockBusy, TypeOK, SlotsHeldExactly, Holding, ScanInRange
    <2> QED
        BY <2>2, <2>3
<1>4. CASE Finish(a)
    <2>0. 0 \in Slots /\ 0 \in 0..PoolSize
        BY SlotArithmetic, PoolAssumption
    <2>1. /\ op' \in [Actors -> Ops] /\ start' \in [Actors -> Slots]
          /\ tried' \in [Actors -> 0..PoolSize] /\ mine' \in [Actors -> Slots]
        BY <1>4, <2>0 DEF Finish, TypeOK, Ops
    <2>2. /\ want' \in [Actors -> Seq(Oids)] /\ got' \in [Actors -> Seq(Lines)]
          /\ attempt' \in [Actors -> {1, 2}]
        BY <1>4 DEF Finish, TypeOK
    <2>3. TypeOK'
        BY <1>4, <2>1, <2>2 DEF Finish, TypeOK
    <2>4. SlotsHeldExactly' /\ ScanInRange'
        BY <1>4 DEF Finish, Over, TypeOK, SlotsHeldExactly, Holding, ScanInRange
    <2> QED
        BY <2>3, <2>4
<1> QED
    BY <1>1, <1>2, <1>3, <1>4

(* Taking a slot that is free, in the scan or after it.                    *)
LEMMA LockInv ==
    ASSUME PoolInv, NEW a \in Actors, TryLock(a) \/ LockStart(a)
    PROVE  PoolInv'
<1> USE DEF PoolInv
<1>1. PICK s \in Slots : Lock(a, s)
    <2>1. start[a] + tried[a] \in Nat
        BY PoolAssumption DEF TypeOK, Slots
    <2>2. Probe(a) \in Slots
        BY <2>1, SlotArithmetic DEF Probe
    <2> QED
        BY <2>2 DEF TryLock, LockStart, TypeOK
<1>2. TypeOK'
    BY <1>1 DEF Lock, TypeOK, Ops
<1>3. ~Holding(a)
    BY DEF TryLock, LockStart, Holding
<1>4. SlotsHeldExactly'
    BY <1>1, <1>3, PoolAssumption DEF Lock, TypeOK, SlotsHeldExactly, Holding
<1>5. ScanInRange'
    BY <1>1 DEF Lock, TypeOK, ScanInRange
<1> QED
    BY <1>2, <1>4, <1>5

(* Using the child of a slot one holds: the slot stays locked.             *)
LEMMA QueryInv ==
    ASSUME PoolInv, NEW a \in Actors, Query(a)
    PROVE  PoolInv'
<1> USE DEF PoolInv
<1>1. want[a] \in Seq(Oids) /\ mine[a] \in Slots /\ child[mine[a]] \in Children
    BY DEF TypeOK
<1>2. child[mine[a]].in \o want[a] \in Seq(Oids)
    BY <1>1 DEF Children
<1>3. TypeOK'
    BY <1>1, <1>2 DEF Query, TypeOK, Children, Ops
<1>4. SlotsHeldExactly' /\ ScanInRange'
    BY DEF Query, TypeOK, SlotsHeldExactly, Holding, ScanInRange
<1> QED
    BY <1>3, <1>4

(* Releasing the slot one holds, and nobody else's.                        *)
LEMMA ReleaseInv ==
    ASSUME PoolInv, NEW a \in Actors, Holding(a), Release(a),
           NEW o \in Ops \ {"held", "sent", "scan"}, op' = [op EXCEPT ![a] = o],
           mine' = mine, tried' = tried
    PROVE  SlotsHeldExactly' /\ ScanInRange'
BY PoolAssumption DEF PoolInv, Release, TypeOK, SlotsHeldExactly, Holding, ScanInRange

(* The ways a slot is given back.                                          *)
LEMMA LeaveInv ==
    ASSUME PoolInv, NEW a \in Actors, Abandon(a) \/ SpawnFails(a) \/ IoFails(a)
    PROVE  PoolInv'
<1> USE DEF PoolInv
<1>0. mine[a] \in Slots /\ child[mine[a]] \in Children /\ NoChild \in Children
    BY DEF TypeOK, NoChild, Children
<1>1. CASE Abandon(a)
    <2>1. TypeOK'
        BY <1>1 DEF Abandon, Release, TypeOK, Ops
    <2> QED
        BY <1>1, <2>1, ReleaseInv DEF Abandon, Holding, Ops
<1>2. CASE SpawnFails(a)
    <2>1. TypeOK'
        BY <1>2, PoolAssumption DEF SpawnFails, Release, TypeOK, Ops
    <2> QED
        BY <1>2, <2>1, ReleaseInv DEF SpawnFails, Holding, Ops
<1>3. CASE IoFails(a)
    <2>1. disk' \subseteq Oids
        BY <1>3, PoolAssumption DEF IoFails, TypeOK
    <2>2. faults' \in 0..MaxFaults
        BY <1>3, PoolAssumption DEF IoFails, TypeOK
    <2>3. child' \in [Slots -> Children] /\ owner' \in [Slots -> Actors \cup {NoOne}]
        BY <1>0, <1>3 DEF IoFails, Release, TypeOK
    <2>4. op' \in [Actors -> Ops] /\ attempt' \in [Actors -> {1, 2}] /\ got' \in [Actors -> Seq(Lines)]
        BY <1>3 DEF IoFails, TypeOK, Ops
    <2>5. TypeOK'
        BY <1>3, <2>1, <2>2, <2>3, <2>4 DEF IoFails, TypeOK
    <2> DEFINE o == IF attempt[a] = 1 THEN "acquire" ELSE "exhausted"
    <2>6. o \in Ops \ {"held", "sent", "scan"} /\ op' = [op EXCEPT ![a] = o]
        BY <1>3 DEF IoFails, Ops
    <2>7. Holding(a) /\ Release(a) /\ mine' = mine /\ tried' = tried
        BY <1>3 DEF IoFails, Holding
    <2> QED
        BY <2>5, <2>6, <2>7, ReleaseInv
<1> QED
    BY <1>1, <1>2, <1>3

(* Reading an answer: the slot is given back with the last one.            *)
LEMMA ReadLineInv ==
    ASSUME PoolInv, NEW a \in Actors, ReadLine(a)
    PROVE  PoolInv'
<1> USE DEF PoolInv
<1> DEFINE s == mine[a]
           last == Len(got[a]) + 1 = Len(want[a])
<1>1. s \in Slots /\ child[s] \in Children /\ child[s].out \in Seq(Lines) /\ child[s].out # <<>>
    BY DEF TypeOK, ReadLine, Children
<1>2. Head(child[s].out) \in Lines /\ Tail(child[s].out) \in Seq(Lines)
    BY <1>1
<1>3. Append(got[a], Head(child[s].out)) \in Seq(Lines)
    BY <1>2 DEF TypeOK
<1>4. [child EXCEPT ![s].out = Tail(@)] \in [Slots -> Children]
    BY <1>1, <1>2 DEF TypeOK, Children
<1>5. TypeOK'
    BY <1>1, <1>3, <1>4 DEF ReadLine, TypeOK, Ops
<1>6. CASE last
    BY <1>5, <1>6, ReleaseInv DEF ReadLine, Release, Holding, Ops
<1>7. CASE ~last
    BY <1>5, <1>7 DEF ReadLine, TypeOK, SlotsHeldExactly, Holding, ScanInRange
<1> QED
    BY <1>6, <1>7

(* What a child does by itself concerns nobody's slot.                     *)
LEMMA ChildInv ==
    ASSUME PoolInv, NEW s \in Slots, Serve(s) \/ Exit(s)
    PROVE  PoolInv'
<1> USE DEF PoolInv
<1>0. child[s] \in Children /\ child[s].in \in Seq(Oids) /\ child[s].out \in Seq(Lines)
    BY DEF TypeOK, Children
<1>1. CASE Serve(s)
    <2> DEFINE o == Head(child[s].in)
               there == o \in disk \cup Upstream
               line == [oid |-> o, kind |-> IF there THEN "header" ELSE "missing"]
    <2>1. o \in Oids /\ Tail(child[s].in) \in Seq(Oids)
        BY <1>0, <1>1 DEF Serve
    <2>2. line \in Lines
        BY <2>1 DEF Lines
    <2>3. Append(child[s].out, line) \in Seq(Lines)
        BY <1>0, <2>2
    <2>4. child' \in [Slots -> Children]
        <3>1. child' = [child EXCEPT ![s].in = Tail(@), ![s].out = Append(@, line)]
            BY <1>1 DEF Serve
        <3> HIDE DEF line, o
        <3> QED
            BY <1>0, <2>1, <2>3, <3>1 DEF TypeOK, Children
    <2>5. TypeOK'
        BY <1>1, <2>1, <2>4 DEF Serve, TypeOK
    <2>6. SlotsHeldExactly' /\ ScanInRange'
        BY <1>1 DEF Serve, SlotsHeldExactly, Holding, ScanInRange
    <2> QED
        BY <2>5, <2>6
<1>2. CASE Exit(s)
    <2>1. child' \in [Slots -> Children]
        <3>1. [child[s] EXCEPT !.status = "dead"] \in Children
            BY <1>0 DEF Children
        <3>2. [child EXCEPT ![s].status = "dead"] \in [Slots -> Children]
            BY <3>1 DEF TypeOK
        <3> DEFINE c == [child EXCEPT ![s].status = "dead"]
        <3>3. c[s] \in Children
            BY <3>2
        <3>4. ASSUME NEW r \in Children PROVE [r EXCEPT !.in = <<>>] \in Children
            <4>1. <<>> \in Seq(Oids)
                OBVIOUS
            <4>2. ASSUME NEW q \in Seq(Oids) PROVE [r EXCEPT !.in = q] \in Children
                BY DEF Children
            <4> QED
                BY <4>1, <4>2
        <3> QED
            BY <1>2, <3>2, <3>3, <3>4 DEF Exit
    <2>2. faults' \in 0..MaxFaults
        BY <1>2, PoolAssumption DEF Exit, TypeOK
    <2>3. TypeOK'
        BY <1>2, <2>1, <2>2 DEF Exit, TypeOK
    <2>4. SlotsHeldExactly' /\ ScanInRange'
        BY <1>2 DEF Exit, SlotsHeldExactly, Holding, ScanInRange
    <2> QED
        BY <2>3, <2>4
<1> QED
    BY <1>1, <1>2

(* Every step preserves the invariant.                                     *)
LEMMA NextInv == PoolInv /\ [Next]_vars => PoolInv'
<1> SUFFICES ASSUME PoolInv, [Next]_vars PROVE PoolInv'
    OBVIOUS
<1>1. CASE UNCHANGED vars
    BY <1>1 DEF vars, PoolInv, TypeOK, SlotsHeldExactly, Holding, ScanInRange
<1>2. ASSUME NEW a \in Actors,
             (\E w \in Requests : Begin(a, w)) \/ Progress(a) \/ Abandon(a) \/ Finish(a)
      PROVE  PoolInv'
    BY <1>2, OutsideInv, LockInv, QueryInv, LeaveInv, ReadLineInv DEF Progress
<1>3. ASSUME NEW s \in Slots, Serve(s) \/ Exit(s) PROVE PoolInv'
    BY <1>3, ChildInv
<1> QED
    BY <1>1, <1>2, <1>3 DEF Next

(* The invariant holds in every reachable state.                           *)
LEMMA SpecInv == Spec => []PoolInv
    BY InitInv, NextInv, PTL DEF Spec

-----------------------------------------------------------------------------
(* Type correctness of the pool's state.                                   *)
THEOREM TypeCorrectness == Spec => []TypeOK
<1>1. PoolInv => TypeOK
    BY DEF PoolInv
<1> QED
    BY <1>1, SpecInv, PTL

(* Every slot is locked exactly by the caller that uses its child, through *)
(* every error path and retry: no slot is leaked, no child is shared.      *)
THEOREM NoSlotIsLeaked == Spec => []SlotsHeldExactly
<1>1. PoolInv => SlotsHeldExactly
    BY DEF PoolInv
<1> QED
    BY <1>1, SpecInv, PTL
-----------------------------------------------------------------------------
(* What is in the pipes.  The concatenations of PipesInStep are taken      *)
(* apart, position by position.                                            *)

\* The lines ls answer the objects of w from position k on.
AnswersFrom(ls, w, k) == \A i \in 1..Len(ls) : ls[i].oid = w[k + i]

\* The requests q are the objects of w from position k on.
RequestsFrom(q, w, k) == \A i \in 1..Len(q) : q[i] = w[k + i]

\* Actor a waits for the child of its slot: what it has read, what it can read and what the
\* child has not answered yet are its requests, in this order.
InStep(a) ==
    LET c == child[mine[a]]
        g == Len(got[a])
        o == Len(c.out)
        n == Len(c.in)
    IN  /\ g < Len(want[a])
        /\ g + o + n <= Len(want[a])
        /\ c.status # "none"
        /\ c.status = "alive" => g + o + n = Len(want[a])
        /\ AnswersFrom(got[a], want[a], 0)
        /\ AnswersFrom(c.out, want[a], g)
        /\ RequestsFrom(c.in, want[a], g + o)

SentInStep == \A a \in Actors : op[a] = "sent" => InStep(a)

\* A child nobody waits for has nothing to read and nothing to do.
IdlePipesEmpty ==
    \A s \in Slots :
        (\A a \in Actors : ~(op[a] = "sent" /\ mine[a] = s))
            => child[s].in = <<>> /\ child[s].out = <<>>

\* Requests are non-empty, and an attempt starts with no answers.
AttemptsFresh ==
    \A a \in Actors :
        /\ op[a] \in {"acquire", "scan", "block", "held"} => want[a] # <<>> /\ got[a] = <<>>
        /\ op[a] = "none" => got[a] = <<>>

\* A line says the truth, and keeps doing so as the object database grows.
LineTrue(l) == IF l.kind = "header" THEN l.oid \in disk ELSE l.oid \notin Upstream

LinesTrue ==
    /\ \A s \in Slots : \A i \in 1..Len(child[s].out) : LineTrue(child[s].out[i])
    /\ \A a \in Actors : \A i \in 1..Len(got[a]) : LineTrue(got[a][i])

\* A finished round trip has one answer for each request.
AnswersComplete ==
    \A a \in Actors : op[a] = "answered" =>
        Len(got[a]) = Len(want[a]) /\ AnswersFrom(got[a], want[a], 0)

PipeInv ==
    /\ SentInStep
    /\ IdlePipesEmpty
    /\ AttemptsFresh
    /\ LinesTrue
    /\ AnswersComplete

LEMMA InitPipes == Init => PipeInv
<1> SUFFICES ASSUME Init PROVE PipeInv
    OBVIOUS
<1>1. \A s \in Slots : child[s].in = <<>> /\ child[s].out = <<>>
    BY DEF Init, NoChild
<1>2. \A a \in Actors : op[a] = "none" /\ got[a] = <<>>
    BY DEF Init
<1> QED
    BY <1>1, <1>2
    DEF PipeInv, SentInStep, IdlePipesEmpty, AttemptsFresh, LinesTrue, AnswersComplete

(* What one actor does before it asks and after it has left its slot is    *)
(* nobody else's business.                                                 *)
LEMMA QuietPipes ==
    ASSUME PoolInv, PipeInv, NEW a \in Actors, NEW v \in Ops \ {"sent", "answered"},
           op[a] # "sent", op' = [op EXCEPT ![a] = v],
           child' = child, disk' = disk,
           got' = got \/ got' = [got EXCEPT ![a] = <<>>],
           \A b \in Actors \ {a} : want'[b] = want[b] /\ mine'[b] = mine[b],
           v \in {"acquire", "scan", "block", "held"} => want'[a] # <<>> /\ got'[a] = <<>>,
           v = "none" => got'[a] = <<>>
    PROVE  PipeInv'
<1>1. /\ op'[a] = v
      /\ \A b \in Actors \ {a} : op'[b] = op[b] /\ got'[b] = got[b]
      /\ got'[a] = got[a] \/ got'[a] = <<>>
    BY DEF PoolInv, TypeOK
<1>2. SentInStep'
    <2> SUFFICES ASSUME NEW b \in Actors, op'[b] = "sent" PROVE InStep(b)'
        BY DEF SentInStep
    <2>1. b # a /\ op[b] = "sent"
        BY <1>1
    <2>2. InStep(b)
        BY <2>1 DEF PipeInv, SentInStep
    <2> QED
        BY <1>1, <2>1, <2>2 DEF InStep, AnswersFrom, RequestsFrom
<1>3. IdlePipesEmpty'
    BY <1>1 DEF PipeInv, IdlePipesEmpty
<1>4. AttemptsFresh'
    BY <1>1 DEF PipeInv, AttemptsFresh
<1>5. LinesTrue'
    BY <1>1 DEF PipeInv, LinesTrue, LineTrue
<1>6. AnswersComplete'
    BY <1>1 DEF PipeInv, AnswersComplete, AnswersFrom
<1> QED
    BY <1>2, <1>3, <1>4, <1>5, <1>6 DEF PipeInv

LEMMA QuietSteps ==
    ASSUME PoolInv, PipeInv, NEW a \in Actors,
           \/ \E w \in Requests : Begin(a, w)
           \/ Acquire(a) \/ TryLock(a) \/ TryLockBusy(a) \/ LockStart(a)
           \/ Abandon(a) \/ SpawnFails(a) \/ Finish(a)
    PROVE  PipeInv'
<1> USE DEF PoolInv
<1>0. /\ op[a] \in {"acquire", "scan", "block", "held"} => want[a] # <<>> /\ got[a] = <<>>
      /\ op[a] = "none" => got[a] = <<>>
    BY DEF PipeInv, AttemptsFresh
<1>1. ASSUME NEW w \in Requests, Begin(a, w) PROVE PipeInv'
    <2>1. w # <<>>
        BY PoolAssumption
    <2>2. op[a] = "none" /\ got' = got /\ want'[a] = w
        BY <1>1 DEF Begin, TypeOK
    <2>3. \A b \in Actors \ {a} : want'[b] = want[b] /\ mine'[b] = mine[b]
        BY <1>1 DEF Begin, TypeOK
    <2>4. child' = child /\ disk' = disk /\ op' = [op EXCEPT ![a] = "acquire"]
        BY <1>1 DEF Begin
    <2> QED
        BY <1>0, <2>1, <2>2, <2>3, <2>4, QuietPipes DEF Ops
<1>2. CASE Acquire(a)
    BY <1>0, <1>2, QuietPipes DEF Acquire, Ops
<1>3. CASE TryLock(a) \/ LockStart(a)
    <2>1. PICK s : Lock(a, s)
        BY <1>3 DEF TryLock, LockStart
    <2>2. op[a] \in {"scan", "block"}
        BY <1>3 DEF TryLock, LockStart
    <2>3. \A b \in Actors \ {a} : want'[b] = want[b] /\ mine'[b] = mine[b]
        BY <2>1 DEF Lock, TypeOK
    <2>4. child' = child /\ disk' = disk /\ op' = [op EXCEPT ![a] = "held"] /\ got' = got /\ want' = want
        BY <2>1 DEF Lock
    <2> QED
        BY <1>0, <2>2, <2>3, <2>4, QuietPipes DEF Ops
<1>4. CASE TryLockBusy(a)
    <2> DEFINE v == IF tried[a] + 1 = PoolSize THEN "block" ELSE "scan"
    <2>1. v \in {"block", "scan"} /\ v \in Ops \ {"sent", "answered"}
        BY DEF Ops
    <2>2. /\ op[a] = "scan" /\ op' = [op EXCEPT ![a] = v] /\ child' = child /\ disk' = disk
          /\ got' = got /\ want' = want /\ mine' = mine
        BY <1>4 DEF TryLockBusy
    <2> HIDE DEF v
    <2> QED
        BY <1>0, <2>1, <2>2, QuietPipes
<1>5. CASE Abandon(a)
    BY <1>5, QuietPipes DEF Abandon, Ops
<1>6. CASE SpawnFails(a)
    BY <1>6, QuietPipes DEF SpawnFails, Ops
<1>7. CASE Finish(a)
    <2>1. /\ op[a] # "sent" /\ op' = [op EXCEPT ![a] = "none"] /\ child' = child /\ disk' = disk
          /\ got' = [got EXCEPT ![a] = <<>>]
        BY <1>7 DEF Finish, Over
    <2>2. \A b \in Actors \ {a} : want'[b] = want[b] /\ mine'[b] = mine[b]
        BY <1>7 DEF Finish, TypeOK
    <2>3. got'[a] = <<>>
        BY <2>1 DEF TypeOK
    <2> QED
        BY <2>1, <2>2, <2>3, QuietPipes DEF Ops
<1> QED
    BY <1>1, <1>2, <1>3, <1>4, <1>5, <1>6, <1>7

(* The slot of an actor that holds one is nobody else's.                   *)
LEMMA OneHolder ==
    ASSUME PoolInv, NEW a \in Actors, NEW b \in Actors, Holding(a), Holding(b), mine[a] = mine[b]
    PROVE  a = b
<1>1. mine[a] \in Slots
    BY DEF PoolInv, TypeOK
<1>2. owner[mine[a]] = a /\ owner[mine[b]] = b
    BY <1>1 DEF PoolInv, SlotsHeldExactly
<1> QED
    BY <1>2

(* A request goes to a child that owes nothing: it owes exactly this.      *)
LEMMA QueryPipes ==
    ASSUME PoolInv, PipeInv, NEW a \in Actors, Query(a)
    PROVE  PipeInv'
<1> USE DEF PoolInv
<1> DEFINE s == mine[a]
<1>1. /\ s \in Slots /\ want[a] \in Seq(Oids) /\ want[a] # <<>> /\ got[a] = <<>> /\ op[a] = "held"
      /\ child[s] \in Children
    BY DEF TypeOK, PipeInv, AttemptsFresh, Query
<1>2. \A b \in Actors : op[b] = "sent" => mine[b] # s
    BY <1>1, OneHolder DEF Holding
<1>3. child[s].in = <<>> /\ child[s].out = <<>>
    BY <1>1, <1>2 DEF PipeInv, IdlePipesEmpty
<1>4. <<>> \o want[a] = want[a]
    BY <1>1
<1>5. /\ child'[s].out = <<>>
      /\ \/ child'[s].status = "dead" /\ child'[s].in = <<>>
         \/ child'[s].status = "alive" /\ child'[s].in = want[a]
      /\ \A r \in Slots \ {s} : child'[r] = child[r]
    BY <1>1, <1>3, <1>4 DEF Query, TypeOK
<1>6. /\ op'[a] = "sent" /\ \A b \in Actors \ {a} : op'[b] = op[b]
      /\ got' = got /\ want' = want /\ mine' = mine /\ disk' = disk
    BY DEF Query, TypeOK
<1>7. SentInStep'
    <2> SUFFICES ASSUME NEW b \in Actors, op'[b] = "sent" PROVE InStep(b)'
        BY DEF SentInStep
    <2>1. CASE b = a
        <3>1. Len(want[a]) \in Nat \ {0} /\ Len(got[a]) = 0 /\ Len(child'[s].out) = 0
            BY <1>1, <1>5
        <3>2. AnswersFrom(got[a], want[a], 0) /\ AnswersFrom(child'[s].out, want[a], 0)
            BY <3>1 DEF AnswersFrom
        <3>3. CASE child'[s].in = <<>> /\ child'[s].status = "dead"
            <4>1. Len(child'[s].in) = 0 /\ RequestsFrom(child'[s].in, want[a], 0)
                BY <3>3 DEF RequestsFrom
            <4> QED
                BY <1>6, <2>1, <3>1, <3>2, <3>3, <4>1 DEF InStep
        <3>4. CASE child'[s].in = want[a] /\ child'[s].status = "alive"
            <4>1. RequestsFrom(child'[s].in, want[a], 0)
                BY <1>1, <3>4 DEF RequestsFrom
            <4> QED
                BY <1>6, <2>1, <3>1, <3>2, <3>4, <4>1 DEF InStep
        <3> QED
            BY <1>5, <3>3, <3>4
    <2>2. CASE b # a
        <3>1. op[b] = "sent" /\ mine[b] \in Slots \ {s} /\ InStep(b)
            BY <1>2, <1>6, <2>2 DEF PipeInv, SentInStep, TypeOK
        <3> QED
            BY <1>5, <1>6, <3>1 DEF InStep, AnswersFrom, RequestsFrom
    <2> QED
        BY <2>1, <2>2
<1>8. IdlePipesEmpty'
    BY <1>5, <1>6 DEF PipeInv, IdlePipesEmpty
<1>9. AttemptsFresh' /\ AnswersComplete'
    BY <1>6 DEF PipeInv, AttemptsFresh, AnswersComplete, AnswersFrom
<1>10. LinesTrue'
    BY <1>5, <1>6 DEF PipeInv, LinesTrue, LineTrue
<1> QED
    BY <1>7, <1>8, <1>9, <1>10 DEF PipeInv

(* An answer is read: it is the answer to the oldest open request.         *)
LEMMA ReadLinePipes ==
    ASSUME PoolInv, PipeInv, NEW a \in Actors, ReadLine(a)
    PROVE  PipeInv'
<1> USE DEF PoolInv
<1> DEFINE s == mine[a]
           g == Len(got[a])
           w == want[a]
           out == child[s].out
           in == child[s].in
<1>1. /\ s \in Slots /\ child[s] \in Children /\ op[a] = "sent" /\ out # <<>>
      /\ got[a] \in Seq(Lines) /\ w \in Seq(Oids)
    BY DEF TypeOK, ReadLine
<1>2. /\ out \in Seq(Lines) /\ in \in Seq(Oids)
    BY <1>1 DEF Children
<1>3. InStep(a)
    BY <1>1 DEF PipeInv, SentInStep
<1>4. \A b \in Actors : op[b] = "sent" /\ b # a => mine[b] # s
    BY <1>1, OneHolder DEF Holding
<1>5. /\ got'[a] = Append(got[a], Head(out)) /\ \A b \in Actors \ {a} : got'[b] = got[b]
      /\ want' = want /\ mine' = mine /\ disk' = disk
    BY DEF ReadLine, TypeOK
<1>6. /\ child'[s].out = Tail(out) /\ child'[s].in = in /\ child'[s].status = child[s].status
      /\ \A r \in Slots \ {s} : child'[r] = child[r]
    BY <1>1 DEF ReadLine, TypeOK, Children
<1>7. /\ op'[a] = IF g + 1 = Len(w) THEN "answered" ELSE "sent"
      /\ \A b \in Actors \ {a} : op'[b] = op[b]
    BY <1>1 DEF ReadLine, TypeOK
<1>8. /\ Len(got'[a]) = g + 1 /\ got'[a][g + 1] = out[1]
      /\ \A i \in 1..g : got'[a][i] = got[a][i]
    BY <1>1, <1>2, <1>5
<1>9. Len(Tail(out)) = Len(out) - 1 /\ \A i \in 1..Len(out) - 1 : Tail(out)[i] = out[i + 1]
    BY <1>1, <1>2
<1>10. g \in Nat /\ Len(out) \in Nat \ {0} /\ Len(in) \in Nat /\ Len(w) \in Nat
    BY <1>1, <1>2
<1>30. /\ g < Len(w)
       /\ g + Len(out) + Len(in) <= Len(w)
       /\ child[s].status # "none"
       /\ child[s].status = "alive" => g + Len(out) + Len(in) = Len(w)
       /\ AnswersFrom(got[a], w, 0)
       /\ AnswersFrom(out, w, g)
       /\ RequestsFrom(in, w, g + Len(out))
    BY <1>3 DEF InStep
<1>31. Tail(out) \in Seq(Lines)
    BY <1>1, <1>2
<1> HIDE DEF g, w, in, out
<1>11. AnswersFrom(got'[a], w, 0)
    <2>1. out[1].oid = w[g + 1]
        BY <1>10, <1>30 DEF AnswersFrom
    <2>2. \A i \in 1..g : got[a][i].oid = w[0 + i]
        BY <1>30 DEF AnswersFrom, g
    <2> QED
        BY <1>8, <1>10, <2>1, <2>2 DEF AnswersFrom
<1>12. AnswersFrom(Tail(out), w, g + 1)
    <2> SUFFICES ASSUME NEW i \in 1..Len(Tail(out)) PROVE Tail(out)[i].oid = w[g + 1 + i]
        BY DEF AnswersFrom
    <2>1. i + 1 \in 1..Len(out) /\ Tail(out)[i] = out[i + 1]
        BY <1>9, <1>10
    <2>2. out[i + 1].oid = w[g + (i + 1)]
        BY <1>30, <2>1 DEF AnswersFrom
    <2>3. g + (i + 1) = g + 1 + i
        BY <1>10
    <2> QED
        BY <2>1, <2>2, <2>3
<1>13. RequestsFrom(in, w, g + 1 + Len(Tail(out)))
    <2>1. g + 1 + Len(Tail(out)) = g + Len(out)
        BY <1>9, <1>10
    <2> QED
        BY <1>30, <2>1
<1>14. SentInStep'
    <2> SUFFICES ASSUME NEW b \in Actors, op'[b] = "sent" PROVE InStep(b)'
        BY DEF SentInStep
    <2>1. CASE b = a
        <3>1. g + 1 # Len(w)
            BY <1>7, <2>1
        <3>2. /\ g + 1 < Len(w)
              /\ g + 1 + Len(Tail(out)) + Len(in) <= Len(w)
              /\ child[s].status # "none"
              /\ child[s].status = "alive" => g + 1 + Len(Tail(out)) + Len(in) = Len(w)
            BY <1>9, <1>10, <1>30, <3>1
        <3> QED
            BY <1>5, <1>6, <1>8, <1>11, <1>12, <1>13, <2>1, <3>2 DEF InStep, w
    <2>2. CASE b # a
        <3>1. op[b] = "sent" /\ mine[b] \in Slots \ {s} /\ InStep(b)
            BY <1>4, <1>7, <2>2 DEF PipeInv, SentInStep, TypeOK
        <3> QED
            BY <1>5, <1>6, <2>2, <3>1 DEF InStep, AnswersFrom, RequestsFrom
    <2> QED
        BY <2>1, <2>2
<1>15. IdlePipesEmpty'
    <2> SUFFICES ASSUME NEW r \in Slots, \A b \in Actors : ~(op'[b] = "sent" /\ mine'[b] = r)
                 PROVE  child'[r].in = <<>> /\ child'[r].out = <<>>
        BY DEF IdlePipesEmpty
    <2>1. CASE r = s
        <3>1. g + 1 = Len(w)
            BY <1>5, <1>7, <2>1
        <3>2. Len(out) = 1 /\ Len(in) = 0
            <4>1. g + Len(out) + Len(in) <= g + 1
                BY <1>30, <3>1
            <4>2. \A x, y, z \in Nat : y # 0 /\ x + y + z <= x + 1 => y = 1 /\ z = 0
                OBVIOUS
            <4> QED
                BY <1>10, <4>1, <4>2
        <3>3. in = <<>>
            BY <1>2, <3>2
        <3>4. Len(Tail(out)) = 0
            BY <1>9, <3>2
        <3>5. Tail(out) = <<>>
            <4>1. \A q \in Seq(Lines) : Len(q) = 0 => q = <<>>
                OBVIOUS
            <4> QED
                BY <1>31, <3>4, <4>1
        <3> QED
            BY <1>6, <2>1, <3>3, <3>5
    <2>2. CASE r # s
        <3>1. \A b \in Actors : ~(op[b] = "sent" /\ mine[b] = r)
            BY <1>5, <1>7, <2>2
        <3> QED
            BY <1>6, <2>2, <3>1 DEF PipeInv, IdlePipesEmpty
    <2> QED
        BY <2>1, <2>2
<1>16. AttemptsFresh'
    BY <1>5, <1>7 DEF PipeInv, AttemptsFresh
<1>17. LinesTrue'
    <2>1. LineTrue(out[1])
        BY <1>1, <1>10 DEF PipeInv, LinesTrue, out, g
    <2>2. \A i \in 1..Len(got'[a]) : LineTrue(got'[a][i])
        BY <1>1, <1>8, <1>10, <2>1 DEF PipeInv, LinesTrue, out, g
    <2>3. \A i \in 1..Len(child'[s].out) : LineTrue(child'[s].out[i])
        <3> SUFFICES ASSUME NEW i \in 1..Len(Tail(out)) PROVE LineTrue(Tail(out)[i])
            BY <1>6
        <3>1. i + 1 \in 1..Len(out) /\ Tail(out)[i] = out[i + 1]
            BY <1>9, <1>10
        <3> QED
            BY <1>1, <3>1 DEF PipeInv, LinesTrue, out, g
    <2>4. \A l : LineTrue(l)' <=> (IF l.kind = "header" THEN l.oid \in disk ELSE l.oid \notin Upstream)
        BY <1>5 DEF LineTrue
    <2>5. \A b \in Actors \ {a} : \A i \in 1..Len(got'[b]) : LineTrue(got'[b][i])
        BY <1>5 DEF PipeInv, LinesTrue, out, g
    <2>6. \A r \in Slots \ {s} : \A i \in 1..Len(child'[r].out) : LineTrue(child'[r].out[i])
        BY <1>6 DEF PipeInv, LinesTrue, out, g
    <2> QED
        BY <1>5, <2>2, <2>3, <2>5, <2>6 DEF LinesTrue, LineTrue
<1>18. AnswersComplete'
    <2> SUFFICES ASSUME NEW b \in Actors, op'[b] = "answered"
                 PROVE  Len(got'[b]) = Len(want[b]) /\ AnswersFrom(got'[b], want[b], 0)
        BY <1>5 DEF AnswersComplete
    <2>1. CASE b = a
        BY <1>7, <1>8, <1>11, <2>1 DEF w
    <2>2. CASE b # a
        BY <1>5, <1>7, <2>2 DEF PipeInv, AnswersComplete
    <2> QED
        BY <2>1, <2>2
<1> QED
    BY <1>14, <1>15, <1>16, <1>17, <1>18 DEF PipeInv

(* After an I/O error the slot starts again with no child.                 *)
LEMMA IoFailsPipes ==
    ASSUME PoolInv, PipeInv, NEW a \in Actors, IoFails(a)
    PROVE  PipeInv'
<1> USE DEF PoolInv
<1> DEFINE s == mine[a]
<1>1. s \in Slots /\ op[a] = "sent" /\ want[a] \in Seq(Oids) /\ got[a] \in Seq(Lines)
    BY DEF TypeOK, IoFails
<1>2. want[a] # <<>>
    <2>1. Len(got[a]) < Len(want[a])
        BY <1>1 DEF PipeInv, SentInStep, InStep
    <2>2. Len(got[a]) \in Nat
        BY <1>1
    <2> QED
        BY <2>1, <2>2
<1>3. \A b \in Actors : op[b] = "sent" /\ b # a => mine[b] # s
    BY <1>1, OneHolder DEF Holding
<1>4. /\ child'[s].in = <<>> /\ child'[s].out = <<>>
      /\ \A r \in Slots \ {s} : child'[r] = child[r]
    BY <1>1 DEF IoFails, TypeOK, NoChild
<1>5. /\ got'[a] = <<>> /\ \A b \in Actors \ {a} : got'[b] = got[b]
      /\ want' = want /\ mine' = mine /\ disk \subseteq disk'
    BY DEF IoFails, TypeOK
<1>6. op'[a] \in {"acquire", "exhausted"} /\ \A b \in Actors \ {a} : op'[b] = op[b]
    BY DEF IoFails, TypeOK
<1>7. SentInStep'
    <2> SUFFICES ASSUME NEW b \in Actors, op'[b] = "sent" PROVE InStep(b)'
        BY DEF SentInStep
    <2>1. b # a /\ op[b] = "sent" /\ mine[b] \in Slots \ {s} /\ InStep(b)
        BY <1>3, <1>6 DEF PipeInv, SentInStep, TypeOK
    <2> QED
        BY <1>4, <1>5, <2>1 DEF InStep, AnswersFrom, RequestsFrom
<1>8. IdlePipesEmpty'
    BY <1>4, <1>5, <1>6 DEF PipeInv, IdlePipesEmpty
<1>9. AttemptsFresh'
    BY <1>2, <1>5, <1>6 DEF PipeInv, AttemptsFresh
<1>10. LinesTrue'
    BY <1>4, <1>5 DEF PipeInv, LinesTrue, LineTrue
<1>11. AnswersComplete'
    BY <1>5, <1>6 DEF PipeInv, AnswersComplete, AnswersFrom
<1> QED
    BY <1>7, <1>8, <1>9, <1>10, <1>11 DEF PipeInv

(* The child answers its oldest request, truthfully.                       *)
LEMMA ServePipes ==
    ASSUME PoolInv, PipeInv, NEW s \in Slots, Serve(s)
    PROVE  PipeInv'
<1> USE DEF PoolInv
<1> DEFINE in == child[s].in
           out == child[s].out
           o == Head(in)
           line == [oid |-> o, kind |-> IF o \in disk \cup Upstream THEN "header" ELSE "missing"]
<1>1. /\ child[s] \in Children /\ in \in Seq(Oids) /\ out \in Seq(Lines) /\ in # <<>>
      /\ child[s].status = "alive"
    BY DEF TypeOK, Children, Serve
<1>2. o = in[1] /\ o \in Oids /\ line \in Lines
    BY <1>1 DEF Lines
<1>3. /\ op' = op /\ mine' = mine /\ want' = want /\ got' = got
      /\ disk' = disk \cup (IF o \in disk \cup Upstream THEN {o} ELSE {})
    BY DEF Serve
<1>4. child' = [child EXCEPT ![s].in = Tail(in), ![s].out = Append(out, line)]
    BY <1>1 DEF Serve, TypeOK
<1> HIDE DEF line
<1>5. /\ child'[s].in = Tail(in) /\ child'[s].out = Append(out, line)
      /\ child'[s].status = "alive"
      /\ \A r \in Slots \ {s} : child'[r] = child[r]
    BY <1>1, <1>4 DEF TypeOK, Children
<1>6. /\ Len(in) \in Nat \ {0} /\ Len(Tail(in)) = Len(in) - 1
      /\ \A i \in 1..Len(in) - 1 : Tail(in)[i] = in[i + 1]
    BY <1>1
<1>7. /\ Len(out) \in Nat /\ Len(Append(out, line)) = Len(out) + 1
      /\ Append(out, line)[Len(out) + 1] = line
      /\ \A i \in 1..Len(out) : Append(out, line)[i] = out[i]
    BY <1>1, <1>2
<1>8. PICK a \in Actors : op[a] = "sent" /\ mine[a] = s
    BY <1>1 DEF PipeInv, IdlePipesEmpty
<1>9. \A b \in Actors : op[b] = "sent" /\ b # a => mine[b] # s
    BY <1>8, OneHolder DEF Holding
<1> DEFINE g == Len(got[a])
           w == want[a]
<1>10. g \in Nat /\ Len(w) \in Nat
    BY DEF TypeOK
<1>11. /\ g < Len(w)
       /\ g + Len(out) + Len(in) <= Len(w)
       /\ g + Len(out) + Len(in) = Len(w)
       /\ AnswersFrom(got[a], w, 0)
       /\ AnswersFrom(out, w, g)
       /\ RequestsFrom(in, w, g + Len(out))
    BY <1>1, <1>8 DEF PipeInv, SentInStep, InStep
<1>12. /\ line.oid = o
       /\ IF line.kind = "header" THEN line.oid \in disk' ELSE line.oid \notin Upstream
    BY <1>3 DEF line
<1>13. disk \subseteq disk'
    BY <1>3
<1> HIDE DEF in, out, o, g, w
<1>14. AnswersFrom(Append(out, line), w, g)
    <2>1. in[1] = w[g + Len(out) + 1]
        BY <1>6, <1>11 DEF RequestsFrom
    <2>2. g + Len(out) + 1 = g + (Len(out) + 1)
        BY <1>7, <1>10
    <2>3. line.oid = w[g + (Len(out) + 1)]
        BY <1>2, <1>12, <2>1, <2>2
    <2>4. \A i \in 1..Len(out) : out[i].oid = w[g + i]
        BY <1>11 DEF AnswersFrom
    <2> QED
        BY <1>7, <2>3, <2>4 DEF AnswersFrom
<1>15. RequestsFrom(Tail(in), w, g + (Len(out) + 1))
    <2> SUFFICES ASSUME NEW i \in 1..Len(Tail(in)) PROVE Tail(in)[i] = w[g + (Len(out) + 1) + i]
        BY DEF RequestsFrom
    <2>1. i + 1 \in 1..Len(in) /\ Tail(in)[i] = in[i + 1]
        BY <1>6
    <2>2. in[i + 1] = w[g + Len(out) + (i + 1)]
        BY <1>11, <2>1 DEF RequestsFrom
    <2>3. g + Len(out) + (i + 1) = g + (Len(out) + 1) + i
        BY <1>7, <1>10
    <2> QED
        BY <2>1, <2>2, <2>3
<1>16. SentInStep'
    <2> SUFFICES ASSUME NEW b \in Actors, op[b] = "sent" PROVE InStep(b)'
        BY <1>3 DEF SentInStep
    <2>1. CASE b = a
        <3>1. g + (Len(out) + 1) + Len(Tail(in)) = Len(w)
            <4>1. \A x, y, z \in Nat : z # 0 => x + (y + 1) + (z - 1) = x + y + z
                OBVIOUS
            <4> QED
                BY <1>6, <1>7, <1>10, <1>11, <4>1
        <3>2. g + (Len(out) + 1) + Len(Tail(in)) <= Len(w)
            <4>1. \A x \in Nat : x <= x
                OBVIOUS
            <4> QED
                BY <1>10, <3>1, <4>1
        <3> QED
            BY <1>3, <1>5, <1>7, <1>8, <1>11, <1>14, <1>15, <2>1, <3>1, <3>2 DEF InStep, g, w
    <2>2. CASE b # a
        <3>1. mine[b] \in Slots \ {s} /\ InStep(b)
            BY <1>9, <2>2 DEF PipeInv, SentInStep, TypeOK
        <3> QED
            BY <1>3, <1>5, <3>1 DEF InStep, AnswersFrom, RequestsFrom
    <2> QED
        BY <2>1, <2>2
<1>17. IdlePipesEmpty'
    BY <1>3, <1>5, <1>8 DEF PipeInv, IdlePipesEmpty
<1>18. AttemptsFresh' /\ AnswersComplete'
    BY <1>3 DEF PipeInv, AttemptsFresh, AnswersComplete, AnswersFrom
<1>19. LinesTrue'
    <2> DEFINE True(l) == IF l.kind = "header" THEN l.oid \in disk' ELSE l.oid \notin Upstream
    <2>1. \A l : LineTrue(l) => True(l)
        BY <1>13 DEF LineTrue
    <2>2. \A i \in 1..Len(out) : LineTrue(out[i])
        BY DEF PipeInv, LinesTrue, out
    <2>3. \A i \in 1..Len(Append(out, line)) : True(Append(out, line)[i])
        <3>1. True(line)
            BY <1>12
        <3> HIDE DEF True
        <3>2. \A i \in 1..Len(out) : True(Append(out, line)[i])
            BY <1>7, <2>1, <2>2
        <3> QED
            BY <1>7, <3>1, <3>2
    <2>4. \A r \in Slots \ {s} : \A i \in 1..Len(child'[r].out) : True(child'[r].out[i])
        <3> HIDE DEF True
        <3> QED
            BY <1>5, <2>1 DEF PipeInv, LinesTrue
    <2>5. \A b \in Actors : \A i \in 1..Len(got'[b]) : True(got'[b][i])
        <3> HIDE DEF True
        <3> QED
            BY <1>3, <2>1 DEF PipeInv, LinesTrue
    <2>6. \A r \in Slots : \A i \in 1..Len(child'[r].out) : True(child'[r].out[i])
        <3> HIDE DEF True
        <3> QED
            BY <1>5, <2>3, <2>4
    <2> QED
        BY <2>5, <2>6 DEF LinesTrue, LineTrue
<1> QED
    BY <1>16, <1>17, <1>18, <1>19 DEF PipeInv

(* A child that dies keeps its unread answers and loses its requests.      *)
LEMMA ExitPipes ==
    ASSUME PoolInv, PipeInv, NEW s \in Slots, Exit(s)
    PROVE  PipeInv'
<1> USE DEF PoolInv
<1>1. child[s] \in Children /\ child[s].in \in Seq(Oids) /\ child[s].out \in Seq(Lines)
    BY DEF TypeOK, Children
<1>2. /\ op' = op /\ mine' = mine /\ want' = want /\ got' = got /\ disk' = disk
    BY DEF Exit
<1>3. /\ child'[s].in = <<>> /\ child'[s].out = child[s].out /\ child'[s].status = "dead"
      /\ \A r \in Slots \ {s} : child'[r] = child[r]
    BY <1>1 DEF Exit, TypeOK, Children
<1>4. SentInStep'
    <2> SUFFICES ASSUME NEW a \in Actors, op[a] = "sent" PROVE InStep(a)'
        BY <1>2 DEF SentInStep
    <2>1. InStep(a) /\ mine[a] \in Slots
        BY DEF PipeInv, SentInStep, TypeOK
    <2>2. CASE mine[a] = s
        <3>1. Len(got[a]) \in Nat /\ Len(child[s].out) \in Nat /\ Len(child[s].in) \in Nat /\ Len(want[a]) \in Nat
            BY <1>1 DEF TypeOK
        <3>2. /\ Len(got[a]) < Len(want[a])
              /\ Len(got[a]) + Len(child[s].out) + Len(child[s].in) <= Len(want[a])
              /\ AnswersFrom(got[a], want[a], 0)
              /\ AnswersFrom(child[s].out, want[a], Len(got[a]))
            BY <2>1, <2>2 DEF InStep
        <3>3. Len(got[a]) + Len(child[s].out) + 0 <= Len(want[a])
            <4>1. \A x, y, z, v \in Nat : x + y + z <= v => x + y + 0 <= v
                OBVIOUS
            <4> QED
                BY <3>1, <3>2, <4>1
        <3>4. Len(child'[s].in) = 0 /\ \A k : RequestsFrom(child'[s].in, want[a], k)
            BY <1>3 DEF RequestsFrom
        <3> QED
            BY <1>2, <1>3, <2>2, <3>2, <3>3, <3>4 DEF InStep
    <2>3. CASE mine[a] # s
        BY <1>2, <1>3, <2>1, <2>3 DEF InStep, AnswersFrom, RequestsFrom
    <2> QED
        BY <2>2, <2>3
<1>5. IdlePipesEmpty'
    BY <1>2, <1>3 DEF PipeInv, IdlePipesEmpty
<1>6. AttemptsFresh' /\ AnswersComplete'
    BY <1>2 DEF PipeInv, AttemptsFresh, AnswersComplete, AnswersFrom
<1>7. LinesTrue'
    BY <1>2, <1>3 DEF PipeInv, LinesTrue, LineTrue
<1> QED
    BY <1>4, <1>5, <1>6, <1>7 DEF PipeInv

LEMMA NextPipes == PoolInv /\ PipeInv /\ [Next]_vars => PipeInv'
<1> SUFFICES ASSUME PoolInv, PipeInv, [Next]_vars PROVE PipeInv'
    OBVIOUS
<1>1. CASE UNCHANGED vars
    BY <1>1
    DEF vars, PipeInv, SentInStep, InStep, AnswersFrom, RequestsFrom, IdlePipesEmpty, AttemptsFresh,
        LinesTrue, LineTrue, AnswersComplete
<1>2. ASSUME NEW a \in Actors,
             (\E w \in Requests : Begin(a, w)) \/ Progress(a) \/ Abandon(a) \/ Finish(a)
      PROVE  PipeInv'
    BY <1>2, QuietSteps, QueryPipes, ReadLinePipes, IoFailsPipes DEF Progress
<1>3. ASSUME NEW s \in Slots, Serve(s) \/ Exit(s) PROVE PipeInv'
    BY <1>3, ServePipes, ExitPipes
<1> QED
    BY <1>1, <1>2, <1>3 DEF Next

LEMMA SpecPipes == Spec => [](PoolInv /\ PipeInv)
    BY InitInv, InitPipes, NextInv, NextPipes, PTL DEF Spec

-----------------------------------------------------------------------------
(* Three sequences that agree with w, one after the other, make up a       *)
(* prefix of w.                                                            *)
LEMMA PrefixByParts ==
    ASSUME NEW S, NEW p \in Seq(S), NEW q \in Seq(S), NEW r \in Seq(S), NEW w \in Seq(S),
           Len(p) + Len(q) + Len(r) <= Len(w),
           RequestsFrom(p, w, 0),
           RequestsFrom(q, w, Len(p)),
           RequestsFrom(r, w, Len(p) + Len(q))
    PROVE  /\ Len(p \o (q \o r)) = Len(p) + Len(q) + Len(r)
           /\ p \o (q \o r) = SubSeq(w, 1, Len(p \o (q \o r)))
<1> DEFINE qr == q \o r
           all == p \o qr
           lp == Len(p)
           lq == Len(q)
           lr == Len(r)
<1>0. /\ \A i \in 1..Len(p) : p[i] = w[0 + i]
      /\ \A i \in 1..Len(q) : q[i] = w[Len(p) + i]
      /\ \A i \in 1..Len(r) : r[i] = w[Len(p) + Len(q) + i]
    BY DEF RequestsFrom
<1>1. /\ lp \in Nat /\ lq \in Nat /\ lr \in Nat /\ Len(w) \in Nat
    OBVIOUS
<1>2. /\ qr \in Seq(S) /\ Len(qr) = lq + lr
      /\ \A i \in 1..lq + lr : qr[i] = IF i <= lq THEN q[i] ELSE r[i - lq]
    BY ConcatProperties
<1>3. /\ all \in Seq(S) /\ Len(all) = lp + Len(qr)
      /\ \A i \in 1..lp + Len(qr) : all[i] = IF i <= lp THEN p[i] ELSE qr[i - lp]
    BY <1>2, ConcatProperties
<1>4. Len(all) = lp + lq + lr
    BY <1>1, <1>2, <1>3
<1> DEFINE n == Len(all)
           pre == SubSeq(w, 1, n)
<1>5. n \in Nat /\ n <= Len(w)
    BY <1>1, <1>4
<1>6. \A i \in 1..n : w[i] \in S
    BY <1>1, <1>5
<1>7. /\ pre \in Seq(S)
      /\ Len(pre) = IF 1 <= n THEN n - 1 + 1 ELSE 0
      /\ \A i \in 1..n - 1 + 1 : pre[i] = w[1 + i - 1]
    <2> HIDE DEF n
    <2> QED
        BY <1>5, <1>6, SubSeqProperties
<1>8. Len(pre) = n /\ \A i \in 1..n : pre[i] = w[i]
    <2> HIDE DEF n, pre
    <2>1. Len(pre) = n
        BY <1>5, <1>7
    <2>2. ASSUME NEW i \in 1..n PROVE pre[i] = w[i]
        <3>1. i \in 1..n - 1 + 1 /\ 1 + i - 1 = i
            BY <1>5
        <3> QED
            BY <1>7, <3>1
    <2> QED
        BY <2>1, <2>2
<1>9. ASSUME NEW i \in 1..n PROVE all[i] = w[i]
    <2> HIDE DEF all, qr, pre, lp, lq, lr
    <2>1. i \in Nat /\ 1 <= i /\ i <= lp + lq + lr /\ Len(qr) = lq + lr
        BY <1>2, <1>4, <1>5
    <2>2. CASE i <= lp
        <3>1. i \in 1..lp /\ 0 + i = i /\ i \in 1..lp + Len(qr)
            BY <1>1, <2>1, <2>2
        <3>2. p[i] = w[i]
            BY <1>0, <3>1 DEF lp
        <3> QED
            BY <1>3, <2>2, <3>1, <3>2
    <2>3. CASE lp < i /\ i <= lp + lq
        <3>1. i - lp \in 1..lq /\ lp + (i - lp) = i /\ ~(i <= lp)
              /\ i \in 1..lp + Len(qr) /\ i - lp \in 1..lq + lr /\ i - lp <= lq
            BY <1>1, <2>1, <2>3
        <3>2. q[i - lp] = w[i]
            BY <1>0, <3>1 DEF lp, lq
        <3> QED
            BY <1>2, <1>3, <3>1, <3>2
    <2>4. CASE lp + lq < i
        <3>1. i - lp - lq \in 1..lr /\ lp + lq + (i - lp - lq) = i /\ ~(i <= lp)
              /\ i \in 1..lp + Len(qr) /\ i - lp \in 1..lq + lr /\ ~(i - lp <= lq)
            BY <1>1, <2>1, <2>4
        <3>2. r[i - lp - lq] = w[i]
            BY <1>0, <3>1 DEF lp, lq, lr
        <3> QED
            BY <1>2, <1>3, <3>1, <3>2
    <2> QED
        BY <1>1, <2>1, <2>2, <2>3, <2>4
<1>10. all = pre
    BY <1>3, <1>7, <1>8, <1>9, SeqEqual
<1> QED
    BY <1>4, <1>10

LEMMA OidsOfLines ==
    ASSUME NEW ls \in Seq(Lines)
    PROVE  /\ OidsOf(ls) \in Seq(Oids)
           /\ Len(OidsOf(ls)) = Len(ls)
           /\ \A i \in 1..Len(ls) : OidsOf(ls)[i] = ls[i].oid
<1>1. Len(ls) \in Nat /\ DOMAIN ls = 1..Len(ls) /\ \A i \in 1..Len(ls) : ls[i].oid \in Oids
    <2>1. Len(ls) \in Nat /\ DOMAIN ls = 1..Len(ls) /\ \A i \in 1..Len(ls) : ls[i] \in Lines
        OBVIOUS
    <2>2. \A l \in Lines : l.oid \in Oids
        BY DEF Lines
    <2> QED
        BY <2>1, <2>2
<1>2. OidsOf(ls) = [i \in 1..Len(ls) |-> ls[i].oid]
    BY <1>1 DEF OidsOf
<1>3. OidsOf(ls) \in [1..Len(ls) -> Oids]
    BY <1>1, <1>2
<1>4. OidsOf(ls) \in Seq(Oids) /\ Len(OidsOf(ls)) = Len(ls)
    <2>1. \A n \in Nat : \A f \in [1..n -> Oids] : f \in Seq(Oids) /\ Len(f) = n
        OBVIOUS
    <2> QED
        BY <1>1, <1>3, <2>1
<1> QED
    BY <1>2, <1>4

(* The pipes of a child hold exactly what its holder still has to read,    *)
(* through every retry: query_batch may match answers to requests by       *)
(* counting, which is all it does.                                         *)
THEOREM PipesStayInStep == Spec => []PipesInStep
<1>1. PoolInv /\ PipeInv => PipesInStep
    <2> SUFFICES ASSUME PoolInv, PipeInv, NEW s \in Slots
                 PROVE  LET ahead == OidsOf(child[s].out) \o child[s].in IN
                        IF \E a \in Actors : op[a] = "sent" /\ mine[a] = s
                        THEN \A a \in Actors : op[a] = "sent" /\ mine[a] = s =>
                               LET all == OidsOf(got[a]) \o ahead IN
                               /\ Len(got[a]) < Len(want[a])
                               /\ all = SubSeq(want[a], 1, Len(all))
                               /\ child[s].status = "alive" => Len(all) = Len(want[a])
                               /\ child[s].status # "none"
                        ELSE ahead = <<>>
        BY DEF PipesInStep
    <2>1. child[s].out \in Seq(Lines) /\ child[s].in \in Seq(Oids)
        BY DEF PoolInv, TypeOK, Children
    <2>2. CASE \A a \in Actors : ~(op[a] = "sent" /\ mine[a] = s)
        <3>1. child[s].in = <<>> /\ child[s].out = <<>>
            BY <2>2 DEF PipeInv, IdlePipesEmpty
        <3>2. OidsOf(<<>>) = <<>>
            <4>1. OidsOf(child[s].out) \in Seq(Oids) /\ Len(OidsOf(child[s].out)) = 0
                BY <2>1, <3>1, OidsOfLines
            <4>2. \A q \in Seq(Oids) : Len(q) = 0 => q = <<>>
                OBVIOUS
            <4> QED
                BY <3>1, <4>1, <4>2
        <3>3. OidsOf(child[s].out) \o child[s].in = <<>>
            BY <3>1, <3>2
        <3> QED
            BY <2>2, <3>3
    <2>3. ASSUME NEW a \in Actors, op[a] = "sent" /\ mine[a] = s
          PROVE  LET all == OidsOf(got[a]) \o (OidsOf(child[s].out) \o child[s].in) IN
                 /\ Len(got[a]) < Len(want[a])
                 /\ all = SubSeq(want[a], 1, Len(all))
                 /\ child[s].status = "alive" => Len(all) = Len(want[a])
                 /\ child[s].status # "none"
        <3>1. InStep(a) /\ got[a] \in Seq(Lines) /\ want[a] \in Seq(Oids)
            BY <2>3 DEF PoolInv, TypeOK, PipeInv, SentInStep
        <3> DEFINE p == OidsOf(got[a])
                   q == OidsOf(child[s].out)
                   r == child[s].in
                   w == want[a]
        <3>2. /\ p \in Seq(Oids) /\ Len(p) = Len(got[a])
              /\ \A i \in 1..Len(p) : p[i] = got[a][i].oid
            BY <3>1, OidsOfLines
        <3>3. /\ q \in Seq(Oids) /\ Len(q) = Len(child[s].out)
              /\ \A i \in 1..Len(q) : q[i] = child[s].out[i].oid
            BY <2>1, OidsOfLines
        <3>4. /\ Len(p) < Len(w)
              /\ Len(p) + Len(q) + Len(r) <= Len(w)
              /\ child[s].status # "none"
              /\ child[s].status = "alive" => Len(p) + Len(q) + Len(r) = Len(w)
              /\ AnswersFrom(got[a], w, 0)
              /\ AnswersFrom(child[s].out, w, Len(p))
              /\ RequestsFrom(r, w, Len(p) + Len(q))
            BY <2>3, <3>1, <3>2, <3>3 DEF InStep
        <3>5. RequestsFrom(p, w, 0)
            BY <3>2, <3>4 DEF AnswersFrom, RequestsFrom
        <3>6. RequestsFrom(q, w, Len(p))
            BY <3>3, <3>4 DEF AnswersFrom, RequestsFrom
        <3> HIDE DEF p, q, r, w
        <3>7. /\ Len(p \o (q \o r)) = Len(p) + Len(q) + Len(r)
              /\ p \o (q \o r) = SubSeq(w, 1, Len(p \o (q \o r)))
            <4>1. r \in Seq(Oids) /\ w \in Seq(Oids)
                BY <2>1, <3>1 DEF r, w
            <4>2. p \in Seq(Oids) /\ q \in Seq(Oids) /\ Len(p) + Len(q) + Len(r) <= Len(w)
                  /\ RequestsFrom(r, w, Len(p) + Len(q))
                BY <3>2, <3>3, <3>4
            <4> QED
                BY <3>5, <3>6, <4>1, <4>2, PrefixByParts
        <3>8. /\ Len(got[a]) < Len(w)
              /\ child[s].status = "alive" => Len(p \o (q \o r)) = Len(w)
              /\ child[s].status # "none"
            BY <3>2, <3>4, <3>7
        <3> QED
            BY <3>7, <3>8 DEF p, q, r, w
    <2> QED
        BY <2>2, <2>3
<1> QED
    BY <1>1, SpecPipes, PTL

(* A finished round trip has the answer to each request, and every answer  *)
(* is true of the object database and the remote.                          *)
THEOREM AnswersAreTrue == Spec => []AnswersMatchRequests
<1>1. PoolInv /\ PipeInv => AnswersMatchRequests
    <2> SUFFICES ASSUME PoolInv, PipeInv, NEW a \in Actors, op[a] = "answered"
                 PROVE  /\ OidsOf(got[a]) = want[a]
                        /\ \A i \in DOMAIN got[a] : LineTrue(got[a][i])
        BY DEF AnswersMatchRequests, LineTrue
    <2>1. got[a] \in Seq(Lines) /\ want[a] \in Seq(Oids)
        BY DEF PoolInv, TypeOK
    <2>2. Len(got[a]) = Len(want[a]) /\ \A i \in 1..Len(got[a]) : got[a][i].oid = want[a][0 + i]
        BY DEF PipeInv, AnswersComplete, AnswersFrom
    <2>3. \A i \in 1..Len(got[a]) : got[a][i].oid = want[a][i]
        BY <2>1, <2>2
    <2>4. OidsOf(got[a]) = want[a]
        BY <2>1, <2>2, <2>3, OidsOfLines, SeqEqual
    <2>5. \A i \in DOMAIN got[a] : LineTrue(got[a][i])
        BY <2>1 DEF PipeInv, LinesTrue
    <2> QED
        BY <2>4, <2>5
<1> QED
    BY <1>1, SpecPipes, PTL

-----------------------------------------------------------------------------
(* What a failed round trip costs.  A fault is used up once: the first     *)
(* caller that meets a dead child drops it, so an actor in its second      *)
(* attempt and a child that is dead stand for two different faults.        *)
Dead(s) == child[s].status = "dead"

FaultsCounted ==
    /\ \A s \in Slots : Dead(s) => faults >= 1
    /\ \A r, s \in Slots : r # s /\ Dead(r) /\ Dead(s) => faults >= 2
    /\ \A a \in Actors : attempt[a] = 2 => faults >= 1
    /\ \A a \in Actors : \A s \in Slots : attempt[a] = 2 /\ Dead(s) => faults >= 2
    /\ \A a \in Actors : op[a] = "exhausted" => faults >= 2
    /\ \A a \in Actors : op[a] = "unspawned" => refusals >= 1

LEMMA CountersGrow ==
    PoolInv /\ [Next]_vars =>
        /\ faults \in Nat /\ faults' \in {faults, faults + 1}
        /\ refusals \in Nat /\ refusals' \in {refusals, refusals + 1}
<1> SUFFICES ASSUME PoolInv, [Next]_vars
             PROVE  faults' \in {faults, faults + 1} /\ refusals' \in {refusals, refusals + 1}
    BY PoolAssumption DEF PoolInv, TypeOK
<1>1. CASE UNCHANGED vars
    BY <1>1 DEF vars
<1>2. ASSUME NEW a \in Actors,
             (\E w \in Requests : Begin(a, w)) \/ Progress(a) \/ Abandon(a) \/ Finish(a)
      PROVE  faults' \in {faults, faults + 1} /\ refusals' \in {refusals, refusals + 1}
    BY <1>2 DEF Begin, Progress, Abandon, Finish, Acquire, TryLock, TryLockBusy, LockStart, Lock,
                Query, SpawnFails, ReadLine, IoFails
<1>3. ASSUME NEW s \in Slots, Serve(s) \/ Exit(s)
      PROVE  faults' \in {faults, faults + 1} /\ refusals' \in {refusals, refusals + 1}
    BY <1>3 DEF Serve, Exit
<1> QED
    BY <1>1, <1>2, <1>3 DEF Next

(* Nothing is ever removed from the object database.                       *)
LEMMA DiskGrows == [Next]_vars => disk \subseteq disk'
<1> SUFFICES ASSUME [Next]_vars PROVE disk \subseteq disk'
    OBVIOUS
<1>1. CASE UNCHANGED vars
    BY <1>1 DEF vars
<1>2. ASSUME NEW a \in Actors,
             (\E w \in Requests : Begin(a, w)) \/ Progress(a) \/ Abandon(a) \/ Finish(a)
      PROVE  disk \subseteq disk'
    BY <1>2 DEF Begin, Progress, Abandon, Finish, Acquire, TryLock, TryLockBusy, LockStart, Lock,
                Query, SpawnFails, ReadLine, IoFails
<1>3. ASSUME NEW s \in Slots, Serve(s) \/ Exit(s)
      PROVE  disk \subseteq disk'
    BY <1>3 DEF Serve, Exit
<1> QED
    BY <1>1, <1>2, <1>3 DEF Next

LEMMA FaultsKept ==
    ASSUME PoolInv, FaultsCounted, faults' = faults, refusals' = refusals,
           \A s \in Slots : Dead(s)' => Dead(s),
           \A a \in Actors : attempt'[a] = 2 => attempt[a] = 2,
           \A a \in Actors : op'[a] = op[a] \/ op'[a] \notin {"exhausted", "unspawned"}
    PROVE  FaultsCounted'
    BY DEF FaultsCounted

LEMMA ActorFaults ==
    ASSUME PoolInv, FaultsCounted, NEW a \in Actors,
           (\E w \in Requests : Begin(a, w)) \/ Progress(a) \/ Abandon(a) \/ Finish(a)
    PROVE  FaultsCounted'
<1> USE DEF PoolInv
<1>1. faults \in Nat /\ refusals \in Nat
    BY PoolAssumption DEF TypeOK
<1>2. CASE \/ \E w \in Requests : Begin(a, w)
           \/ Acquire(a) \/ TryLock(a) \/ TryLockBusy(a) \/ LockStart(a) \/ Abandon(a) \/ Finish(a)
    <2>1. /\ faults' = faults /\ refusals' = refusals /\ child' = child
          /\ \A b \in Actors : attempt'[b] = 2 => attempt[b] = 2
        BY <1>2 DEF TypeOK, Begin, Acquire, TryLock, TryLockBusy, LockStart, Lock, Abandon, Finish
    <2>2. \A b \in Actors : op'[b] = op[b] \/ op'[b] \notin {"exhausted", "unspawned"}
        BY <1>2 DEF TypeOK, Begin, Acquire, TryLock, TryLockBusy, LockStart, Lock, Abandon, Finish
    <2> QED
        BY <2>1, <2>2, FaultsKept DEF Dead
<1>3. CASE Query(a) \/ ReadLine(a)
    <2>1. mine[a] \in Slots /\ child[mine[a]] \in Children /\ child \in [Slots -> Children]
        BY DEF TypeOK
    <2>4. ASSUME NEW s \in Slots, child'[s].status = "dead" PROVE child[s].status = "dead"
        <3>1. CASE Query(a)
            BY <2>1, <2>4, <3>1 DEF Query, Children
        <3>2. CASE ReadLine(a)
            BY <2>1, <2>4, <3>2 DEF ReadLine, Children
        <3> QED
            BY <1>3, <3>1, <3>2
    <2>2. \A s \in Slots : Dead(s)' => Dead(s)
        BY <2>4 DEF Dead
    <2>3. \A b \in Actors : op'[b] = op[b] \/ op'[b] \notin {"exhausted", "unspawned"}
        BY <1>3 DEF TypeOK, Query, ReadLine
    <2> QED
        BY <1>3, <2>2, <2>3, FaultsKept DEF Query, ReadLine
<1>4. CASE SpawnFails(a)
    <2>1. /\ faults' = faults /\ refusals' = refusals + 1 /\ child' = child /\ attempt' = attempt
          /\ op'[a] = "unspawned" /\ \A b \in Actors \ {a} : op'[b] = op[b]
        BY <1>4 DEF TypeOK, SpawnFails
    <2> QED
        BY <1>1, <2>1 DEF FaultsCounted, Dead
<1>5. CASE IoFails(a)
    <2> DEFINE s == mine[a]
    <2>1. /\ s \in Slots /\ child'[s].status # "dead" /\ \A r \in Slots \ {s} : child'[r] = child[r]
          /\ refusals' = refusals /\ \A b \in Actors \ {a} : op'[b] = op[b] /\ attempt'[b] = attempt[b]
          /\ attempt'[a] = 2 /\ op'[a] = IF attempt[a] = 1 THEN "acquire" ELSE "exhausted"
          /\ attempt[a] \in {1, 2}
        BY <1>5 DEF TypeOK, IoFails, Dead, NoChild
    <2>2. (Dead(s) /\ faults' = faults) \/ faults' = faults + 1
        BY <1>5 DEF IoFails, Dead
    <2> HIDE DEF s
    <2>3. CASE Dead(s) /\ faults' = faults
        <3>1. faults >= 1 /\ (attempt[a] = 2 => faults >= 2)
            BY <2>1, <2>3 DEF FaultsCounted
        <3>2. \A r \in Slots : Dead(r)' => r # s /\ Dead(r)
            BY <2>1 DEF Dead
        <3>3. \A r \in Slots : Dead(r)' => faults >= 2
            BY <2>1, <2>3, <3>2 DEF FaultsCounted
        <3> QED
            BY <2>1, <2>3, <3>1, <3>2, <3>3 DEF FaultsCounted
    <2>4. CASE faults' = faults + 1
        <3>1. \A r \in Slots : Dead(r)' => Dead(r)
            BY <2>1 DEF Dead
        <3>2. faults' >= 1 /\ (faults >= 1 => faults' >= 2) /\ (faults >= 2 => faults' >= 2)
            BY <1>1, <2>4
        <3>3. \A r \in Slots : Dead(r)' => faults' >= 2
            BY <3>1, <3>2 DEF FaultsCounted
        <3> QED
            BY <2>1, <3>1, <3>2, <3>3 DEF FaultsCounted
    <2> QED
        BY <2>2, <2>3, <2>4
<1> QED
    BY <1>2, <1>3, <1>4, <1>5 DEF Progress

LEMMA ChildFaults ==
    ASSUME PoolInv, FaultsCounted, NEW s \in Slots, Serve(s) \/ Exit(s)
    PROVE  FaultsCounted'
<1> USE DEF PoolInv
<1>1. faults \in Nat
    BY PoolAssumption DEF TypeOK
<1>2. CASE Serve(s)
    <2>1. \A r \in Slots : Dead(r)' => Dead(r)
        BY <1>2 DEF TypeOK, Serve, Dead, Children
    <2> QED
        BY <1>2, <2>1, FaultsKept DEF Serve
<1>3. CASE Exit(s)
    <2>1. faults' = faults + 1 /\ refusals' = refusals /\ op' = op /\ attempt' = attempt
        BY <1>3 DEF Exit
    <2>2. \A r \in Slots \ {s} : Dead(r)' => Dead(r)
        BY <1>3 DEF TypeOK, Exit, Dead
    <2>3. faults' >= 1 /\ (faults >= 1 => faults' >= 2) /\ (faults >= 2 => faults' >= 2)
        BY <1>1, <2>1
    <2> QED
        BY <2>1, <2>2, <2>3 DEF FaultsCounted
<1> QED
    BY <1>2, <1>3

LEMMA InitFaults == Init => FaultsCounted
    BY DEF Init, FaultsCounted, Dead, NoChild

LEMMA NextFaults == PoolInv /\ FaultsCounted /\ [Next]_vars => FaultsCounted'
<1> SUFFICES ASSUME PoolInv, FaultsCounted, [Next]_vars PROVE FaultsCounted'
    OBVIOUS
<1>1. CASE UNCHANGED vars
    BY <1>1 DEF vars, FaultsCounted, Dead
<1>2. ASSUME NEW a \in Actors,
             (\E w \in Requests : Begin(a, w)) \/ Progress(a) \/ Abandon(a) \/ Finish(a)
      PROVE  FaultsCounted'
    BY <1>2, ActorFaults
<1>3. ASSUME NEW s \in Slots, Serve(s) \/ Exit(s) PROVE FaultsCounted'
    BY <1>3, ChildFaults
<1> QED
    BY <1>1, <1>2, <1>3 DEF Next
=============================================================================
