--------------------------- MODULE BatchPipeProofs ---------------------------
(***************************************************************************)
(* Theorems about BatchPipe, for pipes and batches of any size.            *)
(*                                                                         *)
(* The inductive invariant counts: every request of the running batch is   *)
(* in exactly one of four places, and the child that is not running has    *)
(* none.  How large a batch may be then follows by arithmetic.             *)
(***************************************************************************)
EXTENDS BatchPipe, TLAPS

\* A child that is not running has neither requests to read nor in its hands.
GoneChildOwesNothing == child # "alive" => inPipe = 0 /\ hand = 0

\* While a batch is being written none of its answers has been read.
WritesComeFirst == pc = "write" => n > 0 /\ read = 0

PipeInv ==
    /\ TypeOK
    /\ NothingLeftOver
    /\ GoneChildOwesNothing
    /\ WritesComeFirst

(* A slot without a child and without a batch satisfies the invariant.     *)
LEMMA InitInv == Init => PipeInv
    BY PipeAssumption
    DEF Init, PipeInv, TypeOK, NothingLeftOver, GoneChildOwesNothing, WritesComeFirst

(* Every step of the caller and of git preserves it.                       *)
LEMMA NextInv == PipeInv /\ [Next]_vars => PipeInv'
<1> SUFFICES ASSUME PipeInv, [Next]_vars PROVE PipeInv'
    OBVIOUS
<1> USE PipeAssumption
    DEF PipeInv, TypeOK, NothingLeftOver, GoneChildOwesNothing, WritesComeFirst
<1>1. CASE UNCHANGED vars
    BY <1>1 DEF vars
<1>2. ASSUME NEW m \in 1..MaxBatch, Start(m) PROVE PipeInv'
    BY <1>2 DEF Start
<1>3. CASE Write
    BY <1>3 DEF Write
<1>4. CASE WriteFails
    BY <1>4 DEF WriteFails
<1>5. CASE Flush
    BY <1>5 DEF Flush
<1>6. ASSUME NEW c \in 1..OutCap, Read(c) PROVE PipeInv'
    BY <1>6 DEF Read
<1>7. CASE ReadFails
    BY <1>7 DEF ReadFails
<1>8. CASE Reap
    BY <1>8 DEF Reap
<1>9. ASSUME NEW c \in 1..ChunkCap, Take(c) PROVE PipeInv'
    BY <1>9 DEF Take
<1>10. CASE Answer
    BY <1>10 DEF Answer
<1>11. CASE Exit
    BY <1>11 DEF Exit
<1> QED
    BY <1>1, <1>2, <1>3, <1>4, <1>5, <1>6, <1>7, <1>8, <1>9, <1>10, <1>11
    DEF Next, ReadSome, TakeSome

(* The invariant holds in every reachable state.                           *)
LEMMA SpecInv == Spec => []PipeInv
    BY InitInv, NextInv, PTL DEF Spec

-----------------------------------------------------------------------------
(* Nothing of a batch is lost or left in the pipes for the next one.       *)
THEOREM NothingIsLeftOver == Spec => [](TypeOK /\ NothingLeftOver)
<1>1. PipeInv => TypeOK /\ NothingLeftOver
    BY DEF PipeInv
<1> QED
    BY <1>1, SpecInv, PTL

(* A batch whose answers fit in the stdout pipe never gets stuck, neither  *)
(* in query_batch nor in Drop.  64 (MAX_BATCH of the prefetch worker) is   *)
(* far below; the number of directories in a tree level is not bounded.    *)
THEOREM SmallBatchesNeverStick ==
    ASSUME MaxBatch <= OutCap
    PROVE  Spec => []NeverStuck
<1>1. PipeInv => NeverStuck
    BY PipeAssumption DEF PipeInv, TypeOK, NothingLeftOver, NeverStuck, GitBlocked, WriterBlocked
<1> QED
    BY <1>1, SpecInv, PTL

(* The write loop by itself needs less: it ends if all but one request fit *)
(* in the two pipes together.                                              *)
THEOREM WriteLoopNeverSticks ==
    ASSUME MaxBatch <= InCap + OutCap + 1
    PROVE  Spec => []~(GitBlocked /\ WriterBlocked)
<1>1. PipeInv => ~(GitBlocked /\ WriterBlocked)
    BY PipeAssumption DEF PipeInv, TypeOK, NothingLeftOver, GitBlocked, WriterBlocked
<1> QED
    BY <1>1, SpecInv, PTL
=============================================================================
