------------------------------ MODULE BatchPipe ------------------------------
(***************************************************************************)
(* One `git cat-file --batch-check` child and its two pipes, seen by the   *)
(* thread that holds the pool slot: BatchChild::query_batch (git_cli.rs)   *)
(* writes every request before it reads the first answer, and Drop closes  *)
(* stdin and waits for the child.  Both are blocking calls on pipes of a   *)
(* bounded size, and git answers a request before it takes the next.       *)
(*                                                                         *)
(* BatchPool.tla says which answer belongs to which request; here only the *)
(* number of requests and answers at each place matters.  `query` is the   *)
(* batch of one.                                                           *)
(***************************************************************************)
EXTENDS Naturals

CONSTANTS MaxBatch,   \* the largest batch a caller passes to query_batch
          InCap,      \* requests that fit in the child's stdin pipe
          OutCap,     \* answers that fit in the child's stdout pipe
          ChunkCap    \* requests that git takes from its stdin in one read

ASSUME PipeAssumption ==
    /\ MaxBatch \in Nat \ {0}
    /\ InCap \in Nat \ {0}
    /\ OutCap \in Nat \ {0}
    /\ ChunkCap \in Nat \ {0}

VARIABLES
    pc,        \* the caller: "idle" | "write" | "read" | "drop"
    child,     \* the slot's child: "none" | "alive" | "dead"
    n,         \* oids.len() of the batch
    written,   \* requests written so far
    inPipe,    \* requests in the stdin pipe
    hand,      \* requests git has taken and not answered
    outPipe,   \* answers in the stdout pipe
    read       \* answers the caller has taken

vars == <<pc, child, n, written, inPipe, hand, outPipe, read>>

Init ==
    /\ pc = "idle"
    /\ child = "none"
    /\ n = 0
    /\ written = 0
    /\ inPipe = 0
    /\ hand = 0
    /\ outPipe = 0
    /\ read = 0

-----------------------------------------------------------------------------
(* The caller.                                                             *)

\* with_child starts the child if there is none; query_batch begins.
Start(m) ==
    /\ pc = "idle"
    /\ child' = IF child = "none" THEN "alive" ELSE child
    /\ n' = m
    /\ written' = 0
    /\ read' = 0
    /\ pc' = "write"
    /\ UNCHANGED <<inPipe, hand, outPipe>>

\* writeln!(stdin, ...): blocks while the pipe is full.
Write ==
    /\ pc = "write"
    /\ child = "alive"
    /\ written < n
    /\ inPipe < InCap
    /\ written' = written + 1
    /\ inPipe' = inPipe + 1
    /\ UNCHANGED <<pc, child, n, hand, outPipe, read>>

\* Broken pipe.
WriteFails ==
    /\ pc = "write"
    /\ child = "dead"
    /\ written < n
    /\ pc' = "drop"
    /\ UNCHANGED <<child, n, written, inPipe, hand, outPipe, read>>

\* The write loop is over: flush, then the read loop.
Flush ==
    /\ pc = "write"
    /\ written = n
    /\ pc' = "read"
    /\ UNCHANGED <<child, n, written, inPipe, hand, outPipe, read>>

\* The BufReader takes c answers out of the pipe; after the last one
\* query_batch returns.
ReadMutantOneShort(c) ==
    /\ pc = "read"
    /\ c <= outPipe
    /\ c <= n - read
    /\ outPipe' = outPipe - c
    /\ read' = read + c
    /\ pc' = IF read + c + 1 >= n THEN "idle" ELSE "read"
    /\ UNCHANGED <<child, n, written, inPipe, hand>>

Read(c) ==
    /\ pc = "read"
    /\ c <= outPipe
    /\ outPipe' = outPipe - c
    /\ read' = read + c
    /\ pc' = IF read + c = n THEN "idle" ELSE "read"
    /\ UNCHANGED <<child, n, written, inPipe, hand>>

\* End of file, or a line that cannot be read (it is not UTF-8).
ReadFails ==
    /\ pc = "read"
    /\ outPipe > 0 \/ child = "dead"
    /\ pc' = "drop"
    /\ UNCHANGED <<child, n, written, inPipe, hand, outPipe, read>>

\* slot.reset(): Drop has closed stdin; child.wait() returns once the child is gone.
\* A living child goes at the end of its input, and the answers it still owes must
\* fit in the stdout pipe, which nobody reads any more.
Reap ==
    /\ pc = "drop"
    /\ child = "dead" \/ (inPipe = 0 /\ hand = 0)
    /\ child' = "none"
    /\ outPipe' = 0
    /\ pc' = "idle"
    /\ UNCHANGED <<n, written, inPipe, hand, read>>

-----------------------------------------------------------------------------
(* The child (external: git).                                              *)

\* git has answered what it had; it reads some more of its stdin.
Take(c) ==
    /\ child = "alive"
    /\ hand = 0
    /\ c <= inPipe
    /\ inPipe' = inPipe - c
    /\ hand' = c
    /\ UNCHANGED <<pc, child, n, written, outPipe, read>>

\* git writes one answer and flushes it: blocks while the pipe is full.
Answer ==
    /\ child = "alive"
    /\ hand > 0
    /\ outPipe < OutCap
    /\ hand' = hand - 1
    /\ outPipe' = outPipe + 1
    /\ UNCHANGED <<pc, child, n, written, inPipe, read>>

\* The child dies; what it has written can still be read.
Exit ==
    /\ child = "alive"
    /\ child' = "dead"
    /\ inPipe' = 0
    /\ hand' = 0
    /\ UNCHANGED <<pc, n, written, outPipe, read>>

-----------------------------------------------------------------------------
ReadSome == \E c \in 1..OutCap : Read(c)
TakeSome == \E c \in 1..ChunkCap : Take(c)
CallerStep == Write \/ WriteFails \/ Flush \/ ReadSome \/ ReadFails \/ Reap

Next ==
    \/ \E m \in 1..MaxBatch : Start(m)
    \/ Write
    \/ WriteFails
    \/ Flush
    \/ ReadSome
    \/ ReadFails
    \/ Reap
    \/ TakeSome
    \/ Answer
    \/ Exit

\* A call that can go on does, and so does git; a child need not die.
Fairness == WF_vars(CallerStep) /\ WF_vars(TakeSome) /\ WF_vars(Answer)

Spec == Init /\ [][Next]_vars /\ Fairness

-----------------------------------------------------------------------------
(* Type invariant: neither pipe ever holds more than fits in it.           *)
TypeOK ==
    /\ pc \in {"idle", "write", "read", "drop"}
    /\ child \in {"none", "alive", "dead"}
    /\ n \in 0..MaxBatch
    /\ written \in 0..n
    /\ inPipe \in 0..InCap
    /\ hand \in 0..ChunkCap
    /\ outPipe \in 0..OutCap
    /\ read \in 0..n

(* Every request of a batch is somewhere, once: in stdin, with git,        *)
(* answered in stdout, or answered and read; a dead child may have lost    *)
(* some.  Between two batches the pipes are empty, so the first line the   *)
(* next batch reads is the answer to its first request.                    *)
NothingLeftOver ==
    /\ inPipe + hand + outPipe + read <= written
    /\ child = "alive" => inPipe + hand + outPipe + read = written
    /\ pc = "idle" => inPipe + hand + outPipe = 0
    /\ pc = "read" => written = n /\ read < n

(* The caller and git never wait for each other for ever: not git on a     *)
(* full stdout that the caller does not read while the caller writes to a  *)
(* full stdin (query_batch), and not git on a full stdout that nobody will *)
(* read again while the caller waits for it to exit (Drop).                *)
GitBlocked == child = "alive" /\ hand > 0 /\ outPipe = OutCap

WriterBlocked == pc = "write" /\ written < n /\ inPipe = InCap

NeverStuck == ~(GitBlocked /\ (WriterBlocked \/ pc = "drop"))

(* Every batch ends: query_batch returns, with the answers or with an      *)
(* error after which the child has been reaped.                            *)
EveryBatchEnds == pc = "write" ~> pc = "idle"

(* git_cli.rs:165-166, query_batch: "Write all OIDs first; git buffers     *)
(* them and emits one response per input regardless of how we framed the   *)
(* writes": the write loop ends, whatever the size of the batch.           *)
WriteLoopEnds == pc = "write" ~> pc # "write"
=============================================================================
