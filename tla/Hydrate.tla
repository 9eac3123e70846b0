------------------------------- MODULE Hydrate -------------------------------
(***************************************************************************)
(* HydratingObjectStore of projgit-core/src/fetcher.rs, its prefetch       *)
(* worker (prefetch.rs) and its tree warmer, over one of the fetchers that *)
(* do not run a pool of git children: GixFetcher, GvfsFetcher, NoopFetcher *)
(* and the DaemonFetcher of projgit-daemon.                                *)
(*                                                                         *)
(* Readers are the threads that serve the mounted file system.  Worker     *)
(* drains the channel that readdir posts to, Warmer walks the trees at     *)
(* start-up.  GixFetcher and GvfsFetcher coalesce: they compose            *)
(* SingleFlight, which the Coalescer implements.                           *)
(***************************************************************************)
EXTENDS Naturals, Sequences, SequencesExt, Picks

CONSTANTS Readers, Worker, Warmer,   \* the threads
          Backends,    \* the fetchers considered
          Casts,       \* the mounts considered: the threads that take part, what their readers ask
                       \* for (<<"blob" | "tree" | "header", object>>) and what a readdir harvests
                       \* (sequences of blob ids)
          Oids, Upstream,
          Kind, Size,  \* what each object is
          Subtrees,    \* tree -> the trees it lists, in order
          RootTree,    \* where the warmer starts
          Foreign,     \* objects other mounts of the same source may fetch
          BlobPrefetch,\* PROJGIT_PREFETCH_BLOBS
          Cap,         \* PROJGIT_PREFETCH_BLOB_CAP_BYTES
          Capacity,    \* CHANNEL_CAPACITY
          MaxBatch,    \* MAX_BATCH
          MaxReads,    \* bound on the operations of one reader
          MaxFaults,   \* bound on remote failures, index lags, foreign writes and crashes
          MaxCalls, NoFlight, Pending   \* see SingleFlight

Actors == Readers \cup {Worker, Warmer}

ASSUME HydrateAssumption ==
    /\ Worker \notin Readers /\ Warmer \notin Readers /\ Worker # Warmer
    /\ Backends \subseteq {"noop", "gix", "gvfs", "daemon"}
    /\ \A c \in Casts :
         /\ c.threads \subseteq Actors
         /\ c.reads \subseteq {"blob", "tree", "header"} \X Oids
         /\ c.dirs \subseteq Seq({o \in Oids : Kind[o] = "blob"}) \ {<<>>}
    /\ Foreign \subseteq Upstream
    /\ Upstream \subseteq Oids
    /\ Kind \in [Oids -> {"blob", "tree"}]
    /\ Size \in [Oids -> Nat]
    /\ RootTree \in Oids /\ Kind[RootTree] = "tree"
    /\ Subtrees \in [Oids -> Seq({o \in Oids : Kind[o] = "tree"})]
    /\ BlobPrefetch \in BOOLEAN
    /\ Capacity \in Nat \ {0}
    /\ MaxBatch \in Nat \ {0}
    /\ MaxReads \in Nat
    /\ MaxFaults \in Nat
    /\ MaxCalls \in Nat
    /\ Cap \in Nat

\* FetcherError, by variant.
Errors == {"Refused", "Transport", "NotPresentAfterFetch", "NotHydratable", "Backend"}

ASSUME NullAssumption ==
    /\ NoFlight \notin Actors \X (1..MaxCalls)
    /\ Pending \notin {"Ok"} \cup Errors

\* What a connection that ends early leaves of an object: a file whose loose-object header is cut
\* as well, or one that still has it.
Cut == {"stub", "partial"}

\* HeaderProbe: an object, what became of it, and the header if the probe carries one.
NoHeader == [kind |-> "none", size |-> 0]
Header(o) == [kind |-> Kind[o], size |-> Size[o]]
Outcomes == {"Present", "PresentWithHeader", "HeaderOnly"} \cup Errors
Probe(o, res) == [oid |-> o, res |-> res, header |-> NoHeader]
ProbeWith(o, res, h) == [oid |-> o, res |-> res, header |-> h]

VARIABLES
    backend,    \* the fetcher of this mount
    cast,       \* the member of Casts this mount is
    disk,       \* object -> "absent" | "stub" | "partial" | "whole"
    visible,    \* the objects the store finds: a pack may be on disk before gix sees it
    headers,    \* the header cache, a partial function
    faults,     \* faults so far
    claimed,    \* the objects the daemon skipped because a batch of another mount was at them
    open, outcome, phase, key, flight, calls,   \* the coalescer
    stage,      \* leader -> how far its raw_fetch is: "start" | "body" | "tmp" | "landed"
    job,        \* thread -> the fetcher call it is in, or NoJob
    returned,   \* thread -> its last bulk call and the probes that returned
    asked,      \* reader -> the operation it is in or made last
    reply,      \* reader -> what that operation returned
    reads,      \* reader -> operations so far
    posting,    \* reader -> the tasks it still has to post
    wanted,     \* the objects a reader, here or in another mount, has asked for
    tx,         \* is the sender of the channel open
    queue,      \* the channel
    task,       \* the worker's task, what is left of it, or NoTask
    skipped,    \* the blobs the worker left out (blobs_skipped)
    lost,       \* the kinds of task that found the channel full (dropped)
    walk        \* the warmer: where it is and what it has seen

flightVars == <<open, outcome, phase, key, flight, calls>>
diskVars == <<disk, visible, faults, claimed>>
readerVars == <<asked, reply, reads, posting, wanted>>
workerVars == <<tx, queue, task, skipped, lost>>
vars == <<backend, cast, diskVars, headers, flightVars, stage, job, returned, readerVars,
          workerVars, walk>>

Single == INSTANCE SingleFlight WITH
            Threads <- Actors, Keys <- Oids, Results <- {"Ok"} \cup Errors

NoJob == [call |-> "none", oids |-> <<>>, todo |-> <<>>, probes |-> <<>>]
NoAnswer == [call |-> "none", probes |-> <<>>]
NoTask == [kind |-> "none", oids |-> <<>>]
NotWalking == [at |-> "start", frontier |-> <<>>, next |-> <<>>, visited |-> {}, warmed |-> 0,
               errors |-> 0]

\* The state of a process that has just started.
Fresh ==
    /\ headers = [o \in {} |-> NoHeader]
    /\ Single!Init
    /\ key = [a \in Actors |-> RootTree]
    /\ stage = [a \in Actors |-> "start"]
    /\ job = [a \in Actors |-> NoJob]
    /\ returned = [a \in Actors |-> NoAnswer]
    /\ asked = [r \in Readers |-> <<"header", RootTree>>]
    /\ reply = [r \in Readers |-> "none"]
    /\ posting = [r \in Readers |-> <<>>]
    /\ tx = "open"
    /\ queue = <<>>
    /\ task = NoTask
    /\ walk = NotWalking

Init ==
    /\ backend \in Backends
    /\ cast \in Casts
    /\ disk = [o \in Oids |-> "absent"]
    /\ visible = {}
    /\ faults = 0
    /\ claimed = {}
    /\ reads = [r \in Readers |-> 0]
    /\ skipped = {}
    /\ lost = {}
    /\ wanted = {}
    /\ Fresh

Fault == faults < MaxFaults /\ faults' = faults + 1

-----------------------------------------------------------------------------
(* The object store.                                                       *)

\* ObjectStore::contains: an object that cannot be decoded counts as not there.
StoreHas(o) == o \in visible

\* ObjectStore::header succeeds: the header is cached, or the file is there at least that far.
HeaderHere(o) == StoreHas(o) \/ disk[o] = "partial"
Resolves(o) == o \in DOMAIN headers \/ HeaderHere(o)

\* The header cache after ObjectStore::header was called for the objects of S.
Recalled(S) ==
    [o \in DOMAIN headers \cup {o \in S : HeaderHere(o)} |->
        IF o \in DOMAIN headers THEN headers[o] ELSE Header(o)]

\* A store read finds what it needs.
ReadableMutantHeaderIsEnough(op, o) == Resolves(o)

Readable(op, o) == IF op = "header" THEN Resolves(o) ELSE StoreHas(o)

\* A store read answers something else than MissingObject.
Hit(op, o) == Readable(op, o) \/ disk[o] \in Cut

\* What that answer is: a file that cannot be decoded is the error of the object database.
Served(op, o) ==
    IF ~Readable(op, o) THEN "Corrupt"
    ELSE IF op \in {"header", Kind[o]} THEN "Ok" ELSE "UnexpectedKind"

\* The objects of S reach the object directory in a pack; gix finds them at once or only later.
Lands(S) ==
    /\ disk' = [o \in Oids |-> IF o \in S THEN "whole" ELSE disk[o]]
    /\ \/ visible' = visible \cup S /\ UNCHANGED faults
       \/ ~(S \subseteq visible) /\ Fault /\ UNCHANGED visible

\* gix rereads its pack indices.
Refresh(o) ==
    /\ disk[o] = "whole"
    /\ o \notin visible
    /\ visible' = visible \cup {o}
    /\ UNCHANGED <<backend, cast, disk, faults, claimed, headers, flightVars, stage, job, returned,
                   readerVars, workerVars, walk>>

\* Another mount of the same source writes the object into the shared directory.
Elsewhere(o) ==
    /\ disk[o] # "whole"
    /\ o \in Foreign
    /\ Fault
    /\ disk' = [disk EXCEPT ![o] = "whole"]
    /\ visible' = visible \cup {o}
    /\ wanted' = wanted \cup {o}
    /\ UNCHANGED <<backend, cast, claimed, headers, flightVars, stage, job, returned, asked, reply,
                   reads, posting, workerVars, walk>>

-----------------------------------------------------------------------------
(* Fetcher calls.  A thread in one has a job: the objects that are still   *)
(* to be fetched one by one and the probes of those that were.             *)

Busy(a) == job[a].call # "none"
Current(a) == Head(job[a].todo)

\* The fetcher call goes on with object Current(a): it is the thread's move.
Fetching(a) == Busy(a) /\ job[a].todo # <<>> /\ phase[a] = "idle"

\* Does this backend answer the call of thread a in one request?
Batched(a) ==
    \/ backend = "gvfs" /\ job[a].call = "headers"
    \/ backend = "daemon" /\ job[a].call \in {"headers", "bytes"}

\* fetch_object returned res for Current(a).
Answered(a, res) ==
    job' = [job EXCEPT ![a].todo = Tail(@),
                       ![a].probes = Append(@, Probe(Current(a), IF res = "Ok" THEN "Present" ELSE res))]

Local == <<backend, cast, readerVars, workerVars, walk, returned, headers>>

\* NoopFetcher::fetch_object.
NoopFetch(a) ==
    /\ backend = "noop"
    /\ Fetching(a)
    /\ Answered(a, "NotHydratable")
    /\ UNCHANGED <<Local, diskVars, flightVars, stage>>

\* fetch_object of the coalescing fetchers: the object is present.
FetchPresentMutantHeader(a) ==
    /\ backend \in {"gix", "gvfs"}
    /\ Fetching(a)
    /\ ~Batched(a)
    /\ Resolves(Current(a))
    /\ Answered(a, "Ok")
    /\ UNCHANGED <<Local, diskVars, flightVars, stage>>

FetchPresent(a) ==
    /\ backend \in {"gix", "gvfs"}
    /\ Fetching(a)
    /\ ~Batched(a)
    /\ StoreHas(Current(a))
    /\ Answered(a, "Ok")
    /\ UNCHANGED <<Local, diskVars, flightVars, stage>>

FetchCall(a) ==
    /\ backend \in {"gix", "gvfs"}
    /\ Fetching(a)
    /\ ~Batched(a)
    /\ ~StoreHas(Current(a))
    /\ Single!Call(a, Current(a))
    /\ UNCHANGED <<Local, diskVars, stage, job>>

\* do_or_join: the thread leads or follows.
FetchJoins(a) ==
    /\ Single!Open(a) \/ Single!Attach(a)
    /\ stage' = [stage EXCEPT ![a] = "start"]
    /\ UNCHANGED <<Local, diskVars, job>>

\* raw_fetch is over.
RawReturns(a, res) ==
    /\ Single!Settle(a, res)
    /\ UNCHANGED <<Local, stage, job>>

Leading(a, where) == phase[a] = "leader" /\ outcome[flight[a]] = Pending /\ stage[a] = where

\* The remote says no, cannot be reached, or is not configured as it should be.
RemoteRefuses(a) ==
    /\ Leading(a, "start")
    /\ key[a] \notin Upstream
    /\ backend = "gix" \/ ~StoreHas(key[a])
    /\ RawReturns(a, "Refused")
    /\ UNCHANGED diskVars

RemoteFailsMutantPanics(a) ==
    /\ Leading(a, "start")
    /\ Fault
    /\ phase' = [phase EXCEPT ![a] = "idle"]
    /\ job' = [job EXCEPT ![a] = NoJob]
    /\ UNCHANGED <<Local, disk, visible, claimed, open, outcome, key, flight, calls, stage>>

RemoteFails(a) ==
    /\ Leading(a, "start")
    /\ Fault
    /\ \E res \in {"Transport"} \cup (IF backend = "gix" THEN {"Backend"} ELSE {}) :
          RawReturns(a, res)
    /\ UNCHANGED <<disk, visible, claimed>>

\* GixFetcher::raw_fetch receives a pack with the object.
GixReceive(a) ==
    /\ backend = "gix"
    /\ Leading(a, "start")
    /\ key[a] \in Upstream
    /\ Lands({key[a]})
    /\ stage' = [stage EXCEPT ![a] = "landed"]
    /\ UNCHANGED <<Local, claimed, flightVars, job>>

\* GvfsFetcher::raw_fetch: present after all, or the GET answers.
GvfsRecheck(a) ==
    /\ backend = "gvfs"
    /\ Leading(a, "start")
    /\ StoreHas(key[a])
    /\ RawReturns(a, "Ok")
    /\ UNCHANGED diskVars

GvfsGet(a) ==
    /\ backend = "gvfs"
    /\ Leading(a, "start")
    /\ ~StoreHas(key[a])
    /\ key[a] \in Upstream
    /\ stage' = [stage EXCEPT ![a] = "body"]
    /\ UNCHANGED <<Local, diskVars, flightVars, job>>

\* write_loose_object: the object's file exists, or a file of another name is written.
WriteTmp(a) ==
    /\ Leading(a, "body")
    /\ stage' = [stage EXCEPT ![a] = IF disk[key[a]] = "absent" THEN "tmp" ELSE "landed"]
    /\ UNCHANGED <<Local, diskVars, flightVars, job>>

WriteFails(a) ==
    /\ Leading(a, "body") \/ Leading(a, "tmp")
    /\ Fault
    /\ RawReturns(a, "Backend")
    /\ UNCHANGED <<disk, visible, claimed>>

\* write_loose_object: the temporary file is renamed, unless the object's file exists by now.
\* Nobody has compared the body with the object's name or length: a body that ends early, in a
\* response that does not state its length, is renamed as it is.
Rename(a) ==
    /\ Leading(a, "tmp")
    /\ stage' = [stage EXCEPT ![a] = "landed"]
    /\ \/ disk[key[a]] # "absent" /\ UNCHANGED <<disk, visible, faults>>
       \/ /\ disk[key[a]] = "absent"
          /\ disk' = [disk EXCEPT ![key[a]] = "whole"]
          /\ visible' = visible \cup {key[a]}
          /\ UNCHANGED faults
       \/ /\ disk[key[a]] = "absent"
          /\ Fault
          /\ \E c \in Cut : disk' = [disk EXCEPT ![key[a]] = c]
          /\ UNCHANGED visible
    /\ UNCHANGED <<Local, claimed, flightVars, job>>

\* The check at the end of raw_fetch.
Verify(a) ==
    /\ Leading(a, "landed")
    /\ RawReturns(a, IF StoreHas(key[a]) THEN "Ok" ELSE "NotPresentAfterFetch")
    /\ UNCHANGED diskVars

\* The error a caller of fetch_object gets for the text of raw_fetch's error.  GixFetcher looks
\* for the names of the variants, which the text does not hold.
Reclassified(res) == IF backend = "gix" /\ res # "Ok" THEN "Backend" ELSE res

FetchReturns(a) ==
    /\ Single!Close(a) \/ Single!Return(a)
    /\ Answered(a, Reclassified(outcome[flight[a]]))
    /\ UNCHANGED <<Local, diskVars, stage>>

\* DaemonFetcher::fetch_object: one request on one connection.  The daemon makes the object
\* resident or says fetch_failed; it may be gone, not attached, or gone after the work is done.
DaemonFetch(a) ==
    /\ backend = "daemon"
    /\ Fetching(a)
    /\ ~Batched(a)
    /\ LET o == Current(a)
       IN \/ o \in Upstream /\ Lands({o}) /\ Answered(a, "Ok")
          \/ o \notin Upstream /\ Answered(a, "Backend") /\ UNCHANGED <<disk, visible, faults>>
          \/ /\ Fault
             /\ \E res \in {"Transport", "Backend"} : Answered(a, res)
             /\ UNCHANGED <<disk, visible>>
          \/ /\ o \in Upstream /\ Fault
             /\ disk' = [disk EXCEPT ![o] = "whole"]
             /\ Answered(a, "Transport")
             /\ UNCHANGED visible
    /\ UNCHANGED <<Local, claimed, flightVars, stage>>

-----------------------------------------------------------------------------
(* Bulk calls: what the fetchers answer and how the answers are put back   *)
(* in the order of the question.                                           *)

\* The table holds one probe per object, and `remove` takes it out: an object listed again gets
\* an error.
Reorder(oids, by) ==
    [i \in DOMAIN oids |-> IF FirstAt(oids, i) THEN by[oids[i]] ELSE Probe(oids[i], "Backend")]

\* HydratingObjectStore: the last probe for an object wins, and it goes to the first place of the
\* object; where none is left, the object is taken to be present.
ReassembledMutantDropsErrors(oids, ps) ==
    [i \in DOMAIN oids |->
        LET last == SelectLastInSeq(ps, LAMBDA p : p.oid = oids[i] /\ p.res \notin Errors)
        IN IF FirstAt(oids, i) /\ last # 0 THEN ps[last] ELSE Probe(oids[i], "Present")]

Reassembled(oids, ps) ==
    [i \in DOMAIN oids |->
        LET last == SelectLastInSeq(ps, LAMBDA p : p.oid = oids[i])
        IN IF FirstAt(oids, i) /\ last # 0 THEN ps[last] ELSE Probe(oids[i], "Present")]

\* All of the call's objects are answered by ps.
AnsweredAll(a, ps) == job' = [job EXCEPT ![a].todo = <<>>, ![a].probes = ps]

\* GvfsClient::sizes: the reply, in any order, read by object id.
SizesMutantByPlace(reply_, o, remote) ==
    LET place == SelectInSeq(remote, LAMBDA x : x = o)
    IN IF place \in DOMAIN reply_ THEN Size[reply_[place]] ELSE Size[o]

Sizes(reply_, o, remote) == Size[reply_[SelectInSeq(reply_, LAMBDA x : x = o)]]

\* GvfsFetcher::prefetch_headers: present objects need no request; the others are asked for in
\* one, and an object the reply leaves out counts as refused.
GvfsPrefetchHeaders(a) ==
    /\ backend = "gvfs"
    /\ Fetching(a)
    /\ Batched(a)
    /\ LET oids == job[a].todo
           remote == Keep(oids, Oids \ visible)
           table(answer) == [o \in ToSet(oids) |->
                                IF StoreHas(o) THEN Probe(o, "Present") ELSE answer[o]]
       IN \/ /\ \E r \in SetToSeqs(ToSet(remote) \cap Upstream) :
                   AnsweredAll(a, Reorder(oids, table([o \in ToSet(remote) |->
                       IF o \in Upstream
                         THEN ProbeWith(o, "HeaderOnly", [kind |-> "blob", size |-> Sizes(r, o, remote)])
                         ELSE Probe(o, "Refused")])))
             /\ UNCHANGED faults
          \/ /\ remote # <<>>
             /\ Fault
             /\ AnsweredAll(a, Reorder(oids, table([o \in ToSet(remote) |-> Probe(o, "Transport")])))
    /\ UNCHANGED <<Local, disk, visible, claimed, flightVars, stage>>

\* What the daemon's own HydratingObjectStore, over GitCliFetcher, answers for these objects.
\* Another mount's batch has claimed `peers`: they are not asked for, and as the store does not
\* have them they are reported as Present, whatever becomes of that batch (one that lands meanwhile
\* is answered as if this batch had fetched it).
ServerProbes(oids, peers) ==
    LET query == Keep(oids, {o \in Oids : disk[o] # "whole"})
        table == [o \in Oids |->
                    IF o \in peers THEN Probe(o, "Present")
                    ELSE IF o \in Upstream THEN ProbeWith(o, "PresentWithHeader", Header(o))
                    ELSE Probe(o, "Refused")]
    IN Reassembled(oids, Reorder(query, table))

\* probe_to_wire and daemon_err_to_fetcher: every error arrives as Backend.
OverTheWire(p) == IF p.res \in Errors THEN [p EXCEPT !.res = "Backend"] ELSE p

\* merge_probes: the first probe for an object wins.
MergeProbes(oids, wire) ==
    Reorder(oids, [o \in ToSet(oids) |->
        LET first == SelectInSeq(wire, LAMBDA p : p.oid = o)
        IN IF first = 0 THEN Probe(o, "Backend") ELSE OverTheWire(wire[first])])

\* DaemonFetcher::prefetch_headers and fetch_objects: both leave the objects on disk, except those
\* that a batch of another mount is at.
DaemonBatch(a) ==
    /\ backend = "daemon"
    /\ Fetching(a)
    /\ Batched(a)
    /\ LET oids == job[a].todo
           failed(res) == [i \in DOMAIN oids |-> Probe(oids[i], res)]
       IN \/ \E peers \in SUBSET {o \in ToSet(oids) : disk[o] # "whole"} :
               /\ Lands({o \in ToSet(oids) \ peers : o \in Upstream \/ disk[o] = "whole"})
               /\ \E wire \in {ServerProbes(oids, peers)} : AnsweredAll(a, MergeProbes(oids, wire))
               /\ claimed' = claimed \cup peers
          \/ /\ Fault
             /\ \E res \in {"Transport", "Backend"} : AnsweredAll(a, failed(res))
             /\ UNCHANGED <<disk, visible, claimed>>
          \/ /\ Fault
             /\ disk' = [o \in Oids |-> IF o \in ToSet(oids) \cap Upstream THEN "whole" ELSE disk[o]]
             /\ AnsweredAll(a, failed("Transport"))
             /\ UNCHANGED <<visible, claimed>>
    /\ UNCHANGED <<Local, flightVars, stage>>

\* HydratingObjectStore::prefetch_headers ("headers") and fetch_objects ("bytes"): only objects
\* that are not there yet reach the fetcher.  ObjectStore::header was called for `looked`.
BulkStarts(a, call, oids, looked) ==
    LET query == Keep(oids, {o \in Oids : IF call = "headers" THEN ~Resolves(o) ELSE ~StoreHas(o)})
    IN /\ headers' = Recalled(looked)
       /\ IF query = <<>>
            THEN /\ returned' = [returned EXCEPT ![a] = [call |-> call, probes |->
                                      [i \in DOMAIN oids |-> Probe(oids[i], "Present")]]]
                 /\ UNCHANGED job
            ELSE /\ job' = [job EXCEPT ![a] = [call |-> call, oids |-> oids, todo |-> query,
                                               probes |-> <<>>]]
                 /\ returned' = [returned EXCEPT ![a] = NoAnswer]

\* The fetcher has answered: headers are published, probes are put in order.
Published(ps) ==
    LET told == {p \in ToSet(ps) : p.header # NoHeader}
        seen == {p.oid : p \in {q \in ToSet(ps) : q.res = "Present"}}
    IN [o \in DOMAIN Recalled(seen) \cup {p.oid : p \in told} |->
          IF \E p \in told : p.oid = o THEN (CHOOSE p \in told : p.oid = o).header
                                       ELSE Recalled(seen)[o]]

BulkReturns(a) ==
    /\ job[a].call \in {"headers", "bytes"}
    /\ job[a].todo = <<>>
    /\ headers' = Published(job[a].probes)
    /\ returned' = [returned EXCEPT ![a] = [call |-> job[a].call,
                                           probes |-> Reassembled(job[a].oids, job[a].probes)]]
    /\ job' = [job EXCEPT ![a] = NoJob]
    /\ UNCHANGED <<backend, cast, diskVars, flightVars, stage, readerVars, workerVars, walk>>

FetchOne(o) == [call |-> "fetch", oids |-> <<o>>, todo |-> <<o>>, probes |-> <<>>]

-----------------------------------------------------------------------------
(* The readers: HydratingObjectStore::{read_blob, read_tree, header}, and  *)
(* the posts of readdir.                                                   *)

Idle(r) == r \in cast.threads /\ ~Busy(r) /\ posting[r] = <<>> /\ tx = "open" /\ reads[r] < MaxReads

ReadHit(r, op, o) ==
    /\ Idle(r)
    /\ Hit(op, o)
    /\ asked' = [asked EXCEPT ![r] = <<op, o>>]
    /\ reply' = [reply EXCEPT ![r] = Served(op, o)]
    /\ reads' = [reads EXCEPT ![r] = @ + 1]
    /\ headers' = IF op = "header" THEN Recalled({o}) ELSE headers
    /\ UNCHANGED <<backend, cast, diskVars, flightVars, stage, job, returned, posting, wanted,
                   workerVars, walk>>

ReadMiss(r, op, o) ==
    /\ Idle(r)
    /\ ~Hit(op, o)
    /\ asked' = [asked EXCEPT ![r] = <<op, o>>]
    /\ reply' = [reply EXCEPT ![r] = "none"]
    /\ reads' = [reads EXCEPT ![r] = @ + 1]
    /\ wanted' = wanted \cup {o}
    /\ job' = [job EXCEPT ![r] = FetchOne(o)]
    /\ UNCHANGED <<backend, cast, diskVars, headers, flightVars, stage, returned, posting,
                   workerVars, walk>>

\* What a hydrating read returns once the fetcher has answered: its error, or one more read.
Retried(a, op, o) ==
    LET res == job[a].probes[1].res
    IN CASE res \in Errors -> res
         [] res \notin Errors /\ Hit(op, o) -> Served(op, o)
         [] OTHER -> "NotPresentAfterFetch"

Fetched(a) == job[a].call = "fetch" /\ job[a].todo = <<>>

ReadFetched(r) ==
    /\ Fetched(r)
    /\ LET op == asked[r][1]  o == asked[r][2]
       IN /\ reply' = [reply EXCEPT ![r] = Retried(r, op, o)]
          /\ headers' = IF op = "header" /\ job[r].probes[1].res \notin Errors
                          THEN Recalled({o}) ELSE headers
    /\ job' = [job EXCEPT ![r] = NoJob]
    /\ UNCHANGED <<backend, cast, diskVars, flightVars, stage, returned, asked, reads, posting,
                   wanted, workerVars, walk>>

\* post_prefetch: the tasks for one directory, in the order they are posted.
PostPrefetchMutantBlobsFirst(dir) ==
    <<[kind |-> "Blobs", oids |-> dir], [kind |-> "Headers", oids |-> dir]>>

PostPrefetch(dir) ==
    <<[kind |-> "Headers", oids |-> dir]>>
    \o (IF BlobPrefetch THEN <<[kind |-> "Blobs", oids |-> dir]>> ELSE <<>>)

ReadDir(r, dir) ==
    /\ Idle(r)
    /\ Worker \in cast.threads
    /\ reads' = [reads EXCEPT ![r] = @ + 1]
    /\ posting' = [posting EXCEPT ![r] = PostPrefetch(dir)]
    /\ UNCHANGED <<backend, cast, diskVars, headers, flightVars, stage, job, returned, asked,
                   reply, wanted, workerVars, walk>>

\* post_headers and post_blobs: try_send, and what does not fit is dropped.
Post(r) ==
    /\ posting[r] # <<>>
    /\ IF Len(queue) < Capacity
         THEN queue' = Append(queue, Head(posting[r])) /\ UNCHANGED lost
         ELSE lost' = lost \cup {Head(posting[r]).kind} /\ UNCHANGED queue
    /\ posting' = [posting EXCEPT ![r] = Tail(@)]
    /\ UNCHANGED <<backend, cast, diskVars, headers, flightVars, stage, job, returned, asked,
                   reply, reads, wanted, tx, task, skipped, walk>>

\* PrefetchHandle::drop, after the session has ended: no reader is left.
CloseChannel ==
    /\ tx = "open"
    /\ Worker \in cast.threads
    /\ \A r \in Readers : ~Busy(r) /\ posting[r] = <<>>
    /\ tx' = "closed"
    /\ UNCHANGED <<backend, cast, diskVars, headers, flightVars, stage, job, returned, readerVars,
                   queue, task, skipped, lost, walk>>

-----------------------------------------------------------------------------
(* The worker.                                                             *)

Undisturbed == <<backend, cast, diskVars, flightVars, stage, readerVars, tx, walk>>

Recv ==
    /\ Worker \in cast.threads
    /\ task = NoTask
    /\ queue # <<>>
    /\ task' = Head(queue)
    /\ queue' = Tail(queue)
    /\ UNCHANGED <<Undisturbed, headers, job, returned, skipped, lost>>

\* recv fails only when the sender is gone and the channel is empty.
WorkerExits ==
    /\ task = NoTask
    /\ queue = <<>>
    /\ tx = "closed"
    /\ task' = [NoTask EXCEPT !.kind = "exited"]
    /\ UNCHANGED <<Undisturbed, headers, job, returned, queue, skipped, lost>>

Chunk == SubSeq(task.oids, 1, IF Len(task.oids) < MaxBatch THEN Len(task.oids) ELSE MaxBatch)
RestOfTask == SubSeq(task.oids, Len(Chunk) + 1, Len(task.oids))
Working(kind) == task.kind = kind /\ ~Busy(Worker) /\ task.oids # <<>>

HeadersChunk ==
    /\ Working("Headers")
    /\ BulkStarts(Worker, "headers", Chunk, ToSet(Chunk))
    /\ task' = [task EXCEPT !.oids = RestOfTask]
    /\ UNCHANGED <<Undisturbed, queue, skipped, lost>>

\* blobs_under_cap: the size must be known here and within the cap.
UnderCap(o) ==
    /\ Resolves(o)
    /\ LET h == Recalled({o})[o] IN h.kind = "blob" /\ h.size <= Cap

BlobsChunk ==
    /\ Working("Blobs")
    /\ LET keep == Keep(Chunk, {o \in Oids : UnderCap(o)})
       IN /\ skipped' = skipped \cup {o \in ToSet(Chunk) : ~UnderCap(o)}
          /\ IF keep = <<>>
               THEN headers' = Recalled(ToSet(Chunk)) /\ UNCHANGED <<job, returned>>
               ELSE BulkStarts(Worker, "bytes", keep, ToSet(Chunk))
    /\ task' = [task EXCEPT !.oids = RestOfTask]
    /\ UNCHANGED <<Undisturbed, queue, lost>>

TaskDone ==
    /\ task.kind \in {"Headers", "Blobs"}
    /\ task.oids = <<>>
    /\ ~Busy(Worker)
    /\ task' = NoTask
    /\ UNCHANGED <<Undisturbed, headers, job, returned, queue, skipped, lost>>

-----------------------------------------------------------------------------
(* The warmer: warm_tree_closure.                                          *)

Unwalked == <<backend, cast, diskVars, flightVars, stage, readerVars, workerVars>>

WarmStart ==
    /\ Warmer \in cast.threads
    /\ walk.at = "start"
    /\ BulkStarts(Warmer, "bytes", <<RootTree>>, {})
    /\ walk' = [walk EXCEPT !.at = "read", !.frontier = <<RootTree>>, !.visited = {RootTree}]
    /\ UNCHANGED Unwalked

\* The walk after the entries of tree t were read: directories not seen yet join the next level.
WalkedMutantNoVisited(t) ==
    [walk EXCEPT !.at = "read", !.frontier = Tail(@), !.warmed = @ + 1,
                 !.next = @ \o Subtrees[t], !.visited = @ \cup ToSet(Subtrees[t])]

Walked(t) ==
    [walk EXCEPT !.at = "read", !.frontier = Tail(@), !.warmed = @ + 1,
                 !.next = @ \o FirstOccurrences(Subtrees[t], Oids \ walk.visited),
                 !.visited = @ \cup ToSet(Subtrees[t])]

\* The walk after a tree that could not be read.
WarmFailed == [walk EXCEPT !.at = "read", !.frontier = Tail(@), !.errors = @ + 1]

\* read_tree finds the tree, or something it cannot decode, or asks the fetcher.
WarmRead ==
    /\ walk.at = "read"
    /\ ~Busy(Warmer)
    /\ walk.frontier # <<>>
    /\ LET t == Head(walk.frontier)
       IN IF Hit("tree", t)
            THEN /\ walk' = IF Served("tree", t) = "Ok" THEN Walked(t) ELSE WarmFailed
                 /\ UNCHANGED job
            ELSE /\ walk' = [walk EXCEPT !.at = "reading"]
                 /\ job' = [job EXCEPT ![Warmer] = FetchOne(t)]
    /\ UNCHANGED <<Unwalked, headers, returned>>

WarmFetched ==
    /\ walk.at = "reading"
    /\ Fetched(Warmer)
    /\ LET t == Head(walk.frontier)
       IN walk' = IF Retried(Warmer, "tree", t) = "Ok"
                    THEN Walked(t) ELSE WarmFailed
    /\ job' = [job EXCEPT ![Warmer] = NoJob]
    /\ UNCHANGED <<Unwalked, headers, returned>>

\* The level is done: fetch the next one in bulk, or stop.
WarmLevel ==
    /\ walk.at = "read"
    /\ ~Busy(Warmer)
    /\ walk.frontier = <<>>
    /\ IF walk.next = <<>>
         THEN walk' = [walk EXCEPT !.at = "done"] /\ UNCHANGED <<headers, job, returned>>
         ELSE /\ BulkStarts(Warmer, "bytes", walk.next, {})
              /\ walk' = [walk EXCEPT !.frontier = walk.next, !.next = <<>>]
    /\ UNCHANGED Unwalked

-----------------------------------------------------------------------------
(* The process dies at any moment and is started again on the same object  *)
(* directory.                                                              *)
Crash ==
    /\ Fault
    /\ headers' = [o \in {} |-> NoHeader]
    /\ open' = [o \in Oids |-> NoFlight]
    /\ outcome' = [f \in Single!Flights |-> Pending]
    /\ phase' = [a \in Actors |-> "idle"]
    /\ key' = [a \in Actors |-> RootTree]
    /\ flight' = [a \in Actors |-> NoFlight]
    /\ calls' = [a \in Actors |-> 0]
    /\ stage' = [a \in Actors |-> "start"]
    /\ job' = [a \in Actors |-> NoJob]
    /\ returned' = [a \in Actors |-> NoAnswer]
    /\ asked' = [r \in Readers |-> <<"header", RootTree>>]
    /\ reply' = [r \in Readers |-> "none"]
    /\ posting' = [r \in Readers |-> <<>>]
    /\ tx' = "open"
    /\ queue' = <<>>
    /\ task' = NoTask
    /\ walk' = NotWalking
    /\ visible' = {o \in Oids : disk[o] = "whole"}
    /\ UNCHANGED <<backend, cast, disk, claimed, reads, wanted, skipped, lost>>

-----------------------------------------------------------------------------
\* The steps a thread takes inside a fetcher.
FetchStep(a) ==
    \/ NoopFetch(a)
    \/ FetchPresent(a)
    \/ FetchCall(a)
    \/ FetchJoins(a)
    \/ RemoteRefuses(a)
    \/ RemoteFails(a)
    \/ GixReceive(a)
    \/ GvfsRecheck(a)
    \/ GvfsGet(a)
    \/ WriteTmp(a)
    \/ WriteFails(a)
    \/ Rename(a)
    \/ Verify(a)
    \/ FetchReturns(a)
    \/ DaemonFetch(a)
    \/ GvfsPrefetchHeaders(a)
    \/ DaemonBatch(a)
    \/ BulkReturns(a)

WorkerStep ==
    \/ Recv
    \/ WorkerExits
    \/ HeadersChunk
    \/ BlobsChunk
    \/ TaskDone

WarmStep == WarmStart \/ WarmRead \/ WarmFetched \/ WarmLevel

ReaderStep(r) == ReadFetched(r) \/ Post(r)

Request(r) ==
    \/ \E q \in cast.reads : ReadHit(r, q[1], q[2]) \/ ReadMiss(r, q[1], q[2])
    \/ \E dir \in cast.dirs : ReadDir(r, dir)

Next ==
    \/ \E a \in Actors : FetchStep(a)
    \/ \E r \in Readers : ReaderStep(r) \/ Request(r)
    \/ WorkerStep
    \/ WarmStep
    \/ CloseChannel
    \/ \E o \in Oids : Refresh(o) \/ Elsewhere(o)
    \/ Crash

\* Threads are scheduled, and a request that was sent is answered or fails (ureq, gix and the
\* socket calls have no deadline of their own).  Nobody has to ask for anything, and the
\* process does not have to be stopped.
Fairness ==
    /\ \A a \in Actors : WF_vars(FetchStep(a))
    /\ \A r \in Readers : WF_vars(ReaderStep(r))
    /\ WF_vars(WorkerStep)
    /\ WF_vars(WarmStep)

Spec == Init /\ [][Next]_vars /\ Fairness

-----------------------------------------------------------------------------
(* Properties.                                                             *)

\* OkMeansResident: a read_blob or read_tree that returns Ok returns an object that is on disk, all
\* of it: neither a header published without the object (HeaderOnly) nor a file that a broken
\* connection cut short (gvfs.rs:191-200) stands in for its bytes.
OkMeansResident ==
    \A r \in Readers : reply[r] = "Ok" /\ asked[r][1] # "header" => disk[asked[r][2]] = "whole"

\* FailuresHaveCauses: while the remote answers, gix sees what is on disk and nobody crashes, a
\* hydrating read of an object the remote has succeeds, whatever the other readers, the worker
\* and the warmer do at the same time; a full channel costs no read its answer.  Over GVFS the
\* kind of an error survives the coalescer's text as well: a 404 reads as Refused, and nothing
\* else does, for the leader and for those who joined it (gvfs.rs:303).  A store error that no
\* fetch can mend is told only over GVFS, of an object whose file a broken connection left.
FailuresHaveCauses ==
    \A r \in Readers :
        /\ backend # "noop" /\ faults = 0 /\ asked[r][2] \in Upstream =>
             reply[r] \notin Errors
        /\ reply[r] = "Corrupt" => backend = "gvfs" /\ faults > 0 /\ disk[asked[r][2]] # "absent"
        /\ reply[r] = "UnexpectedKind" => asked[r][1] # Kind[asked[r][2]]
        /\ backend = "gvfs" /\ reply[r] \in Errors =>
             /\ reply[r] = "Refused" => asked[r][2] \notin Upstream
             /\ asked[r][2] \notin Upstream /\ faults = 0 => reply[r] = "Refused"

\* HeadersTrue: the header cache holds only true headers, whichever backend answered, in
\* whatever order and however often an object was listed in the batch.
HeadersTrue == \A o \in DOMAIN headers : headers[o] = Header(o)

\* FirstProbeHonest: for the first place of an object in a batch, a probe that is not an error
\* is true: after fetch_objects the bytes are on disk, after prefetch_headers the header can be
\* had without the remote.  A plain Present is not true of what the daemon skipped because
\* another mount's batch was at it (git_cli.rs:743-753); nothing else excuses one.  (For later
\* places the code makes no such promise.)
FirstProbeHonest ==
    \A a \in Actors : \A i \in DOMAIN returned[a].probes :
        LET p == returned[a].probes[i]
            oids == [j \in DOMAIN returned[a].probes |-> returned[a].probes[j].oid]
        IN FirstAt(oids, i) /\ p.res \notin Errors =>
             \/ disk[p.oid] = "whole"
             \/ returned[a].call = "headers" /\ p.oid \in DOMAIN headers
             \/ p.res = "Present" /\ p.oid \in claimed

\* PrefetchBounded: the channel never holds more than its capacity, and the cap on speculation
\* is exact.  Over GVFS, where headers travel without their objects, a blob over the cap is on
\* disk only if somebody read it; and a small blob the remote has is left out only after a fault,
\* when a Headers task was dropped, or when the daemon skipped it for another mount's batch:
\* otherwise its size is known in time, as the worker is FIFO and headers are posted first.
PrefetchBounded ==
    /\ Len(queue) <= Capacity
    /\ backend = "gvfs" => \A o \in Oids :
         disk[o] # "absent" /\ Kind[o] = "blob" /\ Size[o] > Cap => o \in wanted
    /\ backend # "noop" => \A o \in skipped \cap Upstream :
         Size[o] <= Cap => faults > 0 \/ "Headers" \in lost \/ o \in claimed

\* WarmCoversClosure: warm_tree_closure reads no tree twice, however the subtrees are shared;
\* it fails on none without a cause, and if it failed on none, the trees it saw are closed
\* under subtrees and all on disk.
WarmCoversClosure ==
    /\ walk.warmed + walk.errors <= Cardinality(walk.visited)
    /\ walk.errors > 0 => backend = "noop" \/ faults > 0 \/ ~(walk.visited \subseteq Upstream)
    /\ walk.at = "done" /\ walk.errors = 0 =>
         /\ walk.warmed = Cardinality(walk.visited)
         /\ \A t \in walk.visited : disk[t] = "whole" /\ ToSet(Subtrees[t]) \subseteq walk.visited

\* EveryWaitEnds: a hydrating read that waits for a fetch returns, whether it leads the fetch,
\* follows it, or the worker does; once the sender is dropped the worker drains what is queued
\* and exits, so the join in PrefetchHandle::drop returns; and the tree walk ends.
EveryWaitEnds ==
    /\ \A r \in Readers : Busy(r) ~> ~Busy(r)
    /\ tx = "closed" ~> (task.kind = "exited" \/ tx = "open")
    /\ Warmer \in cast.threads ~> walk.at = "done"
=============================================================================
