# A TLA+ model of projgit

projgit mounts a Git commit as a read-only filesystem and brings the bytes of a
file from the remote when it is first read. This directory holds a model of the
parts of it that are concurrent, can fail, or keep books: TLA+ modules, the TLC
configurations that check them on small instances, and TLAPS proofs of the results
that hold for every instance. Paths below are relative to `src/crates/`.

Run a check with `tlc -config coalescer.cfg MCCoalescer`, a proof with
`tlapm CoalescerProofs.tla`. `PROJECT.json` lists every run, the source lines each
definition stands for, the mutations each property was tried against, and the
hazards of the code.

## 1. Inventory

| component | state | operations | works with |
|---|---|---|---|
| `Coalescer` (`projgit-core/src/fetcher/coalesce.rs`) | map key -> slot (`Pending`/`Done`, condvar), two locks | `do_or_join` | every networked fetcher |
| `BatchChild` (`fetcher/git_cli.rs`) | a `git cat-file --batch-check` process, its two pipes | `query`, `query_batch`, `Drop` | the pool |
| `BatchChildPool`, `PoolGuard` (same file) | slots behind mutexes, round-robin counter | `acquire`, `with_child`, `reset` | `GitCliFetcher` |
| `GitCliFetcher` (same file) | coalescer, pool, claim set | `fetch_object`, `fetch_objects`, `prefetch_headers` | `ObjectStore`, prefetch worker, daemon |
| LRU caches (`blob_cache.rs`, `tree_cache.rs`, `header_cache.rs`) | two indexes, a generation counter, a byte total | `get`, `put` | `ObjectStore` |
| `ObjectStore` (`object_store.rs`) | gix handle, the three caches | `header`, `read_blob`, `read_tree`, `contains`, `put_header_cache` | everybody |
| `HydratingObjectStore` (`fetcher.rs`) | none of its own | read, fetch on a miss, read again; `warm_tree_closure` | store + fetcher |
| `Prefetcher` (`prefetch.rs`) | bounded channel (256), worker thread, drop counter | `post_headers`, `post_blobs`, worker loop, `Drop` | `ProjectionFsProvider` |
| `GixFetcher`, `GvfsFetcher`, `NoopFetcher` (`fetcher/*.rs`) | coalescer, HTTP/gix client | the `Fetcher` trait | `HydratingObjectStore` |
| `ProjectionFsProvider`, `InodeAllocator` (`projection_fs.rs`, `fs_provider.rs`, `projection.rs`) | inode -> attribute snapshot | `lookup`, `getattr`, `readdir`, `read`, `readlink` | FUSE adapter, store |
| tree walk, overlay, `.git` overlay (`tree.rs`, `overlay.rs`, `dotgit.rs`) | none (pure, or built once) | path resolution, splicing | `ProjectionFsProvider` |
| FUSE adapter, mount (`projgit-fuse`) | none | kernel requests to `FsProvider` | kernel |
| daemon server (`projgit-daemon/src/server.rs`, `main.rs`) | one active source, mount table, shutdown flag, socket, pid file | `Mount`, `Umount`, `Attach`, `Fetch`, `FetchMany`, `PrefetchHeaders`, `Status`, `Shutdown`, maintenance | all of the above |
| protocol, `DaemonFetcher` (`protocol.rs`, `fetcher.rs`) | none (one connection per request) | `write_message`, `read_message`, the `Fetcher` trait over RPC | a sidecar mount |
| clone, maintenance (`clone.rs`, `maintenance.rs`) | files on disk | `git clone --filter`, `git maintenance` | daemon, CLI |
| CLI (`projgit-cli`) | the sessions it has mounted | `mount`, `mount-multi`, `attach`, Ctrl-C | all |

What is hard here, and what makes each part correct:

- *Coalescer.* Look-up and insert, test and sleep, publish and remove each span a
  lock boundary. Correct means: one execution per key at a time, nobody sleeps
  without somebody to wake him, every caller gets the finished result of the
  execution it joined.
- *Child and pool.* A child is a request/response stream without request ids, so an
  answer left behind by one caller would be read by the next as its own. Children
  die, reads fail, spawns fail, and every early return has to give the slot back.
  The pipes are finite and the writer does not read.
- *GitCliFetcher.* The store the process reads may not see yet what git has
  written; two check-then-act sequences (the double check, the claim set) race with
  other callers. Correct means: `Ok` is said only of readable objects, errors are
  true, nobody asks twice for what is being fetched, everybody returns.
- *Caches.* Two indexes and a running total have to agree through promotion,
  replacement and eviction, while two threads read the same object and both put it.
- *Daemon.* Detached handler threads share one lock, which the first of them holds
  over a whole `git clone`, with the main thread and a maintenance thread; the process
  may end under any of them and leaves files, mounts and a git child behind. Correct
  means: one source per daemon, a mount table that is what is mounted, no use of a
  clone that is not finished, an end for every request and every shutdown.
- *Hydration.* A read misses, fetches and reads again while a worker and a tree
  warmer fetch the same objects, other processes write into the same directory, and
  the process may die between any two file operations. Bulk answers come back in
  another order, duplicated or not at all, and have to reach the right object.
  Correct means: bytes are returned only of objects that are whole on disk, cached
  headers are true, an error has a cause, speculation stays within its cap, and
  readers, worker, warmer and `Drop` come to an end.
- *Projection.* Inodes outlive the commit they were looked up in: refs move, and the
  provider resolves them again on every lookup, while the kernel keeps its handles.
  Correct means: a path finds what git lists there, a handle keeps its bytes, listing
  and lookup agree, inode spaces do not mix.
- *Mounting.* Several mounts are made one after the other from refs that may move between
  two steps, each step may fail, and Ctrl-C may come at any time. Correct means: what was
  mounted is unmounted on every way out, no directory is mounted twice, the `.git` of a
  mount is of one commit.

## 2. Modules

    SingleFlight <--implements-- Coalescer     <-- CoalescerProofs
         ^
         | INSTANCE
    GitCliFetcher --INSTANCE--> BatchPool      <-- BatchPoolProofs
         ^                      BatchPipe      <-- BatchPipeProofs
    GitCliFetcherProofs --INSTANCE--> BatchPoolProofs
    Hydrate  --INSTANCE--> SingleFlight        <-- HydrateProofs  (of Hydrate)
    LruQueue     <--implements-- LruCache      <-- LruCacheProofs
    Picks <--EXTENDS-- GitCliFetcher, Hydrate
    GitTree <--EXTENDS-- ProjectionFs <--EXTENDS-- MountCli <-- MountCliProofs
    Daemon                                     <-- DaemonProofs

`MC*.tla` give the sets their small values.

**Coalescer.** Threads with a program counter `pc`, the `key` and the `slot` of their
call; `inflight` is the map, `state` the state of each slot that was ever created (a
slot is named by the thread and call that created it: the `Arc` address), `seen` the
slot a thread's last call returned from. The two
mutexes are not variables: an action is one critical section of one lock (`Lead`
and `Join` the map's, `Publish`, `Sleep`, `Follow` the slot's, `Evict` the map's
again), and `FReturns` is the closure's run between two of them. `SpuriousWakeup`
is what `Condvar::wait` allows.

**SingleFlight.** What that promises: a *flight* per key is open from the moment it
is needed until its opener closes it; calls attach to the open flight and return
its outcome.

**BatchPool.** Actors between `Begin` and `Finish` of a round trip: `Acquire` (the
atomic counter), `TryLock`/`TryLockBusy` (one `try_lock` each), `LockStart`,
`Abandon` (raw_fetch's double check), `Query` with the lazy spawn, `SpawnFails`,
`ReadLine`, `IoFails` with the reset and the retry. A child is
`[status, in, out]`. `Serve` and `Exit` are git's side (external). Lines are
`(object, header|missing)`. What `IoFails` does to the old child is `Drop`: stdin is
closed and the process waited for, so it first serves what it was sent.

**BatchPipe.** One `query_batch` after another on one child, with pipes counted in
lines: the write loop blocks on a full stdin, git reads requests in chunks and
blocks on a full stdout, nothing is read before the last write. BatchPool abstracts
from the capacity of the pipes, BatchPipe from who the callers are.

**GitCliFetcher.** `SingleFlight` for `fetch_object`, `BatchPool` for the round
trips, and `prefetch_headers` in its five stages (partition, claim, skip, batch,
reassemble). `disk` is what git has written, `visible` what `store.contains` finds;
`Refresh` moves one to the other at any time (gix refreshes its view of the packs
when it misses, but not for a promise of when). The coalescer passes an error
between threads as text; `DisplayWords` and `Reclassified` model that conversion by
the words the text has and the words the code looks for. `reply` is what a reader's
`fetch_object` returned to it after that, `returned` the vector a batch returned.

**Picks.** What both stores do with batches: the elements of a list that pass a test
(`Keep`), or that pass it for the first time (`FirstOccurrences`: a list filtered through
a `HashSet`), as recursive functions.

**LruCache.** One module for the three caches: an entry costs `Size` (1 for trees
and headers) of a budget `Capacity`. `get` is one step; the loop of `put` is kept
turn by turn under the mutex; between a miss and its `put` the mutex is free.
`PutGivesUp` is the branch its comment calls unreachable: with the defaults
(`object_store.rs:99`) it is, but `BlobCache::new` takes any pair of limits and
nothing enforces the comment's condition, so it is modelled (it empties the cache
before it gives up).

**LruQueue.** A queue ordered by last use; a push drops the oldest entries, no more
than it must.

**Daemon.** Processes, each of which lives once: the main thread's place in `run` is
`stage` (`Start` to `ProcessExits`, one action per call that others can observe), the
maintenance thread's is `maint`, and a handler thread is identified with its client
(`at`), since a connection carries one request. `source`, `table` and `lock` are
`DaemonState::active`: `TakeLock` to `Answer` is the critical section of `handle_mount`
and `handle_attach`, while `Status`, `Umount` and the first half of `Fetch` take the lock
in one step. `socket`, `pidFile`, `mounted` and `cache` are outside and survive the
process: the socket path names at most one listener, a mount keeps the name of the daemon
that made it. `Respond` and `DropState` both may drop the last `Arc` of the state and so
unmount. `Start` to `WritePid` may fail one by one; `ChmodFails` (stage `aborted`) returns
with the socket bound, as the `?` does. `Gone` is what the end of a process does,
gracefully or not. `Controllers` send Mount, Umount, Status and Shutdown (the signal
handler of `main.rs` is one), `Sidecars` attach once and then fetch. Fetch stands for
FetchMany and PrefetchHeaders, which take the backend out of the lock in the same way;
Ping changes nothing. External: a `git clone` removes what it made when it fails and
outlives its parent; a mount whose daemon is dead cannot be canonicalized; nothing is
mounted upon a projection, which is read-only.

**Hydrate.** `HydratingObjectStore`, the prefetch worker and the tree warmer over one of
the four fetchers without a pool of children; `backend` says which. A thread in a
fetcher call has a `job`: what is still to be fetched one by one (`todo`) and the probes
so far. `FetchPresent` to `FetchReturns` are `fetch_object` of GixFetcher and
GvfsFetcher, with the coalescer as SingleFlight and one action per step of `raw_fetch`
that another thread, another process or a crash can come between (`GvfsGet`, `WriteTmp`,
`Rename`, `Verify`). `GvfsPrefetchHeaders` and `DaemonBatch` are the requests that carry
a whole batch, `BulkStarts` and `BulkReturns` what the store does around them.
`disk` is the object directory, which survives `Crash`; `visible` is what the store
finds; `headers` is the header cache, where a header may be without its object.
`Elsewhere` is another mount writing into the same directory. `Rename` takes a body as it
came: nobody has compared it with the object's length or name, so a file that was cut short
(`Cut`: before or behind the loose object's header) gets the final name like a whole one.
`ServerProbes` is the daemon's answer to a batch: objects it has, objects it fetches, and
objects that a batch of another mount has claimed, which it skips and calls `Present`
(`claimed` remembers them). The channel is `queue`;
`Post` is `try_send`; `Recv`, `HeadersChunk`, `BlobsChunk`, `TaskDone` are the worker's
loop, `CloseChannel` and `WorkerExits` are `Drop`. The warmer is `walk`. `Casts` picks
which threads take part, so that one run covers readers alone, readers with the worker
and readers with the warmer without their product.

**GitTree.** Commits, trees and blobs as constants, and the pure functions over them:
`Lookup` with `split_path`'s rules, the synthetic overlay as path -> entry, the `.git`
overlays of `dotgit.rs`, `ReadRoot` with shadowed names left out. `AllPaths` is the
reference: what a recursive listing of the tree holds. `TreesAssumption` is what git
guarantees of a repository (an entry is a directory iff its object is a tree, names in a
tree differ and are never `.` or `..`, and `Depth` is not passed), `NamesAssumption` that
the names of the synthetic `.git` are names, and that a branch lies under `refs/heads/`,
which `apply_a2_ref_visibility` asserts. TLC evaluates both on its instance. A ref that
was deleted has no commit (`None`): resolving it is a store error, on every path that
resolves it.

**ProjectionFs.** The provider's tables (`attrs`, per mount: inode -> snapshot, the first
one published stays), inode numbers computed from a `Hash` as `InodeAllocator` does, and
the adapter: one action per kernel request, errors mapped to errnos. `JoinPath` spells a
path as the code does: every name goes through `Lossy` (`String::from_utf8_lossy`, any
idempotent function on names), while a tree entry and a `readdir` entry keep their bytes.
`replies` is what the kernel was told, which is what the properties speak of; `reading`
and `listing` are a client that reads a file in chunks and lists a directory until nothing
more comes. Lookups see `have`, the objects in the local store; reads and `readdir` of a
directory fetch what they need.

**MountCli.** `run_mount` and `run_mount_multi`: `stage` is the place in the function,
`turn` the spec being mounted. The refs are resolved where the code does (for the
projection of a subtree, for the overlay, for the time stamp), so `MoveRef` and
`DeleteRef` can come in between. `sessions` is the vector of the mounts made so far, which
is not what the kernel has (`mounted`). `StepFails` is any step failing for an outside
reason; `DropSession` drops the front of the vector, and so unmounts it, as the function
returns, early or not; `Exit` asks only that the vector is empty. `Killed` is a Ctrl-C
before the handler is installed.

## 3. Runs

| run | instance | shows |
|---|---|---|
| `coalescer` | 3 threads, 2 calls each, 1 key | safety, liveness and the refinement to SingleFlight with fairness |
| `batch_pool` | 2 actors, 2 slots, singles and batches, 2 faults, 1 failing spawn | no slot leaked, pipes in step, true answers |
| `batch_pipe` | batches up to 6 = stdout, stdin 3 | nothing left over, nobody stuck, every batch ends |
| `batch_pipe_large` | batch 7 over pipes of 2 and 3 | **violated**: the write loop ends |
| `fetcher_demand` | 2 readers, 1 prefetch batch, 1 object, 1 child, 2 faults | `Ok` and a header mean resident, the errors callers get have causes, coalescing, everyone returns |
| `fetcher_prefetch` | 2 prefetchers, overlapping batches, one with a duplicate, 1 reader, 2 objects, one not upstream, 2 children | no claim lost, leaked or shared; each error of a batch and of a reader has a cause |
| `lru_cache` | 2 threads, 5 objects, budget 3 | indexes and total agree; implements LruQueue |
| `daemon` | 2 daemons, a controller and a sidecar with 2 requests each, 2 sources, 1 mount point | one source per daemon, table = mounts and the last holder unmounts, complete clones, files on disk tell the truth (an exit leaves none, but for the failing `fchmodat`) |
| `daemon_live` | the same with 1 daemon | every request ends, every shutdown ends |
| `hydrate` | 4 backends x 4 casts: two readers; a reader and the worker; a reader and the warmer; a lone reader; 7 objects, 2 operations each, 1 fault | Ok means resident and whole, errors have causes and keep their kind, headers true, probes honest, prefetching exact within its cap and channel, the walk covers the closure; reads, Drop and the walk end |
| `projection` | 7 command lines, 2 commits, 2 refs, 5 trees, 3 blobs, a name that is not UTF-8, 4 operations, 1 move or deletion of a ref | paths, handles, reads, listings and inodes are right while refs move; `.git` is coherent; an exit unmounts all that was mounted |
| `readdir_paging` | one mount, a directory larger than the reply buffer | **violated**: a listing that ended is complete |

*Bounds.* Three threads are the fewest with a leader and two followers, two calls let a
thread come back while its old slot is still in the map. Keys share nothing but a lock, so
one is enough. Two faults are needed for a retry to fail too; the third would meet a
caller that has already returned. Two slots let a retry land on another child, one slot is
where everybody contends. A batch of two on top of singles makes a partly read batch. The
pipe capacities are scaled down (64 KiB is about 1,600 requests or 1,200 answers); the
proofs are for all capacities. The sizes 1, 1, 2 in a budget of 3 make a put evict none,
one or two entries; 4 passes the per-entry limit and does not fit, 5 is refused. `MaxGen`
bounds the generations, which only grow. Two daemons make a restart after an exit or a
crash, and a second instance; two clients race for the first attach, two requests each are
a mount and its unmount, a mount and a shutdown, an attach and a fetch; two sources
disagree. In `hydrate` the trees share a subtree and list one twice, a directory lists a
blob twice and one the remote does not have; sizes are below, at and above the cap; a
chunk is smaller than the directory, the channel holds one task of the two that a
directory posts. One fault is a lost answer, a body cut short, an index that lags, a write
by another process, or a crash; that the daemon skips what others claimed is no fault and
may happen in every batch; faults only excuse failures, so a second adds excuses, while
the safety properties that do not mention faults are proved for any number. `MaxCalls` is
above what two operations or one walk need. In `projection` the two commits differ by a
mode, by a blob, and by a directory that becomes a submodule; a name that is not UTF-8
stands alone in one directory and next to its lossy spelling in another, and is looked up
in both; the hash is injective, sets the high bit for every other key and gives 1 for one
path, so that the reserved numbers are met; four operations are a lookup of two levels, a
read or a listing, and one more after the ref moved; the buffer holds every directory
(paging has its own run, with a buffer of two). The hypotheses of the theorem on handles
(`NoCollisions`, `TypesKept`) are an `ASSUME` of MCMountCli, so TLC has shown that this
instance satisfies them. `daemon_live` has one daemon because of its size: the two daemons
of `daemon` interact through the socket path only, and what that does to a shutdown is
item 8 of section 4. `CHECK_DEADLOCK FALSE` appears where the bounded calls run out.

*Symmetry* is used only in runs without liveness or refinement under fairness.

*Fairness.* Threads that can take a step in the code do so (weak fairness of each thread's
own steps); a closure returns; git answers a request it has read; clones, fetches and `git
maintenance` end (the code sets no time limit on them: this is an assumption on git and
the network). A blocked `lock()` gets weak fairness only, which is all `std::sync::Mutex`
promises, and the bounded number of calls is why it suffices. In `hydrate` and
`projection` each thread's steps inside an operation are fair, and so is the main thread
of the CLI; asking, closing the channel, Ctrl-C, moves of refs, faults and crashes are
not. No fairness for calling, for spurious wake-ups, for faults, or for the store's
refresh: `fetch_object` returns even if the store never sees the object (as
`NotPresentAfterFetch`).

*Types.* The type invariant of Daemon is checked; those of Coalescer, BatchPool, BatchPipe
and LruCache are proved, as are `ReturnsAfterDone` and `DoneIsFinal` of the Coalescer,
`NeverStuck` of BatchPipe (its run has `EveryBatchEnds`) and `OneMountPerDirectory` and
`PinnedAttrsTrue` of MountCli, which therefore have no run. What the proofs of Hydrate and
MountCli need of types is in their invariants (`Types` of HydrateProofs among them).

*Mutations.* Every property of every passing run is violated by a named mutation of the
code's behaviour kept next to the action it replaces (`...Mutant...`): a notify for one
follower only, a child kept after an I/O error, a claim that is not given back, a slot
kept by an early return, a session dropped without unmounting, a total not reduced by an
eviction, and so on.

## 4. Disagreements between comments and code

The first two are runs that TLC refutes, with a trace, and findings in `PROJECT.json`.

1. `git_cli.rs:165-166` "Write all OIDs first; git buffers them": git answers as it
   reads, so a batch larger than the two pipes stops both sides for good
   (`WriteLoopEnds`). `warm_tree_closure` and `fetch_objects` pass unbounded batches.
2. `projgit-fuse/src/adapter.rs:145-147` "so the next readdir call resumes correctly":
   the provider answers every offset above 0 with nothing (`projection_fs.rs:423`), so a
   directory that does not fit in one reply is cut short (`ListingsResume`).

The others have no run of their own; the models contain what the code does.

3. `projection_fs.rs:16-18` "The cache is purely for speed and never becomes the source of
   truth": the inode of an entry is made of its object and path, not of its mode, and the
   first snapshot stays (`publish`). After the ref of a mount moved to a commit in which a
   file turned executable, `lookup` answers the new mode, and `getattr` on the inode it
   returned the old one, for as long as the mount lives.
   `HandlesFaithful` therefore speaks of type, size and bytes only, and supposes that no
   file becomes a symlink of the same content (`TypesKept`), where the type too would be
   stale. Mounts of a commit or of a subtree are not affected
   (`PinnedAttrsTrue`, proved).
4. `git_cli.rs:665-666` "Re-classify by content": the text never contains the words
   looked for; every error becomes `Backend`. GixFetcher does the same. GvfsFetcher looks
   for words the text has, and there the kinds survive (`FailuresHaveCauses`).
5. `git_cli.rs:892-893` "duplicate OIDs in the input still each get a result": the
   second gets an error, and `HydratingObjectStore` turns later places into `Present`.
6. `protocol.rs:56-57` "Graceful shutdown: daemon unmounts everything", and
   `server.rs:15-18`: the sessions are dropped with the last `Arc` of the state, and
   detached handler threads own some. If one of them, that of the Shutdown request
   included, has not finished when `main` returns, the mounts stay, without a server.
   What does hold is that the last holder unmounts (`TableMatchesMounts`).
7. `coalesce.rs:17-20` "the *next* call for the same key starts fresh": between
   publishing a result and removing the slot (`Publish`, `Evict`) a returning follower
   can call again and get the same failure.
8. `server.rs:354-356` "bind() below will fail with EADDRINUSE" and `100-102`
   "socket-bind already guards against a second instance": `Start` has just removed the
   path, so `Bind` succeeds. The first daemon then cannot be reached, a Shutdown in
   progress there wakes the second one, and when it ends it removes the second's socket
   and pid file.
9. `projgit-daemon/src/fetcher.rs:14-20` "reconnect-friendly by construction": the new
   instance has no source until somebody attaches one, sidecars attach once, and Fetch
   does not name a source: their fetches are answered `NOT_ATTACHED`, or from the source
   somebody else attached.
10. `adapter.rs:28-32` "Projections are immutable for the lifetime of a mount (we mount one
    commit, period)", from which a day of attribute caching follows: a mount of a ref
    resolves it again on every lookup. Mounts of a commit and of a subtree are immutable
    (`PinnedViewsStable`).
11. `server.rs:1052-1077` "Mirrors the helper in projgit-cli": the two normalise a URL
    differently, so a daemon and a CLI mount may not share a clone.
12. `run_mount_multi` relies on dropping its sessions to unmount; a Ctrl-C before the
    handler is installed (`main.rs:935`) ends the process with the mounts up (`Killed`).
13. `fetcher.rs:135-138` "The OID is locally present after this call", of `Present`: an
    object that another batch has claimed is reported so although it is not there and that
    batch may still fail (`git_cli.rs:743-753`). Between sidecars of one daemon this has a
    cost without any fault: the second gets no header for the blob, and its worker leaves
    it out. `FirstProbeHonest` and `PrefetchBounded` say that this is the only exception.
14. `fetcher.rs:146-148` "The on-demand path will retry naturally": not after a GVFS body
    that ended early (`gvfs.rs:191-200`, in a response that does not state its length). It
    is renamed into place unchecked (`gvfs.rs:245-274`), `write_loose_object` then takes
    the file for present, and reads of the object fail for as long as the file is there.
    Reads do not return it as an object (`OkMeansResident`), and this is the only cause of
    such a store error (`FailuresHaveCauses`). A body that decodes but is of another
    object is not modelled: the server is trusted with that.
15. `fs_provider.rs:147-150` "names containing arbitrary bytes losslessly": they are
    listed so, but a lookup goes through `String::from_utf8_lossy`
    (`projection_fs.rs:199-211`) and compares the result with the bytes in the tree, so a
    name that is not UTF-8 is listed and not found, or is answered with the entry whose
    name *is* the replaced spelling. `PathsDenote` and `ListingAgrees` speak of the
    spelled path; for names that are UTF-8 this is the name.
16. `server.rs:361-367`: when `fchmodat` fails, `run` returns with the socket file it has
    just bound left behind, while every later failure removes it (`NoStaleFiles` excepts
    this one path). The next start removes it.

Also seen while modelling: the retry usually lands on another slot than the one reset, so
"the next caller for this slot respawns" (`git_cli.rs:560-562`) happens late; a caller
that finds all slots busy waits for its start slot even if another is freed first
(`git_cli.rs:284-287`); a failed `write_all` leaves its temporary file behind
(`gvfs.rs:265`); `lookup` reads trees from the bare store, so a path through a tree that
was never fetched is `EIO` until a `readdir` of its parent brings it (`PathsDenote` says
exactly when); once the ref of a mount is deleted, everything but its `.git` is `EIO`
(`projection.rs:65`, `79`), inodes that the kernel has excepted; `mount-multi` starts no
tree warmer.

## 5. Proofs

All are of the specifications TLC checks, for every value of the constants under the
named assumptions (`ConstantsAssumption` and so on: the sets and limits are what
their names say, the null values are not members).

- **CoalescerProofs**: `TypeCorrectness`, `SingleExecution`, `WakeupsAreNotLost`,
  `ResultsAreDone`, `ResultsAreFinal` and `Refinement` (every step is a SingleFlight
  step or invisible). None of the properties is inductive: that two threads never run
  `f` for one key needs that the leader's slot is the one in the map until it removes
  it, that slots are created once (named by a call number nobody has used), and that
  a follower's slot belongs to a leader that is still before `Publish` or is `Done`.
  Those facts are the conjuncts of `CoalescerInv`.
- **BatchPoolProofs**: `TypeCorrectness`, `NoSlotIsLeaked`, `PipesStayInStep` and
  `AnswersAreTrue`. `PoolInv` adds that the scan is within the slots (`ScanInRange`), so
  that blocking starts exactly after the last `try_lock`. On it stands `PipeInv`: that
  answers arrive in the order of the requests is inductive only because a slot has one
  holder (`SlotsHeldExactly`), so what one caller left in the pipes nobody else reads;
  that they are true needs that each line was true when git wrote it and that no object
  leaves the disk.
- **GitCliFetcherProofs**: `OkIsResident`, `ErrorsAreCaused`, `NoClaimIsLeaked`,
  `Coalesced`, for any number of readers, prefetchers, slots and faults. `FetcherIsPool`
  shows that each step of the fetcher is a step of its pool or leaves the pool alone, and
  the theorems of the pool are used through `INSTANCE BatchPoolProofs`, not proved again.
  `FetcherInv` adds to `PoolInv` and `PipeInv`: whose flight is open and who follows it
  (`FlightInv`: a flight is named by a call number, so a flight that is not yet opened is
  `Pending`); that every outcome that was published is honest (`OutcomeInv`, over the
  constant-level `Honest`), since a follower takes it over unread; which round trip a
  reader's place in `raw_fetch` and a batch's stage belong to (`ReaderInv`, `BatchInv`);
  and that what a batch has put together so far is honest (`ProbeInv`). A transport error
  takes *two* faults because the first one drops the child and the retry begins on a fresh
  one: `FaultsCounted` carries that through the pool. `ErrorsAreCaused` is about what
  callers are handed: a reader's error is a `Backend` whatever it was, so what can be said
  of it is that something that can make a fetch fail has happened (`CanFail`); a batch
  keeps the variants, and the later place of a duplicate is excepted (item 5 of section
  4). The lemmas on operators (`LeastOf`, `TurnsExist`, `PickedHolds`, `FirstsHold`) say
  what `Picks` computes; see HydrateProofs.
- **DaemonProofs**: `TypeCorrectness`, `OneSource`, `TableIsTruth`, `CompleteClone`,
  `FilesCleaned`. `DaemonInv` ties each stage of `run` to the files it has made
  (`FilesInv`), each handler to its daemon and its request (`ConnInv`, `BacklogInv`), the
  critical section to the lock (`LockInv`: who is between `TakeLock` and `Answer` owns
  it), the source a handler has checked to the one that is still bound when it mounts
  (`SourceInv`), the table to the mounts (`MountInv`) and a clone under way to the handler
  that makes it (`CloneInv`). `TableMatchesMounts` is not inductive without `LockInv`:
  between the mount and its entry in the table another handler could come in.
  `FilesCleaned` needs `FilesInv` for the paths out of `run`: each failure is at a stage
  that says which files there are to remove, and `aborted` keeps the socket.
- **BatchPipeProofs**: `NothingIsLeftOver`; `SmallBatchesNeverStick` under
  `MaxBatch <= OutCap`; `WriteLoopNeverSticks` under `MaxBatch <= InCap + OutCap + 1`.
  The invariant counts requests: what was written is in stdin, in git's hands, in
  stdout or read. The last bound is sharp: the `batch_pipe_large` run breaks it by one.
- **LruCacheProofs**: `CacheIsConsistent`: the indexes are each other's inverse and
  the budget is kept. Needed on top: the loop is entered only by the owner of the
  mutex and its object is not cached, and generations are below the counter.
  `BudgetIsExact`: the running total is the sum of the sizes of what is cached. The sum of
  the library folds over a set; `SumsExist` and `SumIsTotal` show, by a least
  counterexample in the order of finite sets, that there is such a fold and that it does
  not depend on the order, and then each critical section changes it by one object.
  `CacheIsLru`: the cache implements LruQueue. The generations in use form a line (the
  increasing sequence of them, which a finite set of numbers has exactly once); the
  abstract queue is the line's objects, and while somebody is in the eviction loop it is
  already the queue after the push, so that each turn of the loop is invisible: the turns
  take from the front exactly the entries that `RoomFor` drops at once.
- **HydrateProofs**: all six safety properties of the `hydrate` run, for any number of
  readers, objects, faults and crashes, for batches and directories of any length and for
  every backend. There are two invariants. `HydrateInv` gives `ReadsAreResident`: that Ok
  means resident needs that the store finds only whole objects, although cut ones may
  stand under their names, and that no step takes an object off the disk or cuts a whole
  one. `StoreInv` stands on it and gives `FailuresAreCaused`, `HeadersAreTrue`,
  `FirstProbesAreHonest`, `PrefetchKeepsToBounds` and `WarmingIsComplete`:
  - *errors have causes*: a reader repeats what a flight's outcome said, so every outcome
    has to be honest when it is published (`OutcomeInv`) and stay so while objects and
    faults only grow (`HonestGrows`); it is honest because a leader's place in `raw_fetch`
    says what it may find (`StageInv`), and it is about the right object because a call in
    the coalescer is the head of its thread's `todo` (`FlightInv`, `PhaseInv`). Without a
    fault what is on disk is found, and only GVFS and a fault leave a cut file (`SeenInv`);
  - *headers and probes*: `JobInv` says of every call under way that each of its objects
    is there, still to come or answered (`Accounted`), and that the answers are true of
    the disk (`ProbeTrue`). `ReorderHolds`, `ReassembledHolds`, `GvfsAnswers` and
    `ServerHonest` say what the shuffling of probes keeps; a plain `Present` of a claimed
    object, which is not true of the disk, is carried along as the one exception.
    `BatchFresh`: a request that carries a whole batch is made once, so its answers are
    the only ones;
  - *the cap is exact*: `WantInv` (bytes are asked for only of small or wanted objects) and
    `QueueInv`: while nothing excuses it, the header of every blob in a Blobs task is known
    or will come from a Headers task before it, in the channel, in the worker's hands or in
    its call. This is where FIFO order and posting headers first are used;
  - *the walk*: `WalkInv` counts: trees seen = read + failed + ahead, and those ahead are
    distinct. "No tree twice" is this sum, and the closure holds of the trees behind.

  What a step of each sort does is said once: inside a fetcher (`InsideInv`), an answer
  about one object or about a batch (`AnswersOneInv`, `AnswersBatchInv`), outside the
  fetchers (`Surface`, `Bookkeeping`), behind the process's back (`MoreIsFound`), a start
  (`FreshInv`, for Init and for `Crash`).

  The functions of `Picks` recurse over a list. `TurnsExist` proves that such a function
  exists and satisfies its equation, and `PickedHolds` what it computes, both from the least
  counterexample (`LeastOf`, by the well-foundedness of `<` on `Nat`) instead of an
  induction rule, which this prover cannot instantiate.
- **MountCliProofs**: all safety properties of the `projection` run, and
  `DirectoriesDistinct`, for every repository, command line, number of mounts, moves and
  deletions of refs, lossy conversion and operations. `NoMountLeft`,
  `DirectoriesDistinct`, and `InodeSpacesApart` under `HashIsNumber` alone (a hash is a
  natural number; it may collide) rest on `MountInv`: providers are built in the order of
  the specs, one each, and none before the mountpoints were compared, so a provider's
  table is never built again once an answer was given from it; and `SessionsOwn`: every
  mount the kernel has is that of one session in the vector and no two are of one mount,
  through pushes, early returns and drops, which is why an empty vector means that nothing
  is mounted. The others need to know what the loops over paths compute:
  - *loops*: `NavLookup`, `ResolveInSynthetic`, `AllPaths` and `Only` are walks from place
    to place. `WalksExist` and `WalksAgree` show once, by least counterexample, that a
    walk exists and is unique; so resolving a path and one name more is one step from what
    the path resolved to (`NavStep`, `SynStep`);
  - *the reference*: the listing has the root, is closed under entries of directories, has
    nothing else, and names nothing twice (`PathsClosed`, `PathsOrigin`, `PathsUnique`).
    `NavRight`: what resolution answers is what is listed, error by error;
  - *the overlay*: what `build_root_overlay` makes is tidy, every node in a directory
    (`Tidy`, `A1PlusIs`, `A2Is`). `DotgitReadable` follows by reading HEAD, the branch and
    the index out of it; that all three are of one commit holds because `pin` is resolved
    once;
  - *answers*: `ProviderInv` keeps what a provider was made of, and `ReplyInv` says of
    every answer given what it meant when it was given, in terms of constants only, so
    that it survives every step; the commit shown may be none (`MayShow`). It gives
    `LookupsDenote` and, since the commit of a pinned mount is fixed and a path names one
    entry, `PinnedMountsStable`;
  - *listings*: `ListingInv` says the same of the entries listed so far, `ListingsAgree`
    compares the two. Both spell a path with `JoinPath`; nothing is used of `Lossy` but
    that it maps names to names and that a name it has made stays as it is;
  - *handles*: `HandleInv` adds that every snapshot was made of an entry at some path in
    some commit the mount showed (`Made`), and that the bytes read so far are a prefix
    (`Text`). `HandlesStayFaithful` needs two hypotheses, both about constants.
    `NoCollisions`: the hash tells apart the entries that one mount can show and the paths
    of one `.git`; the code relies on 63 bits for that. `TypesKept`: see item 3 of section
    4. `PinnedAttrsTransparent` needs the first only.

*What the proofs found.* `PathsDenote` was wrong: an `EIO` may also be due to a directory in
the middle of a `--subtree` path, which the property had forgotten and the instance, then
with a subtree of one component only, could not show. `TypesKept` came out of the attempt to
prove `HandlesFaithful` without it.

*Only model-checked.* Liveness and the fairness part of the refinement of the coalescer (no
temporal reasoning under fairness in this prover). Everything else the passing runs check is
proved. The prover has no induction rule that it can instantiate; what recursive functions
compute is proved by least counterexample instead.

## 6. Plan

The components of the plan are modelled. What is left, in this order:

1. **Composition**: a daemon's own hydrating store behind the sidecar's, instead of the
   answer `ServerProbes` gives in one step, so that the daemon's faults reach the sidecar.
2. **Kernel cache**: entries kept for a day over a ref that moves.

## 7. Not modelled

- Bytes: contents of objects beyond what a read has to add up to, the text of protocol
  lines, timestamps beyond the commit they are of, tracing and counters of statistics.
- gix, git, HTTP and FUSE themselves: a store that finds an object or does not, a process
  or a remote that answers, dies or does not start, a session that unmounts when dropped.
- The kernel's attribute cache. Framing on the socket: a message over the limit is a
  request that fails.
- Hash collisions between two paths: the `projection` run takes a hash without them, as do
  the theorems on handles and attributes; all others hold for any hash.
- `Ping`, which changes nothing; the allocator's forward memo and `InMemoryFsProvider`,
  which only tests use; `SyntheticSymlink`, which no overlay builds.
- Panics and poisoned mutexes, except as the mutant of `EveryWaitEnds`.
- How the CLI reads its environment and names its cache directory; `projgit-winfsp` (a
  stub), benchmarks (`bench_mount.rs`), spikes.
