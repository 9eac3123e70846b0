------------------------------ MODULE LruCache ------------------------------
(***************************************************************************)
(* The LRU caches of projgit-core (blob_cache.rs, and tree_cache.rs and    *)
(* header_cache.rs, where every entry costs 1) and the read-through that   *)
(* ObjectStore::read_blob, read_tree and header do around them.            *)
(*                                                                         *)
(* An entry lives in two indexes, entries (by object) and order (by        *)
(* generation), under one mutex.  A get is one critical section; a put is  *)
(* one too, but its eviction loop is kept step by step, with the mutex     *)
(* held.  Between a get that misses and the put that fills the entry the   *)
(* mutex is free: two threads may read the same object and both put it.    *)
(***************************************************************************)
EXTENDS Integers, FiniteSets, FiniteSetsExt, SequencesExt

CONSTANTS Threads,      \* threads in ObjectStore
          Oids,         \* object ids
          Size,         \* object id -> payload_len (1 for trees and headers)
          Capacity,     \* capacity_bytes, or capacity
          PerEntryMax,  \* per_entry_max_bytes
          MaxGen,       \* bound on the generations handed out
          NoOne         \* the owner of the free mutex

ASSUME CacheAssumption ==
    /\ Size \in [Oids -> Nat]
    /\ Capacity \in Nat
    /\ PerEntryMax \in Nat
    /\ MaxGen \in Nat
    /\ NoOne \notin Threads

VARIABLES
    entries,     \* object id -> generation, for the cached objects
    order,       \* generation -> object id
    nextGen,     \* the last generation handed out
    bytesUsed,   \* what the entries cost together
    mutex,       \* the thread in the eviction loop of put, or NoOne
    pc,          \* thread -> "idle" | "find" | "put" | "evict"
    want         \* thread -> the object it reads

vars == <<entries, order, nextGen, bytesUsed, mutex, pc, want>>
cache == <<entries, order, nextGen, bytesUsed>>

Without(f, x) == [y \in DOMAIN f \ {x} |-> f[y]]
With(f, x, v) == [y \in DOMAIN f \cup {x} |-> IF y = x THEN v ELSE f[y]]

Init ==
    /\ entries = [o \in {} |-> 0]
    /\ order = [g \in {} |-> CHOOSE o \in Oids : TRUE]
    /\ nextGen = 0
    /\ bytesUsed = 0
    /\ mutex = NoOne
    /\ pc = [t \in Threads |-> "idle"]
    /\ want = [t \in Threads |-> CHOOSE o \in Oids : TRUE]

\* The entry of o gets a new generation and so becomes the most recently used.
Promote(o) ==
    /\ nextGen < MaxGen
    /\ nextGen' = nextGen + 1
    /\ order' = With(Without(order, entries[o]), nextGen + 1, o)
    /\ entries' = With(entries, o, nextGen + 1)
    /\ UNCHANGED bytesUsed

-----------------------------------------------------------------------------
(* The read-through.                                                       *)

GetHit(t, o) ==
    /\ pc[t] = "idle"
    /\ mutex = NoOne
    /\ o \in DOMAIN entries
    /\ Promote(o)
    /\ UNCHANGED <<mutex, pc, want>>

GetMiss(t, o) ==
    /\ pc[t] = "idle"
    /\ mutex = NoOne
    /\ o \notin DOMAIN entries
    /\ pc' = [pc EXCEPT ![t] = "find"]
    /\ want' = [want EXCEPT ![t] = o]
    /\ UNCHANGED <<cache, mutex>>

\* The object is read without the mutex (external: whether gix finds it).
Find(t) ==
    /\ pc[t] = "find"
    /\ pc' = [pc EXCEPT ![t] = "put"]
    /\ UNCHANGED <<cache, mutex, want>>

\* MissingObject, or an object of another kind: an error, and nothing is cached.
FindFails(t) ==
    /\ pc[t] = "find"
    /\ pc' = [pc EXCEPT ![t] = "idle"]
    /\ UNCHANGED <<cache, mutex, want>>

\* put_header_cache: a header a fetcher has brought is put without a read.
PutHeader(t, o) ==
    /\ pc[t] = "idle"
    /\ pc' = [pc EXCEPT ![t] = "put"]
    /\ want' = [want EXCEPT ![t] = o]
    /\ UNCHANGED <<cache, mutex>>

-----------------------------------------------------------------------------
(* put.                                                                    *)

\* Caching is disabled, or the entry is too large.
PutSkips(t) ==
    /\ pc[t] = "put"
    /\ mutex = NoOne
    /\ Capacity = 0 \/ Size[want[t]] > PerEntryMax
    /\ pc' = [pc EXCEPT ![t] = "idle"]
    /\ UNCHANGED <<cache, mutex, want>>

Puts(t) ==
    /\ pc[t] = "put"
    /\ mutex = NoOne
    /\ Capacity # 0 /\ Size[want[t]] <= PerEntryMax

\* Another thread has put the object meanwhile: replace and promote.  The object is
\* the same, so bytes_used loses and gains the same.
PutReplaces(t) ==
    /\ Puts(t)
    /\ want[t] \in DOMAIN entries
    /\ Promote(want[t])
    /\ pc' = [pc EXCEPT ![t] = "idle"]
    /\ UNCHANGED <<mutex, want>>

PutStartsMutantNoCheck(t) ==
    /\ Puts(t)
    /\ mutex' = t
    /\ pc' = [pc EXCEPT ![t] = "evict"]
    /\ UNCHANGED <<cache, want>>

PutStarts(t) ==
    /\ Puts(t)
    /\ want[t] \notin DOMAIN entries
    /\ mutex' = t
    /\ pc' = [pc EXCEPT ![t] = "evict"]
    /\ UNCHANGED <<cache, want>>

Fits(o) == bytesUsed + Size[o] <= Capacity

\* One turn of the eviction loop.
EvictMutantNewest(t) ==
    /\ pc[t] = "evict"
    /\ ~Fits(want[t])
    /\ \E g \in DOMAIN order :
        /\ \A h \in DOMAIN order : g >= h
        /\ order' = Without(order, g)
        /\ entries' = Without(entries, order[g])
        /\ bytesUsed' = bytesUsed - Size[order[g]]
    /\ UNCHANGED <<nextGen, mutex, pc, want>>

EvictMutantKeepsBytes(t) ==
    /\ pc[t] = "evict"
    /\ ~Fits(want[t])
    /\ \E g \in DOMAIN order :
        /\ \A h \in DOMAIN order : g <= h
        /\ order' = Without(order, g)
        /\ entries' = Without(entries, order[g])
    /\ UNCHANGED <<nextGen, bytesUsed, mutex, pc, want>>

Evict(t) ==
    /\ pc[t] = "evict"
    /\ ~Fits(want[t])
    /\ \E g \in DOMAIN order :
        /\ \A h \in DOMAIN order : g <= h
        /\ order' = Without(order, g)
        /\ entries' = Without(entries, order[g])
        /\ bytesUsed' = bytesUsed - Size[order[g]]
    /\ UNCHANGED <<nextGen, mutex, pc, want>>

\* The cache is empty and the entry still does not fit.
PutGivesUp(t) ==
    /\ pc[t] = "evict"
    /\ ~Fits(want[t])
    /\ DOMAIN order = {}
    /\ mutex' = NoOne
    /\ pc' = [pc EXCEPT ![t] = "idle"]
    /\ UNCHANGED <<cache, want>>

Insert(t) ==
    LET o == want[t] IN
    /\ pc[t] = "evict"
    /\ Fits(o)
    /\ nextGen < MaxGen
    /\ nextGen' = nextGen + 1
    /\ order' = With(order, nextGen + 1, o)
    /\ entries' = With(entries, o, nextGen + 1)
    /\ bytesUsed' = bytesUsed + Size[o]
    /\ mutex' = NoOne
    /\ pc' = [pc EXCEPT ![t] = "idle"]
    /\ UNCHANGED want

Next == \E t \in Threads :
    \/ \E o \in Oids : GetHit(t, o) \/ GetMiss(t, o) \/ PutHeader(t, o)
    \/ Find(t)
    \/ FindFails(t)
    \/ PutSkips(t)
    \/ PutReplaces(t)
    \/ PutStarts(t)
    \/ Evict(t)
    \/ PutGivesUp(t)
    \/ Insert(t)

Spec == Init /\ [][Next]_vars

-----------------------------------------------------------------------------
(* Type invariant. *)
TypeOK ==
    /\ DOMAIN entries \subseteq Oids
    /\ \A o \in DOMAIN entries : entries[o] \in 1..nextGen
    /\ DOMAIN order \subseteq 1..nextGen
    /\ \A g \in DOMAIN order : order[g] \in Oids
    /\ nextGen \in 0..MaxGen
    /\ bytesUsed \in Int
    /\ mutex \in Threads \cup {NoOne}
    /\ pc \in [Threads -> {"idle", "find", "put", "evict"}]
    /\ want \in [Threads -> Oids]

(* The two indexes are each other's inverse, whatever threads read and     *)
(* put in between: no generation without its entry (eviction would stall   *)
(* on it) and no entry without its generation (it could never be evicted). *)
IndexesAgree ==
    /\ \A o \in DOMAIN entries : entries[o] \in DOMAIN order /\ order[entries[o]] = o
    /\ \A g \in DOMAIN order : order[g] \in DOMAIN entries /\ entries[order[g]] = g

(* The running total is the sum of what is cached (so the unsigned         *)
(* subtraction never goes below zero), and never more than the budget.     *)
BudgetExact ==
    /\ bytesUsed = MapThenSumSet(LAMBDA o : Size[o], DOMAIN entries)
    /\ bytesUsed <= Capacity

-----------------------------------------------------------------------------
(* The refinement: the entries by generation; a thread in the loop has     *)
(* already pushed its object, however far its evictions have come.         *)
ByGeneration ==
    LET n == Cardinality(DOMAIN order)
        gens == CHOOSE s \in [1..n -> DOMAIN order] : \A i, j \in 1..n : i < j => s[i] < s[j]
    IN  [i \in 1..n |-> order[gens[i]]]

Lru == INSTANCE LruQueue WITH queue <- ByGeneration

LruIn == INSTANCE LruQueue WITH
    queue <- IF mutex = NoOne THEN ByGeneration ELSE Lru!Pushed(ByGeneration, want[mutex])

(* With two indexes, a loop and other threads in between, each cache is a  *)
(* least-recently-used queue: a use moves the entry to the end, a put      *)
(* drops the oldest entries and no more of them than it must.              *)
ImplementsLru == LruIn!Spec
=============================================================================
