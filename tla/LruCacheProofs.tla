--------------------------- MODULE LruCacheProofs ---------------------------
(***************************************************************************)
(* Theorems about LruCache, for any objects, sizes, budget and threads.    *)
(*                                                                         *)
(* CacheInv ties the two indexes to each other and the eviction loop to    *)
(* the mutex.  On it stand the running total, a sum over a finite set that *)
(* changes with one object at a time, and the refinement of LruQueue: the  *)
(* generations in use form a line, whose objects are the abstract queue.   *)
(***************************************************************************)
EXTENDS LruCache, FiniteSetTheorems, SequenceTheorems, TLAPS

\* Who is in the eviction loop owns the mutex, and what it is about to insert is not
\* cached: nobody could put it meanwhile.
LoopIsExclusive ==
    \A t \in Threads : pc[t] = "evict" => mutex = t /\ want[t] \notin DOMAIN entries

\* Only threads in the loop own the mutex.
OwnerIsInLoop == mutex # NoOne => pc[mutex] = "evict"

WithinBudget == bytesUsed <= Capacity

CacheInv ==
    /\ TypeOK
    /\ IndexesAgree
    /\ LoopIsExclusive
    /\ OwnerIsInLoop
    /\ WithinBudget

-----------------------------------------------------------------------------
(* An empty cache.                                                         *)
LEMMA InitInv == Oids # {} /\ Init => CacheInv
<1> SUFFICES ASSUME Oids # {}, Init PROVE CacheInv
    OBVIOUS
<1>1. TypeOK
    BY CacheAssumption DEF Init, TypeOK
<1>2. IndexesAgree /\ LoopIsExclusive /\ OwnerIsInLoop /\ WithinBudget
    BY CacheAssumption DEF Init, IndexesAgree, LoopIsExclusive, OwnerIsInLoop, WithinBudget
<1> QED
    BY <1>1, <1>2 DEF CacheInv

(* A promotion moves one entry to a generation nobody has had.             *)
LEMMA PromoteIndexes ==
    ASSUME TypeOK, IndexesAgree, NEW o \in DOMAIN entries, Promote(o)
    PROVE  /\ IndexesAgree'
           /\ DOMAIN entries' = DOMAIN entries
           /\ \A p \in DOMAIN entries' : entries'[p] \in 1..nextGen'
           /\ DOMAIN order' \subseteq 1..nextGen'
           /\ \A g \in DOMAIN order' : order'[g] \in Oids
           /\ nextGen' \in 0..MaxGen
<1> USE DEF Promote, TypeOK
<1>0. nextGen' = nextGen + 1 /\ nextGen \in Nat /\ nextGen + 1 \notin DOMAIN order /\ nextGen' \in 0..MaxGen
    BY CacheAssumption
<1>1. DOMAIN entries' = DOMAIN entries /\ entries'[o] = nextGen + 1
    BY DEF With
<1>2. \A p \in DOMAIN entries : p # o => entries'[p] = entries[p]
    BY DEF With
<1>3. DOMAIN order' = (DOMAIN order \ {entries[o]}) \cup {nextGen + 1} /\ order'[nextGen + 1] = o
    BY DEF With, Without
<1>4. \A g \in DOMAIN order \ {entries[o]} : order'[g] = order[g]
    BY <1>0 DEF With, Without
<1>5. IndexesAgree'
    BY <1>0, <1>1, <1>2, <1>3, <1>4 DEF IndexesAgree
<1>6. \A p \in DOMAIN entries' : entries'[p] \in 1..nextGen'
    BY <1>0, <1>1, <1>2
<1>7. DOMAIN order' \subseteq 1..nextGen' /\ \A g \in DOMAIN order' : order'[g] \in Oids
    BY <1>0, <1>3, <1>4
<1> QED
    BY <1>0, <1>1, <1>5, <1>6, <1>7

(* The steps that leave the cache alone.                                   *)
LEMMA OutsideInv ==
    ASSUME CacheInv, NEW t \in Threads, UNCHANGED <<entries, order, nextGen, bytesUsed, mutex>>,
           pc[t] # "evict",
           NEW v \in {"idle", "find", "put"}, pc' = [pc EXCEPT ![t] = v],
           \/ want' = want
           \/ \E o \in Oids : want' = [want EXCEPT ![t] = o]
    PROVE  CacheInv'
<1> USE DEF CacheInv
<1>1. TypeOK'
    BY DEF TypeOK
<1>2. IndexesAgree' /\ WithinBudget'
    BY DEF IndexesAgree, WithinBudget
<1>3. LoopIsExclusive' /\ OwnerIsInLoop'
    BY CacheAssumption DEF LoopIsExclusive, OwnerIsInLoop, TypeOK
<1> QED
    BY <1>1, <1>2, <1>3

(* A hit, and a put of what another thread has put meanwhile.              *)
LEMMA PromoteInv ==
    ASSUME CacheInv, NEW t \in Threads, (\E o \in Oids : GetHit(t, o)) \/ PutReplaces(t)
    PROVE  CacheInv'
<1> USE DEF CacheInv
<1>1. PICK o \in DOMAIN entries : Promote(o)
    BY DEF GetHit, PutReplaces
<1>2. mutex = NoOne /\ mutex' = mutex /\ want' = want /\ pc' \in [Threads -> {"idle", "find", "put", "evict"}]
    BY DEF GetHit, PutReplaces, Puts, TypeOK
<1>3. TypeOK'
    BY <1>1, <1>2, PromoteIndexes DEF TypeOK, Promote
<1>4. IndexesAgree'
    BY <1>1, PromoteIndexes
<1>5. \A u \in Threads : pc'[u] # "evict"
    BY <1>2, CacheAssumption DEF LoopIsExclusive, GetHit, PutReplaces, Puts, TypeOK
<1>6. LoopIsExclusive' /\ OwnerIsInLoop' /\ WithinBudget'
    BY <1>1, <1>2, <1>5 DEF LoopIsExclusive, OwnerIsInLoop, WithinBudget, Promote
<1> QED
    BY <1>3, <1>4, <1>6

(* A put takes the mutex for the eviction loop.                            *)
LEMMA PutStartsInv ==
    ASSUME CacheInv, NEW t \in Threads, PutStarts(t)
    PROVE  CacheInv'
<1> USE DEF CacheInv, PutStarts, Puts, cache
<1>1. TypeOK'
    BY DEF TypeOK
<1>2. IndexesAgree' /\ WithinBudget'
    BY DEF IndexesAgree, WithinBudget
<1>3. LoopIsExclusive' /\ OwnerIsInLoop'
    BY CacheAssumption DEF LoopIsExclusive, OwnerIsInLoop, TypeOK
<1> QED
    BY <1>1, <1>2, <1>3

(* One turn of the loop removes one entry from both indexes.               *)
LEMMA EvictInv ==
    ASSUME CacheInv, NEW t \in Threads, Evict(t)
    PROVE  CacheInv'
<1> USE DEF CacheInv
<1>1. PICK g \in DOMAIN order :
          /\ order' = Without(order, g)
          /\ entries' = Without(entries, order[g])
          /\ bytesUsed' = bytesUsed - Size[order[g]]
    BY DEF Evict
<1>2. order[g] \in Oids /\ Size[order[g]] \in Nat
    BY CacheAssumption DEF TypeOK
<1>3. DOMAIN order' = DOMAIN order \ {g} /\ \A h \in DOMAIN order' : order'[h] = order[h]
    BY <1>1 DEF Without
<1>4. /\ DOMAIN entries' = DOMAIN entries \ {order[g]}
      /\ \A o \in DOMAIN entries' : entries'[o] = entries[o]
    BY <1>1 DEF Without
<1>5. TypeOK'
    BY <1>1, <1>2, <1>3, <1>4 DEF TypeOK, Evict
<1>6. IndexesAgree'
    BY <1>3, <1>4 DEF IndexesAgree
<1>7. LoopIsExclusive' /\ OwnerIsInLoop'
    BY <1>4 DEF LoopIsExclusive, OwnerIsInLoop, Evict
<1>8. WithinBudget'
    BY <1>1, <1>2, CacheAssumption DEF WithinBudget, TypeOK
<1> QED
    BY <1>5, <1>6, <1>7, <1>8

(* The loop ends without or with room for the entry.                       *)
LEMMA PutGivesUpInv ==
    ASSUME CacheInv, NEW t \in Threads, PutGivesUp(t)
    PROVE  CacheInv'
<1> USE DEF CacheInv, PutGivesUp, cache
<1>1. TypeOK'
    BY DEF TypeOK
<1>2. IndexesAgree' /\ WithinBudget'
    BY DEF IndexesAgree, WithinBudget
<1>3. LoopIsExclusive' /\ OwnerIsInLoop'
    BY DEF LoopIsExclusive, OwnerIsInLoop, TypeOK
<1> QED
    BY <1>1, <1>2, <1>3

\* The new entry gets a generation that no other has, and only once there is room.
LEMMA InsertInv ==
    ASSUME CacheInv, NEW t \in Threads, Insert(t)
    PROVE  CacheInv'
<1> USE DEF CacheInv
<1> DEFINE o == want[t]
<1>0. /\ nextGen \in Nat /\ nextGen' = nextGen + 1 /\ nextGen' \in 0..MaxGen
      /\ nextGen + 1 \notin DOMAIN order
      /\ o \in Oids /\ o \notin DOMAIN entries
    BY CacheAssumption DEF Insert, TypeOK, LoopIsExclusive
<1>1. DOMAIN order' = DOMAIN order \cup {nextGen + 1} /\ order'[nextGen + 1] = o
    BY DEF Insert, With
<1>2. \A g \in DOMAIN order : order'[g] = order[g]
    BY <1>0 DEF Insert, With
<1>3. DOMAIN entries' = DOMAIN entries \cup {o} /\ entries'[o] = nextGen + 1
    BY DEF Insert, With
<1>4. \A p \in DOMAIN entries : entries'[p] = entries[p]
    BY <1>0 DEF Insert, With
<1>5. bytesUsed' \in Int /\ WithinBudget'
    BY <1>0, CacheAssumption DEF Insert, Fits, TypeOK, WithinBudget
<1>6. /\ DOMAIN order' \subseteq 1..nextGen' /\ \A g \in DOMAIN order' : order'[g] \in Oids
      /\ DOMAIN entries' \subseteq Oids /\ \A p \in DOMAIN entries' : entries'[p] \in 1..nextGen'
    BY <1>0, <1>1, <1>2, <1>3, <1>4 DEF TypeOK
<1>7. TypeOK'
    BY <1>0, <1>5, <1>6 DEF TypeOK, Insert
<1>8. IndexesAgree'
    BY <1>0, <1>1, <1>2, <1>3, <1>4 DEF IndexesAgree
<1>9. LoopIsExclusive' /\ OwnerIsInLoop'
    BY DEF LoopIsExclusive, OwnerIsInLoop, TypeOK, Insert
<1> QED
    BY <1>5, <1>7, <1>8, <1>9

(* Every step preserves the invariant.                                     *)
LEMMA NextInv == CacheInv /\ [Next]_vars => CacheInv'
<1> SUFFICES ASSUME CacheInv, [Next]_vars PROVE CacheInv'
    OBVIOUS
<1>1. CASE UNCHANGED vars
    BY <1>1 DEF vars, CacheInv, TypeOK, IndexesAgree, LoopIsExclusive, OwnerIsInLoop, WithinBudget
<1>2. ASSUME NEW t \in Threads, NEW o \in Oids, GetMiss(t, o) \/ PutHeader(t, o) PROVE CacheInv'
    BY <1>2, OutsideInv DEF GetMiss, PutHeader, cache
<1>3. ASSUME NEW t \in Threads, Find(t) \/ FindFails(t) \/ PutSkips(t) PROVE CacheInv'
    BY <1>3, OutsideInv DEF Find, FindFails, PutSkips, cache
<1>4. ASSUME NEW t \in Threads, (\E o \in Oids : GetHit(t, o)) \/ PutReplaces(t) PROVE CacheInv'
    BY <1>4, PromoteInv
<1>5. ASSUME NEW t \in Threads, PutStarts(t) \/ Evict(t) \/ PutGivesUp(t) \/ Insert(t) PROVE CacheInv'
    BY <1>5, PutStartsInv, EvictInv, PutGivesUpInv, InsertInv
<1> QED
    BY <1>1, <1>2, <1>3, <1>4, <1>5 DEF Next

-----------------------------------------------------------------------------
(* The two indexes of the cache stay each other's inverse and the budget   *)
(* is kept, for any objects and sizes and however threads interleave their *)
(* reads, their puts and the turns of the eviction loop.                   *)
THEOREM CacheIsConsistent ==
    ASSUME Oids # {}
    PROVE  Spec => [](TypeOK /\ IndexesAgree /\ WithinBudget)
<1>1. CacheInv => TypeOK /\ IndexesAgree /\ WithinBudget
    BY DEF CacheInv
<1>2. Init => CacheInv
    BY InitInv
<1> QED
    BY <1>1, <1>2, NextInv, PTL DEF Spec

-----------------------------------------------------------------------------
(* Sums over finite sets, as MapThenSumSet adds them up.                   *)

(* A set of natural numbers that is not empty has a least element.         *)
LEMMA LeastOf ==
    ASSUME NEW T \in SUBSET Nat, T # {}
    PROVE  \E x \in T : \A y \in T : x <= y
<1> DEFINE R == OpToRel(<, Nat)
<1>1. IsWellFoundedOn(R, Nat)
    BY NatLessThanWellFounded
<1>2. \A x, y \in Nat : y < x => <<y, x>> \in R
    BY DEF OpToRel
<1> HIDE DEF R
<1>3. PICK x \in T : \A y \in T : ~(<<y, x>> \in R)
    BY <1>1, WFMin
<1>4. x \in Nat
    OBVIOUS
<1>5. ASSUME NEW y \in T PROVE x <= y
    <2>1. y \in Nat /\ ~(<<y, x>> \in R)
        BY <1>3
    <2>2. ~(y < x)
        BY <1>2, <1>4, <2>1
    <2> QED
        BY <1>4, <2>1, <2>2
<1> QED
    BY <1>5

\* The element that is added first.
FirstOf(s) == CHOOSE x \in s : TRUE

\* The sum of w over s, when f has the sums over smaller sets.
Adds(w, f, s) == IF s = {} THEN 0 ELSE w[FirstOf(s)] + f[s \ {FirstOf(s)}]

\* f has the sum of w over every set of D.
Sums(w, f, D) == f = [s \in D |-> Adds(w, f, s)]

\* ... and over every subset of S.
SumsOver(w, f, S) == Sums(w, f, SUBSET S)

\* The subsets of S of at most n elements.
UpTo(S, n) == {s \in SUBSET S : Cardinality(s) <= n}

(* Without its first element a set is smaller by one.                      *)
LEMMA FirstIsIn ==
    ASSUME NEW S, IsFiniteSet(S), NEW s \in SUBSET S, s # {}
    PROVE  /\ FirstOf(s) \in s
           /\ s \ {FirstOf(s)} \in SUBSET S
           /\ Cardinality(s) \in Nat \ {0}
           /\ Cardinality(s \ {FirstOf(s)}) = Cardinality(s) - 1
<1>1. FirstOf(s) \in s
    BY DEF FirstOf
<1>2. IsFiniteSet(s)
    BY FS_Subset
<1>3. Cardinality(s) \in Nat
    BY <1>2, FS_CardinalityType
<1>4. Cardinality(s) # 0
    BY <1>2, FS_EmptySet
<1> QED
    BY <1>1, <1>2, <1>3, <1>4, FS_RemoveElement

(* The sums exist.                                                         *)
LEMMA SumsExist ==
    ASSUME NEW w, NEW S, IsFiniteSet(S)
    PROVE  \E f : SumsOver(w, f, S)
<1> DEFINE Done(n) == \E f : Sums(w, f, UpTo(S, n))
           T == {n \in Nat : ~Done(n)}
<1>1. Done(0)
    <2> DEFINE f == [s \in UpTo(S, 0) |-> 0]
    <2>1. ASSUME NEW s \in UpTo(S, 0) PROVE s = {}
        <3>1. s \in SUBSET S /\ Cardinality(s) <= 0
            BY DEF UpTo
        <3>2. s # {} => Cardinality(s) \in Nat \ {0}
            BY <3>1, FirstIsIn
        <3> QED
            BY <3>1, <3>2
    <2>2. \A s \in UpTo(S, 0) : f[s] = Adds(w, f, s)
        BY <2>1 DEF Adds
    <2> QED
        BY <2>2 DEF Sums
<1>2. ASSUME NEW n \in Nat, Done(n) PROVE Done(n + 1)
    <2>1. PICK f : Sums(w, f, UpTo(S, n))
        BY <1>2
    <2> DEFINE g == [s \in UpTo(S, n + 1) |-> Adds(w, f, s)]
    <2>2. ASSUME NEW s \in UpTo(S, n) PROVE s \in UpTo(S, n + 1) /\ g[s] = f[s]
        <3>1. s \in SUBSET S /\ IsFiniteSet(s)
            BY FS_Subset DEF UpTo
        <3>2. Cardinality(s) \in Nat /\ Cardinality(s) <= n
            BY <3>1, FS_CardinalityType DEF UpTo
        <3>3. s \in UpTo(S, n + 1)
            BY <3>1, <3>2 DEF UpTo
        <3>4. f[s] = Adds(w, f, s)
            BY <2>1 DEF Sums
        <3> QED
            BY <3>3, <3>4
    <2>3. ASSUME NEW s \in UpTo(S, n + 1) PROVE g[s] = Adds(w, g, s)
        <3>1. CASE s = {}
            BY <3>1 DEF Adds
        <3>2. CASE s # {}
            <4>1. s \in SUBSET S /\ Cardinality(s) <= n + 1
                BY DEF UpTo
            <4>2. s \ {FirstOf(s)} \in UpTo(S, n)
                BY <3>2, <4>1, FirstIsIn DEF UpTo
            <4>3. g[s \ {FirstOf(s)}] = f[s \ {FirstOf(s)}]
                BY <2>2, <4>2
            <4> QED
                BY <4>3 DEF Adds
        <3> QED
            BY <3>1, <3>2
    <2>4. g = [s \in UpTo(S, n + 1) |-> Adds(w, g, s)]
        BY <2>3
    <2> QED
        BY <2>4 DEF Sums
<1>3. \A n \in Nat : Done(n)
    <2> SUFFICES ASSUME T # {} PROVE FALSE
        OBVIOUS
    <2>1. PICK x \in T : \A y \in T : x <= y
        BY LeastOf
    <2>2. x \in Nat /\ ~Done(x)
        OBVIOUS
    <2>3. x - 1 \in Nat /\ x - 1 \notin T /\ (x - 1) + 1 = x
        BY <1>1, <2>1, <2>2
    <2> QED
        BY <1>2, <2>2, <2>3
<1>4. UpTo(S, Cardinality(S)) = SUBSET S /\ Cardinality(S) \in Nat
    BY FS_Subset, FS_CardinalityType DEF UpTo
<1> HIDE DEF Done
<1>5. Done(Cardinality(S))
    BY <1>3, <1>4
<1> QED
    BY <1>4, <1>5 DEF Done, SumsOver

(* A smallest counterexample: a set of subsets of S that is not empty has  *)
(* one of which no other is a proper part.                                 *)
LEMMA SmallestOf ==
    ASSUME NEW S, IsFiniteSet(S), NEW T \in SUBSET SUBSET S, T # {}
    PROVE  \E s \in T : \A x \in s : s \ {x} \notin T
<1> DEFINE N == {Cardinality(s) : s \in T}
<1>1. ASSUME NEW s \in T PROVE IsFiniteSet(s) /\ Cardinality(s) \in Nat
    BY FS_Subset, FS_CardinalityType
<1>2. N \in SUBSET Nat /\ N # {}
    BY <1>1
<1>3. PICK n \in N : \A k \in N : n <= k
    BY <1>2, LeastOf
<1>4. PICK s \in T : n = Cardinality(s)
    OBVIOUS
<1>5. ASSUME NEW x \in s, s \ {x} \in T PROVE FALSE
    <2>1. Cardinality(s \ {x}) = n - 1 /\ n \in Nat
        BY <1>1, <1>4, FS_RemoveElement
    <2>2. n <= Cardinality(s \ {x})
        BY <1>3, <1>5
    <2> QED
        BY <2>1, <2>2
<1> QED
    BY <1>5

SameOn(w, v, S) == \A x \in S : w[x] = v[x]

(* Two functions that have the sums agree where both have one.             *)
LEMMA SumsAgree ==
    ASSUME NEW w, NEW S, NEW f, SumsOver(w, f, S), IsFiniteSet(S),
           NEW v, NEW S2, NEW g, SumsOver(v, g, S2), S \subseteq S2, SameOn(w, v, S)
    PROVE  f[S] = g[S]
<1> DEFINE T == {s \in SUBSET S : f[s] # g[s]}
<1> SUFFICES ASSUME T # {} PROVE FALSE
    OBVIOUS
<1>1. PICK s \in T : \A x \in s : s \ {x} \notin T
    BY SmallestOf
<1>2. s \in SUBSET S /\ s \in SUBSET S2
    OBVIOUS
<1>3. f[s] = Adds(w, f, s) /\ g[s] = Adds(v, g, s)
    BY <1>2 DEF Sums, SumsOver
<1>4. s # {}
    BY <1>3 DEF Adds
<1>5. FirstOf(s) \in s
    BY <1>4 DEF FirstOf
<1>6. f[s \ {FirstOf(s)}] = g[s \ {FirstOf(s)}] /\ w[FirstOf(s)] = v[FirstOf(s)]
    BY <1>1, <1>2, <1>5 DEF SameOn
<1> QED
    BY <1>3, <1>4, <1>6 DEF Adds

(* A sum over a finite set is a number.                                    *)
LEMMA SumsAreNumbers ==
    ASSUME NEW w, NEW S, IsFiniteSet(S), \A x \in S : w[x] \in Nat,
           NEW f, SumsOver(w, f, S)
    PROVE  \A s \in SUBSET S : f[s] \in Nat
<1> DEFINE T == {s \in SUBSET S : f[s] \notin Nat}
<1> SUFFICES ASSUME T # {} PROVE FALSE
    OBVIOUS
<1>1. PICK s \in T : \A x \in s : s \ {x} \notin T
    BY SmallestOf
<1>2. s \in SUBSET S /\ f[s] = Adds(w, f, s)
    BY DEF Sums, SumsOver
<1>3. s # {}
    BY <1>2 DEF Adds
<1>4. FirstOf(s) \in s
    BY <1>3 DEF FirstOf
<1>5. f[s \ {FirstOf(s)}] \in Nat /\ w[FirstOf(s)] \in Nat
    BY <1>1, <1>2, <1>4
<1> QED
    BY <1>2, <1>3, <1>5 DEF Adds

(* The order in which the elements are added does not matter.              *)
LEMMA SumsTakeAny ==
    ASSUME NEW w, NEW S, IsFiniteSet(S), \A x \in S : w[x] \in Nat,
           NEW f, SumsOver(w, f, S)
    PROVE  \A s \in SUBSET S : f[s] \in Nat /\ \A x \in s : f[s] = w[x] + f[s \ {x}]
<1> DEFINE Good(s) == f[s] \in Nat /\ \A x \in s : f[s] = w[x] + f[s \ {x}]
           T == {s \in SUBSET S : ~Good(s)}
<1> SUFFICES ASSUME T # {} PROVE FALSE
    OBVIOUS
<1>1. PICK s \in T : \A x \in s : s \ {x} \notin T
    BY SmallestOf
<1>2. s \in SUBSET S /\ ~Good(s) /\ f[s] = Adds(w, f, s)
    BY DEF Sums, SumsOver
<1>3. \A x \in s : Good(s \ {x}) /\ s \ {x} \in SUBSET S
    BY <1>1, <1>2
<1>4. s # {}
    BY <1>2 DEF Adds
<1> DEFINE c == FirstOf(s)
<1>5. c \in s
    BY <1>4 DEF FirstOf
<1>6. f[s] = w[c] + f[s \ {c}]
    BY <1>2, <1>4 DEF Adds
<1>7. f[s \ {c}] \in Nat /\ w[c] \in Nat
    BY <1>2, <1>3, <1>5
<1> HIDE DEF c
<1>8. ASSUME NEW x \in s PROVE f[s] = w[x] + f[s \ {x}]
    <2>1. CASE x = c
        BY <1>6, <2>1
    <2>2. CASE x # c
        <3>1. f[s \ {c}] = w[x] + f[(s \ {c}) \ {x}]
            BY <1>3, <1>5, <2>2
        <3>2. f[s \ {x}] = w[c] + f[(s \ {x}) \ {c}]
            BY <1>3, <1>5, <2>2
        <3>3. (s \ {c}) \ {x} = (s \ {x}) \ {c}
            OBVIOUS
        <3>4. f[s \ {x}] \in Nat /\ w[x] \in Nat
            BY <1>2, <1>3
        <3>5. f[(s \ {c}) \ {x}] \in Nat
            BY <1>2, SumsAreNumbers
        <3>6. \A i, j, k \in Nat : i + (j + k) = j + (i + k)
            OBVIOUS
        <3>7. f[s] = w[c] + (w[x] + f[(s \ {c}) \ {x}])
            BY <1>6, <3>1
        <3>8. w[x] + f[s \ {x}] = w[x] + (w[c] + f[(s \ {c}) \ {x}])
            BY <3>2, <3>3
        <3> QED
            BY <1>7, <3>4, <3>5, <3>6, <3>7, <3>8
    <2> QED
        BY <2>1, <2>2
<1>9. f[s] \in Nat
    BY <1>2, SumsAreNumbers
<1> QED
    BY <1>2, <1>8, <1>9

\* The sum of w over S.
Total(w, S) == (CHOOSE f : SumsOver(w, f, S))[S]

(* What the total is: taking one object out takes its size out.            *)
LEMMA TotalOf ==
    ASSUME NEW w, NEW S, IsFiniteSet(S), \A x \in S : w[x] \in Nat
    PROVE  /\ Total(w, S) \in Nat
           /\ Total(w, {}) = 0
           /\ \A x \in S : Total(w, S) = w[x] + Total(w, S \ {x})
<1>1. ASSUME NEW X \in SUBSET S
      PROVE  IsFiniteSet(X) /\ \E f : SumsOver(w, f, X) /\ Total(w, X) = f[X]
    <2>1. IsFiniteSet(X)
        BY FS_Subset
    <2>2. \E f : SumsOver(w, f, X)
        BY <2>1, SumsExist
    <2> QED
        BY <2>1, <2>2 DEF Total
<1>2. PICK f : SumsOver(w, f, S) /\ Total(w, S) = f[S]
    BY <1>1
<1>3. Total(w, S) \in Nat
    <2>1. \A s \in SUBSET S : f[s] \in Nat
        BY <1>2, SumsAreNumbers
    <2> QED
        BY <1>2, <2>1
<1>4. Total(w, {}) = 0
    <2>1. PICK g : SumsOver(w, g, {}) /\ Total(w, {}) = g[{}]
        BY <1>1
    <2> QED
        BY <2>1 DEF Sums, SumsOver, Adds
<1>5. ASSUME NEW x \in S PROVE Total(w, S) = w[x] + Total(w, S \ {x})
    <2> DEFINE R == S \ {x}
    <2>1. R \in SUBSET S /\ R \subseteq S
        OBVIOUS
    <2>2. IsFiniteSet(R)
        BY <1>1, <2>1
    <2>3. PICK g : SumsOver(w, g, R) /\ Total(w, R) = g[R]
        BY <1>1, <2>1
    <2> HIDE DEF R
    <2>4. g[R] = f[R]
        <3>1. SameOn(w, w, R)
            BY DEF SameOn
        <3>2. SumsOver(w, g, R) /\ SumsOver(w, f, S) /\ R \subseteq S
            BY <1>2, <2>1, <2>3
        <3> QED
            BY <2>2, <3>1, <3>2, SumsAgree
    <2>5. f[S] = w[x] + f[R]
        <3>1. \A s \in SUBSET S : f[s] \in Nat /\ \A y \in s : f[s] = w[y] + f[s \ {y}]
            BY <1>2, SumsTakeAny
        <3> QED
            BY <3>1 DEF R
    <2> QED
        BY <1>2, <2>3, <2>4, <2>5 DEF R
<1> QED
    BY <1>3, <1>4, <1>5

(* It is what the model's total is compared with.                          *)
LEMMA SumIsTotal ==
    ASSUME NEW S
    PROVE  MapThenSumSet(LAMBDA o : Size[o], S) = Total(Size, S)
    BY Zenon DEF MapThenSumSet, MapThenFoldSet, Total, Sums, SumsOver, Adds, FirstOf

-----------------------------------------------------------------------------
(* The running total.                                                      *)

TotalKept == bytesUsed = Total(Size, DOMAIN entries)

(* What is cached is finite: no two entries have one generation.           *)
LEMMA EntriesFinite ==
    ASSUME TypeOK, IndexesAgree
    PROVE  IsFiniteSet(DOMAIN entries) /\ \A o \in DOMAIN entries : Size[o] \in Nat
<1> DEFINE f == [o \in DOMAIN entries |-> entries[o]]
<1>1. f \in Injection(DOMAIN entries, 1..nextGen)
    BY DEF TypeOK, IndexesAgree, Injection, IsInjective
<1>2. nextGen \in Int
    BY DEF TypeOK
<1>3. IsFiniteSet(1..nextGen)
    BY <1>2, FS_Interval
<1>4. IsFiniteSet(DOMAIN entries)
    BY <1>1, <1>3, FS_Injection
<1> QED
    BY <1>4, CacheAssumption DEF TypeOK

(* An empty cache.                                                         *)
LEMMA InitTotal == Init => TotalKept
<1> SUFFICES ASSUME Init PROVE TotalKept
    OBVIOUS
<1>1. bytesUsed = 0 /\ DOMAIN entries = {}
    BY DEF Init
<1>2. IsFiniteSet({}) /\ \A x \in {} : Size[x] \in Nat
    BY FS_EmptySet
<1> QED
    BY <1>1, <1>2, TotalOf DEF TotalKept

(* An eviction takes off what its entry cost, an insertion adds it, and    *)
(* nothing else changes what is cached.                                    *)
LEMMA NextTotal == CacheInv /\ TotalKept /\ [Next]_vars => TotalKept'
<1> SUFFICES ASSUME CacheInv, TotalKept, [Next]_vars PROVE TotalKept'
    OBVIOUS
<1>0. TypeOK /\ IndexesAgree /\ IsFiniteSet(DOMAIN entries) /\ \A o \in DOMAIN entries : Size[o] \in Nat
    BY EntriesFinite DEF CacheInv
<1>1. CASE UNCHANGED <<entries, bytesUsed>>
    BY <1>1 DEF TotalKept
<1>2. ASSUME NEW o \in DOMAIN entries, Promote(o) PROVE TotalKept'
    BY <1>0, <1>2, PromoteIndexes DEF TotalKept, Promote
<1>3. ASSUME NEW t \in Threads, Evict(t) PROVE TotalKept'
    <2>1. PICK g \in DOMAIN order :
              /\ entries' = Without(entries, order[g])
              /\ bytesUsed' = bytesUsed - Size[order[g]]
        BY <1>3 DEF Evict
    <2> DEFINE o == order[g]
    <2>2. o \in DOMAIN entries
        BY <1>0 DEF IndexesAgree
    <2>3. DOMAIN entries' = DOMAIN entries \ {o}
        BY <2>1 DEF Without
    <2>4. /\ Total(Size, DOMAIN entries) = Size[o] + Total(Size, DOMAIN entries \ {o})
          /\ Size[o] \in Nat
        BY <1>0, <2>2, TotalOf
    <2>5. IsFiniteSet(DOMAIN entries \ {o}) /\ \A p \in DOMAIN entries \ {o} : Size[p] \in Nat
        BY <1>0, FS_RemoveElement
    <2>6. Total(Size, DOMAIN entries \ {o}) \in Nat
        BY <2>5, TotalOf
    <2> HIDE DEF o
    <2>7. bytesUsed = Size[o] + Total(Size, DOMAIN entries \ {o}) /\ bytesUsed' = bytesUsed - Size[o]
        BY <2>1, <2>4 DEF TotalKept, o
    <2> QED
        BY <2>3, <2>4, <2>6, <2>7 DEF TotalKept
<1>4. ASSUME NEW t \in Threads, Insert(t) PROVE TotalKept'
    <2> DEFINE o == want[t]
               S == DOMAIN entries \cup {o}
    <2>1. o \in Oids /\ o \notin DOMAIN entries /\ Size[o] \in Nat
        BY <1>4, CacheAssumption DEF Insert, TypeOK, LoopIsExclusive, CacheInv
    <2>2. DOMAIN entries' = S /\ bytesUsed' = bytesUsed + Size[o]
        BY <1>4 DEF Insert, With
    <2>3. IsFiniteSet(S) /\ \A p \in S : Size[p] \in Nat
        BY <1>0, <2>1, FS_AddElement
    <2>4. S \ {o} = DOMAIN entries /\ o \in S
        BY <2>1
    <2>5. Total(Size, S) = Size[o] + Total(Size, DOMAIN entries)
        BY <2>3, <2>4, TotalOf
    <2>6. Total(Size, DOMAIN entries) \in Nat
        BY <1>0, TotalOf
    <2> QED
        BY <2>1, <2>2, <2>5, <2>6 DEF TotalKept
<1>5. \/ UNCHANGED <<entries, bytesUsed>>
      \/ \E o \in DOMAIN entries : Promote(o)
      \/ \E t \in Threads : Evict(t) \/ Insert(t)
    BY DEF Next, vars, cache, GetHit, GetMiss, PutHeader, Find, FindFails, PutSkips, PutReplaces,
           PutStarts, PutGivesUp
<1> QED
    BY <1>1, <1>2, <1>3, <1>4, <1>5

(* bytes_used is exactly what the cached entries cost together, for any    *)
(* sizes: so the unsigned subtraction of an eviction never wraps, and the  *)
(* budget that is kept is the budget of what is really cached.             *)
THEOREM BudgetIsExact ==
    ASSUME Oids # {}
    PROVE  Spec => []BudgetExact
<1>1. CacheInv /\ TotalKept => BudgetExact
    BY SumIsTotal DEF CacheInv, WithinBudget, TotalKept, BudgetExact
<1>2. Init => CacheInv /\ TotalKept
    BY InitInv, InitTotal
<1> QED
    BY <1>1, <1>2, NextInv, NextTotal, PTL DEF Spec

-----------------------------------------------------------------------------
(* The refinement: the entries by generation are the abstract queue.       *)

(* A sum does not change when the elements are renamed one to one.         *)
LEMMA TotalRenamed ==
    ASSUME NEW w, NEW v, NEW S, IsFiniteSet(S), NEW h,
           \A x, y \in S : h[x] = h[y] => x = y,
           \A x \in S : w[x] \in Nat /\ w[x] = v[h[x]]
    PROVE  Total(w, S) = Total(v, {h[x] : x \in S})
<1> DEFINE Img(s) == {h[x] : x \in s}
           T == {s \in SUBSET S : Total(w, s) # Total(v, Img(s))}
<1> SUFFICES ASSUME T # {} PROVE FALSE
    OBVIOUS
<1>1. PICK s \in T : \A x \in s : s \ {x} \notin T
    BY SmallestOf
<1>2. s \in SUBSET S /\ Total(w, s) # Total(v, Img(s))
    OBVIOUS
<1>3. IsFiniteSet(s) /\ \A x \in s : w[x] \in Nat
    BY <1>2, FS_Subset
<1>4. IsFiniteSet(Img(s)) /\ \A y \in Img(s) : v[y] \in Nat
    <2> DEFINE f == [x \in s |-> h[x]]
    <2>1. f \in Surjection(s, Img(s))
        BY DEF Surjection
    <2>2. IsFiniteSet(Img(s))
        BY <1>3, <2>1, FS_Surjection
    <2> QED
        BY <1>2, <2>2
<1>5. s # {}
    <2>1. Img({}) = {}
        OBVIOUS
    <2>2. Total(w, {}) = 0
        BY <1>3, TotalOf
    <2>3. Total(v, {}) = 0
        BY <1>4, TotalOf
    <2> QED
        BY <1>2, <2>1, <2>2, <2>3
<1>6. PICK x \in s : TRUE
    BY <1>5
<1>7. Img(s \ {x}) = Img(s) \ {h[x]} /\ h[x] \in Img(s)
    BY <1>2
<1>8. Total(w, s) = w[x] + Total(w, s \ {x})
    BY <1>3, TotalOf
<1>9. Total(v, Img(s)) = v[h[x]] + Total(v, Img(s) \ {h[x]})
    BY <1>4, <1>7, TotalOf
<1>10. Total(w, s \ {x}) = Total(v, Img(s \ {x}))
    BY <1>1, <1>2
<1>11. w[x] = v[h[x]]
    BY <1>2
<1> QED
    BY <1>2, <1>7, <1>8, <1>9, <1>10, <1>11

\* No object is twice in q.
Once(q) == \A i, j \in 1..Len(q) : q[i] = q[j] => i = j

(* What a queue costs is what its elements cost.                           *)
LEMMA WeightIs ==
    ASSUME NEW q \in Seq(Oids), Once(q)
    PROVE  Lru!Weight(q) = Total(Size, ToSet(q)) /\ Total(Size, ToSet(q)) \in Nat
<1> DEFINE D == DOMAIN q
           w == [i \in D |-> Size[q[i]]]
           P(f) == f = [s \in SUBSET D |-> IF s = {} THEN 0 ELSE Size[q[FirstOf(s)]] + f[s \ {FirstOf(s)}]]
<1>1. D = 1..Len(q) /\ Len(q) \in Nat /\ \A i \in D : q[i] \in Oids
    OBVIOUS
<1>2. IsFiniteSet(D)
    BY <1>1, FS_Interval
<1>3. \A i \in D : w[i] \in Nat /\ w[i] = Size[q[i]]
    BY <1>1, CacheAssumption
<1>4. ASSUME NEW f PROVE P(f) <=> SumsOver(w, f, D)
    <2>1. ASSUME NEW s \in SUBSET D
          PROVE  Adds(w, f, s) = IF s = {} THEN 0 ELSE Size[q[FirstOf(s)]] + f[s \ {FirstOf(s)}]
        <3>1. s # {} => FirstOf(s) \in D
            BY DEF FirstOf
        <3> QED
            BY <1>3, <3>1 DEF Adds
    <2> QED
        BY <2>1, Zenon DEF SumsOver, Sums
<1>5. Lru!Weight(q) = (CHOOSE f : P(f))[D]
    BY Zenon DEF Lru!Weight, Lru!MapThenSumSet, Lru!MapThenFoldSet, FirstOf
<1> HIDE DEF P, w, D
<1>6. \E f : SumsOver(w, f, D)
    BY <1>2, SumsExist
<1>7. P(CHOOSE f : P(f))
    BY <1>4, <1>6
<1>8. SumsOver(w, CHOOSE f : P(f), D) /\ SumsOver(w, CHOOSE f : SumsOver(w, f, D), D)
    BY <1>4, <1>6, <1>7
<1>9. SameOn(w, w, D) /\ D \subseteq D
    BY DEF SameOn
<1>10. (CHOOSE f : P(f))[D] = Total(w, D)
    BY <1>2, <1>8, <1>9, SumsAgree DEF Total
<1>11. ToSet(q) = {q[i] : i \in D}
    BY DEF ToSet, D
<1>12. \A i, j \in D : q[i] = q[j] => i = j
    BY <1>1 DEF Once
<1>13. Total(w, D) = Total(Size, ToSet(q))
    BY <1>2, <1>3, <1>11, <1>12, TotalRenamed
<1>14. Total(w, D) \in Nat
    BY <1>2, <1>3, TotalOf
<1> QED
    BY <1>5, <1>10, <1>13, <1>14

\* s lists the numbers of S from the least to the greatest.
Line(s, S) ==
    /\ s \in Seq(S)
    /\ \A g \in S : \E i \in 1..Len(s) : s[i] = g
    /\ \A i, j \in 1..Len(s) : i < j => s[i] < s[j]

(* Such a list has as many places as S has elements.                       *)
LEMMA LineLength ==
    ASSUME NEW S \in SUBSET Nat, NEW s, Line(s, S)
    PROVE  /\ IsFiniteSet(S)
           /\ Len(s) = Cardinality(S)
           /\ Len(s) \in Nat
           /\ DOMAIN s = 1..Len(s)
           /\ \A i \in 1..Len(s) : s[i] \in S
<1>1. s \in Seq(S) /\ Len(s) \in Nat /\ DOMAIN s = 1..Len(s) /\ \A i \in 1..Len(s) : s[i] \in S
    BY DEF Line
<1> DEFINE f == [i \in 1..Len(s) |-> s[i]]
<1>2. \A i, j \in 1..Len(s) : i # j => s[i] # s[j]
    <2> SUFFICES ASSUME NEW i \in 1..Len(s), NEW j \in 1..Len(s), i < j PROVE s[i] # s[j]
        BY <1>1
    <2>1. s[i] < s[j] /\ s[i] \in Nat
        BY <1>1 DEF Line
    <2> QED
        BY <2>1
<1>3. f \in Bijection(1..Len(s), S)
    BY <1>1, <1>2 DEF Line, Bijection, Injection, Surjection, IsInjective
<1>4. ExistsBijection(1..Len(s), S)
    BY <1>3 DEF ExistsBijection
<1>5. IsFiniteSet(1..Len(s)) /\ Cardinality(1..Len(s)) = Len(s)
    BY <1>1, FS_Interval
<1> QED
    BY <1>1, <1>4, <1>5, FS_Bijection

(* ... and is the only one.                                                *)
LEMMA LinesEqual ==
    ASSUME NEW S \in SUBSET Nat, NEW s, Line(s, S), NEW t, Line(t, S)
    PROVE  s = t
<1> DEFINE n == Len(s)
           T == {i \in 1..n : s[i] # t[i]}
<1>1. /\ Len(s) = Len(t) /\ n \in Nat /\ DOMAIN s = 1..n /\ DOMAIN t = 1..n
      /\ \A i \in 1..n : s[i] \in S /\ t[i] \in S /\ s[i] \in Nat /\ t[i] \in Nat
    BY LineLength
<1>2. ASSUME T # {} PROVE FALSE
    <2>0. T \in SUBSET Nat
        BY <1>1
    <2>1. PICK i \in T : \A j \in T : i <= j
        BY <1>2, <2>0, LeastOf
    <2>2. i \in 1..n /\ s[i] # t[i]
        OBVIOUS
    <2>3. \A j \in 1..n : j < i => s[j] = t[j]
        BY <1>1, <2>1, <2>2
    <2>4. PICK k \in 1..n : t[k] = s[i]
        BY <1>1, <2>2 DEF Line
    <2>5. PICK l \in 1..n : s[l] = t[i]
        BY <1>1, <2>2 DEF Line
    <2>6. s[i] < t[i] \/ t[i] < s[i]
        BY <1>1, <2>2
    <2>7. CASE s[i] < t[i]
        <3>1. k < i \/ k = i \/ i < k
            BY <1>1, <2>2
        <3>2. k < i => s[k] = t[k] /\ s[k] < s[i]
            BY <1>1, <2>2, <2>3 DEF Line
        <3>3. i < k => t[i] < t[k]
            BY <1>1, <2>2 DEF Line
        <3> QED
            BY <1>1, <2>2, <2>4, <2>7, <3>1, <3>2, <3>3
    <2>8. CASE t[i] < s[i]
        <3>1. l < i \/ l = i \/ i < l
            BY <1>1, <2>2
        <3>2. l < i => s[l] = t[l] /\ t[l] < t[i]
            BY <1>1, <2>2, <2>3 DEF Line
        <3>3. i < l => s[i] < s[l]
            BY <1>1, <2>2 DEF Line
        <3> QED
            BY <1>1, <2>2, <2>5, <2>8, <3>1, <3>2, <3>3
    <2> QED
        BY <2>6, <2>7, <2>8
<1>3. \A i \in 1..n : s[i] = t[i]
    BY <1>2
<1>4. s \in Seq(S) /\ t \in Seq(S)
    BY DEF Line
<1> QED
    BY <1>1, <1>3, <1>4, SeqEqual

\* The objects of the generations s.
Objects(ord, s) == [i \in 1..Len(s) |-> ord[s[i]]]

\* ByGeneration, of any index by generation.
InLine(ord) ==
    LET n == Cardinality(DOMAIN ord)
        gens == CHOOSE s \in [1..n -> DOMAIN ord] : \A i, j \in 1..n : i < j => s[i] < s[j]
    IN  [i \in 1..n |-> ord[gens[i]]]

(* The queue of the abstract cache, along the line of generations.         *)
LEMMA InLineIs ==
    ASSUME NEW ord, DOMAIN ord \subseteq Nat, NEW s, Line(s, DOMAIN ord)
    PROVE  InLine(ord) = Objects(ord, s)
<1> DEFINE S == DOMAIN ord
           n == Cardinality(S)
           Up(g) == \A i, j \in 1..n : i < j => g[i] < g[j]
           gens == CHOOSE g \in [1..n -> S] : Up(g)
<1>1. /\ IsFiniteSet(S) /\ n \in Nat /\ Len(s) = n
      /\ s \in [1..n -> S] /\ Up(s)
    <2>1. S \in SUBSET Nat /\ s \in Seq(S)
        BY DEF Line
    <2>2. IsFiniteSet(S) /\ Len(s) = n /\ Len(s) \in Nat
        BY <2>1, LineLength
    <2>3. s \in [1..n -> S]
        BY <2>1, <2>2
    <2> QED
        BY <2>2, <2>3 DEF Line
<1>2. gens \in [1..n -> S] /\ Up(gens)
    BY <1>1
<1>3. InLine(ord) = [i \in 1..n |-> ord[gens[i]]]
    BY Zenon DEF InLine
<1> HIDE DEF gens
<1>4. \A i, j \in 1..n : i # j => gens[i] # gens[j]
    <2> SUFFICES ASSUME NEW i \in 1..n, NEW j \in 1..n, i < j PROVE gens[i] # gens[j]
        BY <1>1
    <2>1. gens[i] < gens[j] /\ gens[i] \in Nat
        BY <1>2
    <2> QED
        BY <2>1
<1>5. gens \in Injection(1..n, S)
    BY <1>2, <1>4 DEF Injection, IsInjective
<1>6. Cardinality(1..n) = n
    BY <1>1, FS_Interval
<1>7. gens \in Surjection(1..n, S)
    BY <1>1, <1>5, <1>6, FS_Injection
<1>8. Line(gens, S)
    <2>1. gens \in Seq(S) /\ Len(gens) = n
        BY <1>1, <1>2
    <2> QED
        BY <1>2, <1>7, <2>1 DEF Line, Surjection
<1>9. gens = s
    BY <1>8, LinesEqual
<1> QED
    BY <1>1, <1>3, <1>9 DEF Objects

(* What a sequence keeps without its first element.                        *)
LEMMA RestOf ==
    ASSUME NEW X, NEW q \in Seq(X), q # <<>>
    PROVE  LET r == SubSeq(q, 2, Len(q)) IN
           /\ r \in Seq(X) /\ Len(r) = Len(q) - 1 /\ Len(q) \in Nat \ {0}
           /\ \A i \in 1..Len(r) : r[i] = q[i + 1]
           /\ \A i \in 1..Len(r) + 1 : SubSeq(r, i, Len(r)) = SubSeq(q, i + 1, Len(q))
<1> DEFINE r == SubSeq(q, 2, Len(q))
           n == Len(q)
<1>1. n \in Nat \ {0} /\ \A i \in 1..n : q[i] \in X
    OBVIOUS
<1>2. r \in Seq(X) /\ Len(r) = n - 1 /\ \A i \in 1..n - 1 : r[i] = q[i + 1]
    <2>1. \A i \in 2..n : q[i] \in X
        BY <1>1
    <2>2. /\ r \in Seq(X)
          /\ Len(r) = IF 2 <= n THEN n - 2 + 1 ELSE 0
          /\ \A i \in 1..n - 2 + 1 : r[i] = q[2 + i - 1]
        BY <1>1, <2>1, SubSeqProperties
    <2> HIDE DEF r, n
    <2>3. n - 2 + 1 = n - 1 /\ \A i \in 1..n - 1 : 2 + i - 1 = i + 1
        BY <1>1
    <2>4. Len(r) = n - 1
        <3>1. CASE n = 1
            BY <2>2, <3>1
        <3>2. CASE n # 1
            <4>1. 2 <= n
                BY <1>1, <3>2
            <4>2. Len(r) = n - 2 + 1
                BY <2>2, <4>1
            <4> QED
                BY <2>3, <4>2
        <3> QED
            BY <3>1, <3>2
    <2>5. \A i \in 1..n - 1 : r[i] = q[i + 1]
        BY <2>2, <2>3
    <2> QED
        BY <2>2, <2>4, <2>5
<1> HIDE DEF r, n
<1>3. ASSUME NEW i \in 1..n PROVE SubSeq(r, i, n - 1) = SubSeq(q, i + 1, n)
    <2> DEFINE a == SubSeq(r, i, n - 1)
               b == SubSeq(q, i + 1, n)
    <2>1. \A j \in i..n - 1 : r[j] \in X /\ r[j] = q[j + 1]
        BY <1>1, <1>2 DEF n
    <2>2. \A j \in i + 1..n : q[j] \in X
        BY <1>1
    <2>3. /\ a \in Seq(X) /\ Len(a) = IF i <= n - 1 THEN n - 1 - i + 1 ELSE 0
          /\ \A j \in 1..n - 1 - i + 1 : a[j] = r[i + j - 1]
        BY <1>1, <2>1, SubSeqProperties
    <2>4. /\ b \in Seq(X) /\ Len(b) = IF i + 1 <= n THEN n - (i + 1) + 1 ELSE 0
          /\ \A j \in 1..n - (i + 1) + 1 : b[j] = q[i + 1 + j - 1]
        BY <1>1, <2>2, SubSeqProperties
    <2> HIDE DEF a, b
    <2>5. Len(a) = n - i /\ Len(b) = n - i
        BY <1>1, <2>3, <2>4
    <2>6. ASSUME NEW j \in 1..n - i PROVE a[j] = b[j]
        <3>1. a[j] = r[i + j - 1] /\ b[j] = q[i + j] /\ i + j - 1 \in i..n - 1
            BY <1>1, <2>3, <2>4
        <3>2. r[i + j - 1] = q[(i + j - 1) + 1]
            BY <2>1, <3>1
        <3> QED
            BY <1>1, <3>1, <3>2
    <2>7. a = b
        BY <2>3, <2>4, <2>5, <2>6, SeqEqual
    <2> QED
        BY <2>7 DEF a, b
<1>4. 1..Len(r) + 1 = 1..n /\ 1..Len(r) = 1..n - 1
    BY <1>1, <1>2
<1>5. \A i \in 1..Len(r) + 1 : SubSeq(r, i, Len(r)) = SubSeq(q, i + 1, n)
    BY <1>2, <1>3, <1>4
<1>6. \A i \in 1..Len(r) : r[i] = q[i + 1]
    BY <1>2, <1>4
<1> QED
    BY <1>1, <1>2, <1>5, <1>6 DEF r, n

\* Where the queue could start and leave room for o.
Starts(q, o) == {i \in 1..Len(q) + 1 : Lru!Weight(SubSeq(q, i, Len(q))) + Size[o] <= Capacity}

(* What the abstract put does.                                             *)
LEMMA PushedIs ==
    ASSUME NEW q, NEW o
    PROVE  /\ Lru!RoomFor(q, o) = IF Starts(q, o) = {} THEN <<>>
                                  ELSE SubSeq(q, Lru!Min(Starts(q, o)), Len(q))
           /\ Lru!Pushed(q, o) = IF Size[o] <= Capacity THEN Append(Lru!RoomFor(q, o), o)
                                 ELSE Lru!RoomFor(q, o)
    BY Zenon DEF Lru!Pushed, Lru!RoomFor, Starts

(* The least place is the one that is chosen.                              *)
LEMMA MinIs ==
    ASSUME NEW T \in SUBSET Nat, NEW x \in T, \A y \in T : x <= y
    PROVE  Lru!Min(T) = x
<1> DEFINE m == Lru!Min(T)
<1>1. m \in T /\ \A y \in T : m <= y
    BY DEF Lru!Min
<1> HIDE DEF m
<1>2. m <= x /\ x <= m /\ m \in Nat /\ x \in Nat
    BY <1>1
<1>3. m = x
    BY <1>2
<1> QED
    BY <1>3 DEF m

(* An object that fits pushes nothing out.                                 *)
LEMMA PushedFits ==
    ASSUME NEW q \in Seq(Oids), Once(q), NEW o \in Oids, Lru!Weight(q) + Size[o] <= Capacity
    PROVE  Lru!Pushed(q, o) = Append(q, o)
<1>1. Lru!Weight(q) \in Nat /\ Size[o] \in Nat /\ Capacity \in Nat
    BY WeightIs, CacheAssumption
<1>2. Size[o] <= Capacity
    BY <1>1
<1>3. SubSeq(q, 1, Len(q)) = q
    BY SubSeqFull
<1>4. Starts(q, o) \in SUBSET Nat /\ 1 \in Starts(q, o) /\ \A i \in Starts(q, o) : 1 <= i
    <2>1. Len(q) \in Nat /\ 1 \in 1..Len(q) + 1
        OBVIOUS
    <2>2. 1 \in Starts(q, o)
        BY <1>3, <2>1 DEF Starts
    <2> QED
        BY <2>1, <2>2 DEF Starts
<1>5. Lru!Min(Starts(q, o)) = 1
    BY <1>4, MinIs
<1> QED
    BY <1>2, <1>3, <1>4, <1>5, PushedIs

(* The oldest entry goes when there is no room with it.                    *)
LEMMA PushedDrops ==
    ASSUME NEW q \in Seq(Oids), q # <<>>, NEW o, ~(Lru!Weight(q) + Size[o] <= Capacity)
    PROVE  Lru!Pushed(q, o) = Lru!Pushed(SubSeq(q, 2, Len(q)), o)
<1> DEFINE r == SubSeq(q, 2, Len(q))
           n == Len(q)
           A == Starts(q, o)
           B == Starts(r, o)
<1>1. /\ n \in Nat \ {0} /\ Len(r) = n - 1
      /\ \A i \in 1..n : SubSeq(r, i, n - 1) = SubSeq(q, i + 1, n)
    <2>1. n \in Nat \ {0} /\ Len(r) = n - 1
        BY RestOf
    <2>2. \A i \in 1..Len(r) + 1 : SubSeq(r, i, Len(r)) = SubSeq(q, i + 1, Len(q))
        BY RestOf
    <2> QED
        BY <2>1, <2>2
<1> HIDE DEF r
<1>2. SubSeq(q, 1, n) = q
    BY SubSeqFull
<1>3. 1 \notin A
    BY <1>2 DEF Starts
<1>4. A \in SUBSET Nat /\ B \in SUBSET Nat /\ A \subseteq 1..n + 1 /\ B \subseteq 1..n
    BY <1>1 DEF Starts
<1>5. ASSUME NEW i \in 1..n PROVE i \in B <=> i + 1 \in A
    <2>1. SubSeq(r, i, n - 1) = SubSeq(q, i + 1, n)
        BY <1>1
    <2>2. i \in 1..Len(r) + 1 /\ i + 1 \in 1..n + 1
        BY <1>1
    <2> QED
        BY <1>1, <2>1, <2>2 DEF Starts
<1>6. \A i \in A : i - 1 \in 1..n /\ (i - 1) + 1 = i
    <2> SUFFICES ASSUME NEW i \in A PROVE i - 1 \in 1..n /\ (i - 1) + 1 = i
        OBVIOUS
    <2>1. i \in 1..n + 1 /\ i # 1
        BY <1>3, <1>4
    <2> QED
        BY <1>1, <2>1
<1> HIDE DEF A, B
<1>7. A = {} <=> B = {}
    BY <1>4, <1>5, <1>6
<1>8. ASSUME A # {} PROVE Lru!RoomFor(q, o) = Lru!RoomFor(r, o)
    <2>1. PICK x \in B : \A y \in B : x <= y
        BY <1>4, <1>7, <1>8, LeastOf
    <2>2. x \in 1..n /\ x + 1 \in A
        BY <1>4, <1>5, <2>1
    <2>3. ASSUME NEW y \in A PROVE x + 1 <= y
        <3>1. y - 1 \in B
            BY <1>5, <1>6
        <3>2. x <= y - 1 /\ y \in Nat
            BY <1>4, <2>1, <3>1
        <3> QED
            BY <2>2, <3>2
    <2>4. Lru!Min(B) = x
        BY <1>4, <2>1, MinIs
    <2>5. Lru!Min(A) = x + 1
        BY <1>4, <2>2, <2>3, MinIs
    <2>6. SubSeq(r, x, n - 1) = SubSeq(q, x + 1, n)
        BY <1>1, <2>2
    <2>7. Lru!RoomFor(q, o) = SubSeq(q, x + 1, n)
        BY <1>8, <2>5, PushedIs DEF A
    <2>8. Lru!RoomFor(r, o) = SubSeq(r, x, n - 1)
        BY <1>1, <1>7, <1>8, <2>4, PushedIs DEF B
    <2> QED
        BY <2>6, <2>7, <2>8
<1>9. ASSUME A = {} PROVE Lru!RoomFor(q, o) = Lru!RoomFor(r, o)
    BY <1>7, <1>9, PushedIs DEF A, B
<1>10. Lru!RoomFor(q, o) = Lru!RoomFor(r, o)
    BY <1>8, <1>9
<1>11. Lru!Pushed(q, o) = Lru!Pushed(r, o)
    BY <1>10, PushedIs
<1> QED
    BY <1>11 DEF r

(* What is larger than the budget leaves an empty queue empty.             *)
LEMMA PushedNone ==
    ASSUME NEW o \in Oids, ~(Size[o] <= Capacity)
    PROVE  Lru!Pushed(<<>>, o) = <<>>
<1>1. <<>> \in Seq(Oids) /\ Once(<<>>) /\ Len(<<>>) = 0
    BY DEF Once
<1>2. Size[o] \in Nat /\ Capacity \in Nat /\ Lru!Weight(<<>>) \in Nat
    BY <1>1, WeightIs, CacheAssumption
<1>3. \A i \in 1..0 + 1 : i = 1
    OBVIOUS
<1>4. SubSeq(<<>>, 1, 0) = <<>>
    OBVIOUS
<1>5. Starts(<<>>, o) = {}
    <2>1. ~(Lru!Weight(<<>>) + Size[o] <= Capacity)
        BY <1>2
    <2>2. ~(Lru!Weight(SubSeq(<<>>, 1, 0)) + Size[o] <= Capacity)
        BY <1>4, <2>1
    <2> QED
        BY <1>1, <1>3, <2>2, Zenon DEF Starts
<1> QED
    BY <1>5, PushedIs

(* The queue before and after a step.                                      *)
LEMMA ByGenerationIs == ByGeneration = InLine(order) /\ ByGeneration' = InLine(order')
    BY Zenon DEF ByGeneration, InLine

-----------------------------------------------------------------------------
(* The queue in a state of the cache.                                      *)

HasLine == \E s : Line(s, DOMAIN order)

(* Its members and its length.                                             *)
LEMMA QueueIs ==
    ASSUME TypeOK, IndexesAgree, NEW s, Line(s, DOMAIN order)
    PROVE  LET q == Objects(order, s) IN
           /\ ByGeneration = q
           /\ q \in Seq(Oids) /\ Len(q) = Len(s) /\ Len(s) \in Nat
           /\ DOMAIN q = 1..Len(s)
           /\ \A i \in 1..Len(s) : s[i] \in DOMAIN order /\ q[i] = order[s[i]]
           /\ Once(q)
           /\ ToSet(q) = DOMAIN entries
<1> DEFINE q == Objects(order, s)
<1>1. DOMAIN order \in SUBSET Nat /\ DOMAIN order \subseteq Nat
    BY DEF TypeOK
<1>2. ByGeneration = q
    BY <1>1, InLineIs, ByGenerationIs
<1>3. Len(s) \in Nat /\ DOMAIN s = 1..Len(s) /\ \A i \in 1..Len(s) : s[i] \in DOMAIN order
    BY <1>1, LineLength
<1>4. q \in Seq(Oids) /\ Len(q) = Len(s) /\ DOMAIN q = 1..Len(s) /\ \A i \in 1..Len(s) : q[i] = order[s[i]]
    BY <1>3 DEF Objects, TypeOK
<1> HIDE DEF q
<1>5. ASSUME NEW i \in 1..Len(s), NEW j \in 1..Len(s), q[i] = q[j] PROVE i = j
    <2>1. s[i] = s[j]
        BY <1>3, <1>4, <1>5 DEF IndexesAgree
    <2>2. s[i] \in Nat /\ s[j] \in Nat
        BY <1>1, <1>3
    <2>3. ~(i < j) /\ ~(j < i)
        BY <2>1, <2>2 DEF Line
    <2> QED
        BY <1>3, <2>3
<1>6. ToSet(q) = DOMAIN entries
    <2>1. ASSUME NEW i \in 1..Len(s) PROVE q[i] \in DOMAIN entries
        BY <1>3, <1>4 DEF IndexesAgree
    <2>2. ASSUME NEW o \in DOMAIN entries PROVE \E i \in 1..Len(s) : q[i] = o
        <3>1. entries[o] \in DOMAIN order /\ order[entries[o]] = o
            BY DEF IndexesAgree
        <3>2. PICK i \in 1..Len(s) : s[i] = entries[o]
            BY <3>1 DEF Line
        <3> QED
            BY <1>4, <3>1, <3>2
    <2> QED
        BY <1>4, <2>1, <2>2 DEF ToSet
<1>7. Once(q)
    BY <1>4, <1>5 DEF Once
<1> QED
    BY <1>2, <1>3, <1>4, <1>6, <1>7 DEF q

(* A sequence without the element at k.                                    *)
LEMMA RemoveAtIs ==
    ASSUME NEW X, NEW q \in Seq(X), NEW k \in 1..Len(q)
    PROVE  LET r == RemoveAt(q, k) IN
           /\ r \in Seq(X)
           /\ Len(r) = Len(q) - 1
           /\ \A i \in 1..Len(q) - 1 : r[i] = IF i < k THEN q[i] ELSE q[i + 1]
<1> DEFINE n == Len(q)
           a == SubSeq(q, 1, k - 1)
           b == SubSeq(q, k + 1, n)
<1>1. n \in Nat /\ k \in 1..n /\ k \in Nat /\ \A i \in 1..n : q[i] \in X
    OBVIOUS
<1>2. a \in Seq(X) /\ Len(a) = k - 1 /\ \A i \in 1..k - 1 : a[i] = q[i]
    <2>1. \A i \in 1..k - 1 : q[i] \in X
        BY <1>1
    <2>2. /\ a \in Seq(X) /\ Len(a) = IF 1 <= k - 1 THEN k - 1 - 1 + 1 ELSE 0
          /\ \A i \in 1..k - 1 - 1 + 1 : a[i] = q[1 + i - 1]
        BY <1>1, <2>1, SubSeqProperties
    <2> HIDE DEF a, n
    <2>3. Len(a) = k - 1
        BY <1>1, <2>2
    <2>4. k - 1 - 1 + 1 = k - 1 /\ \A i \in 1..k - 1 : 1 + i - 1 = i
        BY <1>1
    <2>5. \A i \in 1..k - 1 : a[i] = q[i]
        BY <2>2, <2>4
    <2> QED
        BY <2>2, <2>3, <2>5
<1>3. b \in Seq(X) /\ Len(b) = n - k /\ \A i \in 1..n - k : b[i] = q[k + i]
    <2>1. \A i \in k + 1..n : q[i] \in X
        BY <1>1
    <2>2. /\ b \in Seq(X) /\ Len(b) = IF k + 1 <= n THEN n - (k + 1) + 1 ELSE 0
          /\ \A i \in 1..n - (k + 1) + 1 : b[i] = q[k + 1 + i - 1]
        BY <1>1, <2>1, SubSeqProperties
    <2> HIDE DEF b, n
    <2>3. Len(b) = n - k
        BY <1>1, <2>2
    <2>4. n - (k + 1) + 1 = n - k /\ \A i \in 1..n - k : k + 1 + i - 1 = k + i
        BY <1>1
    <2>5. \A i \in 1..n - k : b[i] = q[k + i]
        BY <2>2, <2>4
    <2> QED
        BY <2>2, <2>3, <2>5
<1> HIDE DEF a, b, n
<1>4. /\ a \o b \in Seq(X) /\ Len(a \o b) = Len(a) + Len(b)
      /\ \A i \in 1..Len(a) + Len(b) : (a \o b)[i] = IF i <= Len(a) THEN a[i] ELSE b[i - Len(a)]
    BY <1>2, <1>3, ConcatProperties
<1>5. Len(a) + Len(b) = n - 1
    BY <1>1, <1>2, <1>3
<1>6. ASSUME NEW i \in 1..n - 1 PROVE (a \o b)[i] = IF i < k THEN q[i] ELSE q[i + 1]
    <2>1. CASE i < k
        <3>1. i \in 1..k - 1 /\ i <= Len(a)
            BY <1>1, <1>2, <2>1
        <3> QED
            BY <1>2, <1>4, <1>5, <2>1, <3>1
    <2>2. CASE ~(i < k)
        <3>1. ~(i <= Len(a)) /\ i - (k - 1) \in 1..n - k /\ k + (i - (k - 1)) = i + 1
            BY <1>1, <1>2, <2>2
        <3>2. (a \o b)[i] = b[i - (k - 1)]
            BY <1>2, <1>4, <1>5, <3>1
        <3> QED
            BY <1>3, <2>2, <3>1, <3>2
    <2> QED
        BY <2>1, <2>2
<1>7. RemoveAt(q, k) = a \o b
    BY DEF RemoveAt, a, b, n
<1> QED
    BY <1>4, <1>5, <1>6, <1>7 DEF n

(* A promotion moves one element of the queue to its end.                  *)
LEMMA PromoteLine ==
    ASSUME TypeOK, IndexesAgree, NEW o \in DOMAIN entries, Promote(o), HasLine
    PROVE  /\ HasLine'
           /\ \E k \in DOMAIN ByGeneration :
                 ByGeneration[k] = o /\ ByGeneration' = Append(RemoveAt(ByGeneration, k), o)
<1>1. PICK s : Line(s, DOMAIN order)
    BY DEF HasLine
<1> DEFINE q == Objects(order, s)
           n == Len(s)
           new == nextGen + 1
           S == DOMAIN order
<1>2. /\ ByGeneration = q /\ q \in Seq(Oids) /\ Len(q) = n /\ n \in Nat /\ DOMAIN q = 1..n
      /\ \A i \in 1..n : s[i] \in S /\ q[i] = order[s[i]]
    BY <1>1, QueueIs
<1>3. /\ nextGen \in Nat /\ new \in Nat /\ S \subseteq 1..nextGen /\ entries[o] \in S
      /\ order[entries[o]] = o
    BY DEF TypeOK, IndexesAgree
<1>4. order' = With(Without(order, entries[o]), new, o)
    BY DEF Promote
<1>5. DOMAIN order' = (S \ {entries[o]}) \cup {new} /\ order'[new] = o
    BY <1>4 DEF With, Without
<1>6. \A g \in S \ {entries[o]} : order'[g] = order[g]
    BY <1>3, <1>4 DEF With, Without
<1>7. PICK k \in 1..n : s[k] = entries[o]
    BY <1>1, <1>3 DEF Line
<1> DEFINE r == RemoveAt(s, k)
           t == Append(r, new)
           p == RemoveAt(q, k)
<1>8. s \in Seq(S) /\ \A i \in 1..n : s[i] \in Nat
    BY <1>1, <1>2, <1>3 DEF Line
<1>9. /\ r \in Seq(S) /\ Len(r) = n - 1
      /\ \A i \in 1..n - 1 : r[i] = IF i < k THEN s[i] ELSE s[i + 1]
    BY <1>8, RemoveAtIs
<1> HIDE DEF q, r, S
<1>10. /\ p \in Seq(Oids) /\ Len(p) = n - 1
       /\ \A i \in 1..n - 1 : p[i] = IF i < k THEN q[i] ELSE q[i + 1]
    <2>1. q \in Seq(Oids) /\ k \in 1..Len(q) /\ Len(q) = n
        BY <1>2
    <2>2. /\ p \in Seq(Oids) /\ Len(p) = Len(q) - 1
          /\ \A i \in 1..Len(q) - 1 : p[i] = IF i < k THEN q[i] ELSE q[i + 1]
        BY <2>1, RemoveAtIs
    <2> QED
        BY <2>1, <2>2
<1> HIDE DEF p
<1>11. \A i \in 1..n - 1 : /\ i \in 1..n /\ i + 1 \in 1..n
                           /\ (i < k => i # k) /\ (~(i < k) => i + 1 # k)
    BY <1>2
<1>12. \A i, j \in 1..n : s[i] = s[j] => i = j
    <2> SUFFICES ASSUME NEW i \in 1..n, NEW j \in 1..n, i < j PROVE s[i] # s[j]
        BY <1>2
    <2>1. s[i] < s[j]
        BY <1>1 DEF Line
    <2> QED
        BY <1>8, <2>1
<1>13. \A i \in 1..n - 1 : r[i] \in S \ {entries[o]} /\ p[i] = order'[r[i]]
    <2> SUFFICES ASSUME NEW i \in 1..n - 1 PROVE r[i] \in S \ {entries[o]} /\ p[i] = order'[r[i]]
        OBVIOUS
    <2> DEFINE j == IF i < k THEN i ELSE i + 1
    <2>1. j \in 1..n /\ j # k
        BY <1>11
    <2>2. r[i] = s[j] /\ p[i] = q[j]
        BY <1>9, <1>10
    <2> HIDE DEF j
    <2>3. s[j] \in S /\ s[j] # entries[o] /\ q[j] = order[s[j]]
        BY <1>2, <1>7, <1>12, <2>1
    <2> QED
        BY <1>6, <2>2, <2>3
<1>14. r \in Seq((S \ {entries[o]}) \cup {new})
    BY <1>9, <1>13
<1>15. /\ t \in Seq(DOMAIN order') /\ Len(t) = n /\ t[n] = new
       /\ \A i \in 1..n - 1 : t[i] = r[i]
    <2>1. new \in DOMAIN order' /\ r \in Seq(DOMAIN order')
        BY <1>5, <1>14
    <2>2. /\ t \in Seq(DOMAIN order') /\ Len(t) = Len(r) + 1 /\ t[Len(r) + 1] = new
          /\ \A i \in 1..Len(r) : t[i] = r[i]
        BY <2>1, AppendProperties
    <2>3. Len(r) + 1 = n /\ Len(r) = n - 1
        BY <1>2, <1>9
    <2> QED
        BY <2>2, <2>3
<1> HIDE DEF t, n, new
<1>16. ASSUME NEW i \in 1..n, NEW j \in 1..n, i < j PROVE t[i] < t[j]
    <2>1. i \in 1..n - 1
        BY <1>2, <1>16
    <2>2. t[i] = r[i] /\ r[i] \in S
        BY <1>13, <1>15, <2>1
    <2>3. CASE j = n
        <3>0. r[i] \in 1..nextGen
            BY <1>3, <2>2
        <3>1. r[i] <= nextGen /\ r[i] \in Nat
            BY <3>0, <1>3
        <3> QED
            BY <1>3, <1>15, <2>2, <2>3, <3>1 DEF new
    <2>4. CASE j # n
        <3>1. j \in 1..n - 1
            BY <1>2, <2>4
        <3>2. t[j] = r[j]
            BY <1>15, <3>1
        <3> DEFINE ii == IF i < k THEN i ELSE i + 1
                   jj == IF j < k THEN j ELSE j + 1
        <3>3. ii \in 1..n /\ jj \in 1..n /\ ii < jj
            BY <1>2, <1>16, <2>1, <3>1
        <3>4. r[i] = s[ii] /\ r[j] = s[jj]
            BY <1>9, <2>1, <3>1
        <3>5. s[ii] < s[jj]
            BY <1>1, <3>3 DEF Line, n
        <3> QED
            BY <2>2, <3>2, <3>4, <3>5
    <2> QED
        BY <2>3, <2>4
<1>17. ASSUME NEW g \in DOMAIN order' PROVE \E i \in 1..n : t[i] = g
    <2>1. CASE g = new
        <3>1. n \in 1..n
            BY <1>2
        <3> QED
            BY <1>15, <2>1, <3>1
    <2>2. CASE g # new
        <3>1. g \in S /\ g # entries[o]
            BY <1>5, <2>2 DEF S
        <3>2. PICK i \in 1..n : s[i] = g
            BY <1>1, <3>1 DEF Line, S, n
        <3>3. i # k
            BY <1>7, <3>1, <3>2
        <3>4. CASE i < k
            <4>1. i \in 1..n - 1
                BY <1>2, <3>4
            <4> QED
                BY <1>9, <1>15, <3>2, <3>4, <4>1
        <3>5. CASE k < i
            <4>1. i - 1 \in 1..n - 1 /\ ~(i - 1 < k) /\ (i - 1) + 1 = i /\ i - 1 \in 1..n
                BY <1>2, <3>5
            <4>2. r[i - 1] = s[i]
                BY <1>9, <4>1
            <4> QED
                BY <1>15, <3>2, <4>1, <4>2
        <3> QED
            BY <1>2, <3>3, <3>4, <3>5
    <2> QED
        BY <2>1, <2>2
<1>18. Line(t, DOMAIN order')
    BY <1>15, <1>16, <1>17 DEF Line
<1>19. DOMAIN order' \subseteq Nat
    BY <1>3, <1>5 DEF S, new
<1>20. ByGeneration' = Objects(order', t)
    BY <1>18, <1>19, InLineIs, ByGenerationIs
<1> DEFINE u == Append(p, o)
<1>21. u \in Seq(Oids) /\ Len(u) = n /\ u[n] = o /\ \A i \in 1..n - 1 : u[i] = p[i]
    <2>1. o \in Oids
        BY DEF TypeOK
    <2>2. u \in Seq(Oids) /\ Len(u) = Len(p) + 1 /\ u[Len(p) + 1] = o /\ \A i \in 1..Len(p) : u[i] = p[i]
        BY <1>10, <2>1, AppendProperties
    <2>3. Len(p) + 1 = n /\ Len(p) = n - 1
        BY <1>2, <1>10
    <2> QED
        BY <2>2, <2>3
<1> HIDE DEF u
<1>22. Objects(order', t) = u
    <2>1. \A i \in 1..n : order'[t[i]] = u[i]
        <3> SUFFICES ASSUME NEW i \in 1..n PROVE order'[t[i]] = u[i]
            OBVIOUS
        <3>1. i = n \/ i \in 1..n - 1
            BY <1>2
        <3> QED
            BY <1>5, <1>13, <1>15, <1>21, <3>1
    <2>2. u \in [1..n -> Oids]
        BY <1>21, LenProperties
    <2> QED
        BY <1>15, <2>1, <2>2 DEF Objects
<1>23. k \in DOMAIN q /\ q[k] = o
    BY <1>2, <1>3, <1>7 DEF n
<1>24. HasLine'
    BY <1>18 DEF HasLine
<1> QED
    BY <1>2, <1>20, <1>22, <1>23, <1>24 DEF p, u

(* A turn of the eviction loop takes the first element off the queue.      *)
LEMMA EvictLine ==
    ASSUME TypeOK, IndexesAgree, NEW t, Evict(t), HasLine
    PROVE  /\ HasLine'
           /\ ByGeneration # <<>>
           /\ ByGeneration' = SubSeq(ByGeneration, 2, Len(ByGeneration))
<1>1. PICK s : Line(s, DOMAIN order)
    BY DEF HasLine
<1> DEFINE q == Objects(order, s)
           n == Len(s)
           S == DOMAIN order
<1>2. /\ ByGeneration = q /\ q \in Seq(Oids) /\ Len(q) = n /\ n \in Nat /\ DOMAIN q = 1..n
      /\ \A i \in 1..n : s[i] \in S /\ q[i] = order[s[i]]
    BY <1>1, QueueIs
<1>3. PICK g \in S : (\A h \in S : g <= h) /\ order' = Without(order, g)
    BY DEF Evict
<1>4. DOMAIN order' = S \ {g} /\ \A h \in S \ {g} : order'[h] = order[h]
    BY <1>3 DEF Without
<1>5. S \in SUBSET Nat /\ \A i \in 1..n : s[i] \in Nat
    BY <1>2 DEF TypeOK
<1>6. s \in Seq(S)
    BY <1>1 DEF Line
<1>7. PICK k \in 1..n : s[k] = g
    BY <1>1 DEF Line
<1>8. k = 1
    <2>1. 1 \in 1..n /\ g <= s[1]
        BY <1>2, <1>3
    <2>2. 1 < k => s[1] < s[k]
        BY <1>1, <2>1 DEF Line
    <2>3. g \in Nat /\ s[1] \in Nat
        BY <1>5, <2>1
    <2> QED
        BY <1>2, <1>7, <2>1, <2>2, <2>3
<1>9. n # 0 /\ s # <<>> /\ q # <<>>
    BY <1>2, <1>7
<1> DEFINE r == SubSeq(s, 2, n)
           p == SubSeq(q, 2, n)
<1> HIDE DEF q, S
<1>10. r \in Seq(S) /\ Len(r) = n - 1 /\ \A i \in 1..n - 1 : r[i] = s[i + 1]
    <2>1. r \in Seq(S) /\ Len(r) = n - 1
        BY <1>6, <1>9, RestOf
    <2>2. \A i \in 1..Len(r) : r[i] = s[i + 1]
        BY <1>6, <1>9, RestOf
    <2> QED
        BY <2>1, <2>2
<1>11. p \in Seq(Oids) /\ Len(p) = n - 1 /\ \A i \in 1..n - 1 : p[i] = q[i + 1]
    <2>0. q \in Seq(Oids) /\ q # <<>> /\ p = SubSeq(q, 2, Len(q)) /\ Len(q) = n
        BY <1>2, <1>9
    <2>1. p \in Seq(Oids) /\ Len(p) = Len(q) - 1
        BY <2>0, RestOf
    <2>2. \A i \in 1..Len(p) : p[i] = q[i + 1]
        BY <2>0, RestOf
    <2> QED
        BY <2>0, <2>1, <2>2
<1> HIDE DEF r, p, n
<1>12. \A i \in 1..n - 1 : i + 1 \in 1..n /\ 1 < i + 1 /\ 1 \in 1..n
    BY <1>2
<1>13. \A i \in 1..n - 1 : r[i] \in S \ {g} /\ p[i] = order'[r[i]]
    <2> SUFFICES ASSUME NEW i \in 1..n - 1 PROVE r[i] \in S \ {g} /\ p[i] = order'[r[i]]
        OBVIOUS
    <2>1. s[1] < s[i + 1]
        BY <1>1, <1>12 DEF Line, n
    <2>2. s[i + 1] # g /\ s[i + 1] \in S /\ q[i + 1] = order[s[i + 1]]
        BY <1>2, <1>5, <1>7, <1>8, <1>12, <2>1
    <2> QED
        BY <1>4, <1>10, <1>11, <2>2
<1>14. r \in Seq(DOMAIN order')
    BY <1>4, <1>10, <1>13 DEF S
<1>15. ASSUME NEW i \in 1..n - 1, NEW j \in 1..n - 1, i < j PROVE r[i] < r[j]
    <2>1. i + 1 \in 1..n /\ j + 1 \in 1..n /\ i + 1 < j + 1
        BY <1>2, <1>15
    <2>2. s[i + 1] < s[j + 1]
        BY <1>1, <2>1 DEF Line, n
    <2> QED
        BY <1>10, <2>2
<1>16. ASSUME NEW h \in DOMAIN order' PROVE \E i \in 1..n - 1 : r[i] = h
    <2>1. h \in S /\ h # g
        BY <1>4 DEF S
    <2>2. PICK i \in 1..n : s[i] = h
        BY <1>1, <2>1 DEF Line, S, n
    <2>3. i # 1
        BY <1>7, <1>8, <2>1, <2>2
    <2>4. i - 1 \in 1..n - 1 /\ (i - 1) + 1 = i
        BY <1>2, <2>3
    <2> QED
        BY <1>10, <2>2, <2>4
<1>17. Line(r, DOMAIN order')
    BY <1>10, <1>14, <1>15, <1>16 DEF Line
<1>18. DOMAIN order' \subseteq Nat
    BY <1>4, <1>5 DEF S
<1>19. ByGeneration' = Objects(order', r)
    BY <1>17, <1>18, InLineIs, ByGenerationIs
<1>20. p \in [1..n - 1 -> Oids]
    BY <1>11, LenProperties
<1>21. Objects(order', r) = p
    BY <1>10, <1>13, <1>20 DEF Objects
<1>22. HasLine'
    BY <1>17 DEF HasLine
<1> QED
    BY <1>2, <1>9, <1>19, <1>21, <1>22 DEF p, n

(* An insertion adds one at the end.                                       *)
LEMMA InsertLine ==
    ASSUME TypeOK, IndexesAgree, NEW t \in Threads, Insert(t), HasLine
    PROVE  HasLine' /\ ByGeneration' = Append(ByGeneration, want[t])
<1>1. PICK s : Line(s, DOMAIN order)
    BY DEF HasLine
<1> DEFINE q == Objects(order, s)
           n == Len(s)
           S == DOMAIN order
           o == want[t]
           new == nextGen + 1
           r == Append(s, new)
           p == Append(q, o)
<1>2. /\ ByGeneration = q /\ q \in Seq(Oids) /\ Len(q) = n /\ n \in Nat /\ DOMAIN q = 1..n
      /\ \A i \in 1..n : s[i] \in S /\ q[i] = order[s[i]]
    BY <1>1, QueueIs
<1>3. nextGen \in Nat /\ new \in Nat /\ S \subseteq 1..nextGen /\ o \in Oids
    BY DEF TypeOK
<1>4. order' = With(order, new, o)
    BY DEF Insert
<1>5. DOMAIN order' = S \cup {new} /\ order'[new] = o /\ \A h \in S : order'[h] = order[h]
    BY <1>3, <1>4 DEF With
<1>6. s \in Seq(S)
    BY <1>1 DEF Line
<1> HIDE DEF q, S, o
<1>7. /\ r \in Seq(DOMAIN order') /\ Len(r) = n + 1 /\ r[n + 1] = new
      /\ \A i \in 1..n : r[i] = s[i]
    <2>1. s \in Seq(DOMAIN order') /\ new \in DOMAIN order'
        BY <1>5, <1>6
    <2> QED
        BY <2>1, AppendProperties
<1>8. /\ p \in Seq(Oids) /\ Len(p) = n + 1 /\ p[n + 1] = o
      /\ \A i \in 1..n : p[i] = q[i]
    BY <1>2, <1>3, AppendProperties
<1> HIDE DEF r, p, n
<1>9. ASSUME NEW i \in 1..n + 1, NEW j \in 1..n + 1, i < j PROVE r[i] < r[j]
    <2>1. i \in 1..n
        BY <1>2, <1>9
    <2>2. r[i] = s[i] /\ s[i] \in 1..nextGen
        BY <1>2, <1>3, <1>7, <2>1
    <2>3. CASE j = n + 1
        BY <1>3, <1>7, <2>2, <2>3
    <2>4. CASE j # n + 1
        <3>1. j \in 1..n
            BY <1>2, <2>4
        <3>2. s[i] < s[j]
            BY <1>1, <1>9, <2>1, <3>1 DEF Line, n
        <3> QED
            BY <1>7, <2>2, <3>1, <3>2
    <2> QED
        BY <2>3, <2>4
<1>10. ASSUME NEW h \in DOMAIN order' PROVE \E i \in 1..n + 1 : r[i] = h
    <2>1. CASE h = new
        <3>1. n + 1 \in 1..n + 1
            BY <1>2
        <3> QED
            BY <1>7, <2>1, <3>1
    <2>2. CASE h # new
        <3>1. h \in S
            BY <1>5, <2>2
        <3>2. PICK i \in 1..n : s[i] = h
            BY <1>1, <3>1 DEF Line, S, n
        <3>3. i \in 1..n + 1
            BY <1>2
        <3> QED
            BY <1>7, <3>2, <3>3
    <2> QED
        BY <2>1, <2>2
<1>11. Line(r, DOMAIN order')
    BY <1>7, <1>9, <1>10 DEF Line
<1>12. DOMAIN order' \subseteq Nat
    BY <1>3, <1>5
<1>13. ByGeneration' = Objects(order', r)
    BY <1>11, <1>12, InLineIs, ByGenerationIs
<1>14. p \in [1..n + 1 -> Oids]
    BY <1>8, LenProperties
<1>15. \A i \in 1..n + 1 : order'[r[i]] = p[i]
    <2> SUFFICES ASSUME NEW i \in 1..n + 1 PROVE order'[r[i]] = p[i]
        OBVIOUS
    <2>1. i = n + 1 \/ i \in 1..n
        BY <1>2
    <2> QED
        BY <1>2, <1>5, <1>7, <1>8, <2>1
<1>16. Objects(order', r) = p
    BY <1>7, <1>14, <1>15 DEF Objects
<1>17. HasLine'
    BY <1>11 DEF HasLine
<1> QED
    BY <1>2, <1>13, <1>16, <1>17 DEF p, o

-----------------------------------------------------------------------------
(* Every step of the cache is a step of the queue, or leaves it as it is.  *)

\* What the cache shows as its queue: a put has taken effect as soon as it has the mutex.
Shown == IF mutex = NoOne THEN ByGeneration ELSE Lru!Pushed(ByGeneration, want[mutex])

LineInv == CacheInv /\ TotalKept /\ HasLine

(* What the queue is and costs.                                            *)
LEMMA QueueNow ==
    ASSUME LineInv
    PROVE  /\ ByGeneration \in Seq(Oids) /\ Once(ByGeneration)
           /\ Lru!Weight(ByGeneration) = bytesUsed
           /\ ToSet(ByGeneration) = DOMAIN entries
<1>1. PICK s : Line(s, DOMAIN order)
    BY DEF LineInv, HasLine
<1>2. ByGeneration \in Seq(Oids) /\ Once(ByGeneration) /\ ToSet(ByGeneration) = DOMAIN entries
    BY <1>1, QueueIs DEF LineInv, CacheInv
<1>3. Lru!Weight(ByGeneration) = Total(Size, ToSet(ByGeneration))
    BY <1>2, WeightIs
<1> QED
    BY <1>2, <1>3 DEF LineInv, TotalKept

(* An empty cache is an empty queue.                                       *)
LEMMA InitLine == Init => HasLine /\ LruIn!Init
<1> SUFFICES ASSUME Init PROVE HasLine /\ LruIn!Init
    OBVIOUS
<1>1. DOMAIN order = {} /\ mutex = NoOne
    BY DEF Init
<1>2. Line(<<>>, DOMAIN order)
    BY <1>1 DEF Line
<1>3. ByGeneration = Objects(order, <<>>)
    BY <1>1, <1>2, InLineIs, ByGenerationIs
<1>4. ByGeneration = <<>>
    BY <1>3 DEF Objects
<1> QED
    BY <1>1, <1>2, <1>4 DEF HasLine, LruIn!Init

(* Steps that leave the indexes alone keep the line.                       *)
LEMMA SameLine ==
    ASSUME HasLine, UNCHANGED order
    PROVE  HasLine' /\ ByGeneration' = ByGeneration
    BY ByGenerationIs DEF HasLine

(* The two instances of LruQueue mean the same by a put.                   *)
LEMMA PushedSame == \A q, o : LruIn!Pushed(q, o) = Lru!Pushed(q, o)
    BY Zenon DEF LruIn!Pushed, LruIn!RoomFor, LruIn!Weight, LruIn!Min, LruIn!MapThenSumSet,
        LruIn!MapThenFoldSet, Lru!Pushed, Lru!RoomFor, Lru!Weight, Lru!Min, Lru!MapThenSumSet,
        Lru!MapThenFoldSet

(* Every step keeps the line, and is a step of the abstract cache.         *)
LEMMA NextLine ==
    ASSUME LineInv, [Next]_vars
    PROVE  HasLine' /\ [LruIn!Next]_Shown
<1> USE DEF LineInv
<1>0. TypeOK /\ IndexesAgree /\ LoopIsExclusive /\ OwnerIsInLoop /\ TotalKept /\ HasLine
    BY DEF CacheInv
<1> DEFINE Q == ByGeneration
<1>1. ASSUME UNCHANGED <<order, mutex>>, mutex = NoOne \/ want'[mutex] = want[mutex]
      PROVE  HasLine' /\ Shown' = Shown
    BY <1>0, <1>1, SameLine DEF Shown
<1>2. ASSUME NEW o \in DOMAIN entries, Promote(o), mutex = NoOne, mutex' = NoOne
      PROVE  HasLine' /\ LruIn!Next
    <2>1. PICK k \in DOMAIN Q : Q[k] = o /\ Q' = Append(RemoveAt(Q, k), o)
        BY <1>0, <1>2, PromoteLine
    <2>2. HasLine'
        BY <1>0, <1>2, PromoteLine
    <2>3. LruIn!Use(o)
        BY <1>2, <2>1 DEF LruIn!Use, LruIn!RemoveAt, RemoveAt
    <2>4. o \in Oids
        BY <1>0 DEF TypeOK
    <2> QED
        BY <2>2, <2>3, <2>4 DEF LruIn!Next
<1>3. ASSUME NEW t \in Threads, PutStarts(t) PROVE HasLine' /\ LruIn!Next
    <2> DEFINE o == want[t]
    <2>1. /\ mutex = NoOne /\ mutex' = t /\ t # NoOne /\ want' = want /\ order' = order
          /\ o \notin DOMAIN entries /\ Size[o] <= PerEntryMax
        BY <1>3, CacheAssumption DEF PutStarts, Puts, cache
    <2>2. HasLine' /\ Q' = Q
        BY <1>0, <2>1, SameLine
    <2>3. ~LruIn!Contains(Q, o)
        BY <2>1, QueueNow DEF LruIn!Contains, ToSet
    <2>4. LruIn!Push(o)
        BY <2>1, <2>2, <2>3, PushedSame DEF LruIn!Push
    <2>5. o \in Oids
        BY <1>0 DEF TypeOK
    <2> QED
        BY <2>2, <2>4, <2>5 DEF LruIn!Next
<1>4. ASSUME NEW t \in Threads, Evict(t) PROVE HasLine' /\ Shown' = Shown
    <2> DEFINE o == want[t]
    <2>1. mutex = t /\ mutex' = t /\ t # NoOne /\ want' = want /\ ~(bytesUsed + Size[o] <= Capacity)
        BY <1>0, <1>4, CacheAssumption DEF Evict, LoopIsExclusive, Fits
    <2>2. HasLine' /\ Q # <<>> /\ Q' = SubSeq(Q, 2, Len(Q))
        BY <1>0, <1>4, EvictLine
    <2>3. Q \in Seq(Oids) /\ Lru!Weight(Q) = bytesUsed
        BY QueueNow
    <2>4. Lru!Pushed(Q, o) = Lru!Pushed(SubSeq(Q, 2, Len(Q)), o)
        BY <2>1, <2>2, <2>3, PushedDrops
    <2> QED
        BY <2>1, <2>2, <2>4 DEF Shown
<1>5. ASSUME NEW t \in Threads, Insert(t) PROVE HasLine' /\ Shown' = Shown
    <2> DEFINE o == want[t]
    <2>1. mutex = t /\ mutex' = NoOne /\ t # NoOne /\ bytesUsed + Size[o] <= Capacity /\ o \in Oids
        BY <1>0, <1>5, CacheAssumption DEF Insert, LoopIsExclusive, Fits, TypeOK
    <2>2. HasLine' /\ Q' = Append(Q, o)
        BY <1>0, <1>5, InsertLine
    <2>3. Q \in Seq(Oids) /\ Once(Q) /\ Lru!Weight(Q) = bytesUsed
        BY QueueNow
    <2>4. Lru!Pushed(Q, o) = Append(Q, o)
        BY <2>1, <2>3, PushedFits
    <2> QED
        BY <2>1, <2>2, <2>4 DEF Shown
<1>6. ASSUME NEW t \in Threads, PutGivesUp(t) PROVE HasLine' /\ Shown' = Shown
    <2> DEFINE o == want[t]
    <2>1. /\ mutex = t /\ mutex' = NoOne /\ t # NoOne /\ order' = order /\ DOMAIN order = {}
          /\ ~(bytesUsed + Size[o] <= Capacity) /\ o \in Oids
        BY <1>0, <1>6, CacheAssumption DEF PutGivesUp, LoopIsExclusive, Fits, TypeOK, cache
    <2>2. HasLine' /\ Q' = Q
        BY <1>0, <2>1, SameLine
    <2>3. Q = <<>>
        <3>1. Line(<<>>, DOMAIN order)
            BY <2>1 DEF Line
        <3>2. Q = Objects(order, <<>>)
            BY <2>1, <3>1, InLineIs, ByGenerationIs
        <3> QED
            BY <3>2 DEF Objects
    <2>4. bytesUsed = 0
        <3>1. DOMAIN entries = {}
            BY <1>0, <2>1 DEF IndexesAgree
        <3>2. IsFiniteSet({}) /\ \A x \in {} : Size[x] \in Nat
            BY FS_EmptySet
        <3>3. Total(Size, {}) = 0
            BY <3>2, TotalOf
        <3> QED
            BY <1>0, <3>1, <3>3 DEF TotalKept
    <2>5. ~(Size[o] <= Capacity)
        BY <2>1, <2>4, CacheAssumption
    <2>6. Lru!Pushed(Q, o) = <<>>
        BY <2>1, <2>3, <2>5, PushedNone
    <2> QED
        BY <2>1, <2>2, <2>3, <2>6 DEF Shown
<1>7. ASSUME NEW t \in Threads, NEW o \in Oids, GetMiss(t, o) \/ PutHeader(t, o)
      PROVE  HasLine' /\ Shown' = Shown
    <2>1. order' = order /\ mutex' = mutex /\ pc[t] = "idle" /\ want' = [want EXCEPT ![t] = o]
        BY <1>7 DEF GetMiss, PutHeader, cache
    <2>2. mutex # NoOne => mutex # t
        BY <1>0, <2>1 DEF OwnerIsInLoop
    <2>3. mutex = NoOne \/ want'[mutex] = want[mutex]
        BY <1>0, <2>1, <2>2 DEF TypeOK
    <2> QED
        BY <1>1, <2>1, <2>3
<1>8. ASSUME NEW t \in Threads, Find(t) \/ FindFails(t) \/ PutSkips(t)
      PROVE  HasLine' /\ Shown' = Shown
    BY <1>1, <1>8 DEF Find, FindFails, PutSkips, cache
<1>9. ASSUME NEW t \in Threads, NEW o \in Oids, GetHit(t, o) PROVE HasLine' /\ LruIn!Next
    BY <1>2, <1>9 DEF GetHit
<1>10. ASSUME NEW t \in Threads, PutReplaces(t) PROVE HasLine' /\ LruIn!Next
    BY <1>2, <1>10 DEF PutReplaces, Puts
<1>11. CASE UNCHANGED vars
    BY <1>1, <1>11 DEF vars
<1>12. CASE Next
    BY <1>3, <1>4, <1>5, <1>6, <1>7, <1>8, <1>9, <1>10, <1>12 DEF Next
<1> QED
    BY <1>11, <1>12

(* Each cache is a least-recently-used queue: with two indexes, a loop     *)
(* that evicts entry by entry and other threads in between, a use moves    *)
(* the entry to the end, and a put drops the oldest entries and no more of *)
(* them than it must.                                                      *)
THEOREM CacheIsLru ==
    ASSUME Oids # {}
    PROVE  Spec => ImplementsLru
<1>1. Init => LineInv /\ LruIn!Init
    BY InitInv, InitTotal, InitLine DEF LineInv
<1>2. LineInv /\ [Next]_vars => LineInv'
    BY NextInv, NextTotal, NextLine DEF LineInv
<1>3. LineInv /\ [Next]_vars => [LruIn!Next]_Shown
    BY NextLine
<1>4. Init /\ [][Next]_vars => LruIn!Init /\ [][LruIn!Next]_Shown
    BY <1>1, <1>2, <1>3, PTL
<1> QED
    BY <1>4, PTL DEF Spec, ImplementsLru, LruIn!Spec, Shown
=============================================================================
