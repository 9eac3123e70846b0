------------------------ MODULE GitCliFetcherProofs ------------------------
(***************************************************************************)
(* Theorems about GitCliFetcher, for any number of readers and             *)
(* prefetchers, any batches, any pool size and any number of faults.       *)
(*                                                                         *)
(* The pool's own lemmas are used through an instance of BatchPoolProofs:  *)
(* every step of the fetcher is a step of the pool or leaves it alone.     *)
(***************************************************************************)
EXTENDS GitCliFetcher, FiniteSetTheorems, TLAPS

PP == INSTANCE BatchPoolProofs WITH
        Actors <- Readers \cup Prefetchers,
        Requests <- Seq(Oids) \ {<<>>}

-----------------------------------------------------------------------------
(* What FirstOccurrences keeps.                                            *)

(* A set of natural numbers that is not empty has a least element.         *)
LEMMA LeastOf ==
    ASSUME NEW T \in SUBSET Nat, T # {}
    PROVE  \E x \in T : \A y \in T : x <= y
<1> DEFINE R == OpToRel(<, Nat)
<1>1. IsWellFoundedOn(R, Nat)
    BY NatLessThanWellFounded
<1>2. \A x, y \in Nat : y < x => <<y, x>> \in R
    BY DEF OpToRel
<1> HIDE DEF R
<1>3. PICK x \in T : \A y \in T : ~(<<y, x>> \in R)
    BY <1>1, WFMin
<1>4. x \in Nat
    OBVIOUS
<1>5. ASSUME NEW y \in T PROVE x <= y
    <2>1. y \in Nat /\ ~(<<y, x>> \in R)
        BY <1>3
    <2>2. ~(y < x)
        BY <1>2, <1>4, <2>1
    <2> QED
        BY <1>4, <2>1, <2>2
<1> QED
    BY <1>5

\* One turn of the loop of Picked: the list f[n] once the places up to n were seen.
Turn(s, I, f, n) ==
    IF n = 0 THEN <<>> ELSE IF n \in I THEN Append(f[n - 1], s[n]) ELSE f[n - 1]

(* The loop has a result after every turn.                                 *)
LEMMA TurnsExist ==
    ASSUME NEW s, NEW I, NEW m \in Nat
    PROVE  \E f : f = [n \in 0..m |-> Turn(s, I, f, n)]
<1> DEFINE Done(n) == \E f : f = [i \in 0..n |-> Turn(s, I, f, i)]
           T == {n \in Nat : ~Done(n)}
<1> SUFFICES ASSUME T # {} PROVE FALSE
    OBVIOUS
<1>1. PICK x \in T : \A y \in T : x <= y
    BY LeastOf
<1>2. x \in Nat /\ ~Done(x)
    OBVIOUS
<1>3. Done(0)
    <2> DEFINE f == [i \in 0..0 |-> <<>>]
    <2>1. \A i \in 0..0 : i = 0
        OBVIOUS
    <2>2. f = [i \in 0..0 |-> Turn(s, I, f, i)]
        BY <2>1 DEF Turn
    <2> QED
        BY <2>2
<1>4. x - 1 \in Nat /\ x - 1 \notin T
    <2>1. x # 0
        BY <1>2, <1>3
    <2>2. x - 1 \in Nat /\ ~(x <= x - 1)
        BY <1>2, <2>1
    <2> QED
        BY <1>1, <2>2
<1>5. Done(x - 1)
    BY <1>4
<1> DEFINE y == x - 1
<1>6. PICK f : f = [i \in 0..y |-> Turn(s, I, f, i)]
    BY <1>5
<1> DEFINE g == [i \in 0..x |-> IF i = x THEN Turn(s, I, f, x) ELSE f[i]]
<1>7. \A i \in 0..x : i # x => i \in 0..y
    BY <1>2
<1>8. \A i \in 0..x : i # 0 => i - 1 \in 0..x /\ i - 1 # x
    BY <1>2
<1>9. ASSUME NEW i \in 0..x PROVE g[i] = Turn(s, I, g, i)
    <2>1. i # 0 => g[i - 1] = f[i - 1]
        BY <1>8
    <2>2. Turn(s, I, g, i) = Turn(s, I, f, i)
        BY <2>1 DEF Turn
    <2>3. i # x => f[i] = Turn(s, I, f, i)
        BY <1>6, <1>7
    <2> QED
        BY <2>2, <2>3
<1>10. g = [i \in 0..x |-> Turn(s, I, g, i)]
    BY <1>9
<1> QED
    BY <1>2, <1>10

(* Picked is such a function, applied to the whole of s.                   *)
LEMMA PickedTurns ==
    ASSUME NEW s, NEW I, Len(s) \in Nat
    PROVE  \E f : f = [n \in 0..Len(s) |-> Turn(s, I, f, n)] /\ Picked(s, I) = f[Len(s)]
<1> DEFINE f == CHOOSE f : f = [n \in 0..Len(s) |-> Turn(s, I, f, n)]
<1>1. f = [n \in 0..Len(s) |-> Turn(s, I, f, n)]
    BY TurnsExist
<1>2. Picked(s, I) = f[Len(s)]
    BY Zenon DEF Picked, Turn
<1> QED
    BY <1>1, <1>2

\* The list q holds the elements of s at the places in J and no others, each place once.
HoldsPlaces(q, s, J) ==
    /\ \A j \in 1..Len(q) : \E i \in J : q[j] = s[i]
    /\ \A i \in J : \E j \in 1..Len(q) : q[j] = s[i]
    /\ \A j, k \in 1..Len(q) : j # k => \E i, l \in J : i # l /\ q[j] = s[i] /\ q[k] = s[l]

(* Appending the element at one more place.                                *)
LEMMA AppendHolds ==
    ASSUME NEW X, NEW q \in Seq(X), NEW s, NEW J, NEW n, s[n] \in X, n \notin J, HoldsPlaces(q, s, J)
    PROVE  Append(q, s[n]) \in Seq(X) /\ HoldsPlaces(Append(q, s[n]), s, J \cup {n})
<1> DEFINE p == Append(q, s[n])
           K == J \cup {n}
           L == Len(q)
<1>1. p \in Seq(X) /\ L \in Nat /\ Len(p) = L + 1 /\ p[L + 1] = s[n] /\ \A j \in 1..L : p[j] = q[j]
    OBVIOUS
<1>2. \A j \in 1..Len(p) : j \in 1..L \/ j = L + 1
    BY <1>1
<1>3. \A j \in 1..L : j \in 1..Len(p)
    BY <1>1
<1>4. L + 1 \in 1..Len(p)
    BY <1>1
<1> HIDE DEF p, L
<1>5. \A j \in 1..L : \E i \in J : p[j] = s[i]
    BY <1>1 DEF HoldsPlaces, L
<1>6. \A j \in 1..Len(p) : \E i \in K : p[j] = s[i]
    BY <1>1, <1>2, <1>5
<1>7. \A i \in K : \E j \in 1..Len(p) : p[j] = s[i]
    BY <1>1, <1>3, <1>4 DEF HoldsPlaces, L
<1>8. ASSUME NEW j \in 1..Len(p), NEW k \in 1..Len(p), j # k
      PROVE  \E i, l \in K : i # l /\ p[j] = s[i] /\ p[k] = s[l]
    <2>1. CASE j \in 1..L /\ k \in 1..L
        <3>1. PICK i \in J, l \in J : i # l /\ q[j] = s[i] /\ q[k] = s[l]
            BY <1>8, <2>1 DEF HoldsPlaces, L
        <3>2. p[j] = q[j] /\ p[k] = q[k] /\ i \in K /\ l \in K
            BY <1>1, <2>1
        <3> QED
            BY <3>1, <3>2
    <2>2. CASE j \in 1..L /\ k = L + 1
        BY <1>1, <1>5, <2>2
    <2>3. CASE j = L + 1 /\ k \in 1..L
        BY <1>1, <1>5, <2>3
    <2> QED
        BY <1>2, <1>8, <2>1, <2>2, <2>3
<1> QED
    BY <1>1, <1>6, <1>7, <1>8 DEF HoldsPlaces, p

(* Picked(s, I) holds the elements of s at the places in I.                *)
LEMMA PickedHolds ==
    ASSUME NEW X, NEW s \in Seq(X), NEW I \in SUBSET DOMAIN s
    PROVE  Picked(s, I) \in Seq(X) /\ HoldsPlaces(Picked(s, I), s, I)
<1> DEFINE L == Len(s)
<1>1. L \in Nat /\ DOMAIN s = 1..L /\ \A n \in 1..L : s[n] \in X
    OBVIOUS
<1>2. PICK f : f = [n \in 0..L |-> Turn(s, I, f, n)] /\ Picked(s, I) = f[L]
    BY <1>1, PickedTurns
<1> DEFINE J(n) == {i \in I : i <= n}
           Good(n) == f[n] \in Seq(X) /\ HoldsPlaces(f[n], s, J(n))
           T == {n \in 0..L : ~Good(n)}
<1>3. ASSUME T # {} PROVE FALSE
    <2>1. T \in SUBSET Nat
        BY <1>1
    <2>2. PICK x \in T : \A y \in T : x <= y
        BY <1>3, <2>1, LeastOf
    <2>3. x \in 0..L /\ ~Good(x) /\ x \in Nat
        BY <2>1
    <2>4. Good(0)
        <3>1. f[0] = <<>> /\ J(0) = {}
            BY <1>1, <1>2 DEF Turn
        <3> QED
            BY <3>1 DEF HoldsPlaces
    <2> DEFINE y == x - 1
    <2>5. y \in 0..L /\ y \in Nat /\ x = y + 1 /\ x \in 1..L /\ x # 0 /\ ~(x <= y)
        <3> HIDE DEF Good
        <3>1. x # 0
            BY <2>3, <2>4
        <3> HIDE DEF T
        <3> QED
            BY <1>1, <2>3, <3>1
    <2> HIDE DEF y
    <2>6. Good(y)
        BY <2>2, <2>5
    <2>7. \A i \in I : i <= x <=> i <= y \/ i = x
        BY <1>1, <2>5
    <2>8. f[x] = IF x \in I THEN Append(f[y], s[x]) ELSE f[y]
        BY <1>2, <2>3, <2>5 DEF Turn, y
    <2>9. CASE x \in I
        <3>1. J(x) = J(y) \cup {x} /\ x \notin J(y)
            BY <2>5, <2>7, <2>9
        <3> HIDE DEF J
        <3>2. s[x] \in X /\ f[x] = Append(f[y], s[x])
            BY <1>1, <2>5, <2>8, <2>9
        <3>3. f[y] \in Seq(X) /\ HoldsPlaces(f[y], s, J(y))
            BY <2>6
        <3> DEFINE K == J(y)
        <3> HIDE DEF K, T, Good
        <3>4. Append(f[y], s[x]) \in Seq(X) /\ HoldsPlaces(Append(f[y], s[x]), s, K \cup {x})
            BY <3>1, <3>2, <3>3, AppendHolds DEF K
        <3>5. Good(x)
            BY <3>1, <3>2, <3>4 DEF Good, K
        <3> QED
            BY <2>3, <3>5
    <2>10. CASE x \notin I
        <3>1. J(x) = J(y)
            BY <2>7, <2>10
        <3> HIDE DEF J
        <3> QED
            BY <2>3, <2>6, <2>8, <2>10, <3>1
    <2> QED
        BY <2>9, <2>10
<1> HIDE DEF Good
<1>4. Good(L)
    BY <1>1, <1>3
<1>5. J(L) = I
    BY <1>1
<1> HIDE DEF J
<1> QED
    BY <1>2, <1>4, <1>5 DEF Good

(* FirstOccurrences keeps the elements of S, each once.                    *)
LEMMA FirstsHold ==
    ASSUME NEW X, NEW s \in Seq(X), NEW S
    PROVE  LET q == FirstOccurrences(s, S)
           IN  /\ q \in Seq(X) /\ Elements(q) = Elements(s) \cap S
               /\ \A j, k \in DOMAIN q : q[j] = q[k] => j = k
<1> DEFINE I == {i \in DOMAIN s : s[i] \in S /\ FirstAt(s, i)}
           q == FirstOccurrences(s, S)
<1>1. q \in Seq(X) /\ HoldsPlaces(q, s, I)
    BY PickedHolds DEF FirstOccurrences
<1>2. DOMAIN q = 1..Len(q) /\ DOMAIN s = 1..Len(s) /\ Len(s) \in Nat
      /\ \A i \in I : i \in DOMAIN s /\ i \in Nat /\ s[i] \in S /\ FirstAt(s, i)
    BY <1>1
<1> HIDE DEF q
<1>3. ASSUME NEW x \in Elements(q) PROVE x \in Elements(s) \cap S
    BY <1>1, <1>2 DEF HoldsPlaces, Elements
<1>4. ASSUME NEW x \in Elements(s) \cap S PROVE x \in Elements(q)
    <2> DEFINE T == {i \in DOMAIN s : s[i] = x}
    <2>1. T \in SUBSET Nat /\ T # {}
        BY DEF Elements
    <2>2. PICK i \in T : \A j \in T : i <= j
        BY <2>1, LeastOf
    <2>3. \A j \in 1..(i - 1) : j \in DOMAIN s /\ ~(i <= j)
        BY <1>2
    <2>4. i \in I
        BY <2>2, <2>3 DEF FirstAt
    <2> QED
        BY <1>1, <1>2, <2>4 DEF HoldsPlaces, Elements
<1>5. ASSUME NEW i \in I, NEW l \in I, i # l PROVE s[i] # s[l]
    <2>1. i \in 1..(l - 1) \/ l \in 1..(i - 1)
        BY <1>2, <1>5
    <2> QED
        BY <1>2, <2>1 DEF FirstAt
<1>6. ASSUME NEW j \in DOMAIN q, NEW k \in DOMAIN q, j # k PROVE q[j] # q[k]
    BY <1>1, <1>2, <1>5, <1>6 DEF HoldsPlaces
<1> QED
    BY <1>1, <1>3, <1>4, <1>6 DEF q

-----------------------------------------------------------------------------
\* An answer r about the object o is honest when the store shows the objects V, the
\* objects D are on disk, f faults have happened and n spawns have failed.
Honest(r, o, V, D, f, n) ==
    /\ r \in {"Ok", "PresentWithHeader"} => o \in V
    /\ r = "NotPresentAfterFetch" => o \in D
    /\ r = "Refused" => o \notin Upstream
    /\ r = "Transport" => f >= 2
    /\ r = "Backend" => n >= 1

PoolPart == PP!PoolInv /\ PP!PipeInv /\ PP!FaultsCounted

BatchTypes ==
    /\ step \in [Prefetchers -> {"idle", "claim", "skip", "fetch", "assemble"}]
    /\ batch \in [Prefetchers -> Seq(Oids)]
    /\ lead \in [Prefetchers -> Seq(Oids)]
    /\ probes = [p \in Prefetchers |-> probes[p]]
    /\ returned = [p \in Prefetchers |-> returned[p]]

Types ==
    /\ Single!TypeOK
    /\ visible \subseteq Oids
    /\ reply \in [Readers -> {"none", "Ok"} \cup Errors]
    /\ BatchTypes

\* The flights of the coalescer and the calls attached to them.
Leads(t) == phase[t] = "leader"
Waits(t) == phase[t] = "follower"

CallsCounted == \A t \in Readers : phase[t] # "idle" => calls[t] >= 1

\* A leader flies its own flight, which is the open one of its object.
LeaderOwns ==
    \A t \in Readers : Leads(t) =>
        flight[t] = <<t, calls[t]>> /\ flight[t] \in Single!Flights /\ open[key[t]] = flight[t]

OpenHasLeader ==
    \A k \in Oids : open[k] # NoFlight =>
        \E t \in Readers : Leads(t) /\ key[t] = k /\ flight[t] = open[k]

\* While a follower waits, there is a leader that will answer it, about the same object.
FollowerHasLeader ==
    \A t \in Readers : Waits(t) =>
        /\ flight[t] \in Single!Flights
        /\ outcome[flight[t]] = Pending =>
              \E l \in Readers : Leads(l) /\ flight[l] = flight[t] /\ key[l] = key[t]

\* A flight that has not been opened has no outcome.
FreshPending ==
    \A t \in Readers : \A n \in 1..MaxCalls :
        n > calls[t] \/ (n = calls[t] /\ phase[t] = "called") => outcome[<<t, n>>] = Pending

FlightInv ==
    /\ CallsCounted
    /\ LeaderOwns
    /\ OpenHasLeader
    /\ FollowerHasLeader
    /\ FreshPending

\* The outcome of a flight is honest about the object of every call attached to it.
OutcomeInv ==
    \A t \in Readers : (Leads(t) \/ Waits(t)) /\ outcome[flight[t]] # Pending =>
        Honest(outcome[flight[t]], key[t], visible, disk, faults, refusals)

\* Only the leader of an unsettled flight is in the pool, with its own object.
ReaderInv ==
    \A t \in Readers :
        /\ op[t] # "none" => Leads(t) /\ outcome[flight[t]] = Pending /\ want[t] = <<key[t]>>
        /\ op[t] = "abandoned" => key[t] \in visible

\* Only a batch in its fetch is in the pool, with its lead.
\* Once it has its answers, there is a probe for each of its objects.
BatchAt(st, leads, o, asks, oids, known) ==
    /\ st \in {"idle", "claim"} => leads = <<>>
    /\ o # "none" => st = "fetch" /\ asks = leads /\ o # "abandoned"
    /\ st = "fetch" => Elements(oids) \subseteq DOMAIN known \cup Elements(leads)
    /\ st = "assemble" => Elements(oids) \subseteq DOMAIN known

BatchInv == \A p \in Prefetchers : BatchAt(step[p], lead[p], op[p], want[p], batch[p], probes[p])

\* The probes gathered so far are honest, and so is what the last call returned.
ProbesAt(known, V, D, f, n) == \A o \in DOMAIN known : Honest(known[o], o, V, D, f, n)

ReturnedAt(ret, oids, V, D, f, n) ==
    \A i \in DOMAIN ret :
        /\ ret[i] = "PresentWithHeader" => oids[i] \in V
        /\ FirstPlace(oids, i) => Honest(ret[i], oids[i], V, D, f, n)

ProbeInv ==
    \A p \in Prefetchers :
        /\ ProbesAt(probes[p], visible, disk, faults, refusals)
        /\ ReturnedAt(returned[p], batch[p], visible, disk, faults, refusals)

\* An error that fetch_object returned has a cause.
ReplyInv == \A t \in Readers : reply[t] \in Errors => CanFail(key[t])

FetcherInv ==
    /\ PoolPart
    /\ Types
    /\ ReplyInv
    /\ FlightInv
    /\ OutcomeInv
    /\ ReaderInv
    /\ BatchInv
    /\ ProbeInv
    /\ ClaimsExact

-----------------------------------------------------------------------------
(* The pool under the fetcher.                                             *)

LEMMA PoolAssumed == PP!PoolAssumption
    BY FetcherAssumption DEF PP!PoolAssumption

\* The steps of an actor on its way through the pool, without its entry and its exits.
OnTheWay(a) ==
    \/ Pool!Acquire(a) \/ Pool!TryLock(a) \/ Pool!TryLockBusy(a) \/ Pool!LockStart(a)
    \/ Pool!Query(a) \/ Pool!SpawnFails(a) \/ Pool!ReadLine(a) \/ Pool!IoFails(a)

LEMMA ActorIsPool ==
    ASSUME NEW a \in Readers \cup Prefetchers,
           OnTheWay(a) \/ Pool!Abandon(a) \/ Pool!Finish(a)
    PROVE  PP!Next
<1>1. OnTheWay(a) => PP!Progress(a)
    <2>1. Pool!Acquire(a) => PP!Acquire(a)
        BY DEF Pool!Acquire, PP!Acquire
    <2>2. Pool!TryLock(a) => PP!TryLock(a)
        BY DEF Pool!TryLock, PP!TryLock, Pool!Lock, PP!Lock, Pool!Probe, PP!Probe
    <2>3. Pool!TryLockBusy(a) => PP!TryLockBusy(a)
        BY DEF Pool!TryLockBusy, PP!TryLockBusy, Pool!Probe, PP!Probe
    <2>4. Pool!LockStart(a) => PP!LockStart(a)
        BY DEF Pool!LockStart, PP!LockStart, Pool!Lock, PP!Lock
    <2>5. Pool!Query(a) => PP!Query(a)
        BY DEF Pool!Query, PP!Query
    <2>6. Pool!SpawnFails(a) => PP!SpawnFails(a)
        BY DEF Pool!SpawnFails, PP!SpawnFails, Pool!Release, PP!Release
    <2>7. Pool!ReadLine(a) => PP!ReadLine(a)
        BY DEF Pool!ReadLine, PP!ReadLine
    <2>8. Pool!IoFails(a) => PP!IoFails(a)
        BY DEF Pool!IoFails, PP!IoFails, Pool!Release, PP!Release, Pool!NoChild, PP!NoChild,
               Pool!Range, PP!Range
    <2> QED
        BY <2>1, <2>2, <2>3, <2>4, <2>5, <2>6, <2>7, <2>8 DEF OnTheWay, PP!Progress
<1>2. Pool!Abandon(a) => PP!Abandon(a)
    BY DEF Pool!Abandon, PP!Abandon, Pool!Release, PP!Release
<1>3. Pool!Finish(a) => PP!Finish(a)
    BY DEF Pool!Finish, PP!Finish, Pool!Over, PP!Over
<1> QED
    BY <1>1, <1>2, <1>3 DEF PP!Next

LEMMA BeginIsPool ==
    ASSUME NEW a \in Readers \cup Prefetchers, NEW w \in Seq(Oids) \ {<<>>}, Pool!Begin(a, w)
    PROVE  PP!Next
<1>1. PP!Begin(a, w)
    BY DEF Pool!Begin, PP!Begin
<1> QED
    BY <1>1 DEF PP!Next

LEMMA ChildIsPool ==
    ASSUME NEW s \in Pool!Slots, Pool!Serve(s) \/ Pool!Exit(s)
    PROVE  PP!Next
<1>1. s \in PP!Slots
    BY DEF Pool!Slots, PP!Slots
<1>2. PP!Serve(s) \/ PP!Exit(s)
    BY DEF Pool!Serve, PP!Serve, Pool!Exit, PP!Exit
<1> QED
    BY <1>1, <1>2 DEF PP!Next

(* Every step of the fetcher is a step of the pool, or none.               *)
LEMMA FetcherIsPool == Types /\ [Next]_vars => [PP!Next]_(PP!vars)
<1> SUFFICES ASSUME Types, [Next]_vars PROVE PP!Next \/ UNCHANGED poolVars
    BY DEF PP!vars, poolVars
<1>1. CASE UNCHANGED vars
    BY <1>1 DEF vars, poolVars
<1>2. ASSUME NEW t \in Readers, NEW o \in Oids, FetchObjectPresent(t, o) \/ FetchObject(t, o)
      PROVE  UNCHANGED poolVars
    BY <1>2 DEF FetchObjectPresent, FetchObject
<1>3. ASSUME NEW t \in Readers, ReaderStep(t) PROVE PP!Next \/ UNCHANGED poolVars
    <2>1. CASE LeadFetch(t)
        <3>1. key[t] \in Oids
            BY DEF Types, Single!TypeOK
        <3>2. <<key[t]>> \in Seq(Oids) \ {<<>>}
            BY <3>1
        <3> QED
            BY <2>1, <3>2, BeginIsPool DEF LeadFetch
    <2>2. CASE JoinFetch(t) \/ FetchObjectReturns(t)
        BY <2>2 DEF JoinFetch, FetchObjectReturns
    <2>3. CASE DoubleCheck(t) \/ Ask(t) \/ RoundTrip(t) \/ RawFetchReturns(t)
        BY <2>3, ActorIsPool DEF DoubleCheck, Ask, RoundTrip, RawFetchReturns, OnTheWay
    <2> QED
        BY <1>3, <2>1, <2>2, <2>3 DEF ReaderStep
<1>4. ASSUME NEW p \in Prefetchers, NEW b \in Batches, PrefetchHeaders(p, b)
      PROVE  UNCHANGED poolVars
    BY <1>4 DEF PrefetchHeaders
<1>5. ASSUME NEW p \in Prefetchers, PrefetcherStep(p) PROVE PP!Next \/ UNCHANGED poolVars
    <2>1. CASE Skip(p)
        <3>1. lead[p] \in Seq(Oids)
            BY DEF Types, BatchTypes
        <3>2. (lead[p] # <<>> /\ Pool!Begin(p, lead[p])) \/ UNCHANGED poolVars
            BY <2>1 DEF Skip
        <3> QED
            BY <3>1, <3>2, BeginIsPool
    <2>2. CASE Claim(p) \/ ReturnProbes(p)
        BY <2>2 DEF Claim, ReturnProbes
    <2>3. CASE AskBatch(p) \/ RoundTrip(p) \/ BatchAnswered(p)
        BY <2>3, ActorIsPool DEF AskBatch, RoundTrip, BatchAnswered, OnTheWay
    <2> QED
        BY <1>5, <2>1, <2>2, <2>3 DEF PrefetcherStep
<1>6. ASSUME NEW s \in Pool!Slots, ServeChild(s) \/ ChildExits(s) PROVE PP!Next
    BY <1>6, ChildIsPool DEF ServeChild, ChildExits
<1>7. ASSUME NEW o \in Oids, Refresh(o) PROVE UNCHANGED poolVars
    BY <1>7 DEF Refresh
<1> QED
    BY <1>1, <1>2, <1>3, <1>4, <1>5, <1>6, <1>7 DEF Next

LEMMA PoolKept == PoolPart /\ Types /\ [Next]_vars => PoolPart'
    BY FetcherIsPool, PoolAssumed, PP!NextInv, PP!NextPipes, PP!NextFaults DEF PoolPart

-----------------------------------------------------------------------------
(* What only grows: the store, the faults and the refusals.                *)

LEMMA HonestKept ==
    ASSUME NEW r, NEW o, NEW V, NEW W, V \subseteq W, NEW D, NEW E, D \subseteq E,
           NEW f \in Nat, NEW g \in Nat, f <= g, NEW n \in Nat, NEW m \in Nat, n <= m,
           Honest(r, o, V, D, f, n)
    PROVE  Honest(r, o, W, E, g, m)
    BY DEF Honest

\* Nothing that makes an answer honest is taken back.
Grown ==
    /\ visible \subseteq visible'
    /\ disk \subseteq disk'
    /\ faults \in Nat /\ faults' \in Nat /\ faults <= faults'
    /\ refusals \in Nat /\ refusals' \in Nat /\ refusals <= refusals'

LEMMA HonestGrows ==
    ASSUME Grown
    PROVE  \A r, o : Honest(r, o, visible, disk, faults, refusals) => Honest(r, o, visible', disk', faults', refusals')
    BY HonestKept DEF Grown

LEMMA Growth == PoolPart /\ Types /\ [Next]_vars => Grown
<1> SUFFICES ASSUME PoolPart, Types, [Next]_vars PROVE Grown
    OBVIOUS
<1>1. /\ faults \in Nat /\ faults' \in {faults, faults + 1}
      /\ refusals \in Nat /\ refusals' \in {refusals, refusals + 1}
    BY FetcherIsPool, PoolAssumed, PP!CountersGrow DEF PoolPart
<1>3. disk \subseteq disk'
    BY FetcherIsPool, PoolAssumed, PP!DiskGrows
<1>2. visible \subseteq visible'
    BY DEF Next, vars, FetchObjectPresent, FetchObject, ReaderStep, LeadFetch, JoinFetch, DoubleCheck,
           Ask, RoundTrip, RawFetchReturns, FetchObjectReturns, PrefetchHeaders, PrefetcherStep, Claim,
           Skip, AskBatch, BatchAnswered, ReturnProbes, ServeChild, ChildExits, Refresh
<1> QED
    BY <1>1, <1>2, <1>3 DEF Grown

-----------------------------------------------------------------------------
(* Flights.                                                                *)

LEMMA FlightNames ==
    /\ NoFlight \notin Single!Flights
    /\ \A t \in Readers : \A n \in 1..MaxCalls : <<t, n>> \in Single!Flights
    /\ Pending \notin {"Ok"} \cup Errors
    /\ MaxCalls \in Nat
    BY NullAssumption, FetcherAssumption DEF Single!Flights

LEMMA CallKeeps ==
    ASSUME Single!TypeOK, FlightInv, NEW t \in Readers, NEW k \in Oids, Single!Call(t, k)
    PROVE  Single!TypeOK' /\ FlightInv'
<1> USE FlightNames DEF Single!TypeOK, FlightInv
<1>1. /\ phase[t] = "idle" /\ calls[t] \in Nat /\ calls[t] < MaxCalls
      /\ phase' = [phase EXCEPT ![t] = "called"] /\ key' = [key EXCEPT ![t] = k]
      /\ calls' = [calls EXCEPT ![t] = @ + 1]
      /\ open' = open /\ outcome' = outcome /\ flight' = flight
    BY DEF Single!Call
<1>2. Single!TypeOK'
    BY <1>1
<1>3. \A u \in Readers \ {t} : phase'[u] = phase[u] /\ key'[u] = key[u] /\ calls'[u] = calls[u]
    BY <1>1
<1>4. phase'[t] = "called" /\ calls'[t] = calls[t] + 1
    BY <1>1
<1>5. CallsCounted'
    BY <1>1, <1>3, <1>4 DEF CallsCounted
<1>6. LeaderOwns' /\ OpenHasLeader'
    BY <1>1, <1>3, <1>4 DEF LeaderOwns, OpenHasLeader, Leads
<1>7. FollowerHasLeader'
    BY <1>1, <1>3, <1>4 DEF FollowerHasLeader, Leads, Waits
<1>8. FreshPending'
    <2> SUFFICES ASSUME NEW u \in Readers, NEW n \in 1..MaxCalls,
                        n > calls'[u] \/ (n = calls'[u] /\ phase'[u] = "called")
                 PROVE  outcome[<<u, n>>] = Pending
        BY <1>1 DEF FreshPending
    <2>1. CASE u = t
        <3>1. n > calls[t]
            BY <1>1, <1>4, <2>1
        <3> QED
            BY <2>1, <3>1 DEF FreshPending
    <2>2. CASE u # t
        BY <1>3, <2>2 DEF FreshPending
    <2> QED
        BY <2>1, <2>2
<1> QED
    BY <1>2, <1>5, <1>6, <1>7, <1>8

LEMMA OpenKeeps ==
    ASSUME Single!TypeOK, FlightInv, NEW t \in Readers, Single!Open(t)
    PROVE  Single!TypeOK' /\ FlightInv' /\ flight'[t] \in Single!Flights /\ outcome[flight'[t]] = Pending
<1> USE FlightNames DEF Single!TypeOK, FlightInv
<1> DEFINE f == <<t, calls[t]>>
<1>1. /\ phase[t] = "called" /\ open[key[t]] = NoFlight /\ key[t] \in Oids
      /\ open' = [open EXCEPT ![key[t]] = f] /\ flight' = [flight EXCEPT ![t] = f]
      /\ phase' = [phase EXCEPT ![t] = "leader"]
      /\ outcome' = outcome /\ key' = key /\ calls' = calls
    BY DEF Single!Open
<1>2. calls[t] \in 1..MaxCalls
    BY <1>1 DEF CallsCounted
<1>3. f \in Single!Flights /\ f # NoFlight /\ outcome[f] = Pending
    BY <1>1, <1>2 DEF FreshPending
<1>4. flight'[t] = f /\ phase'[t] = "leader" /\ open'[key[t]] = f
    BY <1>1
<1>5. \A u \in Readers \ {t} : phase'[u] = phase[u] /\ flight'[u] = flight[u]
    BY <1>1
<1>6. \A k \in Oids \ {key[t]} : open'[k] = open[k]
    BY <1>1
<1>7. Single!TypeOK'
    BY <1>1, <1>3
<1>8. LeaderOwns'
    <2> SUFFICES ASSUME NEW u \in Readers, phase'[u] = "leader"
                 PROVE  flight'[u] = <<u, calls[u]>> /\ flight'[u] \in Single!Flights /\ open'[key[u]] = flight'[u]
        BY <1>1 DEF LeaderOwns, Leads
    <2>1. CASE u = t
        BY <1>3, <1>4, <2>1
    <2>2. CASE u # t
        <3>1. flight'[u] = flight[u] /\ flight[u] = <<u, calls[u]>> /\ flight[u] \in Single!Flights
              /\ open[key[u]] = flight[u]
            BY <1>5, <2>2 DEF LeaderOwns, Leads
        <3>2. key[u] \in Oids \ {key[t]}
            BY <1>1, <3>1
        <3> QED
            BY <1>6, <3>1, <3>2
    <2> QED
        BY <2>1, <2>2
<1>9. OpenHasLeader'
    <2> SUFFICES ASSUME NEW k \in Oids, open'[k] # NoFlight
                 PROVE  \E u \in Readers : phase'[u] = "leader" /\ key[u] = k /\ flight'[u] = open'[k]
        BY <1>1 DEF OpenHasLeader, Leads
    <2>1. CASE k = key[t]
        BY <1>4, <2>1
    <2>2. CASE k # key[t]
        <3>1. PICK u \in Readers : phase[u] = "leader" /\ key[u] = k /\ flight[u] = open[k]
            BY <1>6, <2>2 DEF OpenHasLeader, Leads
        <3> QED
            BY <1>1, <1>5, <1>6, <2>2, <3>1
    <2> QED
        BY <2>1, <2>2
<1>10. FollowerHasLeader'
    <2> SUFFICES ASSUME NEW u \in Readers, phase'[u] = "follower"
                 PROVE  /\ flight'[u] \in Single!Flights
                        /\ outcome[flight'[u]] = Pending =>
                             \E l \in Readers : phase'[l] = "leader" /\ flight'[l] = flight'[u] /\ key[l] = key[u]
        BY <1>1 DEF FollowerHasLeader, Leads, Waits
    <2>1. u # t /\ phase[u] = "follower" /\ flight'[u] = flight[u]
        BY <1>4, <1>5
    <2>2. flight[u] \in Single!Flights
        BY <2>1 DEF FollowerHasLeader, Waits
    <2>3. ASSUME outcome[flight[u]] = Pending
          PROVE  \E l \in Readers : phase'[l] = "leader" /\ flight'[l] = flight[u] /\ key[l] = key[u]
        <3>1. PICK l \in Readers : phase[l] = "leader" /\ flight[l] = flight[u] /\ key[l] = key[u]
            BY <2>1, <2>3 DEF FollowerHasLeader, Leads, Waits
        <3> QED
            BY <1>1, <1>5, <3>1
    <2> QED
        BY <2>1, <2>2, <2>3
<1>11. CallsCounted' /\ FreshPending'
    BY <1>1, <1>2, <1>4, <1>5 DEF CallsCounted, FreshPending
<1> QED
    BY <1>3, <1>4, <1>7, <1>8, <1>9, <1>10, <1>11

LEMMA AttachKeeps ==
    ASSUME Single!TypeOK, FlightInv, NEW t \in Readers, Single!Attach(t)
    PROVE  /\ Single!TypeOK' /\ FlightInv'
           /\ \E l \in Readers : Leads(l) /\ flight[l] = flight'[t] /\ key[l] = key[t]
<1> USE FlightNames DEF Single!TypeOK, FlightInv
<1>1. /\ phase[t] = "called" /\ open[key[t]] # NoFlight /\ key[t] \in Oids
      /\ flight' = [flight EXCEPT ![t] = open[key[t]]]
      /\ phase' = [phase EXCEPT ![t] = "follower"]
      /\ open' = open /\ outcome' = outcome /\ key' = key /\ calls' = calls
    BY DEF Single!Attach
<1>2. PICK l \in Readers : phase[l] = "leader" /\ key[l] = key[t] /\ flight[l] = open[key[t]]
    BY <1>1 DEF OpenHasLeader, Leads
<1>3. flight'[t] = open[key[t]] /\ phase'[t] = "follower" /\ open[key[t]] \in Single!Flights
    BY <1>1
<1>4. \A u \in Readers \ {t} : phase'[u] = phase[u] /\ flight'[u] = flight[u]
    BY <1>1
<1>5. Single!TypeOK'
    BY <1>1, <1>3
<1>6. LeaderOwns' /\ OpenHasLeader'
    BY <1>1, <1>3, <1>4 DEF LeaderOwns, OpenHasLeader, Leads
<1>7. FollowerHasLeader'
    <2> SUFFICES ASSUME NEW u \in Readers, phase'[u] = "follower"
                 PROVE  /\ flight'[u] \in Single!Flights
                        /\ outcome[flight'[u]] = Pending =>
                             \E m \in Readers : phase'[m] = "leader" /\ flight'[m] = flight'[u] /\ key[m] = key[u]
        BY <1>1 DEF FollowerHasLeader, Leads, Waits
    <2>1. CASE u = t
        BY <1>1, <1>2, <1>3, <1>4, <2>1
    <2>2. CASE u # t
        <3>1. phase[u] = "follower" /\ flight'[u] = flight[u] /\ flight[u] \in Single!Flights
            BY <1>4, <2>2 DEF FollowerHasLeader, Waits
        <3>2. ASSUME outcome[flight[u]] = Pending
              PROVE  \E m \in Readers : phase'[m] = "leader" /\ flight'[m] = flight[u] /\ key[m] = key[u]
            <4>1. PICK m \in Readers : phase[m] = "leader" /\ flight[m] = flight[u] /\ key[m] = key[u]
                BY <3>1, <3>2 DEF FollowerHasLeader, Leads, Waits
            <4> QED
                BY <1>1, <1>4, <4>1
        <3> QED
            BY <3>1, <3>2
    <2> QED
        BY <2>1, <2>2
<1>8. CallsCounted' /\ FreshPending'
    BY <1>1, <1>3, <1>4 DEF CallsCounted, FreshPending
<1> QED
    BY <1>2, <1>3, <1>5, <1>6, <1>7, <1>8 DEF Leads

(* The calls on an unsettled flight are all about its leader's object.     *)
LEMMA OneObject ==
    ASSUME FlightInv, NEW t \in Readers, Leads(t), outcome[flight[t]] = Pending,
           NEW u \in Readers, Leads(u) \/ Waits(u), flight[u] = flight[t]
    PROVE  key[u] = key[t]
<1> USE DEF FlightInv
<1>1. \A l \in Readers : Leads(l) /\ flight[l] = flight[t] => l = t
    BY DEF LeaderOwns
<1>2. CASE Leads(u)
    BY <1>1, <1>2
<1>3. CASE Waits(u)
    <2>1. PICK l \in Readers : Leads(l) /\ flight[l] = flight[u] /\ key[l] = key[u]
        BY <1>3 DEF FollowerHasLeader
    <2> QED
        BY <1>1, <2>1
<1> QED
    BY <1>2, <1>3

LEMMA SettleKeeps ==
    ASSUME Single!TypeOK, FlightInv, NEW t \in Readers, NEW r \in {"Ok"} \cup Errors,
           Single!Settle(t, r)
    PROVE  Single!TypeOK' /\ FlightInv'
<1> USE FlightNames DEF Single!TypeOK, FlightInv
<1>1. /\ phase[t] = "leader" /\ outcome[flight[t]] = Pending
      /\ outcome' = [outcome EXCEPT ![flight[t]] = r]
      /\ open' = open /\ phase' = phase /\ key' = key /\ flight' = flight /\ calls' = calls
    BY DEF Single!Settle
<1>2. flight[t] = <<t, calls[t]>> /\ flight[t] \in Single!Flights
    BY <1>1 DEF LeaderOwns, Leads
<1>3. outcome'[flight[t]] = r /\ \A f \in Single!Flights \ {flight[t]} : outcome'[f] = outcome[f]
    BY <1>1, <1>2
<1>4. Single!TypeOK'
    BY <1>1, <1>2
<1>5. CallsCounted' /\ LeaderOwns' /\ OpenHasLeader'
    BY <1>1 DEF CallsCounted, LeaderOwns, OpenHasLeader, Leads
<1>6. FollowerHasLeader'
    <2> SUFFICES ASSUME NEW u \in Readers, Waits(u)
                 PROVE  /\ flight[u] \in Single!Flights
                        /\ outcome'[flight[u]] = Pending =>
                             \E l \in Readers : Leads(l) /\ flight[l] = flight[u] /\ key[l] = key[u]
        BY <1>1 DEF FollowerHasLeader, Leads, Waits
    <2>1. flight[u] \in Single!Flights
        BY DEF FollowerHasLeader
    <2>2. ASSUME outcome'[flight[u]] = Pending PROVE outcome[flight[u]] = Pending
        BY <1>3, <2>1, <2>2
    <2> QED
        BY <2>1, <2>2 DEF FollowerHasLeader
<1>7. FreshPending'
    <2> SUFFICES ASSUME NEW u \in Readers, NEW n \in 1..MaxCalls,
                        n > calls[u] \/ (n = calls[u] /\ phase[u] = "called")
                 PROVE  outcome'[<<u, n>>] = Pending
        BY <1>1 DEF FreshPending
    <2>1. outcome[<<u, n>>] = Pending /\ <<u, n>> \in Single!Flights
        BY DEF FreshPending
    <2>2. <<u, n>> # flight[t]
        <3>1. calls[t] \in Nat /\ ~(calls[t] > calls[t])
            OBVIOUS
        <3> QED
            BY <1>1, <1>2, <3>1
    <2> QED
        BY <1>3, <2>1, <2>2
<1> QED
    BY <1>4, <1>5, <1>6, <1>7

LEMMA LeaveKeeps ==
    ASSUME Single!TypeOK, FlightInv, NEW t \in Readers, Single!Close(t) \/ Single!Return(t)
    PROVE  Single!TypeOK' /\ FlightInv'
<1> USE FlightNames DEF Single!TypeOK, FlightInv
<1>1. /\ phase' = [phase EXCEPT ![t] = "idle"] /\ outcome[flight[t]] # Pending
      /\ outcome' = outcome /\ key' = key /\ flight' = flight /\ calls' = calls
    BY DEF Single!Close, Single!Return
<1>2. phase'[t] = "idle" /\ \A u \in Readers \ {t} : phase'[u] = phase[u]
    BY <1>1
<1>3. \/ phase[t] = "leader" /\ open' = [open EXCEPT ![key[t]] = NoFlight]
      \/ phase[t] # "leader" /\ open' = open
    BY DEF Single!Close, Single!Return
<1>4. Single!TypeOK'
    BY <1>1, <1>3
<1>5. CallsCounted' /\ FreshPending'
    BY <1>1, <1>2 DEF CallsCounted, FreshPending
<1>6. FollowerHasLeader'
    <2> SUFFICES ASSUME NEW u \in Readers, phase[u] = "follower", u # t
                 PROVE  /\ flight[u] \in Single!Flights
                        /\ outcome[flight[u]] = Pending =>
                             \E l \in Readers : phase'[l] = "leader" /\ flight[l] = flight[u] /\ key[l] = key[u]
        BY <1>1, <1>2 DEF FollowerHasLeader, Leads, Waits
    <2>1. flight[u] \in Single!Flights
        BY DEF FollowerHasLeader, Waits
    <2>2. ASSUME outcome[flight[u]] = Pending
          PROVE  \E l \in Readers : phase'[l] = "leader" /\ flight[l] = flight[u] /\ key[l] = key[u]
        <3>1. PICK l \in Readers : phase[l] = "leader" /\ flight[l] = flight[u] /\ key[l] = key[u]
            BY <2>2 DEF FollowerHasLeader, Leads, Waits
        <3>2. l # t
            BY <1>1, <2>2, <3>1
        <3> QED
            BY <1>2, <3>1, <3>2
    <2> QED
        BY <2>1, <2>2
<1>7. LeaderOwns'
    <2> SUFFICES ASSUME NEW u \in Readers, phase[u] = "leader", u # t
                 PROVE  flight[u] = <<u, calls[u]>> /\ flight[u] \in Single!Flights /\ open'[key[u]] = flight[u]
        BY <1>1, <1>2 DEF LeaderOwns, Leads
    <2>1. flight[u] = <<u, calls[u]>> /\ flight[u] \in Single!Flights /\ open[key[u]] = flight[u]
        BY DEF LeaderOwns, Leads
    <2>2. phase[t] = "leader" => key[u] # key[t]
        BY <2>1 DEF LeaderOwns, Leads
    <2> QED
        BY <1>3, <2>1, <2>2
<1>8. OpenHasLeader'
    <2> SUFFICES ASSUME NEW k \in Oids, open'[k] # NoFlight
                 PROVE  \E u \in Readers : phase'[u] = "leader" /\ key[u] = k /\ flight[u] = open'[k]
        BY <1>1 DEF OpenHasLeader, Leads
    <2>1. open'[k] = open[k] /\ (phase[t] = "leader" => k # key[t])
        BY <1>3
    <2>2. PICK u \in Readers : phase[u] = "leader" /\ key[u] = k /\ flight[u] = open[k]
        BY <2>1 DEF OpenHasLeader, Leads
    <2>3. u # t
        BY <2>1, <2>2
    <2> QED
        BY <1>2, <2>1, <2>2, <2>3
<1> QED
    BY <1>4, <1>5, <1>6, <1>7, <1>8

-----------------------------------------------------------------------------
(* What the pool does for one caller, and what it answers.                 *)

LEMMA WayEffects ==
    ASSUME PoolPart, NEW a \in Readers \cup Prefetchers, OnTheWay(a)
    PROVE  /\ op[a] \notin {"none"} \cup Pool!Over
           /\ op'[a] \notin {"none", "abandoned"}
           /\ want' = want
           /\ \A b \in (Readers \cup Prefetchers) \ {a} : op'[b] = op[b]
<1>1. op \in [Readers \cup Prefetchers -> PP!Ops]
    BY DEF PoolPart, PP!PoolInv, PP!TypeOK
<1> QED
    BY <1>1 DEF OnTheWay, Pool!Over, Pool!Acquire, Pool!TryLock, Pool!TryLockBusy, Pool!LockStart,
                Pool!Lock, Pool!Query, Pool!SpawnFails, Pool!ReadLine, Pool!IoFails

LEMMA BeginEffects ==
    ASSUME PoolPart, NEW a \in Readers \cup Prefetchers, NEW w, Pool!Begin(a, w)
    PROVE  /\ op[a] = "none" /\ op'[a] = "acquire" /\ want'[a] = w
           /\ \A b \in (Readers \cup Prefetchers) \ {a} : op'[b] = op[b] /\ want'[b] = want[b]
    BY DEF PoolPart, PP!PoolInv, PP!TypeOK, Pool!Begin

LEMMA EndEffects ==
    ASSUME PoolPart, NEW a \in Readers \cup Prefetchers
    PROVE  /\ Pool!Abandon(a) =>
                /\ op[a] = "held" /\ op'[a] = "abandoned" /\ want' = want
                /\ \A b \in (Readers \cup Prefetchers) \ {a} : op'[b] = op[b]
           /\ Pool!Finish(a) =>
                /\ op[a] \in Pool!Over /\ op'[a] = "none"
                /\ \A b \in (Readers \cup Prefetchers) \ {a} : op'[b] = op[b] /\ want'[b] = want[b]
    BY DEF PoolPart, PP!PoolInv, PP!TypeOK, Pool!Abandon, Pool!Finish

LEMMA AnswersTrue ==
    ASSUME PoolPart, NEW a \in Readers \cup Prefetchers, op[a] = "answered", NEW i \in 1..Len(want[a])
    PROVE  /\ got[a][i].oid = want[a][i]
           /\ got[a][i].kind = "missing" => want[a][i] \notin Upstream
           /\ got[a][i].kind # "missing" => want[a][i] \in disk
<1>1. want[a] \in Seq(Oids) /\ got[a] \in Seq(PP!Lines)
    BY DEF PoolPart, PP!PoolInv, PP!TypeOK
<1>2. Len(got[a]) = Len(want[a]) /\ \A j \in 1..Len(got[a]) : got[a][j].oid = want[a][0 + j]
    BY DEF PoolPart, PP!PipeInv, PP!AnswersComplete, PP!AnswersFrom
<1>3. i \in 1..Len(got[a]) /\ 0 + i = i
    BY <1>1, <1>2
<1>4. got[a][i].oid = want[a][i]
    BY <1>2, <1>3
<1>5. /\ got[a][i].kind # "header" => got[a][i].oid \notin Upstream
      /\ got[a][i].kind = "header" => got[a][i].oid \in disk
    BY <1>3 DEF PoolPart, PP!PipeInv, PP!LinesTrue, PP!LineTrue
<1>6. got[a][i].kind \in {"header", "missing"}
    <2>1. got[a][i] \in PP!Lines
        BY <1>1, <1>3
    <2> QED
        BY <2>1 DEF PP!Lines
<1> QED
    BY <1>4, <1>5, <1>6

\* classify is honest about a line that answers the question asked.
LEMMA ClassifyHonest ==
    ASSUME NEW o, NEW line, line.oid = o, line.kind = "missing" => o \notin Upstream,
           line.kind # "missing" => o \in disk
    PROVE  /\ Classify(o, line) \in {"Refused", "NotPresentAfterFetch", "Ok"}
           /\ Honest(Classify(o, line), o, visible, disk, faults, refusals)
<1>1. CASE line.kind = "missing"
    <2>1. o \notin Upstream
        BY <1>1
    <2>2. Classify(o, line) = "Refused"
        BY <1>1 DEF Classify
    <2> QED
        BY <2>1, <2>2 DEF Honest
<1>2. CASE line.kind # "missing" /\ o \notin visible
    BY <1>2 DEF Classify, Honest
<1>3. CASE line.kind # "missing" /\ o \in visible
    BY <1>3 DEF Classify, Honest
<1> QED
    BY <1>1, <1>2, <1>3

LEMMA FailuresCounted ==
    ASSUME PoolPart, NEW a \in Readers \cup Prefetchers
    PROVE  /\ op[a] = "exhausted" => faults >= 2
           /\ op[a] = "unspawned" => refusals >= 1
    BY DEF PoolPart, PP!FaultsCounted

LEMMA RawFetchHonest ==
    ASSUME PoolPart, ReaderInv, NEW t \in Readers, op[t] \in Pool!Over
    PROVE  /\ RawFetchResult(t) \in {"Ok"} \cup Errors
           /\ Honest(RawFetchResult(t), key[t], visible, disk, faults, refusals)
<1>1. CASE op[t] = "abandoned"
    BY <1>1 DEF RawFetchResult, ReaderInv, Honest
<1>2. CASE op[t] \in {"unspawned", "exhausted"}
    BY <1>2, FailuresCounted DEF RawFetchResult, Errors, Honest
<1>3. CASE op[t] = "answered"
    <2>1. want[t] = <<key[t]>>
        BY <1>3 DEF ReaderInv
    <2>2. 1 \in 1..Len(want[t]) /\ want[t][1] = key[t]
        BY <2>1
    <2>3. /\ got[t][1].oid = key[t] /\ (got[t][1].kind = "missing" => key[t] \notin Upstream)
          /\ got[t][1].kind # "missing" => key[t] \in disk
        BY <1>3, <2>2, AnswersTrue
    <2>4. RawFetchResult(t) = Classify(key[t], got[t][1])
        BY <1>3 DEF RawFetchResult
    <2> QED
        BY <2>3, <2>4, ClassifyHonest DEF Errors
<1> QED
    BY <1>1, <1>2, <1>3 DEF Pool!Over

-----------------------------------------------------------------------------
(* Readers.                                                                *)

ReaderPart == Single!TypeOK /\ FlightInv /\ OutcomeInv /\ ReaderInv

(* A step outside the coalescer, by somebody else.                         *)
LEMMA ReadersApart ==
    ASSUME ReaderPart, Grown, UNCHANGED flightVars,
           \A t \in Readers : op'[t] = op[t] /\ want'[t] = want[t]
    PROVE  ReaderPart'
<1> USE DEF ReaderPart
<1>1. /\ open' = open /\ outcome' = outcome /\ phase' = phase /\ key' = key
      /\ flight' = flight /\ calls' = calls
    BY DEF flightVars
<1>2. Single!TypeOK'
    BY <1>1 DEF Single!TypeOK
<1>3. FlightInv'
    BY <1>1 DEF FlightInv, CallsCounted, LeaderOwns, OpenHasLeader, FollowerHasLeader, FreshPending,
                Leads, Waits
<1>4. OutcomeInv'
    BY <1>1, HonestGrows DEF OutcomeInv, Leads, Waits
<1>5. ReaderInv'
    BY <1>1 DEF ReaderInv, Leads, Grown
<1> QED
    BY <1>2, <1>3, <1>4, <1>5

(* A step of reader t within the pool, which leaves the coalescer alone.   *)
LEMMA ReaderInPool ==
    ASSUME ReaderPart, PoolPart, Grown, UNCHANGED flightVars, NEW t \in Readers,
           OnTheWay(t) \/ (Pool!Abandon(t) /\ key[t] \in visible)
    PROVE  ReaderPart'
<1> USE DEF ReaderPart
<1>1. /\ open' = open /\ outcome' = outcome /\ phase' = phase /\ key' = key
      /\ flight' = flight /\ calls' = calls
    BY DEF flightVars
<1>2. Single!TypeOK'
    BY <1>1 DEF Single!TypeOK
<1>3. FlightInv'
    BY <1>1 DEF FlightInv, CallsCounted, LeaderOwns, OpenHasLeader, FollowerHasLeader, FreshPending,
                Leads, Waits
<1>4. OutcomeInv'
    BY <1>1, HonestGrows DEF OutcomeInv, Leads, Waits
<1>5. /\ op[t] # "none" /\ want' = want /\ (op'[t] = "abandoned" => key[t] \in visible)
      /\ \A u \in Readers \ {t} : op'[u] = op[u]
    BY WayEffects, EndEffects
<1>6. ReaderInv'
    BY <1>1, <1>5 DEF ReaderInv, Leads, Grown
<1> QED
    BY <1>2, <1>3, <1>4, <1>6

LEMMA FetchObjectKeeps ==
    ASSUME ReaderPart, PoolPart, Grown, NEW t \in Readers, NEW o \in Oids, FetchObject(t, o)
    PROVE  ReaderPart'
<1> USE DEF ReaderPart
<1>1. Single!Call(t, o) /\ op' = op /\ want' = want /\ visible' = visible
    BY DEF FetchObject, poolVars
<1>2. Single!TypeOK' /\ FlightInv'
    BY <1>1, CallKeeps
<1>3. /\ phase[t] = "idle" /\ phase'[t] = "called" /\ outcome' = outcome /\ flight' = flight
      /\ \A u \in Readers \ {t} : phase'[u] = phase[u] /\ key'[u] = key[u]
    BY <1>1 DEF Single!Call, Single!TypeOK
<1>4. OutcomeInv'
    BY <1>3, HonestGrows DEF OutcomeInv, Leads, Waits
<1>5. ReaderInv'
    BY <1>1, <1>3 DEF ReaderInv, Leads
<1> QED
    BY <1>2, <1>4, <1>5

LEMMA LeadFetchKeeps ==
    ASSUME ReaderPart, PoolPart, Grown, NEW t \in Readers, LeadFetch(t)
    PROVE  ReaderPart'
<1> USE DEF ReaderPart
<1>1. Single!Open(t) /\ Pool!Begin(t, <<key[t]>>) /\ visible' = visible
    BY DEF LeadFetch
<1>2. Single!TypeOK' /\ FlightInv' /\ outcome[flight'[t]] = Pending
    BY <1>1, OpenKeeps
<1>3. /\ phase[t] = "called" /\ phase'[t] = "leader" /\ outcome' = outcome /\ key' = key
      /\ \A u \in Readers \ {t} : phase'[u] = phase[u] /\ flight'[u] = flight[u]
    BY <1>1 DEF Single!Open, Single!TypeOK
<1>4. OutcomeInv'
    <2>1. ASSUME NEW u \in Readers \ {t}, phase'[u] \in {"leader", "follower"},
                 outcome[flight'[u]] # Pending
          PROVE  Honest(outcome[flight'[u]], key[u], visible', disk', faults', refusals')
        BY <1>3, <2>1, HonestGrows DEF OutcomeInv, Leads, Waits
    <2> QED
        BY <1>2, <1>3, <2>1 DEF OutcomeInv, Leads, Waits
<1>5. /\ op'[t] = "acquire" /\ want'[t] = <<key[t]>>
      /\ \A u \in Readers \ {t} : op'[u] = op[u] /\ want'[u] = want[u]
    BY <1>1, BeginEffects
<1>6. ReaderInv'
    BY <1>1, <1>2, <1>3, <1>5 DEF ReaderInv, Leads
<1> QED
    BY <1>2, <1>4, <1>6

LEMMA JoinFetchKeeps ==
    ASSUME ReaderPart, PoolPart, Grown, NEW t \in Readers, JoinFetch(t)
    PROVE  ReaderPart'
<1> USE DEF ReaderPart
<1>1. Single!Attach(t) /\ op' = op /\ want' = want /\ visible' = visible
    BY DEF JoinFetch, poolVars
<1>2. Single!TypeOK' /\ FlightInv'
    BY <1>1, AttachKeeps
<1>3. PICK l \in Readers : Leads(l) /\ flight[l] = flight'[t] /\ key[l] = key[t]
    BY <1>1, AttachKeeps
<1>4. /\ phase[t] = "called" /\ phase'[t] = "follower" /\ outcome' = outcome /\ key' = key
      /\ \A u \in Readers \ {t} : phase'[u] = phase[u] /\ flight'[u] = flight[u]
    BY <1>1 DEF Single!Attach, Single!TypeOK
<1>5. OutcomeInv'
    <2>1. outcome[flight'[t]] # Pending => Honest(outcome[flight'[t]], key[t], visible', disk', faults', refusals')
        BY <1>3, HonestGrows DEF OutcomeInv
    <2>2. ASSUME NEW u \in Readers \ {t}, phase'[u] \in {"leader", "follower"},
                 outcome[flight'[u]] # Pending
          PROVE  Honest(outcome[flight'[u]], key[u], visible', disk', faults', refusals')
        BY <1>4, <2>2, HonestGrows DEF OutcomeInv, Leads, Waits
    <2> QED
        BY <1>4, <2>1, <2>2 DEF OutcomeInv, Leads, Waits
<1>6. ReaderInv'
    BY <1>1, <1>4 DEF ReaderInv, Leads
<1> QED
    BY <1>2, <1>5, <1>6

LEMMA RawFetchReturnsKeeps ==
    ASSUME ReaderPart, PoolPart, Grown, NEW t \in Readers, RawFetchReturns(t)
    PROVE  ReaderPart'
<1> USE DEF ReaderPart
<1> DEFINE r == RawFetchResult(t)
<1>1. Single!Settle(t, r) /\ Pool!Finish(t) /\ visible' = visible
    BY DEF RawFetchReturns
<1>2. /\ op[t] \in Pool!Over /\ op'[t] = "none"
      /\ \A u \in Readers \ {t} : op'[u] = op[u] /\ want'[u] = want[u]
    BY <1>1, EndEffects
<1>3. r \in {"Ok"} \cup Errors /\ Honest(r, key[t], visible, disk, faults, refusals)
    BY <1>2, RawFetchHonest
<1> HIDE DEF r
<1>4. Single!TypeOK' /\ FlightInv'
    BY <1>1, <1>3, SettleKeeps
<1>5. /\ phase[t] = "leader" /\ outcome[flight[t]] = Pending
      /\ outcome' = [outcome EXCEPT ![flight[t]] = r]
      /\ phase' = phase /\ key' = key /\ flight' = flight
    BY <1>1 DEF Single!Settle
<1>6. \A u \in Readers : Leads(u) \/ Waits(u) => flight[u] \in Single!Flights
    BY DEF FlightInv, LeaderOwns, FollowerHasLeader
<1>7. ASSUME NEW u \in Readers, Leads(u) \/ Waits(u), outcome'[flight[u]] # Pending
      PROVE  Honest(outcome'[flight[u]], key[u], visible', disk', faults', refusals')
    <2>1. CASE flight[u] = flight[t]
        <3>1. key[u] = key[t]
            BY <1>5, <1>7, <2>1, OneObject DEF Leads
        <3>2. outcome'[flight[u]] = r
            BY <1>5, <1>6, <1>7, <2>1 DEF Single!TypeOK
        <3> QED
            BY <1>3, <3>1, <3>2, HonestGrows
    <2>2. CASE flight[u] # flight[t]
        <3>1. outcome'[flight[u]] = outcome[flight[u]]
            BY <1>5, <1>6, <1>7, <2>2 DEF Single!TypeOK
        <3> QED
            BY <1>7, <3>1, HonestGrows DEF OutcomeInv
    <2> QED
        BY <2>1, <2>2
<1>8. OutcomeInv'
    BY <1>5, <1>7 DEF OutcomeInv, Leads, Waits
<1>9. ReaderInv'
    <2> SUFFICES ASSUME NEW u \in Readers, op'[u] # "none"
                 PROVE  /\ Leads(u) /\ outcome'[flight[u]] = Pending /\ want'[u] = <<key[u]>>
                        /\ op'[u] = "abandoned" => key[u] \in visible
        BY <1>1, <1>5 DEF ReaderInv, Leads
    <2>1. u # t /\ op'[u] = op[u] /\ want'[u] = want[u]
        BY <1>2
    <2>2. Leads(u) /\ outcome[flight[u]] = Pending /\ want[u] = <<key[u]>>
          /\ (op[u] = "abandoned" => key[u] \in visible)
        BY <2>1 DEF ReaderInv
    <2>3. flight[u] # flight[t]
        BY <1>5, <2>1, <2>2 DEF FlightInv, LeaderOwns, Leads
    <2>4. outcome'[flight[u]] = outcome[flight[u]]
        BY <1>5, <1>6, <2>2, <2>3 DEF Single!TypeOK
    <2> QED
        BY <2>1, <2>2, <2>4
<1> QED
    BY <1>4, <1>8, <1>9

LEMMA FetchObjectReturnsKeeps ==
    ASSUME ReaderPart, PoolPart, Grown, NEW t \in Readers, FetchObjectReturns(t)
    PROVE  ReaderPart'
<1> USE DEF ReaderPart
<1>1. (Single!Close(t) \/ Single!Return(t)) /\ op' = op /\ want' = want /\ visible' = visible
    BY DEF FetchObjectReturns, poolVars
<1>2. Single!TypeOK' /\ FlightInv'
    BY <1>1, LeaveKeeps
<1>3. /\ outcome[flight[t]] # Pending /\ phase'[t] = "idle"
      /\ outcome' = outcome /\ flight' = flight /\ key' = key
      /\ \A u \in Readers \ {t} : phase'[u] = phase[u]
    BY <1>1 DEF Single!Close, Single!Return, Single!TypeOK
<1>4. OutcomeInv'
    BY <1>3, HonestGrows DEF OutcomeInv, Leads, Waits
<1>5. ReaderInv'
    BY <1>1, <1>3 DEF ReaderInv, Leads
<1> QED
    BY <1>2, <1>4, <1>5

LEMMA ReaderStepKeeps ==
    ASSUME ReaderPart, PoolPart, Grown, NEW t \in Readers, ReaderStep(t)
    PROVE  ReaderPart'
<1>1. CASE DoubleCheck(t) \/ Ask(t) \/ RoundTrip(t)
    BY <1>1, ReaderInPool DEF DoubleCheck, Ask, RoundTrip, OnTheWay
<1> QED
    BY <1>1, LeadFetchKeeps, JoinFetchKeeps, RawFetchReturnsKeeps, FetchObjectReturnsKeeps
       DEF ReaderStep

-----------------------------------------------------------------------------
(* Prefetchers.                                                            *)

BatchPart == BatchTypes /\ BatchInv /\ ProbeInv /\ ClaimsExact

LEMMA ProbesGrow ==
    ASSUME Grown
    PROVE  /\ \A known : ProbesAt(known, visible, disk, faults, refusals) => ProbesAt(known, visible', disk', faults', refusals')
           /\ \A ret, oids : ReturnedAt(ret, oids, visible, disk, faults, refusals) => ReturnedAt(ret, oids, visible', disk', faults', refusals')
<1>1. \A known : ProbesAt(known, visible, disk, faults, refusals) => ProbesAt(known, visible', disk', faults', refusals')
    BY HonestGrows DEF ProbesAt
<1>2. \A ret, oids : ReturnedAt(ret, oids, visible, disk, faults, refusals) => ReturnedAt(ret, oids, visible', disk', faults', refusals')
    BY HonestGrows DEF ReturnedAt, Grown
<1> QED
    BY <1>1, <1>2

(* A step by somebody who is not in prefetch_headers.                      *)
LEMMA BatchesApart ==
    ASSUME BatchPart, Grown, UNCHANGED batchVars,
           \A p \in Prefetchers : op'[p] = op[p] /\ want'[p] = want[p]
    PROVE  BatchPart'
<1> USE DEF BatchPart
<1>1. /\ claims' = claims /\ step' = step /\ batch' = batch /\ lead' = lead
      /\ probes' = probes /\ returned' = returned
    BY DEF batchVars
<1>2. BatchTypes' /\ ClaimsExact'
    BY <1>1 DEF BatchTypes, ClaimsExact
<1>3. BatchInv'
    BY <1>1 DEF BatchInv
<1>4. ProbeInv'
    BY <1>1, ProbesGrow DEF ProbeInv
<1> QED
    BY <1>2, <1>3, <1>4

(* A step of prefetcher p: only what is p's changes.                       *)
LEMMA OneBatch ==
    ASSUME BatchInv, ProbeInv, Grown, NEW p \in Prefetchers,
           \A q \in Prefetchers \ {p} :
              /\ step'[q] = step[q] /\ batch'[q] = batch[q] /\ lead'[q] = lead[q]
              /\ probes'[q] = probes[q] /\ returned'[q] = returned[q]
              /\ op'[q] = op[q] /\ want'[q] = want[q],
           BatchAt(step'[p], lead'[p], op'[p], want'[p], batch'[p], probes'[p]),
           ProbesAt(probes'[p], visible', disk', faults', refusals'),
           ReturnedAt(returned'[p], batch'[p], visible', disk', faults', refusals')
    PROVE  BatchInv' /\ ProbeInv'
<1>1. BatchInv'
    BY DEF BatchInv
<1>2. ASSUME NEW q \in Prefetchers \ {p}
      PROVE  /\ ProbesAt(probes'[q], visible', disk', faults', refusals')
             /\ ReturnedAt(returned'[q], batch'[q], visible', disk', faults', refusals')
    BY ProbesGrow DEF ProbeInv
<1>3. ProbeInv'
    BY <1>2 DEF ProbeInv
<1> QED
    BY <1>1, <1>3

LEMMA BatchInPool ==
    ASSUME BatchPart, PoolPart, Grown, UNCHANGED batchVars, NEW p \in Prefetchers, OnTheWay(p)
    PROVE  BatchPart'
<1> USE DEF BatchPart
<1>1. /\ claims' = claims /\ step' = step /\ batch' = batch /\ lead' = lead
      /\ probes' = probes /\ returned' = returned
    BY DEF batchVars
<1>2. BatchTypes' /\ ClaimsExact'
    BY <1>1 DEF BatchTypes, ClaimsExact
<1>3. /\ op[p] # "none" /\ op'[p] # "abandoned" /\ want' = want
      /\ \A q \in Prefetchers \ {p} : op'[q] = op[q]
    BY WayEffects
<1>4. BatchAt(step'[p], lead'[p], op'[p], want'[p], batch'[p], probes'[p])
    BY <1>1, <1>3 DEF BatchInv, BatchAt
<1>5. /\ ProbesAt(probes'[p], visible', disk', faults', refusals')
      /\ ReturnedAt(returned'[p], batch'[p], visible', disk', faults', refusals')
    BY <1>1, ProbesGrow DEF ProbeInv
<1> QED
    BY <1>1, <1>2, <1>3, <1>4, <1>5, OneBatch

LEMMA PrefetchHeadersKeeps ==
    ASSUME BatchPart, PoolPart, Grown, NEW p \in Prefetchers, NEW b \in Batches, PrefetchHeaders(p, b)
    PROVE  BatchPart'
<1> USE DEF BatchPart
<1>1. /\ step[p] = "idle" /\ op' = op /\ want' = want /\ lead' = lead /\ claims' = claims
      /\ step' = [step EXCEPT ![p] = "claim"] /\ batch' = [batch EXCEPT ![p] = b]
      /\ probes' = [probes EXCEPT ![p] = [o \in Elements(b) \cap visible |-> "Present"]]
      /\ returned' = [returned EXCEPT ![p] = <<>>]
    BY DEF PrefetchHeaders, poolVars
<1>2. b \in Seq(Oids)
    BY FetcherAssumption
<1>3. BatchTypes' /\ ClaimsExact'
    BY <1>1, <1>2 DEF BatchTypes, ClaimsExact
<1>4. /\ step'[p] = "claim" /\ probes'[p] = [o \in Elements(b) \cap visible |-> "Present"]
      /\ returned'[p] = <<>>
      /\ \A q \in Prefetchers \ {p} :
           step'[q] = step[q] /\ batch'[q] = batch[q] /\ probes'[q] = probes[q] /\ returned'[q] = returned[q]
    BY <1>1 DEF BatchTypes
<1>5. BatchAt(step'[p], lead'[p], op'[p], want'[p], batch'[p], probes'[p])
    BY <1>1, <1>4 DEF BatchInv, BatchAt
<1>6. ProbesAt(probes'[p], visible', disk', faults', refusals')
    BY <1>4 DEF ProbesAt, Honest
<1>7. ReturnedAt(returned'[p], batch'[p], visible', disk', faults', refusals')
    BY <1>4 DEF ReturnedAt
<1> QED
    BY <1>1, <1>3, <1>4, <1>5, <1>6, <1>7, OneBatch

LEMMA ClaimKeeps ==
    ASSUME BatchPart, PoolPart, Grown, NEW p \in Prefetchers, Claim(p)
    PROVE  BatchPart'
<1> USE DEF BatchPart
<1> DEFINE new == FirstOccurrences(batch[p], ToQuery(p) \ claims)
<1>1. /\ step[p] = "claim" /\ op' = op /\ want' = want /\ batch' = batch
      /\ step' = [step EXCEPT ![p] = "skip"] /\ lead' = [lead EXCEPT ![p] = new]
      /\ claims' = claims \cup ToQuery(p) /\ probes' = probes /\ returned' = returned
    BY DEF Claim, poolVars
<1>2. lead[p] = <<>> /\ op[p] = "none"
    BY <1>1 DEF BatchInv, BatchAt
<1>3. batch[p] \in Seq(Oids)
    BY DEF BatchTypes
<1>4. new \in Seq(Oids) /\ Elements(new) = Elements(batch[p]) \cap (ToQuery(p) \ claims)
    BY <1>3, FirstsHold
<1>5. Elements(new) = ToQuery(p) \ claims
    BY <1>4 DEF ToQuery
<1> HIDE DEF new
<1>6. BatchTypes'
    BY <1>1, <1>4 DEF BatchTypes
<1>7. step'[p] = "skip" /\ lead'[p] = new
      /\ \A q \in Prefetchers \ {p} : step'[q] = step[q] /\ lead'[q] = lead[q]
    BY <1>1 DEF BatchTypes
<1>8. ClaimsExact'
    <2>1. Elements(lead[p]) = {}
        BY <1>2 DEF Elements
    <2>2. claims' = UNION {Elements(lead'[q]) : q \in Prefetchers}
        <3>1. ASSUME NEW o \in claims' PROVE \E q \in Prefetchers : o \in Elements(lead'[q])
            BY <1>1, <1>5, <1>7, <2>1 DEF ClaimsExact
        <3>2. ASSUME NEW q \in Prefetchers, NEW o \in Elements(lead'[q]) PROVE o \in claims'
            BY <1>1, <1>5, <1>7 DEF ClaimsExact
        <3> QED
            BY <3>1, <3>2
    <2>3. \A q \in Prefetchers : Elements(lead[q]) \subseteq claims
        BY DEF ClaimsExact
    <2>4. \A q, r \in Prefetchers : q # r => Elements(lead'[q]) \cap Elements(lead'[r]) = {}
        BY <1>5, <1>7, <2>3 DEF ClaimsExact
    <2> QED
        BY <2>2, <2>4 DEF ClaimsExact, Elements
<1>9. BatchAt(step'[p], lead'[p], op'[p], want'[p], batch'[p], probes'[p])
    BY <1>1, <1>2, <1>7 DEF BatchAt
<1>10. /\ ProbesAt(probes'[p], visible', disk', faults', refusals')
       /\ ReturnedAt(returned'[p], batch'[p], visible', disk', faults', refusals')
    BY <1>1, ProbesGrow DEF ProbeInv
<1> QED
    BY <1>1, <1>6, <1>7, <1>8, <1>9, <1>10, OneBatch

LEMMA SkipKeeps ==
    ASSUME BatchPart, PoolPart, Grown, NEW p \in Prefetchers, Skip(p)
    PROVE  BatchPart'
<1> USE DEF BatchPart
<1> DEFINE known == probes[p]
           skipped == ToQuery(p) \ Elements(lead[p])
           more == [o \in DOMAIN known \cup skipped |->
                      IF o \in DOMAIN known THEN known[o]
                      ELSE IF o \in visible THEN "PresentWithHeader" ELSE "Present"]
<1>1. /\ step[p] = "skip" /\ claims' = claims /\ batch' = batch /\ lead' = lead /\ returned' = returned
      /\ probes' = [probes EXCEPT ![p] = more] /\ visible' = visible
    BY DEF Skip
<1>2. \/ step' = [step EXCEPT ![p] = "assemble"] /\ op' = op /\ want' = want /\ lead[p] = <<>>
      \/ step' = [step EXCEPT ![p] = "fetch"] /\ Pool!Begin(p, lead[p])
    BY DEF Skip, poolVars
<1>3. BatchTypes' /\ ClaimsExact'
    <2>1. step' \in [Prefetchers -> {"idle", "claim", "skip", "fetch", "assemble"}]
        BY <1>2 DEF BatchTypes
    <2> HIDE DEF more
    <2> QED
        BY <1>1, <2>1 DEF BatchTypes, ClaimsExact
<1>4. probes'[p] = more /\ \A q \in Prefetchers \ {p} : probes'[q] = probes[q] /\ step'[q] = step[q]
    BY <1>1, <1>2 DEF BatchTypes
<1>5. op[p] = "none"
    BY <1>1 DEF BatchInv, BatchAt
<1>6. /\ BatchAt(step'[p], lead'[p], op'[p], want'[p], batch'[p], probes'[p])
      /\ \A q \in Prefetchers \ {p} : op'[q] = op[q] /\ want'[q] = want[q]
    <2>3. Elements(batch[p]) \subseteq DOMAIN more \cup Elements(lead[p])
        BY DEF ToQuery
    <2>4. lead[p] = <<>> => Elements(lead[p]) = {}
        BY DEF Elements
    <2> HIDE DEF more
    <2>1. CASE step' = [step EXCEPT ![p] = "assemble"] /\ op' = op /\ want' = want /\ lead[p] = <<>>
        <3>1. step'[p] = "assemble" /\ op'[p] = "none" /\ Elements(batch'[p]) \subseteq DOMAIN probes'[p]
            BY <1>1, <1>4, <1>5, <2>1, <2>3, <2>4 DEF BatchTypes
        <3> QED
            BY <2>1, <3>1 DEF BatchAt
    <2>2. CASE step' = [step EXCEPT ![p] = "fetch"] /\ Pool!Begin(p, lead[p])
        <3>1. op'[p] = "acquire" /\ want'[p] = lead[p]
              /\ \A q \in Prefetchers \ {p} : op'[q] = op[q] /\ want'[q] = want[q]
            BY <2>2, BeginEffects
        <3>2. step'[p] = "fetch" /\ Elements(batch'[p]) \subseteq DOMAIN probes'[p] \cup Elements(lead'[p])
            BY <1>1, <1>4, <2>2, <2>3 DEF BatchTypes
        <3> QED
            BY <1>1, <3>1, <3>2 DEF BatchAt
    <2> QED
        BY <1>2, <2>1, <2>2
<1>7. ProbesAt(more, visible, disk, faults, refusals)
    <2>1. \A o \in DOMAIN known : Honest(known[o], o, visible, disk, faults, refusals)
        BY DEF ProbeInv, ProbesAt
    <2>2. \A o \in visible : Honest("PresentWithHeader", o, visible, disk, faults, refusals)
        BY DEF Honest
    <2>3. \A o : Honest("Present", o, visible, disk, faults, refusals)
        BY DEF Honest
    <2> HIDE DEF known, skipped
    <2> QED
        BY <2>1, <2>2, <2>3 DEF ProbesAt
<1>8. ProbesAt(probes'[p], visible', disk', faults', refusals')
    BY <1>4, <1>7, ProbesGrow
<1>9. ReturnedAt(returned'[p], batch'[p], visible', disk', faults', refusals')
    BY <1>1, ProbesGrow DEF ProbeInv
<1> QED
    BY <1>1, <1>3, <1>4, <1>6, <1>8, <1>9, OneBatch

LEMMA LeadProbeHonest ==
    ASSUME BatchPart, PoolPart, NEW p \in Prefetchers, op[p] \in Pool!Over, NEW i \in DOMAIN lead[p]
    PROVE  Honest(LeadProbe(p, i), lead[p][i], visible, disk, faults, refusals)
<1>1. want[p] = lead[p] /\ op[p] # "abandoned" /\ lead[p] \in Seq(Oids)
    BY DEF BatchPart, BatchInv, BatchAt, BatchTypes, Pool!Over
<1>2. CASE op[p] \in {"unspawned", "exhausted"}
    BY <1>2, FailuresCounted DEF LeadProbe, Honest
<1>3. CASE op[p] = "answered"
    <2> DEFINE r == Classify(lead[p][i], got[p][i])
    <2>1. i \in 1..Len(want[p])
        BY <1>1
    <2>2. /\ got[p][i].oid = lead[p][i] /\ (got[p][i].kind = "missing" => lead[p][i] \notin Upstream)
          /\ got[p][i].kind # "missing" => lead[p][i] \in disk
        BY <1>1, <1>3, <2>1, AnswersTrue
    <2>3. r \in {"Refused", "NotPresentAfterFetch", "Ok"} /\ Honest(r, lead[p][i], visible, disk, faults, refusals)
        BY <2>2, ClassifyHonest
    <2>4. LeadProbe(p, i) = IF r = "Ok" THEN "PresentWithHeader" ELSE r
        BY <1>3 DEF LeadProbe
    <2> HIDE DEF r
    <2> QED
        BY <2>3, <2>4 DEF Honest
<1> QED
    BY <1>1, <1>2, <1>3 DEF Pool!Over

LEMMA BatchAnsweredKeeps ==
    ASSUME BatchPart, PoolPart, Grown, NEW p \in Prefetchers, BatchAnswered(p)
    PROVE  BatchPart'
<1> USE DEF BatchPart
<1> DEFINE known == probes[p]
           index(o) == CHOOSE i \in DOMAIN lead[p] : lead[p][i] = o
           more == [o \in DOMAIN known \cup Elements(lead[p]) |->
                      IF o \in Elements(lead[p]) THEN LeadProbe(p, index(o)) ELSE known[o]]
<1>1. /\ claims' = claims /\ batch' = batch /\ lead' = lead /\ returned' = returned
      /\ probes' = [probes EXCEPT ![p] = more] /\ visible' = visible
      /\ step' = [step EXCEPT ![p] = "assemble"] /\ Pool!Finish(p)
    BY DEF BatchAnswered
<1>2. /\ op[p] \in Pool!Over /\ op'[p] = "none"
      /\ \A q \in Prefetchers \ {p} : op'[q] = op[q] /\ want'[q] = want[q]
    BY <1>1, EndEffects
<1>3. BatchTypes' /\ ClaimsExact'
    BY <1>1 DEF BatchTypes, ClaimsExact
<1>4. /\ probes'[p] = more /\ step'[p] = "assemble"
      /\ \A q \in Prefetchers \ {p} : probes'[q] = probes[q] /\ step'[q] = step[q]
    BY <1>1 DEF BatchTypes
<1>5. BatchAt(step'[p], lead'[p], op'[p], want'[p], batch'[p], probes'[p])
    <2>1. Elements(batch[p]) \subseteq DOMAIN known \cup Elements(lead[p])
        BY <1>1 DEF BatchAnswered, BatchInv, BatchAt
    <2>2. Elements(batch'[p]) \subseteq DOMAIN probes'[p]
        BY <1>1, <1>4, <2>1
    <2> QED
        BY <1>2, <1>4, <2>2 DEF BatchAt
<1>6. ProbesAt(more, visible, disk, faults, refusals)
    <2>1. \A o \in DOMAIN known : Honest(known[o], o, visible, disk, faults, refusals)
        BY DEF ProbeInv, ProbesAt
    <2>2. ASSUME NEW o \in Elements(lead[p])
          PROVE  Honest(LeadProbe(p, index(o)), o, visible, disk, faults, refusals)
        <3>1. index(o) \in DOMAIN lead[p] /\ lead[p][index(o)] = o
            BY DEF Elements
        <3> HIDE DEF index
        <3> QED
            BY <1>2, <3>1, LeadProbeHonest
    <2> HIDE DEF known, index
    <2> QED
        BY <2>1, <2>2 DEF ProbesAt
<1>7. ProbesAt(probes'[p], visible', disk', faults', refusals')
    BY <1>4, <1>6, ProbesGrow
<1>8. ReturnedAt(returned'[p], batch'[p], visible', disk', faults', refusals')
    BY <1>1, ProbesGrow DEF ProbeInv
<1> QED
    BY <1>1, <1>2, <1>3, <1>4, <1>5, <1>7, <1>8, OneBatch

LEMMA ReturnProbesKeeps ==
    ASSUME BatchPart, PoolPart, Grown, NEW p \in Prefetchers, ReturnProbes(p)
    PROVE  BatchPart'
<1> USE DEF BatchPart
<1> DEFINE ret == Reordered(batch[p], probes[p])
<1>1. /\ step[p] = "assemble" /\ op' = op /\ want' = want /\ batch' = batch /\ visible' = visible
      /\ claims' = claims \ Elements(lead[p]) /\ lead' = [lead EXCEPT ![p] = <<>>]
      /\ probes' = [probes EXCEPT ![p] = NoProbes] /\ returned' = [returned EXCEPT ![p] = ret]
      /\ step' = [step EXCEPT ![p] = "idle"]
    BY DEF ReturnProbes, poolVars
<1>2. op[p] = "none"
    BY <1>1 DEF BatchInv, BatchAt
<1>3. ReturnedAt(ret, batch[p], visible, disk, faults, refusals)
    <2> SUFFICES ASSUME NEW i \in DOMAIN batch[p]
                 PROVE  /\ ret[i] = "PresentWithHeader" => batch[p][i] \in visible
                        /\ FirstPlace(batch[p], i) =>
                              Honest(ret[i], batch[p][i], visible, disk, faults, refusals)
        BY DEF ReturnedAt, Reordered
    <2>1. ASSUME ret[i] = "PresentWithHeader"
          PROVE  batch[p][i] \in DOMAIN probes[p] /\ probes[p][batch[p][i]] = "PresentWithHeader"
        BY <2>1 DEF Reordered
    <2>2. ret[i] = "PresentWithHeader" => batch[p][i] \in visible
        BY <2>1 DEF ProbeInv, ProbesAt, Honest
    <2>3. ASSUME FirstPlace(batch[p], i)
          PROVE  Honest(ret[i], batch[p][i], visible, disk, faults, refusals)
        <3>1. batch[p][i] \in Elements(batch[p])
            BY DEF Elements
        <3>2. batch[p][i] \in DOMAIN probes[p]
            BY <1>1, <3>1 DEF BatchInv, BatchAt
        <3>3. ret[i] = probes[p][batch[p][i]]
            BY <2>3, <3>2 DEF Reordered
        <3> QED
            BY <3>2, <3>3 DEF ProbeInv, ProbesAt
    <2> QED
        BY <2>2, <2>3
<1> HIDE DEF ret
<1>4. BatchTypes'
    <2>1. <<>> \in Seq(Oids)
        OBVIOUS
    <2> QED
        BY <1>1, <2>1 DEF BatchTypes
<1>5. /\ step'[p] = "idle" /\ lead'[p] = <<>> /\ probes'[p] = NoProbes /\ returned'[p] = ret
      /\ \A q \in Prefetchers \ {p} :
           step'[q] = step[q] /\ lead'[q] = lead[q] /\ probes'[q] = probes[q] /\ returned'[q] = returned[q]
    BY <1>1 DEF BatchTypes
<1>6. ClaimsExact'
    <2>1. Elements(lead'[p]) = {}
        BY <1>5 DEF Elements
    <2>2. claims' = UNION {Elements(lead'[q]) : q \in Prefetchers}
        <3>1. ASSUME NEW o \in claims' PROVE \E q \in Prefetchers : o \in Elements(lead'[q])
            BY <1>1, <1>5 DEF ClaimsExact
        <3>2. ASSUME NEW q \in Prefetchers, NEW o \in Elements(lead'[q]) PROVE o \in claims'
            <4>1. q # p /\ o \in Elements(lead[q])
                BY <1>5, <2>1, <3>2
            <4> QED
                BY <1>1, <4>1 DEF ClaimsExact
        <3> QED
            BY <3>1, <3>2
    <2>3. \A q, r \in Prefetchers : q # r => Elements(lead'[q]) \cap Elements(lead'[r]) = {}
        BY <1>5, <2>1 DEF ClaimsExact
    <2> QED
        BY <2>2, <2>3 DEF ClaimsExact, Elements
<1>7. BatchAt(step'[p], lead'[p], op'[p], want'[p], batch'[p], probes'[p])
    BY <1>1, <1>2, <1>5 DEF BatchAt
<1>8. ProbesAt(probes'[p], visible', disk', faults', refusals')
    BY <1>5 DEF ProbesAt, NoProbes
<1>9. ReturnedAt(returned'[p], batch'[p], visible', disk', faults', refusals')
    BY <1>1, <1>3, <1>5, ProbesGrow
<1> QED
    BY <1>1, <1>4, <1>5, <1>6, <1>7, <1>8, <1>9, OneBatch

LEMMA PrefetcherStepKeeps ==
    ASSUME BatchPart, PoolPart, Grown, NEW p \in Prefetchers, PrefetcherStep(p)
    PROVE  BatchPart'
<1>1. CASE AskBatch(p) \/ RoundTrip(p)
    BY <1>1, BatchInPool DEF AskBatch, RoundTrip, OnTheWay
<1> QED
    BY <1>1, ClaimKeeps, SkipKeeps, BatchAnsweredKeeps, ReturnProbesKeeps DEF PrefetcherStep

-----------------------------------------------------------------------------
(* The invariant and the theorems.                                         *)

LEMMA InitFetcher == Init => FetcherInv
<1> SUFFICES ASSUME Init PROVE FetcherInv
    OBVIOUS
<1> USE DEF Init
<1>1. PP!Init
    BY DEF Pool!Init, PP!Init, Pool!Slots, PP!Slots, Pool!NoChild, PP!NoChild
<1>2. PoolPart
    BY <1>1, PoolAssumed, PP!InitInv, PP!InitPipes, PP!InitFaults DEF PoolPart
<1>3. op = [a \in Readers \cup Prefetchers |-> "none"]
    BY DEF Pool!Init
<1>4. Types
    BY FetcherAssumption DEF Types, BatchTypes, Single!Init, Single!TypeOK
<1>5. FlightInv /\ OutcomeInv /\ ReaderInv
    <2>1. /\ open = [k \in Oids |-> NoFlight] /\ outcome = [f \in Single!Flights |-> Pending]
          /\ phase = [t \in Readers |-> "idle"]
        BY DEF Single!Init
    <2>2. CallsCounted /\ LeaderOwns /\ FollowerHasLeader
        BY <2>1 DEF CallsCounted, LeaderOwns, FollowerHasLeader, Leads, Waits
    <2>3. OpenHasLeader
        BY <2>1 DEF OpenHasLeader
    <2>4. FreshPending
        BY <2>1, FlightNames DEF FreshPending
    <2>5. OutcomeInv /\ ReaderInv
        BY <1>3, <2>1 DEF OutcomeInv, ReaderInv, Leads, Waits
    <2> QED
        BY <2>2, <2>3, <2>4, <2>5 DEF FlightInv
<1>6. BatchInv
    BY <1>3 DEF BatchInv, BatchAt
<1>7. ProbeInv
    BY DEF ProbeInv, ProbesAt, ReturnedAt, NoProbes
<1>8. ClaimsExact
    BY DEF ClaimsExact, Elements
<1>9. ReplyInv
    BY DEF ReplyInv, Errors
<1> QED
    BY <1>2, <1>4, <1>5, <1>6, <1>7, <1>8, <1>9 DEF FetcherInv

(* Steps that concern neither the readers nor the prefetchers.             *)
LEMMA OutsideKeeps ==
    ASSUME ReaderPart, BatchPart, Grown, UNCHANGED flightVars, UNCHANGED batchVars, op' = op, want' = want
    PROVE  ReaderPart' /\ BatchPart'
<1>1. \A a : op'[a] = op[a] /\ want'[a] = want[a]
    OBVIOUS
<1>2. ReaderPart'
    BY <1>1, ReadersApart
<1>3. BatchPart'
    BY <1>1, BatchesApart
<1> QED
    BY <1>2, <1>3

(* The steps of a reader leave every prefetcher's variables alone.         *)
LEMMA ReaderOnly ==
    ASSUME ReaderPart, BatchPart, PoolPart, Grown, NEW t \in Readers,
           ReaderStep(t) \/ \E o \in Oids : FetchObjectPresent(t, o) \/ FetchObject(t, o)
    PROVE  ReaderPart' /\ BatchPart'
<1>1. CASE \E o \in Oids : FetchObjectPresent(t, o)
    <2>1. UNCHANGED flightVars /\ UNCHANGED batchVars /\ op' = op /\ want' = want
        BY <1>1 DEF FetchObjectPresent, poolVars
    <2> QED
        BY <2>1, OutsideKeeps
<1>2. CASE ReaderStep(t) \/ \E o \in Oids : FetchObject(t, o)
    <2>1. ReaderPart'
        BY <1>2, ReaderStepKeeps, FetchObjectKeeps
    <2>2. UNCHANGED batchVars
        BY <1>2 DEF ReaderStep, FetchObject, LeadFetch, JoinFetch, DoubleCheck, Ask, RoundTrip,
                    RawFetchReturns, FetchObjectReturns
    <2>3. \/ \E w : Pool!Begin(t, w)
          \/ OnTheWay(t) \/ Pool!Abandon(t) \/ Pool!Finish(t)
          \/ op' = op /\ want' = want
        BY <1>2 DEF ReaderStep, FetchObject, LeadFetch, JoinFetch, DoubleCheck, Ask, RoundTrip,
                    RawFetchReturns, FetchObjectReturns, OnTheWay, poolVars
    <2>4. \A p \in Prefetchers : p \in (Readers \cup Prefetchers) \ {t}
        BY FetcherAssumption
    <2>5. \A p \in Prefetchers : op'[p] = op[p] /\ want'[p] = want[p]
        BY <2>3, <2>4, BeginEffects, WayEffects, EndEffects
    <2> QED
        BY <2>1, <2>2, <2>5, BatchesApart
<1> QED
    BY <1>1, <1>2

(* The steps of a prefetcher leave the coalescer and every reader alone.   *)
LEMMA PrefetcherOnly ==
    ASSUME ReaderPart, BatchPart, PoolPart, Grown, NEW p \in Prefetchers,
           PrefetcherStep(p) \/ \E b \in Batches : PrefetchHeaders(p, b)
    PROVE  ReaderPart' /\ BatchPart'
<1>1. BatchPart'
    BY PrefetcherStepKeeps, PrefetchHeadersKeeps
<1>2. UNCHANGED flightVars
    BY DEF PrefetcherStep, PrefetchHeaders, Claim, Skip, AskBatch, RoundTrip, BatchAnswered, ReturnProbes
<1>3. \/ \E w : Pool!Begin(p, w)
      \/ OnTheWay(p) \/ Pool!Finish(p)
      \/ op' = op /\ want' = want
    BY DEF PrefetcherStep, PrefetchHeaders, Claim, Skip, AskBatch, RoundTrip, BatchAnswered,
           ReturnProbes, OnTheWay, poolVars
<1>4. \A t \in Readers : t \in (Readers \cup Prefetchers) \ {p}
    BY FetcherAssumption
<1>5. \A t \in Readers : op'[t] = op[t] /\ want'[t] = want[t]
    BY <1>3, <1>4, BeginEffects, WayEffects, EndEffects
<1> QED
    BY <1>1, <1>2, <1>5, ReadersApart

(* What a reader is told stays caused, and a new error is.                 *)
LEMMA CausesGrow == ASSUME Grown PROVE \A o : CanFail(o) => CanFail(o)'
    BY DEF Grown, CanFail

LEMMA ReplyKept ==
    ASSUME Types, ReaderPart, ReplyInv, Grown, [Next]_vars
    PROVE  ReplyInv' /\ reply' \in [Readers -> {"none", "Ok"} \cup Errors]
<1>1. reply \in [Readers -> {"none", "Ok"} \cup Errors]
    BY DEF Types
<1>2. CASE reply' = reply /\ key' = key
    BY <1>1, <1>2, CausesGrow DEF ReplyInv, CanFail
<1>3. ASSUME NEW t \in Readers, NEW r \in {"none", "Ok"}, reply' = [reply EXCEPT ![t] = r],
             \A u \in Readers \ {t} : key'[u] = key[u]
      PROVE  ReplyInv' /\ reply' \in [Readers -> {"none", "Ok"} \cup Errors]
    <2>1. reply' \in [Readers -> {"none", "Ok"} \cup Errors]
        BY <1>1, <1>3
    <2>2. reply'[t] \notin Errors /\ \A u \in Readers \ {t} : reply'[u] = reply[u]
        BY <1>1, <1>3 DEF Errors
    <2>3. ReplyInv'
        BY <1>3, <2>2, CausesGrow DEF ReplyInv, CanFail
    <2> QED
        BY <2>1, <2>3
<1>4. ASSUME NEW t \in Readers, FetchObjectReturns(t)
      PROVE  ReplyInv' /\ reply' \in [Readers -> {"none", "Ok"} \cup Errors]
    <2> DEFINE r == outcome[flight[t]]
    <2>1. /\ reply' = [reply EXCEPT ![t] = Reclassified(r)] /\ key' = key
          /\ Leads(t) \/ Waits(t)
          /\ r # Pending
        BY <1>4 DEF FetchObjectReturns, Single!Close, Single!Return, Leads, Waits
    <2>2. flight[t] \in Single!Flights
        BY <2>1 DEF ReaderPart, FlightInv, LeaderOwns, FollowerHasLeader
    <2>3. r \in {"Ok"} \cup Errors
        BY <2>1, <2>2 DEF ReaderPart, Single!TypeOK
    <2>4. Honest(r, key[t], visible, disk, faults, refusals)
        BY <2>1 DEF ReaderPart, OutcomeInv
    <2> HIDE DEF r
    <2>5. r \in Errors => CanFail(key[t])
        BY <2>4 DEF Honest, CanFail, Errors
    <2>6. Reclassified(r) \in {"Ok"} \cup Errors /\ (Reclassified(r) \in Errors => r \in Errors)
        BY <2>3 DEF Reclassified, Errors
    <2>7. reply' \in [Readers -> {"none", "Ok"} \cup Errors]
        BY <1>1, <2>1, <2>6
    <2>8. reply'[t] = Reclassified(r) /\ \A u \in Readers \ {t} : reply'[u] = reply[u]
        BY <1>1, <2>1
    <2>9. \A u \in Readers : reply'[u] \in Errors => CanFail(key[u])
        BY <2>5, <2>6, <2>8 DEF ReplyInv
    <2>10. ReplyInv'
        BY <2>1, <2>9, CausesGrow DEF ReplyInv, CanFail
    <2> QED
        BY <2>7, <2>10
<1>5. ASSUME NEW t \in Readers, NEW o \in Oids, FetchObjectPresent(t, o) \/ FetchObject(t, o)
      PROVE  ReplyInv' /\ reply' \in [Readers -> {"none", "Ok"} \cup Errors]
    <2>1. \A u \in Readers \ {t} : key'[u] = key[u]
        BY <1>5 DEF FetchObjectPresent, FetchObject, Single!Call, flightVars, Types, Single!TypeOK
    <2>2. \E r \in {"none", "Ok"} : reply' = [reply EXCEPT ![t] = r]
        BY <1>5 DEF FetchObjectPresent, FetchObject
    <2> QED
        BY <1>3, <2>1, <2>2
<1>6. ASSUME NEW t \in Readers, ReaderStep(t), ~FetchObjectReturns(t)
      PROVE  reply' = reply /\ key' = key
    BY <1>6 DEF ReaderStep, LeadFetch, JoinFetch, DoubleCheck, Ask, RoundTrip, RawFetchReturns,
                Single!Open, Single!Attach, Single!Settle, flightVars
<1>7. ASSUME NEW p \in Prefetchers, PrefetcherStep(p) \/ \E b \in Batches : PrefetchHeaders(p, b)
      PROVE  reply' = reply /\ key' = key
    BY <1>7 DEF PrefetcherStep, PrefetchHeaders, Claim, Skip, AskBatch, RoundTrip, BatchAnswered,
                ReturnProbes, flightVars
<1>8. CASE \/ \E s \in Pool!Slots : ServeChild(s) \/ ChildExits(s)
           \/ \E o \in Oids : Refresh(o)
           \/ UNCHANGED vars
    <2>1. reply' = reply /\ key' = key
        BY <1>8 DEF ServeChild, ChildExits, Refresh, vars, flightVars
    <2> QED
        BY <1>2, <2>1
<1> QED
    BY <1>2, <1>4, <1>5, <1>6, <1>7, <1>8 DEF Next

LEMMA NextFetcher == FetcherInv /\ [Next]_vars => FetcherInv'
<1> SUFFICES ASSUME FetcherInv, [Next]_vars PROVE FetcherInv'
    OBVIOUS
<1>1. PoolPart /\ Types /\ ReaderPart /\ BatchPart /\ ReplyInv
    BY DEF FetcherInv, Types, ReaderPart, BatchPart
<1>2. PoolPart' /\ Grown
    BY <1>1, PoolKept, Growth
<1>4. ReaderPart' /\ BatchPart'
    <2>1. CASE \E s \in Pool!Slots : ServeChild(s) \/ ChildExits(s)
        <3>1. UNCHANGED flightVars /\ UNCHANGED batchVars /\ op' = op /\ want' = want
            BY <2>1 DEF ServeChild, ChildExits, Pool!Serve, Pool!Exit
        <3> QED
            BY <1>1, <1>2, <3>1, OutsideKeeps
    <2>2. CASE \E o \in Oids : Refresh(o)
        <3>1. UNCHANGED flightVars /\ UNCHANGED batchVars /\ op' = op /\ want' = want
            BY <2>2 DEF Refresh, poolVars
        <3> QED
            BY <1>1, <1>2, <3>1, OutsideKeeps
    <2>3. CASE UNCHANGED vars
        <3>1. UNCHANGED flightVars /\ UNCHANGED batchVars /\ op' = op /\ want' = want
            BY <2>3 DEF vars, flightVars, batchVars, poolVars
        <3> QED
            BY <1>1, <1>2, <3>1, OutsideKeeps
    <2>4. ASSUME NEW t \in Readers,
                 ReaderStep(t) \/ \E o \in Oids : FetchObjectPresent(t, o) \/ FetchObject(t, o)
          PROVE  ReaderPart' /\ BatchPart'
        BY <1>1, <1>2, <2>4, ReaderOnly
    <2>5. ASSUME NEW p \in Prefetchers,
                 PrefetcherStep(p) \/ \E b \in Batches : PrefetchHeaders(p, b)
          PROVE  ReaderPart' /\ BatchPart'
        BY <1>1, <1>2, <2>5, PrefetcherOnly
    <2> QED
        BY <2>1, <2>2, <2>3, <2>4, <2>5 DEF Next
<1>5. visible' \subseteq Oids
    <2>1. visible \subseteq Oids
        BY <1>1 DEF Types
    <2>2. visible' = visible \/ \E o \in Oids : visible' = visible \cup {o}
        BY DEF Next, vars, FetchObjectPresent, FetchObject, ReaderStep, LeadFetch, JoinFetch, DoubleCheck,
               Ask, RoundTrip, RawFetchReturns, FetchObjectReturns, PrefetchHeaders, PrefetcherStep, Claim,
               Skip, AskBatch, BatchAnswered, ReturnProbes, ServeChild, ChildExits, Refresh
    <2> QED
        BY <2>1, <2>2
<1>6. ReplyInv' /\ reply' \in [Readers -> {"none", "Ok"} \cup Errors]
    BY <1>1, <1>2, ReplyKept
<1> QED
    BY <1>2, <1>4, <1>5, <1>6 DEF FetcherInv, Types, ReaderPart, BatchPart

LEMMA SpecFetcher == Spec => []FetcherInv
    BY InitFetcher, NextFetcher, PTL DEF Spec

(* fetch_object says Ok, and prefetch_headers says PresentWithHeader, only *)
(* of objects the store finds: for leaders, followers and double checks.   *)
THEOREM OkIsResident == Spec => []OkMeansResident
<1>1. FetcherInv => OkMeansResident
    <2> SUFFICES ASSUME FetcherInv PROVE OkMeansResident
        OBVIOUS
    <2>1. ASSUME NEW t \in Readers, phase[t] \in {"leader", "follower"}, outcome[flight[t]] = "Ok"
          PROVE  key[t] \in visible
        BY <2>1, FlightNames DEF FetcherInv, OutcomeInv, Leads, Waits, Honest
    <2>2. ASSUME NEW p \in Prefetchers, NEW i \in DOMAIN returned[p], returned[p][i] = "PresentWithHeader"
          PROVE  batch[p][i] \in visible
        BY <2>2 DEF FetcherInv, ProbeInv, ReturnedAt
    <2> QED
        BY <2>1, <2>2 DEF OkMeansResident
<1> QED
    BY <1>1, SpecFetcher, PTL

(* Every error a caller gets has a cause: a reader's error one of the four *)
(* things a fetch may fail of, a batch's error the one its variant names.  *)
THEOREM ErrorsAreCaused == Spec => []ErrorsHaveCauses
<1>1. \A r, o : Honest(r, o, visible, disk, faults, refusals) => Justified(r, o)
    BY DEF Honest, Justified
<1>2. FetcherInv => ErrorsHaveCauses
    BY <1>1 DEF FetcherInv, ReplyInv, ProbeInv, ReturnedAt, ErrorsHaveCauses
<1> QED
    BY <1>2, SpecFetcher, PTL

(* The claim set of prefetch_headers is exactly what the batches in        *)
(* progress lead, each object led once: no claim outlives its batch.       *)
THEOREM NoClaimIsLeaked == Spec => []ClaimsExact
<1>1. FetcherInv => ClaimsExact
    BY DEF FetcherInv
<1> QED
    BY <1>1, SpecFetcher, PTL

(* A set all of whose members are equal has at most one.                   *)
LEMMA AtMostOneMember ==
    ASSUME NEW S, \A x, y \in S : x = y
    PROVE  Cardinality(S) <= 1
<1>1. CASE S = {}
    BY <1>1, FS_EmptySet
<1>2. ASSUME NEW x \in S PROVE Cardinality(S) <= 1
    <2>1. S = {x}
        OBVIOUS
    <2> QED
        BY <2>1, FS_Singleton
<1> QED
    BY <1>1, <1>2

(* Coalescing works for every number of callers: at most one reader and at *)
(* most one batch ask git for an object at any time.                       *)
THEOREM Coalesced == Spec => []AtMostTwoAsk
<1>1. FetcherInv => AtMostTwoAsk
    <2> SUFFICES ASSUME FetcherInv, NEW o \in Oids
                 PROVE  /\ Cardinality(AskingFor(o, Readers)) <= 1
                        /\ Cardinality(AskingFor(o, Prefetchers)) <= 1
        BY DEF AtMostTwoAsk
    <2>1. ASSUME NEW t \in AskingFor(o, Readers), NEW u \in AskingFor(o, Readers) PROVE t = u
        <3>1. \A v \in {t, u} : v \in Readers /\ op[v] # "none" /\ o \in Elements(want[v])
            BY DEF AskingFor
        <3>2. \A v \in {t, u} : Leads(v) /\ want[v] = <<key[v]>>
            BY <3>1 DEF FetcherInv, ReaderInv
        <3>3. key[t] = o /\ key[u] = o
            BY <3>1, <3>2 DEF Elements
        <3>4. flight[t] = open[o] /\ flight[u] = open[o] /\ flight[t] = <<t, calls[t]>> /\ flight[u] = <<u, calls[u]>>
            BY <3>1, <3>2, <3>3 DEF FetcherInv, FlightInv, LeaderOwns
        <3> QED
            BY <3>4
    <2>2. ASSUME NEW p \in AskingFor(o, Prefetchers), NEW q \in AskingFor(o, Prefetchers) PROVE p = q
        <3>1. \A v \in {p, q} : v \in Prefetchers /\ op[v] # "none" /\ o \in Elements(want[v])
            BY DEF AskingFor
        <3>2. \A v \in {p, q} : want[v] = lead[v]
            BY <3>1 DEF FetcherInv, BatchInv, BatchAt
        <3> QED
            BY <3>1, <3>2 DEF FetcherInv, ClaimsExact
    <2> QED
        BY <2>1, <2>2, AtMostOneMember
<1> QED
    BY <1>1, SpecFetcher, PTL
=============================================================================
