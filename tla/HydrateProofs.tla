---------------------------- MODULE HydrateProofs ----------------------------
(***************************************************************************)
(* Theorems about Hydrate, for any number of readers and objects and any   *)
(* number of faults and crashes.                                           *)
(*                                                                         *)
(* There are two inductive invariants.  HydrateInv: what a read returns    *)
(* says something of the disk only because the store never finds an object *)
(* that is not whole on disk, and that in turn only because no step takes  *)
(* a whole object off the disk or lets the store find a cut one.  StoreInv *)
(* rests on it and follows an answer from the remote to the reader: what a *)
(* flight's outcome may be (OutcomeInv, StageInv), who waits for whom and  *)
(* for which object (FlightInv, PhaseInv), what the probes of a call say   *)
(* (JobInv), which calls are made for what (CallsInv, WantInv), where the  *)
(* header of a queued blob will come from (QueueInv), and what the warmer  *)
(* has seen, read and still ahead (WalkInv).                               *)
(***************************************************************************)
EXTENDS Hydrate, FiniteSetTheorems, SequenceTheorems, TLAPS

\* What an object's file may be.
DiskStates == disk \in [Oids -> {"absent", "stub", "partial", "whole"}]

\* What the store finds is on disk.
VisibleIsWhole == \A o \in Oids : o \in visible => disk[o] = "whole"

\* The mount is one of those considered; a reader asks for an object, and has an answer or none.
ReadersAsk ==
    /\ asked \in [Readers -> {"blob", "tree", "header"} \X Oids]
    /\ DOMAIN reply = Readers
    /\ cast \in Casts

HydrateInv ==
    /\ DiskStates
    /\ VisibleIsWhole
    /\ ReadersAsk
    /\ OkMeansResident

(* A step that only adds whole objects to the disk, lets the store find no *)
(* others, and answers nobody, preserves the invariant.                    *)
LEMMA Grows ==
    ASSUME HydrateInv, DiskStates', VisibleIsWhole', UNCHANGED <<cast, asked, reply>>,
           \A o \in Oids : disk[o] = "whole" => disk'[o] = "whole"
    PROVE  HydrateInv'
<1>1. ReadersAsk'
    BY DEF HydrateInv, ReadersAsk
<1>2. OkMeansResident'
    <2> SUFFICES ASSUME NEW r \in Readers, reply[r] = "Ok", asked[r][1] # "header"
                 PROVE  disk'[asked[r][2]] = "whole"
        BY DEF OkMeansResident
    <2>1. asked[r][2] \in Oids
        BY DEF HydrateInv, ReadersAsk
    <2>2. disk[asked[r][2]] = "whole"
        BY DEF HydrateInv, OkMeansResident
    <2> QED
        BY <2>1, <2>2
<1> QED
    BY <1>1, <1>2 DEF HydrateInv

(* A step that leaves the disk, the store and the answers alone does too.  *)
LEMMA Stays ==
    ASSUME HydrateInv, UNCHANGED <<cast, disk, visible, asked, reply>>
    PROVE  HydrateInv'
    BY DEF HydrateInv, DiskStates, VisibleIsWhole, ReadersAsk, OkMeansResident

(* A pack that lands adds its objects, whole, whether gix finds them yet   *)
(* or not.                                                                 *)
LEMMA LandsGrows ==
    ASSUME HydrateInv, NEW S, Lands(S), UNCHANGED <<cast, asked, reply>>
    PROVE  HydrateInv'
<1>1. disk' = [o \in Oids |-> IF o \in S THEN "whole" ELSE disk[o]]
    BY DEF Lands
<1>2. visible' = visible \cup S \/ visible' = visible
    BY DEF Lands
<1>3. DiskStates'
    BY <1>1 DEF HydrateInv, DiskStates
<1>4. VisibleIsWhole'
    BY <1>1, <1>2 DEF HydrateInv, VisibleIsWhole
<1> QED
    BY <1>1, <1>3, <1>4, Grows

(* At the start the disk is empty and nobody has asked.                    *)
LEMMA InitInv == Init => HydrateInv
<1> SUFFICES ASSUME Init PROVE HydrateInv
    OBVIOUS
<1>1. DiskStates /\ VisibleIsWhole
    BY DEF Init, DiskStates, VisibleIsWhole
<1>2. ReadersAsk /\ OkMeansResident
    BY HydrateAssumption DEF Init, Fresh, ReadersAsk, OkMeansResident
<1> QED
    BY <1>1, <1>2 DEF HydrateInv

(* An answer that is Ok only for a header or for an object the store finds *)
(* preserves the invariant: what a reader may be told.                     *)
LEMMA AnswersInv ==
    ASSUME HydrateInv, NEW r \in Readers, NEW op \in {"blob", "tree", "header"}, NEW o \in Oids,
           NEW res, res = "Ok" /\ op # "header" => o \in visible,
           asked' = [asked EXCEPT ![r] = <<op, o>>],
           reply' = [reply EXCEPT ![r] = res],
           UNCHANGED <<cast, disk, visible>>
    PROVE  HydrateInv'
<1>1. DiskStates' /\ VisibleIsWhole'
    BY DEF HydrateInv, DiskStates, VisibleIsWhole
<1>2. ReadersAsk'
    BY DEF HydrateInv, ReadersAsk
<1>3. OkMeansResident'
    <2> SUFFICES ASSUME NEW q \in Readers, reply'[q] = "Ok", asked'[q][1] # "header"
                 PROVE  disk[asked'[q][2]] = "whole"
        BY DEF OkMeansResident
    <2>1. CASE q = r
        <3>1. asked'[r] = <<op, o>> /\ reply'[r] = res
            BY DEF HydrateInv, ReadersAsk
        <3> QED
            BY <2>1, <3>1 DEF HydrateInv, VisibleIsWhole
    <2>2. CASE q # r
        <3>1. asked'[q] = asked[q] /\ reply'[q] = reply[q]
            BY <2>2 DEF HydrateInv, ReadersAsk
        <3> QED
            BY <3>1 DEF HydrateInv, OkMeansResident
    <2> QED
        BY <2>1, <2>2
<1> QED
    BY <1>1, <1>2, <1>3 DEF HydrateInv

(* The steps inside the fetchers.                                          *)
LEMMA FetchStepInv ==
    ASSUME HydrateInv, NEW a \in Actors, FetchStep(a)
    PROVE  HydrateInv'
<1> USE DEF Local, diskVars, readerVars
<1>1. CASE NoopFetch(a)
    BY <1>1, Stays DEF NoopFetch
<1>2. CASE FetchPresent(a)
    BY <1>2, Stays DEF FetchPresent
<1>3. CASE FetchCall(a)
    BY <1>3, Stays DEF FetchCall
<1>4. CASE FetchJoins(a)
    BY <1>4, Stays DEF FetchJoins
<1>5. CASE RemoteRefuses(a)
    BY <1>5, Stays DEF RemoteRefuses, RawReturns
<1>6. CASE RemoteFails(a)
    BY <1>6, Stays DEF RemoteFails, RawReturns
<1>7. CASE GixReceive(a)
    BY <1>7, LandsGrows DEF GixReceive
<1>8. CASE GvfsRecheck(a)
    BY <1>8, Stays DEF GvfsRecheck, RawReturns
<1>9. CASE GvfsGet(a)
    BY <1>9, Stays DEF GvfsGet
<1>10. CASE WriteTmp(a)
    BY <1>10, Stays DEF WriteTmp
<1>11. CASE WriteFails(a)
    BY <1>11, Stays DEF WriteFails, RawReturns
<1>12. CASE Rename(a)
    <2>1. UNCHANGED <<cast, asked, reply>>
        BY <1>12 DEF Rename
    <2>2. \/ UNCHANGED <<disk, visible>>
          \/ /\ disk[key[a]] = "absent"
             /\ \/ disk' = [disk EXCEPT ![key[a]] = "whole"] /\ visible' = visible \cup {key[a]}
                \/ \E c \in Cut : disk' = [disk EXCEPT ![key[a]] = c] /\ UNCHANGED visible
        BY <1>12 DEF Rename
    <2>3. CASE disk' = [disk EXCEPT ![key[a]] = "whole"] /\ visible' = visible \cup {key[a]}
        <3>1. DiskStates' /\ VisibleIsWhole' /\ \A o \in Oids : disk[o] = "whole" => disk'[o] = "whole"
            BY <2>3 DEF HydrateInv, DiskStates, VisibleIsWhole
        <3> QED
            BY <2>1, <3>1, Grows
    <2>4. ASSUME disk[key[a]] = "absent", NEW c \in Cut, disk' = [disk EXCEPT ![key[a]] = c],
                 UNCHANGED visible
          PROVE  HydrateInv'
        <3>1. c \in {"absent", "stub", "partial", "whole"}
            BY DEF Cut
        <3>2. DiskStates' /\ VisibleIsWhole' /\ \A o \in Oids : disk[o] = "whole" => disk'[o] = "whole"
            BY <2>4, <3>1 DEF HydrateInv, DiskStates, VisibleIsWhole
        <3> QED
            BY <2>1, <3>2, Grows
    <2> QED
        BY <2>1, <2>2, <2>3, <2>4, Stays
<1>13. CASE Verify(a)
    BY <1>13, Stays DEF Verify, RawReturns
<1>14. CASE FetchReturns(a)
    BY <1>14, Stays DEF FetchReturns
<1>15. CASE DaemonFetch(a)
    <2>1. UNCHANGED <<cast, asked, reply>>
        BY <1>15 DEF DaemonFetch
    <2>2. \/ Lands({Current(a)})
          \/ UNCHANGED <<disk, visible>>
          \/ disk' = [disk EXCEPT ![Current(a)] = "whole"] /\ UNCHANGED visible
        BY <1>15 DEF DaemonFetch
    <2>3. CASE disk' = [disk EXCEPT ![Current(a)] = "whole"] /\ UNCHANGED visible
        <3>1. DiskStates' /\ VisibleIsWhole' /\ \A o \in Oids : disk[o] = "whole" => disk'[o] = "whole"
            BY <2>3 DEF HydrateInv, DiskStates, VisibleIsWhole
        <3> QED
            BY <2>1, <3>1, Grows
    <2> QED
        BY <2>1, <2>2, <2>3, LandsGrows, Stays
<1>16. CASE GvfsPrefetchHeaders(a)
    BY <1>16, Stays DEF GvfsPrefetchHeaders
<1>17. CASE DaemonBatch(a)
    <2> DEFINE oids == job[a].todo
    <2>1. UNCHANGED <<cast, asked, reply>>
        BY <1>17 DEF DaemonBatch
    <2>2. \/ \E peers : Lands({o \in ToSet(oids) \ peers : o \in Upstream \/ disk[o] = "whole"})
          \/ UNCHANGED <<disk, visible>>
          \/ /\ disk' = [o \in Oids |-> IF o \in ToSet(oids) \cap Upstream THEN "whole" ELSE disk[o]]
             /\ UNCHANGED visible
        BY <1>17 DEF DaemonBatch
    <2>3. CASE /\ disk' = [o \in Oids |-> IF o \in ToSet(oids) \cap Upstream THEN "whole" ELSE disk[o]]
               /\ UNCHANGED visible
        <3>1. DiskStates' /\ VisibleIsWhole' /\ \A o \in Oids : disk[o] = "whole" => disk'[o] = "whole"
            BY <2>3 DEF HydrateInv, DiskStates, VisibleIsWhole
        <3> QED
            BY <2>1, <3>1, Grows
    <2> QED
        BY <2>1, <2>2, <2>3, LandsGrows, Stays
<1>18. CASE BulkReturns(a)
    BY <1>18, Stays DEF BulkReturns
<1> QED
    BY <1>1, <1>2, <1>3, <1>4, <1>5, <1>6, <1>7, <1>8, <1>9, <1>10, <1>11, <1>12, <1>13, <1>14,
       <1>15, <1>16, <1>17, <1>18
    DEF FetchStep

(* Every step preserves the invariant.                                     *)
LEMMA NextInv == HydrateInv /\ [Next]_vars => HydrateInv'
<1> SUFFICES ASSUME HydrateInv, [Next]_vars PROVE HydrateInv'
    OBVIOUS
<1> USE DEF diskVars, readerVars
<1>1. CASE UNCHANGED vars
    BY <1>1, Stays DEF vars
<1>2. ASSUME NEW a \in Actors, FetchStep(a) PROVE HydrateInv'
    BY <1>2, FetchStepInv
<1>3. ASSUME NEW r \in Readers, ReadFetched(r) PROVE HydrateInv'
    <2> DEFINE op == asked[r][1]
               o == asked[r][2]
    <2>1. op \in {"blob", "tree", "header"} /\ o \in Oids /\ asked[r] = <<op, o>>
        BY DEF HydrateInv, ReadersAsk
    <2>2. asked' = [asked EXCEPT ![r] = <<op, o>>]
        BY <1>3, <2>1 DEF ReadFetched, HydrateInv, ReadersAsk
    <2>3. reply' = [reply EXCEPT ![r] = Retried(r, op, o)] /\ UNCHANGED <<cast, disk, visible>>
        BY <1>3 DEF ReadFetched
    <2>4. Retried(r, op, o) = "Ok" /\ op # "header" => o \in visible
        BY DEF Retried, Errors, Served, Readable, StoreHas
    <2> QED
        BY <2>1, <2>2, <2>3, <2>4, AnswersInv
<1>4. ASSUME NEW r \in Readers, Post(r) PROVE HydrateInv'
    BY <1>4, Stays DEF Post
<1>5. ASSUME NEW r \in Readers, Request(r) PROVE HydrateInv'
    <2>1. \A q \in cast.reads : /\ q[1] \in {"blob", "tree", "header"} /\ q[2] \in Oids
        BY HydrateAssumption DEF HydrateInv, ReadersAsk
    <2>2. ASSUME NEW q \in cast.reads, ReadHit(r, q[1], q[2]) PROVE HydrateInv'
        <3>1. Served(q[1], q[2]) = "Ok" /\ q[1] # "header" => q[2] \in visible
            BY DEF Served, Readable, StoreHas
        <3> QED
            BY <2>1, <2>2, <3>1, AnswersInv DEF ReadHit
    <2>3. ASSUME NEW q \in cast.reads, ReadMiss(r, q[1], q[2]) PROVE HydrateInv'
        BY <2>1, <2>3, AnswersInv DEF ReadMiss
    <2>4. ASSUME NEW dir \in cast.dirs, ReadDir(r, dir) PROVE HydrateInv'
        BY <2>4, Stays DEF ReadDir
    <2> QED
        BY <1>5, <2>2, <2>3, <2>4 DEF Request
<1>6. CASE WorkerStep
    BY <1>6, Stays
    DEF WorkerStep, Recv, WorkerExits, HeadersChunk, BlobsChunk, TaskDone, Undisturbed
<1>7. CASE WarmStep
    BY <1>7, Stays DEF WarmStep, WarmStart, WarmRead, WarmFetched, WarmLevel, Unwalked
<1>8. CASE CloseChannel
    BY <1>8, Stays DEF CloseChannel
<1>9. ASSUME NEW o \in Oids, Refresh(o) PROVE HydrateInv'
    <2>1. disk[o] = "whole" /\ visible' = visible \cup {o} /\ UNCHANGED <<cast, disk, asked, reply>>
        BY <1>9 DEF Refresh
    <2>2. DiskStates' /\ VisibleIsWhole'
        BY <2>1 DEF HydrateInv, DiskStates, VisibleIsWhole
    <2> QED
        BY <2>1, <2>2, Grows
<1>10. ASSUME NEW o \in Oids, Elsewhere(o) PROVE HydrateInv'
    <2>1. /\ disk' = [disk EXCEPT ![o] = "whole"]
          /\ visible' = visible \cup {o}
          /\ UNCHANGED <<cast, asked, reply>>
        BY <1>10 DEF Elsewhere
    <2>2. DiskStates' /\ VisibleIsWhole' /\ \A x \in Oids : disk[x] = "whole" => disk'[x] = "whole"
        BY <2>1 DEF HydrateInv, DiskStates, VisibleIsWhole
    <2> QED
        BY <2>1, <2>2, Grows
<1>11. CASE Crash
    <2>1. DiskStates' /\ VisibleIsWhole'
        BY <1>11 DEF Crash, HydrateInv, DiskStates, VisibleIsWhole
    <2>2. ReadersAsk' /\ OkMeansResident'
        BY <1>11, HydrateAssumption DEF Crash, HydrateInv, ReadersAsk, OkMeansResident
    <2> QED
        BY <2>1, <2>2 DEF HydrateInv
<1> QED
    BY <1>1, <1>2, <1>3, <1>4, <1>5, <1>6, <1>7, <1>8, <1>9, <1>10, <1>11 DEF Next, ReaderStep

(* The invariant holds in every reachable state.                           *)
LEMMA SpecInv == Spec => []HydrateInv
    BY InitInv, NextInv, PTL DEF Spec

-----------------------------------------------------------------------------
(* A blob or tree read that returns Ok returns an object that is whole on  *)
(* disk, over every backend and whatever was prefetched before.            *)
THEOREM ReadsAreResident == Spec => []OkMeansResident
<1>1. HydrateInv => OkMeansResident
    BY DEF HydrateInv
<1> QED
    BY <1>1, SpecInv, PTL
-----------------------------------------------------------------------------
(* What the helpers on sequences return.                                   *)

(* A set of natural numbers that is not empty has a least element.         *)
LEMMA LeastOf ==
    ASSUME NEW T \in SUBSET Nat, T # {}
    PROVE  \E x \in T : \A y \in T : x <= y
<1> DEFINE R == OpToRel(<, Nat)
<1>1. IsWellFoundedOn(R, Nat)
    BY NatLessThanWellFounded
<1>2. \A x, y \in Nat : y < x => <<y, x>> \in R
    BY DEF OpToRel
<1> HIDE DEF R
<1>3. PICK x \in T : \A y \in T : ~(<<y, x>> \in R)
    BY <1>1, WFMin
<1>4. x \in Nat
    OBVIOUS
<1>5. ASSUME NEW y \in T PROVE x <= y
    <2>1. y \in Nat /\ ~(<<y, x>> \in R)
        BY <1>3
    <2>2. ~(y < x)
        BY <1>2, <1>4, <2>1
    <2> QED
        BY <1>4, <2>1, <2>2
<1> QED
    BY <1>5

\* One turn of the loop of Picked: the list f[n] once the places up to n were seen.
Turn(s, I, f, n) ==
    IF n = 0 THEN <<>> ELSE IF n \in I THEN Append(f[n - 1], s[n]) ELSE f[n - 1]

(* The loop has a result after every turn.                                 *)
LEMMA TurnsExist ==
    ASSUME NEW s, NEW I, NEW m \in Nat
    PROVE  \E f : f = [n \in 0..m |-> Turn(s, I, f, n)]
<1> DEFINE Done(n) == \E f : f = [i \in 0..n |-> Turn(s, I, f, i)]
           T == {n \in Nat : ~Done(n)}
<1> SUFFICES ASSUME T # {} PROVE FALSE
    OBVIOUS
<1>1. PICK x \in T : \A y \in T : x <= y
    BY LeastOf
<1>2. x \in Nat /\ ~Done(x)
    OBVIOUS
<1>3. Done(0)
    <2> DEFINE f == [i \in 0..0 |-> <<>>]
    <2>1. \A i \in 0..0 : i = 0
        OBVIOUS
    <2>2. f = [i \in 0..0 |-> Turn(s, I, f, i)]
        BY <2>1 DEF Turn
    <2> QED
        BY <2>2
<1>4. x - 1 \in Nat /\ x - 1 \notin T
    <2>1. x # 0
        BY <1>2, <1>3
    <2>2. x - 1 \in Nat /\ ~(x <= x - 1)
        BY <1>2, <2>1
    <2> QED
        BY <1>1, <2>2
<1>5. Done(x - 1)
    BY <1>4
<1> DEFINE y == x - 1
<1>6. PICK f : f = [i \in 0..y |-> Turn(s, I, f, i)]
    BY <1>5
<1> DEFINE g == [i \in 0..x |-> IF i = x THEN Turn(s, I, f, x) ELSE f[i]]
<1>7. \A i \in 0..x : i # x => i \in 0..y
    BY <1>2
<1>8. \A i \in 0..x : i # 0 => i - 1 \in 0..x /\ i - 1 # x
    BY <1>2
<1>9. ASSUME NEW i \in 0..x PROVE g[i] = Turn(s, I, g, i)
    <2>1. i # 0 => g[i - 1] = f[i - 1]
        BY <1>8
    <2>2. Turn(s, I, g, i) = Turn(s, I, f, i)
        BY <2>1 DEF Turn
    <2>3. i # x => f[i] = Turn(s, I, f, i)
        BY <1>6, <1>7
    <2> QED
        BY <2>2, <2>3
<1>10. g = [i \in 0..x |-> Turn(s, I, g, i)]
    BY <1>9
<1> QED
    BY <1>2, <1>10

(* Picked is such a function, applied to the whole of s.                   *)
LEMMA PickedTurns ==
    ASSUME NEW s, NEW I, Len(s) \in Nat
    PROVE  \E f : f = [n \in 0..Len(s) |-> Turn(s, I, f, n)] /\ Picked(s, I) = f[Len(s)]
<1> DEFINE f == CHOOSE f : f = [n \in 0..Len(s) |-> Turn(s, I, f, n)]
<1>1. f = [n \in 0..Len(s) |-> Turn(s, I, f, n)]
    BY TurnsExist
<1>2. Picked(s, I) = f[Len(s)]
    BY Zenon DEF Picked, Turn
<1> QED
    BY <1>1, <1>2

\* The list q holds the elements of s at the places in J and no others, each place once.
HoldsPlaces(q, s, J) ==
    /\ \A j \in 1..Len(q) : \E i \in J : q[j] = s[i]
    /\ \A i \in J : \E j \in 1..Len(q) : q[j] = s[i]
    /\ \A j, k \in 1..Len(q) : j # k => \E i, l \in J : i # l /\ q[j] = s[i] /\ q[k] = s[l]

(* Appending the element at one more place.                                *)
LEMMA AppendHolds ==
    ASSUME NEW X, NEW q \in Seq(X), NEW s, NEW J, NEW n, s[n] \in X, n \notin J, HoldsPlaces(q, s, J)
    PROVE  Append(q, s[n]) \in Seq(X) /\ HoldsPlaces(Append(q, s[n]), s, J \cup {n})
<1> DEFINE p == Append(q, s[n])
           K == J \cup {n}
           L == Len(q)
<1>1. p \in Seq(X) /\ L \in Nat /\ Len(p) = L + 1 /\ p[L + 1] = s[n] /\ \A j \in 1..L : p[j] = q[j]
    OBVIOUS
<1>2. \A j \in 1..Len(p) : j \in 1..L \/ j = L + 1
    BY <1>1
<1>3. \A j \in 1..L : j \in 1..Len(p)
    BY <1>1
<1>4. L + 1 \in 1..Len(p)
    BY <1>1
<1> HIDE DEF p, L
<1>5. \A j \in 1..L : \E i \in J : p[j] = s[i]
    BY <1>1 DEF HoldsPlaces, L
<1>6. \A j \in 1..Len(p) : \E i \in K : p[j] = s[i]
    BY <1>1, <1>2, <1>5
<1>7. \A i \in K : \E j \in 1..Len(p) : p[j] = s[i]
    BY <1>1, <1>3, <1>4 DEF HoldsPlaces, L
<1>8. ASSUME NEW j \in 1..Len(p), NEW k \in 1..Len(p), j # k
      PROVE  \E i, l \in K : i # l /\ p[j] = s[i] /\ p[k] = s[l]
    <2>1. CASE j \in 1..L /\ k \in 1..L
        <3>1. PICK i \in J, l \in J : i # l /\ q[j] = s[i] /\ q[k] = s[l]
            BY <1>8, <2>1 DEF HoldsPlaces, L
        <3>2. p[j] = q[j] /\ p[k] = q[k] /\ i \in K /\ l \in K
            BY <1>1, <2>1
        <3> QED
            BY <3>1, <3>2
    <2>2. CASE j \in 1..L /\ k = L + 1
        BY <1>1, <1>5, <2>2
    <2>3. CASE j = L + 1 /\ k \in 1..L
        BY <1>1, <1>5, <2>3
    <2> QED
        BY <1>2, <1>8, <2>1, <2>2, <2>3
<1> QED
    BY <1>1, <1>6, <1>7, <1>8 DEF HoldsPlaces, p

(* Picked(s, I) holds the elements of s at the places in I.                *)
LEMMA PickedHolds ==
    ASSUME NEW X, NEW s \in Seq(X), NEW I \in SUBSET DOMAIN s
    PROVE  Picked(s, I) \in Seq(X) /\ HoldsPlaces(Picked(s, I), s, I)
<1> DEFINE L == Len(s)
<1>1. L \in Nat /\ DOMAIN s = 1..L /\ \A n \in 1..L : s[n] \in X
    OBVIOUS
<1>2. PICK f : f = [n \in 0..L |-> Turn(s, I, f, n)] /\ Picked(s, I) = f[L]
    BY <1>1, PickedTurns
<1> DEFINE J(n) == {i \in I : i <= n}
           Good(n) == f[n] \in Seq(X) /\ HoldsPlaces(f[n], s, J(n))
           T == {n \in 0..L : ~Good(n)}
<1>3. ASSUME T # {} PROVE FALSE
    <2>1. T \in SUBSET Nat
        BY <1>1
    <2>2. PICK x \in T : \A y \in T : x <= y
        BY <1>3, <2>1, LeastOf
    <2>3. x \in 0..L /\ ~Good(x) /\ x \in Nat
        BY <2>1
    <2>4. Good(0)
        <3>1. f[0] = <<>> /\ J(0) = {}
            BY <1>1, <1>2 DEF Turn
        <3> QED
            BY <3>1 DEF HoldsPlaces
    <2> DEFINE y == x - 1
    <2>5. y \in 0..L /\ y \in Nat /\ x = y + 1 /\ x \in 1..L /\ x # 0 /\ ~(x <= y)
        <3> HIDE DEF Good
        <3>1. x # 0
            BY <2>3, <2>4
        <3> HIDE DEF T
        <3> QED
            BY <1>1, <2>3, <3>1
    <2> HIDE DEF y
    <2>6. Good(y)
        BY <2>2, <2>5
    <2>7. \A i \in I : i <= x <=> i <= y \/ i = x
        BY <1>1, <2>5
    <2>8. f[x] = IF x \in I THEN Append(f[y], s[x]) ELSE f[y]
        BY <1>2, <2>3, <2>5 DEF Turn, y
    <2>9. CASE x \in I
        <3>1. J(x) = J(y) \cup {x} /\ x \notin J(y)
            BY <2>5, <2>7, <2>9
        <3> HIDE DEF J
        <3>2. s[x] \in X /\ f[x] = Append(f[y], s[x])
            BY <1>1, <2>5, <2>8, <2>9
        <3>3. f[y] \in Seq(X) /\ HoldsPlaces(f[y], s, J(y))
            BY <2>6
        <3> DEFINE K == J(y)
        <3> HIDE DEF K, T, Good
        <3>4. Append(f[y], s[x]) \in Seq(X) /\ HoldsPlaces(Append(f[y], s[x]), s, K \cup {x})
            BY <3>1, <3>2, <3>3, AppendHolds DEF K
        <3>5. Good(x)
            BY <3>1, <3>2, <3>4 DEF Good, K
        <3> QED
            BY <2>3, <3>5
    <2>10. CASE x \notin I
        <3>1. J(x) = J(y)
            BY <2>7, <2>10
        <3> HIDE DEF J
        <3> QED
            BY <2>3, <2>6, <2>8, <2>10, <3>1
    <2> QED
        BY <2>9, <2>10
<1> HIDE DEF Good
<1>4. Good(L)
    BY <1>1, <1>3
<1>5. J(L) = I
    BY <1>1
<1> HIDE DEF J
<1> QED
    BY <1>2, <1>4, <1>5 DEF Good

(* Keep keeps the elements of S.                                           *)
LEMMA KeepHolds ==
    ASSUME NEW X, NEW s \in Seq(X), NEW S
    PROVE  Keep(s, S) \in Seq(X) /\ ToSet(Keep(s, S)) = ToSet(s) \cap S
<1> DEFINE I == {i \in DOMAIN s : s[i] \in S}
           q == Keep(s, S)
<1>1. q \in Seq(X) /\ HoldsPlaces(q, s, I)
    BY PickedHolds DEF Keep
<1>2. DOMAIN q = 1..Len(q) /\ \A i \in I : i \in DOMAIN s /\ s[i] \in S
    BY <1>1
<1> HIDE DEF q
<1>3. ASSUME NEW x \in ToSet(q) PROVE x \in ToSet(s) \cap S
    BY <1>1, <1>2 DEF HoldsPlaces, ToSet
<1>4. ASSUME NEW x \in ToSet(s) \cap S PROVE x \in ToSet(q)
    <2>1. PICK i \in I : x = s[i]
        BY DEF ToSet
    <2> QED
        BY <1>1, <1>2, <2>1 DEF HoldsPlaces, ToSet
<1> QED
    BY <1>1, <1>3, <1>4 DEF q

(* FirstOccurrences keeps the elements of S, each once.                    *)
LEMMA FirstsHold ==
    ASSUME NEW X, NEW s \in Seq(X), NEW S
    PROVE  LET q == FirstOccurrences(s, S)
           IN  /\ q \in Seq(X) /\ ToSet(q) = ToSet(s) \cap S
               /\ \A j, k \in DOMAIN q : q[j] = q[k] => j = k
<1> DEFINE I == {i \in DOMAIN s : s[i] \in S /\ FirstAt(s, i)}
           q == FirstOccurrences(s, S)
<1>1. q \in Seq(X) /\ HoldsPlaces(q, s, I)
    BY PickedHolds DEF FirstOccurrences
<1>2. DOMAIN q = 1..Len(q) /\ DOMAIN s = 1..Len(s) /\ Len(s) \in Nat
      /\ \A i \in I : i \in DOMAIN s /\ i \in Nat /\ s[i] \in S /\ FirstAt(s, i)
    BY <1>1
<1> HIDE DEF q
<1>3. ASSUME NEW x \in ToSet(q) PROVE x \in ToSet(s) \cap S
    BY <1>1, <1>2 DEF HoldsPlaces, ToSet
<1>4. ASSUME NEW x \in ToSet(s) \cap S PROVE x \in ToSet(q)
    <2> DEFINE T == {i \in DOMAIN s : s[i] = x}
    <2>1. T \in SUBSET Nat /\ T # {}
        BY DEF ToSet
    <2>2. PICK i \in T : \A j \in T : i <= j
        BY <2>1, LeastOf
    <2>3. \A j \in 1..(i - 1) : j \in DOMAIN s /\ ~(i <= j)
        BY <1>2
    <2>4. i \in I
        BY <2>2, <2>3 DEF FirstAt
    <2> QED
        BY <1>1, <1>2, <2>4 DEF HoldsPlaces, ToSet
<1>5. ASSUME NEW i \in I, NEW l \in I, i # l PROVE s[i] # s[l]
    <2>1. i \in 1..(l - 1) \/ l \in 1..(i - 1)
        BY <1>2, <1>5
    <2> QED
        BY <1>2, <2>1 DEF FirstAt
<1>6. ASSUME NEW j \in DOMAIN q, NEW k \in DOMAIN q, j # k PROVE q[j] # q[k]
    BY <1>1, <1>2, <1>5, <1>6 DEF HoldsPlaces
<1> QED
    BY <1>1, <1>3, <1>4, <1>6 DEF q

(* A set of natural numbers that is bounded and not empty has a greatest   *)
(* element.                                                                *)
LEMMA GreatestOf ==
    ASSUME NEW L \in Nat, NEW T \in SUBSET (1..L), T # {}
    PROVE  \E x \in T : \A y \in T : x >= y
<1> DEFINE U == {L - x : x \in T}
<1>1. U \in SUBSET Nat /\ U # {}
    <2>1. \A x \in T : L - x \in Nat
        OBVIOUS
    <2> QED
        BY <2>1
<1>2. PICK u \in U : \A v \in U : u <= v
    BY <1>1, LeastOf
<1>3. PICK x \in T : u = L - x
    OBVIOUS
<1>4. ASSUME NEW y \in T PROVE x >= y
    <2>1. L - x <= L - y
        BY <1>2, <1>3
    <2>2. x \in Nat /\ y \in Nat
        OBVIOUS
    <2> QED
        BY <2>1, <2>2
<1> QED
    BY <1>4

(* The first place of an element, if it is there.                          *)
LEMMA PlaceOf ==
    ASSUME NEW X, NEW s \in Seq(X), NEW x
    PROVE  LET k == SelectInSeq(s, LAMBDA y : y = x)
           IN  x \in ToSet(s) => k \in DOMAIN s /\ s[k] = x
<1> SUFFICES ASSUME x \in ToSet(s)
             PROVE  SelectInSeq(s, LAMBDA y : y = x) \in DOMAIN s
                    /\ s[SelectInSeq(s, LAMBDA y : y = x)] = x
    OBVIOUS
<1> DEFINE T == {i \in 1..Len(s) : s[i] = x}
<1>1. T \in SUBSET Nat /\ T # {}
    BY DEF ToSet
<1>2. \E i \in T : \A j \in T : i =< j
    BY <1>1, LeastOf
<1>3. Min(T) \in T
    BY <1>2 DEF Min
<1>4. SelectInSeq(s, LAMBDA y : y = x) = Min(T)
    BY <1>1 DEF SelectInSeq
<1> QED
    BY <1>3, <1>4

(* The first probe for an object, if there is one.                         *)
LEMMA FirstProbe ==
    ASSUME NEW X, NEW s \in Seq(X), NEW o
    PROVE  LET k == SelectInSeq(s, LAMBDA p : p.oid = o)
           IN  IF k = 0 THEN \A i \in DOMAIN s : s[i].oid # o
                        ELSE /\ k \in DOMAIN s /\ s[k].oid = o
                             /\ \A i \in 1..(k - 1) : s[i].oid # o
<1> DEFINE T == {i \in 1..Len(s) : s[i].oid = o}
           k == SelectInSeq(s, LAMBDA p : p.oid = o)
<1>1. k = IF T # {} THEN Min(T) ELSE 0
    BY DEF SelectInSeq
<1>2. CASE T = {}
    <2>1. k = 0 /\ \A i \in 1..Len(s) : s[i].oid # o
        BY <1>1, <1>2
    <2> HIDE DEF k
    <2> QED
        BY <2>1 DEF k
<1>3. CASE T # {}
    <2>1. T \in SUBSET Nat
        OBVIOUS
    <2>2. \E i \in T : \A j \in T : i =< j
        BY <1>3, <2>1, LeastOf
    <2>3. Min(T) \in T /\ \A j \in T : Min(T) =< j
        BY <2>2 DEF Min
    <2>4. k \in T /\ \A j \in T : k =< j
        BY <1>1, <1>3, <2>3
    <2> HIDE DEF k
    <2>5. k # 0 /\ k \in DOMAIN s /\ s[k].oid = o
        BY <2>4
    <2>6. \A i \in 1..(k - 1) : i \in 1..Len(s) /\ ~(k =< i)
        BY <2>4
    <2>7. \A i \in 1..(k - 1) : s[i].oid # o
        BY <2>4, <2>6
    <2> QED
        BY <2>5, <2>7 DEF k
<1> QED
    BY <1>2, <1>3

(* The last probe for an object, if there is one.                          *)
LEMMA LastProbe ==
    ASSUME NEW X, NEW s \in Seq(X), NEW o
    PROVE  LET k == SelectLastInSeq(s, LAMBDA p : p.oid = o)
           IN  IF k = 0 THEN \A i \in DOMAIN s : s[i].oid # o
                        ELSE k \in DOMAIN s /\ s[k].oid = o
<1> DEFINE T == {i \in 1..Len(s) : s[i].oid = o}
           k == SelectLastInSeq(s, LAMBDA p : p.oid = o)
<1>1. k = IF T # {} THEN Max(T) ELSE 0
    BY DEF SelectLastInSeq
<1>2. CASE T = {}
    <2>1. k = 0 /\ \A i \in 1..Len(s) : s[i].oid # o
        BY <1>1, <1>2
    <2> HIDE DEF k
    <2> QED
        BY <2>1 DEF k
<1>3. CASE T # {}
    <2>0. Len(s) \in Nat /\ T \in SUBSET (1..Len(s))
        OBVIOUS
    <2> HIDE DEF T
    <2>1. \E i \in T : \A j \in T : i >= j
        BY <1>3, <2>0, GreatestOf
    <2>2. Max(T) \in T
        BY <2>1 DEF Max
    <2>3. k \in T
        BY <1>1, <1>3, <2>2
    <2> HIDE DEF k
    <2>4. k # 0 /\ k \in DOMAIN s /\ s[k].oid = o
        BY <2>3 DEF T
    <2> QED
        BY <2>4 DEF k
<1> QED
    BY <1>2, <1>3

(* A reply that lists a finite set in any order lists all of it.           *)
LEMMA RepliesAreComplete ==
    ASSUME NEW S, IsFiniteSet(S), NEW r \in SetToSeqs(S)
    PROVE  r \in Seq(S) /\ ToSet(r) = S
<1> DEFINE D == 1..Cardinality(S)
<1>1. Cardinality(S) \in Nat
    BY FS_CardinalityType
<1>2. r \in [D -> S] /\ \A i, j \in D : i # j => r[i] # r[j]
    BY DEF SetToSeqs
<1>3. IsFiniteSet(D) /\ Cardinality(D) = Cardinality(S)
    BY <1>1, FS_Interval
<1> HIDE DEF D
<1>4. r \in Injection(D, S)
    BY <1>2 DEF Injection, IsInjective
<1>5. r \in Surjection(D, S)
    BY <1>3, <1>4, FS_Injection
<1>6. ToSet(r) = S
    BY <1>2, <1>5 DEF Surjection, ToSet
<1> QED
    BY <1>1, <1>2, <1>6 DEF D

(* The elements of a sequence are finitely many.                           *)
LEMMA ElementsFinite ==
    ASSUME NEW X, NEW s \in Seq(X)
    PROVE  IsFiniteSet(ToSet(s))
<1> DEFINE D == 1..Len(s)
<1>1. IsFiniteSet(D) /\ DOMAIN s = D
    BY FS_Interval
<1>2. s \in Surjection(D, ToSet(s))
    BY <1>1 DEF Surjection, ToSet
<1> QED
    BY <1>1, <1>2, FS_Surjection

-----------------------------------------------------------------------------
(* The inductive invariant.                                                *)

Blobs == {o \in Oids : Kind[o] = "blob"}
TreeOids == {o \in Oids : Kind[o] = "tree"}

SomeHeader == {NoHeader} \cup {Header(o) : o \in Oids}
Probes == [oid : Oids, res : Outcomes, header : SomeHeader]
Jobs == [call : {"none", "fetch", "headers", "bytes"}, oids : Seq(Oids), todo : Seq(Oids),
         probes : Seq(Probes)]
Tasks == [kind : {"Headers", "Blobs"}, oids : Seq(Blobs)]
Places == {"start", "read", "reading", "done"}

Types ==
    /\ backend \in Backends
    /\ faults \in Nat
    /\ visible \subseteq Oids
    /\ DOMAIN headers \subseteq Oids
    /\ Single!TypeOK
    /\ DOMAIN stage = Actors
    /\ job \in [Actors -> Jobs]
    /\ returned \in [Actors -> [call : {"none", "headers", "bytes"}, probes : Seq(Probes)]]
    /\ posting \in [Readers -> Seq(Tasks)]
    /\ queue \in Seq(Tasks)
    /\ task \in Tasks \cup {NoTask, [NoTask EXCEPT !.kind = "exited"]}
    /\ walk \in [at : Places, frontier : Seq(TreeOids), next : Seq(TreeOids),
                 visited : SUBSET TreeOids, warmed : Nat, errors : Nat]

\* Without a fault, gix sees what is on disk, and only a broken GVFS response leaves a cut object.
SeenInv ==
    /\ faults = 0 => \A o \in Oids : disk[o] = "whole" => o \in visible
    /\ \A o \in Oids : disk[o] \in Cut => backend = "gvfs" /\ faults > 0

\* The flights of the coalescer and the calls attached to them.
Leads(a) == phase[a] = "leader"
Waits(a) == phase[a] = "follower"

CallsCounted == \A a \in Actors : phase[a] # "idle" => calls[a] >= 1

\* A leader flies its own flight, which is the open one of its object.
LeaderOwns ==
    \A a \in Actors : Leads(a) =>
        flight[a] = <<a, calls[a]>> /\ flight[a] \in Single!Flights /\ open[key[a]] = flight[a]

OpenHasLeader ==
    \A k \in Oids : open[k] # NoFlight =>
        \E a \in Actors : Leads(a) /\ key[a] = k /\ flight[a] = open[k]

\* While a follower waits, there is a leader that will answer it, about the same object.
FollowerHasLeader ==
    \A a \in Actors : Waits(a) =>
        /\ flight[a] \in Single!Flights
        /\ outcome[flight[a]] = Pending =>
              \E l \in Actors : Leads(l) /\ flight[l] = flight[a] /\ key[l] = key[a]

\* A flight that has not been opened has no outcome.
FreshPending ==
    \A a \in Actors : \A n \in 1..MaxCalls :
        n > calls[a] \/ (n = calls[a] /\ phase[a] = "called") => outcome[<<a, n>>] = Pending

FlightInv ==
    /\ CallsCounted
    /\ LeaderOwns
    /\ OpenHasLeader
    /\ FollowerHasLeader
    /\ FreshPending

\* The answer res of a coalescing fetcher b about o is honest when the store finds the objects V
\* and f faults have happened.
Honest(res, o, b, V, f) ==
    /\ res = "Ok" => o \in V
    /\ res \in Errors /\ o \in Upstream => f > 0
    /\ b = "gvfs" /\ res \in Errors =>
         /\ res = "Refused" => o \notin Upstream
         /\ o \notin Upstream /\ f = 0 => res = "Refused"

OutcomeInv ==
    \A a \in Actors : (Leads(a) \/ Waits(a)) /\ outcome[flight[a]] # Pending =>
        Honest(outcome[flight[a]], key[a], backend, visible, faults)

\* What the place of a leader in raw_fetch says of its object.
StageInv ==
    \A a \in Actors : Leads(a) =>
        /\ stage[a] \in {"start", "body", "tmp", "landed"}
        /\ stage[a] # "start" => key[a] \in Upstream
        /\ stage[a] \in {"body", "tmp"} => backend = "gvfs"
        /\ stage[a] = "landed" => disk[key[a]] # "absent"

\* Who is in the coalescer is there for the next object of its job.
PhaseInv ==
    \A a \in Actors : phase[a] # "idle" =>
        /\ backend \in {"gix", "gvfs"}
        /\ ~Batched(a)
        /\ job[a].todo # <<>>
        /\ key[a] = Head(job[a].todo)

\* What a probe says is true of the disk D; only a call for headers is content with a header.
\* C is what the daemon skipped.
ProbeTrue(p, call, D, C) ==
    /\ p.header \in {NoHeader, Header(p.oid)}
    /\ p.res \notin Errors =>
         \/ D[p.oid] = "whole"
         \/ call = "headers" /\ p.header # NoHeader
         \/ p.res = "Present" /\ p.oid \in C

\* The answer of a fetcher to the request for one object.
FetchHonest(p, o, b, V, f) ==
    /\ p.oid = o
    /\ p.res \notin Errors => o \in V \/ (b = "daemon" /\ f > 0)
    /\ p.res \in Errors /\ o \in Upstream => b = "noop" \/ f > 0
    /\ b = "gvfs" /\ p.res \in Errors =>
         /\ p.res = "Refused" => o \notin Upstream
         /\ o \notin Upstream /\ f = 0 => p.res = "Refused"

\* A call for one object has asked for it or has its answer.
OneFetch(j, b, V, f) ==
    \E o \in Oids :
        /\ j.oids = <<o>>
        /\ \/ j.todo = <<o>> /\ j.probes = <<>>
           \/ j.todo = <<>> /\ Len(j.probes) = 1 /\ FetchHonest(j.probes[1], o, b, V, f)

\* Every object of a call is there already, still to come, or answered.
Accounted(j, V, H) ==
    \A o \in ToSet(j.oids) :
        \/ o \in V
        \/ j.call = "headers" /\ o \in H
        \/ o \in ToSet(j.todo)
        \/ \E p \in ToSet(j.probes) : p.oid = o

JobAt(j, b, D, V, H, f, C) ==
    /\ j.call = "none" => j = NoJob
    /\ j.call = "fetch" => OneFetch(j, b, V, f)
    /\ j.call = "headers" => j.todo \in Seq(Blobs)
    /\ \A p \in ToSet(j.probes) : ProbeTrue(p, j.call, D, C)
    /\ Accounted(j, V, H)

JobInv == \A a \in Actors : JobAt(job[a], backend, disk, visible, DOMAIN headers, faults, claimed)

\* A request that carries the whole call is made once.
BatchFresh == \A a \in Actors : Batched(a) /\ job[a].todo # <<>> => job[a].probes = <<>>

\* Who makes which calls, and what for.
CallsInv ==
    /\ \A r \in Readers :
         /\ job[r].call \in {"none", "fetch"}
         /\ job[r].call = "fetch" => job[r].oids = <<asked[r][2]>>
    /\ job[Worker].call \in {"none", "headers", "bytes"}
    /\ job[Worker].call = "headers" => task.kind = "Headers"
    /\ job[Warmer].call \in {"none", "fetch", "bytes"}
    /\ job[Warmer].call = "bytes" => walk.at = "read"
    /\ job[Warmer].call = "fetch" =>
         walk.at = "reading" /\ walk.frontier # <<>> /\ job[Warmer].oids = <<Head(walk.frontier)>>

\* Only what somebody wants, or is within the cap, is fetched for its bytes.
Big(o) == Kind[o] = "blob" /\ Size[o] > Cap

WantInv ==
    /\ \A r \in Readers : job[r].call = "fetch" => asked[r][2] \in wanted
    /\ \A a \in Actors : job[a].call \in {"fetch", "bytes"} =>
         \A o \in ToSet(job[a].todo) : Big(o) => o \in wanted
    /\ backend = "gvfs" => \A o \in Oids : disk[o] # "absent" /\ Big(o) => o \in wanted

\* The header of o can be had, or the daemon has skipped o.
Known(o) == Resolves(o) \/ o \in claimed

\* Nothing has happened that would excuse a blob left out.
NoExcuse == backend # "noop" /\ faults = 0 /\ "Headers" \notin lost

\* The worker is about to know the header of o: it has it, or is at the task that gets it.
Soon(o) ==
    \/ Known(o)
    \/ task.kind = "Headers" /\ o \in ToSet(task.oids)
    \/ job[Worker].call = "headers" /\ o \in ToSet(job[Worker].oids)

\* Or a task among the first n of the channel gets it.
SoonAfter(o, n) ==
    Soon(o) \/ \E i \in 1..n : queue[i].kind = "Headers" /\ o \in ToSet(queue[i].oids)

\* The headers a call for headers will have got when it returns.
HeadersCome ==
    job[Worker].call = "headers" /\ NoExcuse =>
        \A o \in ToSet(job[Worker].oids) \cap Upstream :
            \/ Known(o)
            \/ o \in ToSet(job[Worker].todo)
            \/ \E p \in ToSet(job[Worker].probes) : p.oid = o /\ p.res \notin Errors

\* What a reader is still to post: the headers of a directory, then its blobs.
PostingInv ==
    \A r \in Readers :
        /\ Len(posting[r]) <= 2
        /\ Len(posting[r]) = 2 =>
              posting[r][1].kind = "Headers" /\ posting[r][2].oids = posting[r][1].oids

QueueInv ==
    /\ Len(queue) <= Capacity
    /\ HeadersCome
    /\ NoExcuse =>
         /\ task.kind = "Blobs" => \A o \in ToSet(task.oids) \cap Upstream : Known(o)
         /\ \A n \in 1..Len(queue) : queue[n].kind = "Blobs" =>
               \A o \in ToSet(queue[n].oids) \cap Upstream : SoonAfter(o, n - 1)
         /\ \A r \in Readers : Len(posting[r]) = 1 /\ posting[r][1].kind = "Blobs" =>
               \A o \in ToSet(posting[r][1].oids) \cap Upstream : SoonAfter(o, Len(queue))
         /\ \A o \in skipped \cap Upstream : Size[o] > Cap \/ o \in claimed

\* The trees the warmer has still to read: each is there once.
Ahead == walk.frontier \o walk.next

WalkInv ==
    /\ IsFiniteSet(walk.visited)
    /\ ToSet(Ahead) \subseteq walk.visited
    /\ \A i, k \in DOMAIN Ahead : Ahead[i] = Ahead[k] => i = k
    /\ Cardinality(walk.visited) = walk.warmed + walk.errors + Len(Ahead)
    /\ walk.at = "start" => walk.visited = {}
    /\ walk.at = "done" => Ahead = <<>>
    /\ walk.errors > 0 => backend = "noop" \/ faults > 0 \/ ~(walk.visited \subseteq Upstream)
    /\ walk.errors = 0 => \A t \in walk.visited \ ToSet(Ahead) :
         disk[t] = "whole" /\ ToSet(Subtrees[t]) \subseteq walk.visited

StoreInv ==
    /\ Types
    /\ SeenInv
    /\ FlightInv
    /\ OutcomeInv
    /\ StageInv
    /\ PhaseInv
    /\ JobInv
    /\ BatchFresh
    /\ CallsInv
    /\ FailuresHaveCauses
    /\ HeadersTrue
    /\ FirstProbeHonest
    /\ WantInv
    /\ PostingInv
    /\ QueueInv
    /\ WalkInv

-----------------------------------------------------------------------------
(* The coalescer's flights, as in GitCliFetcherProofs.                     *)

LEMMA FlightNames ==
    /\ NoFlight \notin Single!Flights
    /\ \A t \in Actors : \A n \in 1..MaxCalls : <<t, n>> \in Single!Flights
    /\ Pending \notin {"Ok"} \cup Errors
    /\ MaxCalls \in Nat
    BY NullAssumption, HydrateAssumption DEF Single!Flights

LEMMA CallKeeps ==
    ASSUME Single!TypeOK, FlightInv, NEW t \in Actors, NEW k \in Oids, Single!Call(t, k)
    PROVE  Single!TypeOK' /\ FlightInv'
<1> USE FlightNames DEF Single!TypeOK, FlightInv
<1>1. /\ phase[t] = "idle" /\ calls[t] \in Nat /\ calls[t] < MaxCalls
      /\ phase' = [phase EXCEPT ![t] = "called"] /\ key' = [key EXCEPT ![t] = k]
      /\ calls' = [calls EXCEPT ![t] = @ + 1]
      /\ open' = open /\ outcome' = outcome /\ flight' = flight
    BY DEF Single!Call
<1>2. Single!TypeOK'
    BY <1>1
<1>3. \A u \in Actors \ {t} : phase'[u] = phase[u] /\ key'[u] = key[u] /\ calls'[u] = calls[u]
    BY <1>1
<1>4. phase'[t] = "called" /\ calls'[t] = calls[t] + 1
    BY <1>1
<1>5. CallsCounted'
    BY <1>1, <1>3, <1>4 DEF CallsCounted
<1>6. LeaderOwns' /\ OpenHasLeader'
    BY <1>1, <1>3, <1>4 DEF LeaderOwns, OpenHasLeader, Leads
<1>7. FollowerHasLeader'
    BY <1>1, <1>3, <1>4 DEF FollowerHasLeader, Leads, Waits
<1>8. FreshPending'
    <2> SUFFICES ASSUME NEW u \in Actors, NEW n \in 1..MaxCalls,
                        n > calls'[u] \/ (n = calls'[u] /\ phase'[u] = "called")
                 PROVE  outcome[<<u, n>>] = Pending
        BY <1>1 DEF FreshPending
    <2>1. CASE u = t
        <3>1. n > calls[t]
            BY <1>1, <1>4, <2>1
        <3> QED
            BY <2>1, <3>1 DEF FreshPending
    <2>2. CASE u # t
        BY <1>3, <2>2 DEF FreshPending
    <2> QED
        BY <2>1, <2>2
<1> QED
    BY <1>2, <1>5, <1>6, <1>7, <1>8

LEMMA OpenKeeps ==
    ASSUME Single!TypeOK, FlightInv, NEW t \in Actors, Single!Open(t)
    PROVE  Single!TypeOK' /\ FlightInv' /\ flight'[t] \in Single!Flights /\ outcome[flight'[t]] = Pending
<1> USE FlightNames DEF Single!TypeOK, FlightInv
<1> DEFINE f == <<t, calls[t]>>
<1>1. /\ phase[t] = "called" /\ open[key[t]] = NoFlight /\ key[t] \in Oids
      /\ open' = [open EXCEPT ![key[t]] = f] /\ flight' = [flight EXCEPT ![t] = f]
      /\ phase' = [phase EXCEPT ![t] = "leader"]
      /\ outcome' = outcome /\ key' = key /\ calls' = calls
    BY DEF Single!Open
<1>2. calls[t] \in 1..MaxCalls
    BY <1>1 DEF CallsCounted
<1>3. f \in Single!Flights /\ f # NoFlight /\ outcome[f] = Pending
    BY <1>1, <1>2 DEF FreshPending
<1>4. flight'[t] = f /\ phase'[t] = "leader" /\ open'[key[t]] = f
    BY <1>1
<1>5. \A u \in Actors \ {t} : phase'[u] = phase[u] /\ flight'[u] = flight[u]
    BY <1>1
<1>6. \A k \in Oids \ {key[t]} : open'[k] = open[k]
    BY <1>1
<1>7. Single!TypeOK'
    BY <1>1, <1>3
<1>8. LeaderOwns'
    <2> SUFFICES ASSUME NEW u \in Actors, phase'[u] = "leader"
                 PROVE  flight'[u] = <<u, calls[u]>> /\ flight'[u] \in Single!Flights /\ open'[key[u]] = flight'[u]
        BY <1>1 DEF LeaderOwns, Leads
    <2>1. CASE u = t
        BY <1>3, <1>4, <2>1
    <2>2. CASE u # t
        <3>1. flight'[u] = flight[u] /\ flight[u] = <<u, calls[u]>> /\ flight[u] \in Single!Flights
              /\ open[key[u]] = flight[u]
            BY <1>5, <2>2 DEF LeaderOwns, Leads
        <3>2. key[u] \in Oids \ {key[t]}
            BY <1>1, <3>1
        <3> QED
            BY <1>6, <3>1, <3>2
    <2> QED
        BY <2>1, <2>2
<1>9. OpenHasLeader'
    <2> SUFFICES ASSUME NEW k \in Oids, open'[k] # NoFlight
                 PROVE  \E u \in Actors : phase'[u] = "leader" /\ key[u] = k /\ flight'[u] = open'[k]
        BY <1>1 DEF OpenHasLeader, Leads
    <2>1. CASE k = key[t]
        BY <1>4, <2>1
    <2>2. CASE k # key[t]
        <3>1. PICK u \in Actors : phase[u] = "leader" /\ key[u] = k /\ flight[u] = open[k]
            BY <1>6, <2>2 DEF OpenHasLeader, Leads
        <3> QED
            BY <1>1, <1>5, <1>6, <2>2, <3>1
    <2> QED
        BY <2>1, <2>2
<1>10. FollowerHasLeader'
    <2> SUFFICES ASSUME NEW u \in Actors, phase'[u] = "follower"
                 PROVE  /\ flight'[u] \in Single!Flights
                        /\ outcome[flight'[u]] = Pending =>
                             \E l \in Actors : phase'[l] = "leader" /\ flight'[l] = flight'[u] /\ key[l] = key[u]
        BY <1>1 DEF FollowerHasLeader, Leads, Waits
    <2>1. u # t /\ phase[u] = "follower" /\ flight'[u] = flight[u]
        BY <1>4, <1>5
    <2>2. flight[u] \in Single!Flights
        BY <2>1 DEF FollowerHasLeader, Waits
    <2>3. ASSUME outcome[flight[u]] = Pending
          PROVE  \E l \in Actors : phase'[l] = "leader" /\ flight'[l] = flight[u] /\ key[l] = key[u]
        <3>1. PICK l \in Actors : phase[l] = "leader" /\ flight[l] = flight[u] /\ key[l] = key[u]
            BY <2>1, <2>3 DEF FollowerHasLeader, Leads, Waits
        <3> QED
            BY <1>1, <1>5, <3>1
    <2> QED
        BY <2>1, <2>2, <2>3
<1>11. CallsCounted' /\ FreshPending'
    BY <1>1, <1>2, <1>4, <1>5 DEF CallsCounted, FreshPending
<1> QED
    BY <1>3, <1>4, <1>7, <1>8, <1>9, <1>10, <1>11

LEMMA AttachKeeps ==
    ASSUME Single!TypeOK, FlightInv, NEW t \in Actors, Single!Attach(t)
    PROVE  /\ Single!TypeOK' /\ FlightInv'
           /\ \E l \in Actors : Leads(l) /\ flight[l] = flight'[t] /\ key[l] = key[t]
<1> USE FlightNames DEF Single!TypeOK, FlightInv
<1>1. /\ phase[t] = "called" /\ open[key[t]] # NoFlight /\ key[t] \in Oids
      /\ flight' = [flight EXCEPT ![t] = open[key[t]]]
      /\ phase' = [phase EXCEPT ![t] = "follower"]
      /\ open' = open /\ outcome' = outcome /\ key' = key /\ calls' = calls
    BY DEF Single!Attach
<1>2. PICK l \in Actors : phase[l] = "leader" /\ key[l] = key[t] /\ flight[l] = open[key[t]]
    BY <1>1 DEF OpenHasLeader, Leads
<1>3. flight'[t] = open[key[t]] /\ phase'[t] = "follower" /\ open[key[t]] \in Single!Flights
    BY <1>1
<1>4. \A u \in Actors \ {t} : phase'[u] = phase[u] /\ flight'[u] = flight[u]
    BY <1>1
<1>5. Single!TypeOK'
    BY <1>1, <1>3
<1>6. LeaderOwns' /\ OpenHasLeader'
    BY <1>1, <1>3, <1>4 DEF LeaderOwns, OpenHasLeader, Leads
<1>7. FollowerHasLeader'
    <2> SUFFICES ASSUME NEW u \in Actors, phase'[u] = "follower"
                 PROVE  /\ flight'[u] \in Single!Flights
                        /\ outcome[flight'[u]] = Pending =>
                             \E m \in Actors : phase'[m] = "leader" /\ flight'[m] = flight'[u] /\ key[m] = key[u]
        BY <1>1 DEF FollowerHasLeader, Leads, Waits
    <2>1. CASE u = t
        BY <1>1, <1>2, <1>3, <1>4, <2>1
    <2>2. CASE u # t
        <3>1. phase[u] = "follower" /\ flight'[u] = flight[u] /\ flight[u] \in Single!Flights
            BY <1>4, <2>2 DEF FollowerHasLeader, Waits
        <3>2. ASSUME outcome[flight[u]] = Pending
              PROVE  \E m \in Actors : phase'[m] = "leader" /\ flight'[m] = flight[u] /\ key[m] = key[u]
            <4>1. PICK m \in Actors : phase[m] = "leader" /\ flight[m] = flight[u] /\ key[m] = key[u]
                BY <3>1, <3>2 DEF FollowerHasLeader, Leads, Waits
            <4> QED
                BY <1>1, <1>4, <4>1
        <3> QED
            BY <3>1, <3>2
    <2> QED
        BY <2>1, <2>2
<1>8. CallsCounted' /\ FreshPending'
    BY <1>1, <1>3, <1>4 DEF CallsCounted, FreshPending
<1> QED
    BY <1>2, <1>3, <1>5, <1>6, <1>7, <1>8 DEF Leads

(* The calls on an unsettled flight are all about its leader's object.     *)
LEMMA OneObject ==
    ASSUME FlightInv, NEW t \in Actors, Leads(t), outcome[flight[t]] = Pending,
           NEW u \in Actors, Leads(u) \/ Waits(u), flight[u] = flight[t]
    PROVE  key[u] = key[t]
<1> USE DEF FlightInv
<1>1. \A l \in Actors : Leads(l) /\ flight[l] = flight[t] => l = t
    BY DEF LeaderOwns
<1>2. CASE Leads(u)
    BY <1>1, <1>2
<1>3. CASE Waits(u)
    <2>1. PICK l \in Actors : Leads(l) /\ flight[l] = flight[u] /\ key[l] = key[u]
        BY <1>3 DEF FollowerHasLeader
    <2> QED
        BY <1>1, <2>1
<1> QED
    BY <1>2, <1>3

LEMMA SettleKeeps ==
    ASSUME Single!TypeOK, FlightInv, NEW t \in Actors, NEW r \in {"Ok"} \cup Errors,
           Single!Settle(t, r)
    PROVE  Single!TypeOK' /\ FlightInv'
<1> USE FlightNames DEF Single!TypeOK, FlightInv
<1>1. /\ phase[t] = "leader" /\ outcome[flight[t]] = Pending
      /\ outcome' = [outcome EXCEPT ![flight[t]] = r]
      /\ open' = open /\ phase' = phase /\ key' = key /\ flight' = flight /\ calls' = calls
    BY DEF Single!Settle
<1>2. flight[t] = <<t, calls[t]>> /\ flight[t] \in Single!Flights
    BY <1>1 DEF LeaderOwns, Leads
<1>3. outcome'[flight[t]] = r /\ \A f \in Single!Flights \ {flight[t]} : outcome'[f] = outcome[f]
    BY <1>1, <1>2
<1>4. Single!TypeOK'
    BY <1>1, <1>2
<1>5. CallsCounted' /\ LeaderOwns' /\ OpenHasLeader'
    BY <1>1 DEF CallsCounted, LeaderOwns, OpenHasLeader, Leads
<1>6. FollowerHasLeader'
    <2> SUFFICES ASSUME NEW u \in Actors, Waits(u)
                 PROVE  /\ flight[u] \in Single!Flights
                        /\ outcome'[flight[u]] = Pending =>
                             \E l \in Actors : Leads(l) /\ flight[l] = flight[u] /\ key[l] = key[u]
        BY <1>1 DEF FollowerHasLeader, Leads, Waits
    <2>1. flight[u] \in Single!Flights
        BY DEF FollowerHasLeader
    <2>2. ASSUME outcome'[flight[u]] = Pending PROVE outcome[flight[u]] = Pending
        BY <1>3, <2>1, <2>2
    <2> QED
        BY <2>1, <2>2 DEF FollowerHasLeader
<1>7. FreshPending'
    <2> SUFFICES ASSUME NEW u \in Actors, NEW n \in 1..MaxCalls,
                        n > calls[u] \/ (n = calls[u] /\ phase[u] = "called")
                 PROVE  outcome'[<<u, n>>] = Pending
        BY <1>1 DEF FreshPending
    <2>1. outcome[<<u, n>>] = Pending /\ <<u, n>> \in Single!Flights
        BY DEF FreshPending
    <2>2. <<u, n>> # flight[t]
        <3>1. calls[t] \in Nat /\ ~(calls[t] > calls[t])
            OBVIOUS
        <3> QED
            BY <1>1, <1>2, <3>1
    <2> QED
        BY <1>3, <2>1, <2>2
<1> QED
    BY <1>4, <1>5, <1>6, <1>7

LEMMA LeaveKeeps ==
    ASSUME Single!TypeOK, FlightInv, NEW t \in Actors, Single!Close(t) \/ Single!Return(t)
    PROVE  Single!TypeOK' /\ FlightInv'
<1> USE FlightNames DEF Single!TypeOK, FlightInv
<1>1. /\ phase' = [phase EXCEPT ![t] = "idle"] /\ outcome[flight[t]] # Pending
      /\ outcome' = outcome /\ key' = key /\ flight' = flight /\ calls' = calls
    BY DEF Single!Close, Single!Return
<1>2. phase'[t] = "idle" /\ \A u \in Actors \ {t} : phase'[u] = phase[u]
    BY <1>1
<1>3. \/ phase[t] = "leader" /\ open' = [open EXCEPT ![key[t]] = NoFlight]
      \/ phase[t] # "leader" /\ open' = open
    BY DEF Single!Close, Single!Return
<1>4. Single!TypeOK'
    BY <1>1, <1>3
<1>5. CallsCounted' /\ FreshPending'
    BY <1>1, <1>2 DEF CallsCounted, FreshPending
<1>6. FollowerHasLeader'
    <2> SUFFICES ASSUME NEW u \in Actors, phase[u] = "follower", u # t
                 PROVE  /\ flight[u] \in Single!Flights
                        /\ outcome[flight[u]] = Pending =>
                             \E l \in Actors : phase'[l] = "leader" /\ flight[l] = flight[u] /\ key[l] = key[u]
        BY <1>1, <1>2 DEF FollowerHasLeader, Leads, Waits
    <2>1. flight[u] \in Single!Flights
        BY DEF FollowerHasLeader, Waits
    <2>2. ASSUME outcome[flight[u]] = Pending
          PROVE  \E l \in Actors : phase'[l] = "leader" /\ flight[l] = flight[u] /\ key[l] = key[u]
        <3>1. PICK l \in Actors : phase[l] = "leader" /\ flight[l] = flight[u] /\ key[l] = key[u]
            BY <2>2 DEF FollowerHasLeader, Leads, Waits
        <3>2. l # t
            BY <1>1, <2>2, <3>1
        <3> QED
            BY <1>2, <3>1, <3>2
    <2> QED
        BY <2>1, <2>2
<1>7. LeaderOwns'
    <2> SUFFICES ASSUME NEW u \in Actors, phase[u] = "leader", u # t
                 PROVE  flight[u] = <<u, calls[u]>> /\ flight[u] \in Single!Flights /\ open'[key[u]] = flight[u]
        BY <1>1, <1>2 DEF LeaderOwns, Leads
    <2>1. flight[u] = <<u, calls[u]>> /\ flight[u] \in Single!Flights /\ open[key[u]] = flight[u]
        BY DEF LeaderOwns, Leads
    <2>2. phase[t] = "leader" => key[u] # key[t]
        BY <2>1 DEF LeaderOwns, Leads
    <2> QED
        BY <1>3, <2>1, <2>2
<1>8. OpenHasLeader'
    <2> SUFFICES ASSUME NEW k \in Oids, open'[k] # NoFlight
                 PROVE  \E u \in Actors : phase'[u] = "leader" /\ key[u] = k /\ flight[u] = open'[k]
        BY <1>1 DEF OpenHasLeader, Leads
    <2>1. open'[k] = open[k] /\ (phase[t] = "leader" => k # key[t])
        BY <1>3
    <2>2. PICK u \in Actors : phase[u] = "leader" /\ key[u] = k /\ flight[u] = open[k]
        BY <2>1 DEF OpenHasLeader, Leads
    <2>3. u # t
        BY <2>1, <2>2
    <2> QED
        BY <1>2, <2>1, <2>2, <2>3
<1> QED
    BY <1>4, <1>5, <1>6, <1>7, <1>8

-----------------------------------------------------------------------------
(* No step but a crash takes anything back.                                *)

Grown ==
    /\ backend' = backend /\ cast' = cast
    /\ faults' \in Nat /\ faults <= faults'
    /\ visible \subseteq visible' /\ visible' \subseteq Oids
    /\ \A o \in Oids : disk[o] = "whole" => disk'[o] = "whole"
    /\ \A o \in Oids : disk[o] # "absent" => disk'[o] # "absent"
    /\ \A o \in Oids : HeaderHere(o) => HeaderHere(o)'
    /\ claimed \subseteq claimed'
    /\ DOMAIN headers \subseteq DOMAIN headers' /\ DOMAIN headers' \subseteq Oids
    /\ wanted \subseteq wanted'
    /\ lost \subseteq lost'

\* What a step does to the disk and to what the store finds of it.
DiskGrown ==
    /\ faults' \in Nat /\ faults <= faults'
    /\ visible \subseteq visible' /\ visible' \subseteq Oids
    /\ \A o \in Oids : disk[o] = "whole" => disk'[o] = "whole"
    /\ \A o \in Oids : disk[o] # "absent" => disk'[o] # "absent"
    /\ \A o \in Oids : HeaderHere(o) => HeaderHere(o)'
    /\ claimed \subseteq claimed'
    /\ SeenInv'

StoreBasics == HydrateInv /\ Types /\ SeenInv

LEMMA FaultGrows == faults \in Nat /\ Fault => faults' \in Nat /\ faults <= faults' /\ faults' > 0
    BY DEF Fault

\* Nothing is cut over the other backends.
LEMMA NothingCut ==
    ASSUME StoreBasics, backend # "gvfs" \/ faults = 0
    PROVE  \A o \in Oids : disk[o] \notin Cut /\ disk[o] # "partial"
<1>1. \A o \in Oids : disk[o] \notin Cut
    BY DEF StoreBasics, SeenInv, Types
<1> QED
    BY <1>1 DEF Cut

LEMMA DiskKept ==
    ASSUME StoreBasics, UNCHANGED <<backend, disk, visible>>, UNCHANGED faults \/ Fault,
           claimed \subseteq claimed'
    PROVE  DiskGrown
<1>1. faults' \in Nat /\ faults <= faults'
    BY FaultGrows DEF StoreBasics, Types
<1>2. (faults' = 0 => faults = 0) /\ (faults > 0 => faults' > 0)
    BY <1>1 DEF StoreBasics, Types
<1>3. SeenInv'
    BY <1>2 DEF StoreBasics, SeenInv
<1> QED
    BY <1>1, <1>3 DEF StoreBasics, Types, DiskGrown, HeaderHere, StoreHas

LEMMA LandsGrown ==
    ASSUME StoreBasics, NEW S \in SUBSET Oids, Lands(S), backend # "gvfs", UNCHANGED backend,
           claimed \subseteq claimed'
    PROVE  DiskGrown /\ (faults' = 0 => S \subseteq visible') /\ \A o \in S : disk'[o] = "whole"
<1>1. disk' = [o \in Oids |-> IF o \in S THEN "whole" ELSE disk[o]]
    BY DEF Lands
<1>2. \A o \in Oids : disk[o] \notin Cut /\ disk[o] # "partial"
    BY NothingCut
<1>3. /\ \A o \in Oids : disk'[o] \notin Cut
      /\ \A o \in Oids : disk[o] = "whole" => disk'[o] = "whole"
      /\ \A o \in Oids : disk[o] # "absent" => disk'[o] # "absent"
    BY <1>1, <1>2 DEF Cut
<1>4. CASE visible' = visible \cup S /\ UNCHANGED faults
    <2>1. SeenInv'
        BY <1>1, <1>3, <1>4 DEF StoreBasics, SeenInv
    <2>2. \A o \in Oids : HeaderHere(o) => HeaderHere(o)'
        BY <1>2, <1>4 DEF HeaderHere, StoreHas
    <2> QED
        BY <1>1, <1>3, <1>4, <2>1, <2>2 DEF StoreBasics, Types, DiskGrown
<1>5. CASE Fault /\ UNCHANGED visible
    <2>1. faults' \in Nat /\ faults <= faults' /\ faults' > 0
        BY <1>5, FaultGrows DEF StoreBasics, Types
    <2>2. faults' # 0
        BY <2>1
    <2>3. \A o \in Oids : HeaderHere(o) => HeaderHere(o)'
        BY <1>2, <1>5 DEF HeaderHere, StoreHas
    <2>4. SeenInv'
        BY <1>3, <2>2 DEF SeenInv
    <2> QED
        BY <1>1, <1>3, <1>5, <2>1, <2>2, <2>3, <2>4 DEF StoreBasics, Types, DiskGrown
<1> QED
    BY <1>4, <1>5 DEF Lands

(* An object, or some, written whole without the store's notice.           *)
LEMMA WrittenGrown ==
    ASSUME StoreBasics, NEW S \in SUBSET Oids, Fault, UNCHANGED <<backend, visible>>,
           backend # "gvfs", claimed \subseteq claimed',
           disk' = [o \in Oids |-> IF o \in S THEN "whole" ELSE disk[o]]
    PROVE  DiskGrown
<1>1. faults' \in Nat /\ faults <= faults' /\ faults' > 0
    BY FaultGrows DEF StoreBasics, Types
<1>2. faults' # 0
    BY <1>1
<1>3. \A o \in Oids : disk[o] \notin Cut /\ disk[o] # "partial"
    BY NothingCut
<1>4. /\ \A o \in Oids : disk'[o] \notin Cut
      /\ \A o \in Oids : disk[o] = "whole" => disk'[o] = "whole"
      /\ \A o \in Oids : disk[o] # "absent" => disk'[o] # "absent"
    BY <1>3 DEF Cut
<1>5. SeenInv' /\ \A o \in Oids : HeaderHere(o) => HeaderHere(o)'
    BY <1>2, <1>3, <1>4 DEF SeenInv, HeaderHere, StoreHas
<1> QED
    BY <1>1, <1>4, <1>5 DEF StoreBasics, Types, DiskGrown

(* An object written whole and found.                                      *)
LEMMA FoundGrown ==
    ASSUME StoreBasics, NEW o \in Oids, UNCHANGED faults \/ Fault, UNCHANGED <<backend, claimed>>,
           disk' = [disk EXCEPT ![o] = "whole"], visible' = visible \cup {o}
    PROVE  DiskGrown
<1>1. faults' \in Nat /\ faults <= faults'
    BY FaultGrows DEF StoreBasics, Types
<1>2. (faults' = 0 => faults = 0) /\ (faults > 0 => faults' > 0)
    BY <1>1 DEF StoreBasics, Types
<1>3. \A x \in Oids : disk'[x] = IF x = o THEN "whole" ELSE disk[x]
    BY DEF StoreBasics, HydrateInv, DiskStates
<1>4. SeenInv'
    <2>1. \A x \in Oids : disk'[x] \in Cut => disk[x] \in Cut
        BY <1>3 DEF Cut
    <2> QED
        BY <1>2, <1>3, <2>1 DEF StoreBasics, SeenInv
<1>5. \A x \in Oids : HeaderHere(x) => HeaderHere(x)'
    BY <1>3 DEF HeaderHere, StoreHas
<1> QED
    BY <1>1, <1>3, <1>4, <1>5 DEF StoreBasics, Types, DiskGrown

(* An object cut short.                                                    *)
LEMMA CutGrown ==
    ASSUME StoreBasics, NEW o \in Oids, Fault, UNCHANGED <<backend, visible, claimed>>,
           backend = "gvfs", disk[o] = "absent", NEW c \in Cut, disk' = [disk EXCEPT ![o] = c]
    PROVE  DiskGrown
<1>1. faults' \in Nat /\ faults <= faults' /\ faults' > 0
    BY FaultGrows DEF StoreBasics, Types
<1>2. faults' # 0
    BY <1>1
<1>3. \A x \in Oids : disk'[x] = IF x = o THEN c ELSE disk[x]
    BY DEF StoreBasics, HydrateInv, DiskStates
<1>4. c # "absent"
    BY DEF Cut
<1>5. SeenInv'
    BY <1>1, <1>2 DEF SeenInv
<1>6. \A x \in Oids : HeaderHere(x) => HeaderHere(x)'
    BY <1>3 DEF HeaderHere, StoreHas
<1> QED
    BY <1>1, <1>3, <1>4, <1>5, <1>6 DEF StoreBasics, Types, DiskGrown

\* The steps inside raw_fetch and the coalescer, which answer nobody.
Inside(a) ==
    \/ FetchCall(a) \/ FetchJoins(a) \/ RemoteRefuses(a) \/ RemoteFails(a) \/ GixReceive(a)
    \/ GvfsRecheck(a) \/ GvfsGet(a) \/ WriteTmp(a) \/ WriteFails(a) \/ Rename(a) \/ Verify(a)

\* The answers about one object, and those about a whole batch.
AnswersOne(a) == NoopFetch(a) \/ FetchPresent(a) \/ FetchReturns(a) \/ DaemonFetch(a)
AnswersBatch(a) == GvfsPrefetchHeaders(a) \/ DaemonBatch(a)

LEMMA FetchStepSorts ==
    ASSUME NEW a \in Actors, FetchStep(a)
    PROVE  Inside(a) \/ AnswersOne(a) \/ AnswersBatch(a) \/ BulkReturns(a)
    BY DEF FetchStep, Inside, AnswersOne, AnswersBatch

LEMMA InsideFrame ==
    ASSUME NEW a \in Actors, Inside(a)
    PROVE  UNCHANGED <<Local, job>>
    BY DEF Inside, FetchCall, FetchJoins, RemoteRefuses, RemoteFails, GixReceive, GvfsRecheck,
           GvfsGet, WriteTmp, WriteFails, Rename, Verify, RawReturns

LEMMA InsideGrown ==
    ASSUME StoreBasics, StageInv, NEW a \in Actors, Inside(a)
    PROVE  DiskGrown
<1>1. key[a] \in Oids
    BY DEF StoreBasics, Types, Single!TypeOK
<1>0. UNCHANGED backend
    BY InsideFrame DEF Local
<1>2. CASE \/ FetchCall(a) \/ FetchJoins(a) \/ RemoteRefuses(a) \/ GvfsRecheck(a) \/ GvfsGet(a)
           \/ WriteTmp(a) \/ Verify(a)
    <2>1. UNCHANGED <<disk, visible, faults, claimed>>
        BY <1>2 DEF FetchCall, FetchJoins, RemoteRefuses, GvfsRecheck, GvfsGet, WriteTmp, Verify,
                    diskVars
    <2> QED
        BY <1>0, <2>1, DiskKept
<1>3. CASE RemoteFails(a) \/ WriteFails(a)
    BY <1>0, <1>3, DiskKept DEF RemoteFails, WriteFails
<1>4. CASE GixReceive(a)
    BY <1>0, <1>1, <1>4, LandsGrown DEF GixReceive
<1>5. CASE Rename(a)
    <2>1. backend = "gvfs" /\ UNCHANGED claimed
        BY <1>5 DEF Rename, Leading, StageInv, Leads
    <2>2. \/ UNCHANGED <<disk, visible, faults>>
          \/ disk' = [disk EXCEPT ![key[a]] = "whole"] /\ visible' = visible \cup {key[a]} /\ UNCHANGED faults
          \/ /\ disk[key[a]] = "absent" /\ Fault /\ UNCHANGED visible
             /\ \E c \in Cut : disk' = [disk EXCEPT ![key[a]] = c]
        BY <1>5 DEF Rename
    <2> QED
        BY <1>0, <1>1, <2>1, <2>2, DiskKept, FoundGrown, CutGrown
<1> QED
    BY <1>2, <1>3, <1>4, <1>5 DEF Inside

(* A thread that is at an object of its job.                               *)
LEMMA CurrentOid ==
    ASSUME Types, NEW a \in Actors, job[a].todo # <<>>
    PROVE  /\ job[a] \in Jobs /\ job[a].todo \in Seq(Oids)
           /\ Current(a) \in Oids /\ Current(a) \in ToSet(job[a].todo)
<1>1. job[a] \in Jobs /\ job[a].todo \in Seq(Oids)
    BY DEF Types, Jobs
<1>2. 1 \in DOMAIN job[a].todo /\ Current(a) = job[a].todo[1]
    BY <1>1 DEF Current
<1> QED
    BY <1>1, <1>2 DEF ToSet

LEMMA AnswersOneFrame ==
    ASSUME NEW a \in Actors, AnswersOne(a)
    PROVE  UNCHANGED <<Local, stage>>
    BY DEF AnswersOne, NoopFetch, FetchPresent, FetchReturns, DaemonFetch

LEMMA AnswersOneGrown ==
    ASSUME StoreBasics, PhaseInv, FlightInv, NEW a \in Actors, AnswersOne(a)
    PROVE  DiskGrown /\ job[a].todo # <<>>
<1>0. UNCHANGED backend
    BY AnswersOneFrame DEF Local
<1>1. CASE NoopFetch(a) \/ FetchPresent(a)
    BY <1>0, <1>1, DiskKept DEF NoopFetch, FetchPresent, diskVars, Fetching
<1>2. CASE FetchReturns(a)
    <2>1. phase[a] # "idle" /\ UNCHANGED <<disk, visible, faults, claimed>>
        BY <1>2 DEF FetchReturns, Single!Close, Single!Return, diskVars
    <2> QED
        BY <1>0, <2>1, DiskKept DEF PhaseInv
<1>3. CASE DaemonFetch(a)
    <2>1. job[a].todo # <<>> /\ backend # "gvfs" /\ UNCHANGED claimed
        BY <1>3 DEF DaemonFetch, Fetching
    <2>2. Current(a) \in Oids
        BY <2>1, CurrentOid DEF StoreBasics
    <2>3. disk \in [Oids -> {"absent", "stub", "partial", "whole"}]
        BY DEF StoreBasics, HydrateInv, DiskStates
    <2>4. \/ Lands({Current(a)})
          \/ UNCHANGED <<disk, visible, faults>>
          \/ UNCHANGED <<disk, visible>> /\ Fault
          \/ /\ disk' = [disk EXCEPT ![Current(a)] = "whole"]
             /\ Fault /\ UNCHANGED visible
        BY <1>3 DEF DaemonFetch, diskVars
    <2>5. CASE disk' = [disk EXCEPT ![Current(a)] = "whole"] /\ Fault /\ UNCHANGED visible
        <3>1. disk' = [o \in Oids |-> IF o \in {Current(a)} THEN "whole" ELSE disk[o]]
            BY <2>2, <2>3, <2>5
        <3> QED
            BY <1>0, <2>1, <2>2, <2>5, <3>1, WrittenGrown
    <2> QED
        BY <1>0, <2>1, <2>2, <2>4, <2>5, LandsGrown, DiskKept
<1> QED
    BY <1>1, <1>2, <1>3 DEF AnswersOne

LEMMA AnswersBatchFrame ==
    ASSUME NEW a \in Actors, AnswersBatch(a)
    PROVE  UNCHANGED <<Local, flightVars, stage>> /\ job[a].todo # <<>> /\ phase[a] = "idle" /\ Batched(a)
    BY DEF AnswersBatch, GvfsPrefetchHeaders, DaemonBatch, Fetching

LEMMA AnswersBatchGrown ==
    ASSUME StoreBasics, NEW a \in Actors, AnswersBatch(a)
    PROVE  DiskGrown
<1> DEFINE oids == job[a].todo
<1>1. oids \in Seq(Oids) /\ ToSet(oids) \subseteq Oids
    BY DEF StoreBasics, Types, Jobs, ToSet
<1>0. UNCHANGED backend
    BY AnswersBatchFrame DEF Local
<1>2. CASE GvfsPrefetchHeaders(a)
    <2>1. UNCHANGED faults \/ Fault
        BY <1>2 DEF GvfsPrefetchHeaders
    <2> QED
        BY <1>0, <1>2, <2>1, DiskKept DEF GvfsPrefetchHeaders
<1>3. CASE DaemonBatch(a)
    <2>0. backend # "gvfs"
        BY <1>3 DEF DaemonBatch
    <2>1. \/ \E peers \in SUBSET {o \in ToSet(oids) : disk[o] # "whole"} :
               /\ Lands({o \in ToSet(oids) \ peers : o \in Upstream \/ disk[o] = "whole"})
               /\ claimed' = claimed \cup peers
          \/ UNCHANGED <<disk, visible, claimed>> /\ Fault
          \/ /\ disk' = [o \in Oids |-> IF o \in ToSet(oids) \cap Upstream THEN "whole" ELSE disk[o]]
             /\ Fault /\ UNCHANGED <<visible, claimed>>
        BY <1>3 DEF DaemonBatch
    <2>2. ASSUME NEW peers \in SUBSET {o \in ToSet(oids) : disk[o] # "whole"},
                 Lands({o \in ToSet(oids) \ peers : o \in Upstream \/ disk[o] = "whole"}),
                 claimed' = claimed \cup peers
          PROVE  DiskGrown
        <3> DEFINE S == {o \in ToSet(oids) \ peers : o \in Upstream \/ disk[o] = "whole"}
        <3>1. S \in SUBSET Oids /\ claimed \subseteq claimed' /\ Lands(S)
            BY <1>1, <2>2
        <3> HIDE DEF S
        <3> QED
            BY <1>0, <2>0, <3>1, LandsGrown
    <2>3. CASE UNCHANGED <<disk, visible, claimed>> /\ Fault
        BY <1>0, <2>3, DiskKept
    <2>4. CASE /\ disk' = [o \in Oids |-> IF o \in ToSet(oids) \cap Upstream THEN "whole" ELSE disk[o]]
               /\ Fault /\ UNCHANGED <<visible, claimed>>
        BY <1>0, <1>1, <2>0, <2>4, WrittenGrown
    <2> QED
        BY <2>1, <2>2, <2>3, <2>4
<1> QED
    BY <1>2, <1>3 DEF AnswersBatch

-----------------------------------------------------------------------------
(* The header cache.                                                       *)

HeadersGrown ==
    /\ DOMAIN headers \subseteq DOMAIN headers' /\ DOMAIN headers' \subseteq Oids
    /\ HeadersTrue'

LEMMA RecalledTrue ==
    ASSUME Types, HeadersTrue, NEW S
    PROVE  /\ DOMAIN Recalled(S) = DOMAIN headers \cup {o \in S : HeaderHere(o)}
           /\ \A o \in DOMAIN Recalled(S) : Recalled(S)[o] = Header(o)
    BY DEF Types, HeadersTrue, Recalled

LEMMA RecalledGrown ==
    ASSUME Types, HeadersTrue, NEW S \in SUBSET Oids, headers' = Recalled(S)
    PROVE  HeadersGrown /\ \A o \in S : HeaderHere(o) => o \in DOMAIN headers'
<1>1. /\ DOMAIN headers' = DOMAIN headers \cup {o \in S : HeaderHere(o)}
      /\ \A o \in DOMAIN headers' : headers'[o] = Header(o)
    BY RecalledTrue
<1> QED
    BY <1>1 DEF Types, HeadersTrue, HeadersGrown

LEMMA PublishedGrown ==
    ASSUME Types, HeadersTrue, NEW ps \in Seq(Probes), NEW call, NEW D, NEW C,
           \A p \in ToSet(ps) : ProbeTrue(p, call, D, C), headers' = Published(ps)
    PROVE  HeadersGrown /\ \A p \in ToSet(ps) : p.header # NoHeader => p.oid \in DOMAIN headers'
<1> DEFINE told == {p \in ToSet(ps) : p.header # NoHeader}
           seen == {p.oid : p \in {q \in ToSet(ps) : q.res = "Present"}}
<1>0. \A p \in ToSet(ps) : p \in Probes /\ p.oid \in Oids
    <2>1. \A p \in ToSet(ps) : p \in Probes
        BY DEF ToSet
    <2>2. \A p \in Probes : p.oid \in Oids
        BY DEF Probes
    <2> QED
        BY <2>1, <2>2
<1>01. seen \subseteq Oids
    BY <1>0
<1>1. /\ DOMAIN Recalled(seen) = DOMAIN headers \cup {o \in seen : HeaderHere(o)}
      /\ \A o \in DOMAIN Recalled(seen) : Recalled(seen)[o] = Header(o)
    BY RecalledTrue
<1> HIDE DEF seen
<1>2. headers' = [o \in DOMAIN Recalled(seen) \cup {p.oid : p \in told} |->
                    IF \E p \in told : p.oid = o THEN (CHOOSE p \in told : p.oid = o).header
                                                 ELSE Recalled(seen)[o]]
    BY DEF Published, seen
<1>3. ASSUME NEW o \in DOMAIN headers' PROVE headers'[o] = Header(o)
    <2>1. CASE \E p \in told : p.oid = o
        <3> DEFINE q == CHOOSE p \in told : p.oid = o
        <3>1. q \in told /\ q.oid = o
            BY <2>1
        <3> HIDE DEF q
        <3>2. q.header = Header(o)
            BY <3>1 DEF ProbeTrue
        <3> QED
            BY <1>2, <1>3, <2>1, <3>2 DEF q
    <2>2. CASE ~\E p \in told : p.oid = o
        BY <1>1, <1>2, <1>3, <2>2
    <2> QED
        BY <2>1, <2>2
<1>4. DOMAIN headers \subseteq DOMAIN headers' /\ DOMAIN headers' \subseteq Oids
    BY <1>0, <1>01, <1>1, <1>2 DEF Types
<1> QED
    BY <1>2, <1>3, <1>4 DEF HeadersGrown, HeadersTrue

-----------------------------------------------------------------------------
(* Each part of the invariant survives a step that leaves its own          *)
(* variables alone and takes nothing back.                                 *)

LEMMA GrownFaults == Types /\ Grown => (faults' = 0 => faults = 0) /\ (faults > 0 => faults' > 0)
    BY DEF Types, Grown

LEMMA HonestGrows ==
    ASSUME NEW res, NEW o, NEW b, NEW V, NEW W, NEW f \in Nat, NEW g \in Nat,
           V \subseteq W, f <= g, Honest(res, o, b, V, f)
    PROVE  Honest(res, o, b, W, g)
    BY DEF Honest

LEMMA FetchHonestGrows ==
    ASSUME NEW p, NEW o, NEW b, NEW V, NEW W, NEW f \in Nat, NEW g \in Nat,
           V \subseteq W, f <= g, FetchHonest(p, o, b, V, f)
    PROVE  FetchHonest(p, o, b, W, g)
    BY DEF FetchHonest

LEMMA JobGrows ==
    ASSUME NEW j \in Jobs, NEW b, NEW D, NEW E, NEW V, NEW W, NEW H, NEW I, NEW f \in Nat, NEW g \in Nat,
           NEW C, NEW K, \A o \in Oids : D[o] = "whole" => E[o] = "whole", V \subseteq W,
           H \subseteq I, f <= g, C \subseteq K, JobAt(j, b, D, V, H, f, C)
    PROVE  JobAt(j, b, E, W, I, g, K)
<1>1. j.call = "fetch" => OneFetch(j, b, W, g)
    BY FetchHonestGrows DEF JobAt, OneFetch
<1>2. ASSUME NEW p \in ToSet(j.probes) PROVE ProbeTrue(p, j.call, E, K)
    <2>1. p \in Probes
        BY DEF Jobs, ToSet
    <2>2. p.oid \in Oids
        BY <2>1 DEF Probes
    <2> QED
        BY <2>2 DEF JobAt, ProbeTrue
<1>3. Accounted(j, W, I)
    BY DEF JobAt, Accounted
<1> QED
    BY <1>1, <1>2, <1>3 DEF JobAt

LEMMA JobStays ==
    ASSUME Types, Grown, JobInv, NEW a \in Actors, job'[a] = job[a]
    PROVE  JobAt(job'[a], backend', disk', visible', DOMAIN headers', faults', claimed')
<1>1. job[a] \in Jobs /\ JobAt(job[a], backend, disk, visible, DOMAIN headers, faults, claimed)
    BY DEF Types, JobInv
<1>2. /\ faults \in Nat /\ faults' \in Nat /\ faults <= faults' /\ visible \subseteq visible'
      /\ DOMAIN headers \subseteq DOMAIN headers' /\ claimed \subseteq claimed'
      /\ \A o \in Oids : disk[o] = "whole" => disk'[o] = "whole"
    BY DEF Types, Grown
<1>3. JobAt(job[a], backend, disk', visible', DOMAIN headers', faults', claimed')
    BY <1>1, <1>2, JobGrows
<1> QED
    BY <1>3 DEF Grown

LEMMA FailuresStay ==
    ASSUME HydrateInv, Types, Grown, FailuresHaveCauses, UNCHANGED <<asked, reply>>
    PROVE  FailuresHaveCauses'
<1>1. \A r \in Readers : asked[r][2] \in Oids
    BY DEF HydrateInv, ReadersAsk
<1> QED
    BY <1>1, GrownFaults DEF FailuresHaveCauses, Grown

LEMMA ReturnedStays ==
    ASSUME Types, Grown, FirstProbeHonest, NEW a \in Actors, returned'[a] = returned[a]
    PROVE  \A i \in DOMAIN returned'[a].probes :
               LET p == returned'[a].probes[i]
                   oids == [j \in DOMAIN returned'[a].probes |-> returned'[a].probes[j].oid]
               IN FirstAt(oids, i) /\ p.res \notin Errors =>
                    \/ disk'[p.oid] = "whole"
                    \/ returned'[a].call = "headers" /\ p.oid \in DOMAIN headers'
                    \/ p.res = "Present" /\ p.oid \in claimed'
<1> SUFFICES ASSUME NEW i \in DOMAIN returned[a].probes,
                    FirstAt([j \in DOMAIN returned[a].probes |-> returned[a].probes[j].oid], i),
                    returned[a].probes[i].res \notin Errors
             PROVE  \/ disk'[returned[a].probes[i].oid] = "whole"
                    \/ returned[a].call = "headers" /\ returned[a].probes[i].oid \in DOMAIN headers'
                    \/ returned[a].probes[i].res = "Present" /\ returned[a].probes[i].oid \in claimed'
    OBVIOUS
<1>1. \/ disk[returned[a].probes[i].oid] = "whole"
      \/ returned[a].call = "headers" /\ returned[a].probes[i].oid \in DOMAIN headers
      \/ returned[a].probes[i].res = "Present" /\ returned[a].probes[i].oid \in claimed
    BY DEF FirstProbeHonest
<1>2. returned[a].probes \in Seq(Probes)
    BY DEF Types
<1>3. returned[a].probes[i] \in Probes
    BY <1>2
<1>4. returned[a].probes[i].oid \in Oids
    BY <1>3 DEF Probes
<1> QED
    BY <1>1, <1>4 DEF Grown

LEMMA AllReturnedStay ==
    ASSUME Types, Grown, FirstProbeHonest, UNCHANGED returned
    PROVE  FirstProbeHonest'
<1>1. \A a \in Actors : returned'[a] = returned[a]
    OBVIOUS
<1> QED
    BY <1>1, ReturnedStays DEF FirstProbeHonest

LEMMA WalkStays ==
    ASSUME Types, Grown, WalkInv, UNCHANGED walk
    PROVE  WalkInv'
<1>1. Ahead' = Ahead
    BY DEF Ahead
<1>2. walk.visited \subseteq Oids
    BY DEF Types, TreeOids
<1> QED
    BY <1>1, <1>2, GrownFaults DEF WalkInv, Grown

LEMMA FlightsStay ==
    ASSUME Types, FlightInv, UNCHANGED flightVars
    PROVE  Single!TypeOK' /\ FlightInv'
    BY DEF Types, flightVars, Single!TypeOK, FlightInv, CallsCounted, LeaderOwns, OpenHasLeader,
           FollowerHasLeader, FreshPending, Leads, Waits

LEMMA OutcomesStay ==
    ASSUME Types, Grown, OutcomeInv, UNCHANGED flightVars
    PROVE  OutcomeInv'
<1> SUFFICES ASSUME NEW a \in Actors, Leads(a) \/ Waits(a), outcome[flight[a]] # Pending
             PROVE  Honest(outcome[flight[a]], key[a], backend', visible', faults')
    BY DEF flightVars, OutcomeInv, Leads, Waits
<1>1. Honest(outcome[flight[a]], key[a], backend, visible, faults)
    BY DEF OutcomeInv
<1> QED
    BY <1>1, HonestGrows DEF Types, Grown

LEMMA StagesStay ==
    ASSUME Types, Grown, StageInv, UNCHANGED <<flightVars, stage>>
    PROVE  StageInv'
    BY DEF Types, Single!TypeOK, Grown, StageInv, flightVars, Leads

LEMMA PhasesStay ==
    ASSUME Grown, PhaseInv, UNCHANGED flightVars,
           \A a \in Actors : phase[a] # "idle" => job'[a] = job[a]
    PROVE  PhaseInv'
    BY DEF Grown, PhaseInv, flightVars, Batched

\* What no step but a crash undoes.
LEMMA KnownGrows == ASSUME Grown, NEW o \in Upstream, Known(o) PROVE Known(o)'
    BY HydrateAssumption DEF Grown, Known, Resolves

LEMMA NoExcuseBefore == ASSUME Types, Grown, NoExcuse' PROVE NoExcuse
    BY GrownFaults DEF NoExcuse, Grown

(* What the worker knows or is about to learn, and what is queued, when a  *)
(* step neither posts nor receives.                                        *)
LEMMA QueueCarries ==
    ASSUME Types, Grown, QueueInv, UNCHANGED <<queue, lost>>, HeadersCome',
           NoExcuse' => \A o \in Upstream : Soon(o) => Soon(o)',
           NoExcuse' => \A o \in skipped' \cap Upstream : Size[o] > Cap \/ o \in claimed',
           task'.kind = "Blobs" => task.kind = "Blobs" /\ ToSet(task'.oids) \subseteq ToSet(task.oids),
           \A r \in Readers : Len(posting'[r]) = 1 /\ posting'[r][1].kind = "Blobs" =>
                                  posting'[r] = posting[r]
    PROVE  QueueInv'
<1>1. Len(queue') <= Capacity
    BY DEF QueueInv
<1> SUFFICES ASSUME NoExcuse'
             PROVE  /\ task'.kind = "Blobs" => \A o \in ToSet(task'.oids) \cap Upstream : Known(o)'
                    /\ \A n \in 1..Len(queue) : queue[n].kind = "Blobs" =>
                          \A o \in ToSet(queue[n].oids) \cap Upstream : SoonAfter(o, n - 1)'
                    /\ \A r \in Readers : Len(posting'[r]) = 1 /\ posting'[r][1].kind = "Blobs" =>
                          \A o \in ToSet(posting'[r][1].oids) \cap Upstream : SoonAfter(o, Len(queue))'
    BY <1>1 DEF QueueInv
<1>2. NoExcuse
    BY NoExcuseBefore
<1>3. ASSUME NEW o \in Upstream, NEW n, SoonAfter(o, n) PROVE SoonAfter(o, n)'
    BY <1>3 DEF SoonAfter
<1>4. task'.kind = "Blobs" => \A o \in ToSet(task'.oids) \cap Upstream : Known(o)'
    BY <1>2, KnownGrows DEF QueueInv
<1>5. \A n \in 1..Len(queue) : queue[n].kind = "Blobs" =>
          \A o \in ToSet(queue[n].oids) \cap Upstream : SoonAfter(o, n - 1)'
    BY <1>2, <1>3 DEF QueueInv
<1>6. \A r \in Readers : Len(posting'[r]) = 1 /\ posting'[r][1].kind = "Blobs" =>
          \A o \in ToSet(posting'[r][1].oids) \cap Upstream : SoonAfter(o, Len(queue))'
    BY <1>2, <1>3 DEF QueueInv
<1> QED
    BY <1>4, <1>5, <1>6

\* The worker's call goes on, or it is in none, and its task is the same.
LEMMA SoonStays ==
    ASSUME Grown, UNCHANGED task, job'[Worker].call = job[Worker].call,
           job'[Worker].oids = job[Worker].oids
    PROVE  \A o \in Upstream : Soon(o) => Soon(o)'
    BY KnownGrows DEF Soon

LEMMA HeadersComeStays ==
    ASSUME Types, Grown, HeadersCome, job'[Worker] = job[Worker]
    PROVE  HeadersCome'
    BY NoExcuseBefore, KnownGrows DEF HeadersCome

LEMMA QueueStays ==
    ASSUME Types, Grown, QueueInv, UNCHANGED <<queue, task, posting, skipped, lost>>,
           job'[Worker] = job[Worker]
    PROVE  QueueInv'
<1>1. HeadersCome' /\ \A o \in Upstream : Soon(o) => Soon(o)'
    BY SoonStays, HeadersComeStays DEF QueueInv
<1>2. NoExcuse' => \A o \in skipped' \cap Upstream : Size[o] > Cap \/ o \in claimed'
    BY NoExcuseBefore DEF QueueInv, Grown
<1> QED
    BY <1>1, <1>2, QueueCarries

\* The disk over GVFS holds no large blob that nobody wants.
DiskWanted == backend = "gvfs" => \A o \in Oids : disk[o] # "absent" /\ Big(o) => o \in wanted

LEMMA WantStays ==
    ASSUME Grown, WantInv, UNCHANGED asked, DiskWanted',
           \A a \in Actors : job'[a].call \in {"fetch", "bytes"} =>
               job[a].call = job'[a].call /\ ToSet(job'[a].todo) \subseteq ToSet(job[a].todo)
    PROVE  WantInv'
<1>1. \A r \in Readers : r \in Actors
    BY DEF Actors
<1> QED
    BY <1>1 DEF Grown, WantInv, DiskWanted, Big

LEMMA DiskWantedStays ==
    ASSUME Grown, WantInv, UNCHANGED disk
    PROVE  DiskWanted'
    BY DEF Grown, WantInv, DiskWanted

(* What no step inside a fetcher touches.                                  *)
LEMMA FetcherFrame ==
    ASSUME HydrateInv, StoreInv, Grown, UNCHANGED Local
    PROVE  FailuresHaveCauses' /\ HeadersTrue' /\ FirstProbeHonest' /\ PostingInv' /\ WalkInv'
<1>1. UNCHANGED <<asked, reply, headers, returned, posting, walk>>
    BY DEF Local, readerVars
<1>2. HeadersTrue' /\ PostingInv'
    BY <1>1 DEF StoreInv, HeadersTrue, PostingInv
<1> QED
    BY <1>1, <1>2, FailuresStay, AllReturnedStay, WalkStays DEF StoreInv

LEMMA LocalGrown ==
    ASSUME Types, DiskGrown, UNCHANGED Local
    PROVE  Grown /\ SeenInv'
    BY DEF Types, DiskGrown, Local, readerVars, workerVars, Grown

-----------------------------------------------------------------------------
(* Steps inside raw_fetch and the coalescer.                               *)

LEMMA InsideFlights ==
    ASSUME Types, FlightInv, NEW a \in Actors, Inside(a)
    PROVE  Single!TypeOK' /\ FlightInv' /\ DOMAIN stage' = Actors
<1>0. Single!TypeOK /\ DOMAIN stage = Actors
    BY DEF Types
<1>1. CASE FetchCall(a)
    <2>1. Current(a) \in Oids /\ Single!Call(a, Current(a)) /\ stage' = stage
        BY <1>1, CurrentOid DEF FetchCall, Fetching
    <2> QED
        BY <1>0, <2>1, CallKeeps
<1>2. CASE FetchJoins(a)
    BY <1>0, <1>2, OpenKeeps, AttachKeeps DEF FetchJoins
<1>3. CASE RemoteRefuses(a) \/ RemoteFails(a) \/ GvfsRecheck(a) \/ WriteFails(a) \/ Verify(a)
    <2>1. \E res \in {"Ok"} \cup Errors : RawReturns(a, res)
        BY <1>3 DEF RemoteRefuses, RemoteFails, GvfsRecheck, WriteFails, Verify, Errors
    <2> QED
        BY <1>0, <2>1, SettleKeeps DEF RawReturns
<1>4. CASE GixReceive(a) \/ GvfsGet(a) \/ WriteTmp(a) \/ Rename(a)
    <2>1. UNCHANGED flightVars /\ DOMAIN stage' = DOMAIN stage
        BY <1>4 DEF GixReceive, GvfsGet, WriteTmp, Rename
    <2> QED
        BY <1>0, <2>1, FlightsStay
<1> QED
    BY <1>1, <1>2, <1>3, <1>4 DEF Inside

LEMMA SettleHonest ==
    ASSUME StoreInv, Grown, NEW a \in Actors, NEW res, Single!Settle(a, res),
           Honest(res, key[a], backend', visible', faults')
    PROVE  OutcomeInv'
<1>1. /\ Leads(a) /\ outcome[flight[a]] = Pending
      /\ outcome' = [outcome EXCEPT ![flight[a]] = res]
      /\ UNCHANGED <<phase, key, flight>>
    BY DEF Single!Settle, Leads
<1> SUFFICES ASSUME NEW u \in Actors, Leads(u) \/ Waits(u), outcome'[flight[u]] # Pending
             PROVE  Honest(outcome'[flight[u]], key[u], backend', visible', faults')
    BY <1>1 DEF OutcomeInv, Leads, Waits
<1>2. outcome \in [Single!Flights -> {"Ok"} \cup Errors \cup {Pending}]
    BY DEF StoreInv, Types, Single!TypeOK
<1>3. flight[u] \in Single!Flights
    BY DEF StoreInv, FlightInv, LeaderOwns, FollowerHasLeader
<1>4. CASE flight[u] = flight[a]
    <2>1. key[u] = key[a]
        BY <1>1, <1>4, OneObject DEF StoreInv
    <2> QED
        BY <1>1, <1>2, <1>3, <1>4, <2>1
<1>5. CASE flight[u] # flight[a]
    <2>1. outcome'[flight[u]] = outcome[flight[u]]
        BY <1>1, <1>2, <1>3, <1>5
    <2>2. Honest(outcome[flight[u]], key[u], backend, visible, faults)
        BY <2>1 DEF StoreInv, OutcomeInv
    <2> QED
        BY <2>1, <2>2, HonestGrows DEF StoreInv, Types, Grown
<1> QED
    BY <1>4, <1>5

LEMMA InsideOutcomes ==
    ASSUME HydrateInv, StoreInv, Grown, NEW a \in Actors, Inside(a)
    PROVE  OutcomeInv'
<1> USE DEF StoreInv
<1>0. key[a] \in Oids /\ backend' = backend
    BY DEF Types, Single!TypeOK, Grown
<1>1. CASE FetchCall(a) \/ FetchJoins(a)
    <2> SUFFICES ASSUME NEW u \in Actors, Leads(u)' \/ Waits(u)', outcome'[flight'[u]] # Pending
                 PROVE  Honest(outcome'[flight'[u]], key'[u], backend', visible', faults')
        BY DEF OutcomeInv
    <2>1. outcome' = outcome
        BY <1>1 DEF FetchCall, FetchJoins, Single!Call, Single!Open, Single!Attach
    <2>2. CASE u # a
        <3>1. phase'[u] = phase[u] /\ key'[u] = key[u] /\ flight'[u] = flight[u]
            BY <1>1, <2>2 DEF FetchCall, FetchJoins, Single!Call, Single!Open, Single!Attach, Types,
                              Single!TypeOK
        <3>2. Honest(outcome[flight[u]], key[u], backend, visible, faults)
            BY <2>1, <3>1 DEF OutcomeInv, Leads, Waits
        <3> QED
            BY <2>1, <3>1, <3>2, HonestGrows DEF Types, Grown
    <2>3. CASE u = a
        <3>1. Single!Attach(a)
            <4>1. ~FetchCall(a)
                BY <2>3 DEF FetchCall, Single!Call, Leads, Waits, Types, Single!TypeOK
            <4>2. ~Single!Open(a)
                BY <2>1, <2>3, OpenKeeps DEF Types
            <4> QED
                BY <1>1, <4>1, <4>2 DEF FetchJoins
        <3>2. PICK l \in Actors : Leads(l) /\ flight[l] = flight'[a] /\ key[l] = key[a]
            BY <3>1, AttachKeeps DEF Types
        <3>3. key'[a] = key[a]
            BY <3>1 DEF Single!Attach
        <3>4. Honest(outcome[flight[l]], key[l], backend, visible, faults)
            BY <2>1, <2>3, <3>2 DEF OutcomeInv
        <3> QED
            BY <2>1, <2>3, <3>2, <3>3, <3>4, HonestGrows DEF Types, Grown
    <2> QED
        BY <2>2, <2>3
<1>2. CASE RemoteRefuses(a)
    <2>1. Honest("Refused", key[a], backend', visible', faults')
        BY <1>2 DEF RemoteRefuses, Honest
    <2> QED
        BY <1>2, <2>1, SettleHonest DEF RemoteRefuses, RawReturns
<1>3. CASE RemoteFails(a)
    <2>1. PICK res \in {"Transport", "Backend"} : Single!Settle(a, res)
        BY <1>3 DEF RemoteFails, RawReturns
    <2>2. faults' > 0
        BY <1>3, FaultGrows DEF RemoteFails, Types
    <2>3. Honest(res, key[a], backend', visible', faults')
        BY <2>2 DEF Honest
    <2> QED
        BY <2>1, <2>3, SettleHonest
<1>4. CASE GvfsRecheck(a)
    <2>1. Honest("Ok", key[a], backend', visible', faults')
        BY <1>4 DEF GvfsRecheck, StoreHas, Grown, Honest, Errors
    <2> QED
        BY <1>4, <2>1, SettleHonest DEF GvfsRecheck, RawReturns
<1>5. CASE WriteFails(a)
    <2>1. faults' > 0
        BY <1>5, FaultGrows DEF WriteFails, Types
    <2>2. Honest("Backend", key[a], backend', visible', faults')
        BY <2>1 DEF Honest
    <2> QED
        BY <1>5, <2>2, SettleHonest DEF WriteFails, RawReturns
<1>6. CASE Verify(a)
    <2> DEFINE res == IF StoreHas(key[a]) THEN "Ok" ELSE "NotPresentAfterFetch"
    <2>1. Leads(a) /\ stage[a] = "landed" /\ UNCHANGED <<visible, faults>>
        BY <1>6 DEF Verify, Leading, Leads, diskVars
    <2>2. key[a] \in Upstream /\ disk[key[a]] # "absent"
        BY <2>1 DEF StageInv
    <2>3. ~StoreHas(key[a]) => faults > 0
        <3>1. disk[key[a]] = "whole" \/ disk[key[a]] \in Cut
            BY <1>0, <2>2 DEF HydrateInv, DiskStates, Cut
        <3> QED
            BY <1>0, <3>1 DEF SeenInv, StoreHas, Types
    <2>4. Honest(res, key[a], backend', visible', faults')
        BY <2>1, <2>2, <2>3 DEF Honest, StoreHas, Errors
    <2> QED
        BY <1>6, <2>4, SettleHonest DEF Verify, RawReturns
<1>7. CASE GixReceive(a) \/ GvfsGet(a) \/ WriteTmp(a) \/ Rename(a)
    <2>1. UNCHANGED flightVars
        BY <1>7 DEF GixReceive, GvfsGet, WriteTmp, Rename
    <2> QED
        BY <2>1, OutcomesStay
<1> QED
    BY <1>1, <1>2, <1>3, <1>4, <1>5, <1>6, <1>7 DEF Inside

LEMMA InsideStages ==
    ASSUME HydrateInv, StoreInv, Grown, NEW a \in Actors, Inside(a)
    PROVE  StageInv'
<1> USE DEF StoreInv
<1>0. /\ key[a] \in Oids /\ backend' = backend /\ DOMAIN stage = Actors
      /\ disk \in [Oids -> {"absent", "stub", "partial", "whole"}] /\ key \in [Actors -> Oids] /\ DOMAIN phase = Actors
      /\ \A o \in Oids : disk[o] # "absent" => disk'[o] # "absent"
    BY DEF Types, Single!TypeOK, Grown, HydrateInv, DiskStates
<1> SUFFICES ASSUME NEW u \in Actors, Leads(u)'
             PROVE  /\ stage'[u] \in {"start", "body", "tmp", "landed"}
                    /\ stage'[u] # "start" => key'[u] \in Upstream
                    /\ stage'[u] \in {"body", "tmp"} => backend = "gvfs"
                    /\ stage'[u] = "landed" => disk'[key'[u]] # "absent"
    BY <1>0 DEF StageInv
<1>1. /\ u # a => phase'[u] = phase[u] /\ key'[u] = key[u] /\ stage'[u] = stage[u]
      /\ key'[u] = key[u] \/ ~Leads(u)'
    BY <1>0 DEF Inside, FetchCall, FetchJoins, RemoteRefuses, RemoteFails, GixReceive, GvfsRecheck,
           GvfsGet, WriteTmp, WriteFails, Rename, Verify, RawReturns, Single!Call, Single!Open,
           Single!Attach, Single!Settle, flightVars, Leads
<1>2. CASE u # a
    BY <1>0, <1>1, <1>2 DEF StageInv, Leads
<1>3. CASE u = a /\ FetchJoins(a)
    BY <1>0, <1>3 DEF FetchJoins
<1>4. CASE u = a /\ ~FetchJoins(a)
    <2>1. phase[a] = "leader" /\ key'[a] = key[a]
        BY <1>0, <1>1, <1>4 DEF Inside, FetchCall, RemoteRefuses, RemoteFails, GixReceive,
           GvfsRecheck, GvfsGet, WriteTmp, WriteFails, Rename, Verify, Single!Call, Leads, Leading
    <2>2. /\ stage[a] \in {"start", "body", "tmp", "landed"}
          /\ stage[a] # "start" => key[a] \in Upstream
          /\ stage[a] \in {"body", "tmp"} => backend = "gvfs"
          /\ stage[a] = "landed" => disk[key[a]] # "absent"
        BY <2>1 DEF StageInv, Leads
    <2>3. CASE FetchCall(a) \/ RemoteRefuses(a) \/ RemoteFails(a) \/ GvfsRecheck(a) \/ WriteFails(a)
               \/ Verify(a)
        <3>1. stage' = stage
            BY <2>3 DEF FetchCall, RemoteRefuses, RemoteFails, GvfsRecheck, WriteFails, Verify,
                        RawReturns
        <3> QED
            BY <1>0, <1>4, <2>1, <2>2, <3>1
    <2>4. CASE GixReceive(a)
        <3>1. stage'[a] = "landed" /\ key[a] \in Upstream /\ disk'[key[a]] # "absent"
            BY <1>0, <2>4 DEF GixReceive, Lands
        <3> QED
            BY <1>4, <2>1, <3>1
    <2>5. CASE GvfsGet(a)
        BY <1>0, <1>4, <2>1, <2>5 DEF GvfsGet
    <2>6. CASE WriteTmp(a)
        <3>1. /\ stage[a] = "body" /\ disk' = disk
              /\ stage'[a] = IF disk[key[a]] = "absent" THEN "tmp" ELSE "landed"
            BY <1>0, <2>6 DEF WriteTmp, Leading, diskVars
        <3> QED
            BY <1>0, <1>4, <2>1, <2>2, <3>1
    <2>7. CASE Rename(a)
        <3>1. stage[a] = "tmp" /\ stage'[a] = "landed" /\ disk'[key[a]] # "absent"
            BY <1>0, <2>7 DEF Rename, Leading, Cut
        <3> QED
            BY <1>4, <2>1, <2>2, <3>1
    <2> QED
        BY <1>4, <2>3, <2>4, <2>5, <2>6, <2>7 DEF Inside
<1> QED
    BY <1>2, <1>3, <1>4

LEMMA InsidePhases ==
    ASSUME HydrateInv, StoreInv, Grown, NEW a \in Actors, Inside(a)
    PROVE  PhaseInv'
<1> USE DEF StoreInv
<1>0. key \in [Actors -> Oids] /\ DOMAIN phase = Actors /\ backend' = backend /\ job' = job
    BY InsideFrame DEF Types, Single!TypeOK, Grown
<1> SUFFICES ASSUME NEW u \in Actors, phase'[u] # "idle"
             PROVE  /\ backend \in {"gix", "gvfs"} /\ ~Batched(u) /\ job[u].todo # <<>>
                    /\ key'[u] = Head(job[u].todo)
    BY <1>0 DEF PhaseInv, Batched
<1>1. CASE FetchCall(a) /\ u = a
    BY <1>0, <1>1 DEF FetchCall, Fetching, Single!Call, Current
<1>2. CASE ~(FetchCall(a) /\ u = a)
    <2>1. phase[u] # "idle" /\ key'[u] = key[u]
        BY <1>0, <1>2 DEF Inside, FetchCall, FetchJoins, RemoteRefuses, RemoteFails, GixReceive,
           GvfsRecheck, GvfsGet, WriteTmp, WriteFails, Rename, Verify, RawReturns, Single!Call,
           Single!Open, Single!Attach, Single!Settle, flightVars
    <2> QED
        BY <2>1 DEF PhaseInv
<1> QED
    BY <1>1, <1>2

\* A thread that fetches one object at a time over GVFS fetches its bytes.
LEMMA WantedBytes ==
    ASSUME StoreInv, NEW a \in Actors, phase[a] # "idle", backend = "gvfs", Big(key[a])
    PROVE  key[a] \in wanted
<1> USE DEF StoreInv
<1>1. ~Batched(a) /\ job[a].todo # <<>> /\ key[a] = Current(a)
    BY DEF PhaseInv, Current
<1>2. job[a] \in Jobs /\ Current(a) \in ToSet(job[a].todo)
    BY <1>1, CurrentOid
<1>3. job[a].call \in {"none", "fetch", "headers", "bytes"}
    BY <1>2 DEF Jobs
<1>4. job[a].call # "none"
    BY <1>1 DEF JobInv, JobAt, NoJob
<1>5. job[a].call \in {"fetch", "bytes"}
    BY <1>1, <1>3, <1>4 DEF Batched
<1> QED
    BY <1>1, <1>2, <1>5 DEF WantInv

LEMMA InsideWants ==
    ASSUME HydrateInv, StoreInv, Grown, NEW a \in Actors, Inside(a)
    PROVE  WantInv'
<1> USE DEF StoreInv
<1>1. UNCHANGED <<job, backend, asked, wanted>>
    BY InsideFrame DEF Local, readerVars
<1>2. DiskWanted'
    <2>1. CASE backend # "gvfs"
        BY <1>1, <2>1 DEF DiskWanted
    <2>2. CASE backend = "gvfs" /\ Rename(a)
        <3>1. phase[a] # "idle" /\ disk \in [Oids -> {"absent", "stub", "partial", "whole"}]
            BY <2>2 DEF Rename, Leading, HydrateInv, DiskStates
        <3>2. Big(key[a]) => key[a] \in wanted
            BY <2>2, <3>1, WantedBytes
        <3>3. \A o \in Oids : disk'[o] = disk[o] \/ o = key[a]
            BY <2>2, <3>1 DEF Rename, diskVars
        <3> QED
            BY <1>1, <3>2, <3>3 DEF DiskWanted, WantInv
    <2>3. CASE backend = "gvfs" /\ ~Rename(a)
        <3>1. disk' = disk
            BY <2>3 DEF Inside, FetchCall, FetchJoins, RemoteRefuses, RemoteFails, GixReceive,
               GvfsRecheck, GvfsGet, WriteTmp, WriteFails, Verify, diskVars
        <3> QED
            BY <3>1, DiskWantedStays
    <2> QED
        BY <2>1, <2>2, <2>3
<1> QED
    BY <1>1, <1>2, WantStays

LEMMA InsideInv ==
    ASSUME HydrateInv, StoreInv, NEW a \in Actors, Inside(a)
    PROVE  StoreInv'
<1>1. UNCHANGED <<Local, job>> /\ Types
    BY InsideFrame DEF StoreInv
<1>2. Grown /\ SeenInv'
    BY <1>1, InsideGrown, LocalGrown DEF StoreBasics, StoreInv
<1>3. Single!TypeOK' /\ FlightInv' /\ DOMAIN stage' = Actors
    BY InsideFlights DEF StoreInv
<1>4. Types'
    BY <1>1, <1>2, <1>3 DEF Types, Grown, Local, readerVars, workerVars
<1>5. JobInv'
    BY <1>1, <1>2, JobStays DEF StoreInv, JobInv
<1>6. BatchFresh' /\ CallsInv'
    BY <1>1 DEF StoreInv, BatchFresh, Batched, CallsInv, Local, readerVars, workerVars
<1>7. QueueInv'
    BY <1>1, <1>2, QueueStays DEF StoreInv, Local, readerVars, workerVars
<1> QED
    BY <1>1, <1>2, <1>3, <1>4, <1>5, <1>6, <1>7, InsideOutcomes, InsideStages, InsidePhases,
       InsideWants, FetcherFrame DEF StoreInv

-----------------------------------------------------------------------------
(* Answers of a fetcher.                                                   *)

LEMMA TailSet ==
    ASSUME NEW X, NEW s \in Seq(X), s # <<>>
    PROVE  /\ Tail(s) \in Seq(X) /\ Head(s) \in X
           /\ ToSet(s) = {Head(s)} \cup ToSet(Tail(s))
<1>1. /\ Tail(s) \in Seq(X) /\ Len(Tail(s)) = Len(s) - 1 /\ Len(s) \in Nat /\ Len(s) >= 1
      /\ \A i \in 1..(Len(s) - 1) : Tail(s)[i] = s[i + 1]
      /\ Head(s) = s[1] /\ DOMAIN s = 1..Len(s) /\ DOMAIN Tail(s) = 1..(Len(s) - 1)
    OBVIOUS
<1>2. ASSUME NEW x \in ToSet(s) PROVE x \in {Head(s)} \cup ToSet(Tail(s))
    <2>1. PICK i \in 1..Len(s) : x = s[i]
        BY <1>1 DEF ToSet
    <2>2. CASE i # 1
        <3>1. i - 1 \in 1..(Len(s) - 1) /\ (i - 1) + 1 = i
            BY <1>1, <2>2
        <3> QED
            BY <1>1, <2>1, <3>1 DEF ToSet
    <2> QED
        BY <1>1, <2>1, <2>2
<1>3. ASSUME NEW i \in 1..(Len(s) - 1) PROVE i + 1 \in 1..Len(s) /\ s[i + 1] \in ToSet(s)
    BY <1>1 DEF ToSet
<1>4. 1 \in 1..Len(s)
    BY <1>1
<1>5. Head(s) \in X /\ Head(s) \in ToSet(s)
    BY <1>1, <1>4 DEF ToSet
<1>6. ToSet(Tail(s)) \subseteq ToSet(s)
    BY <1>1, <1>3 DEF ToSet
<1> QED
    BY <1>1, <1>2, <1>5, <1>6

LEMMA AppendSet ==
    ASSUME NEW X, NEW s \in Seq(X), NEW x \in X
    PROVE  /\ Append(s, x) \in Seq(X) /\ Len(Append(s, x)) = Len(s) + 1
           /\ ToSet(Append(s, x)) = ToSet(s) \cup {x}
<1> DEFINE t == Append(s, x)
<1>1. /\ t \in Seq(X) /\ Len(t) = Len(s) + 1 /\ Len(s) \in Nat
      /\ DOMAIN s = 1..Len(s) /\ DOMAIN t = 1..(Len(s) + 1)
      /\ t[Len(s) + 1] = x /\ \A i \in 1..Len(s) : t[i] = s[i]
    OBVIOUS
<1> HIDE DEF t
<1>2. Len(s) + 1 \in DOMAIN t /\ DOMAIN s \subseteq DOMAIN t
      /\ \A i \in DOMAIN t : i = Len(s) + 1 \/ i \in DOMAIN s
    BY <1>1
<1>3. ToSet(t) = ToSet(s) \cup {x}
    BY <1>1, <1>2 DEF ToSet
<1> QED
    BY <1>1, <1>3 DEF t

(* The call of thread a goes on; nobody else's does.                       *)
Advanced(a) ==
    /\ job' \in [Actors -> Jobs]
    /\ job'[a].call = job[a].call /\ job'[a].oids = job[a].oids
    /\ ToSet(job'[a].todo) \subseteq ToSet(job[a].todo)
    /\ \A u \in Actors \ {a} : job'[u] = job[u]

LEMMA AdvancedKeeps ==
    ASSUME StoreInv, Grown, NEW a \in Actors, UNCHANGED Local, Advanced(a), DiskWanted',
           a = Worker => HeadersCome'
    PROVE  CallsInv' /\ WantInv' /\ QueueInv'
<1> USE DEF StoreInv
<1>0. Worker \in Actors /\ Warmer \in Actors /\ Readers \subseteq Actors
    BY DEF Actors
<1>1. \A u \in Actors : /\ job'[u].call = job[u].call /\ job'[u].oids = job[u].oids
                        /\ ToSet(job'[u].todo) \subseteq ToSet(job[u].todo)
    BY DEF Advanced
<1>2. UNCHANGED <<asked, posting, task, queue, skipped, lost, walk>>
    BY DEF Local, readerVars, workerVars
<1>3. CallsInv'
    BY <1>0, <1>1, <1>2 DEF CallsInv
<1>4. WantInv'
    BY <1>1, <1>2, WantStays
<1>5. HeadersCome'
    BY <1>0, HeadersComeStays DEF QueueInv, Advanced
<1>6. \A o \in Upstream : Soon(o) => Soon(o)'
    BY <1>0, <1>1, <1>2, SoonStays
<1>7. NoExcuse' => \A o \in skipped' \cap Upstream : Size[o] > Cap \/ o \in claimed'
    BY <1>2, NoExcuseBefore DEF QueueInv, Grown
<1>8. QueueInv'
    BY <1>2, <1>5, <1>6, <1>7, QueueCarries
<1> QED
    BY <1>3, <1>4, <1>8

\* The probe an answer to the request for one object becomes.
ProbeOf(o, res) == Probe(o, IF res = "Ok" THEN "Present" ELSE res)

LEMMA ProbeSorts ==
    ASSUME NEW o \in Oids, NEW res \in {"Ok"} \cup Errors
    PROVE  /\ ProbeOf(o, res) \in Probes /\ ProbeOf(o, res).oid = o
           /\ ProbeOf(o, res).header = NoHeader
           /\ ProbeOf(o, res).res \notin Errors <=> res = "Ok"
           /\ res # "Ok" => ProbeOf(o, res).res = res
    BY DEF ProbeOf, Probe, Probes, Outcomes, SomeHeader, Errors

(* The answer is honest about the state after the step.                    *)
LEMMA OneAnswer ==
    ASSUME HydrateInv, HydrateInv', StoreInv, Grown, NEW a \in Actors, AnswersOne(a)
    PROVE  \E res \in {"Ok"} \cup Errors :
              /\ Answered(a, res)
              /\ FetchHonest(ProbeOf(Current(a), res), Current(a), backend', visible', faults')
              /\ res = "Ok" => disk'[Current(a)] = "whole"
<1> USE DEF StoreInv
<1> DEFINE o == Current(a)
<1>0. job[a].todo # <<>>
    BY AnswersOneGrown DEF StoreBasics
<1>1. o \in Oids /\ backend' = backend
    BY <1>0, CurrentOid DEF Grown
<1> DEFINE Right(res) ==
              /\ res = "Ok" => (o \in visible' \/ (backend = "daemon" /\ faults' > 0))
                               /\ disk'[o] = "whole"
              /\ res \in Errors /\ o \in Upstream => backend = "noop" \/ faults' > 0
              /\ backend = "gvfs" /\ res \in Errors =>
                   /\ res = "Refused" => o \notin Upstream
                   /\ o \notin Upstream /\ faults' = 0 => res = "Refused"
<1> SUFFICES \E res \in {"Ok"} \cup Errors : Answered(a, res) /\ Right(res)
    <2> HIDE DEF o
    <2>1. ASSUME NEW res \in {"Ok"} \cup Errors, Right(res)
          PROVE  FetchHonest(ProbeOf(o, res), o, backend', visible', faults')
        <3>1. /\ ProbeOf(o, res).oid = o /\ (ProbeOf(o, res).res \notin Errors <=> res = "Ok")
              /\ res # "Ok" => ProbeOf(o, res).res = res
            BY <1>1, ProbeSorts
        <3> QED
            BY <1>1, <2>1, <3>1 DEF FetchHonest
    <2> QED
        BY <2>1 DEF o
<1>2. o \in visible' => disk'[o] = "whole"
    BY <1>1 DEF HydrateInv, VisibleIsWhole
<1>3. CASE NoopFetch(a)
    BY <1>3 DEF NoopFetch, Errors
<1>4. CASE FetchPresent(a)
    BY <1>2, <1>4 DEF FetchPresent, StoreHas, Errors, Grown
<1>5. CASE FetchReturns(a)
    <2> DEFINE out == outcome[flight[a]]
    <2>1. (Leads(a) \/ Waits(a)) /\ out # Pending /\ Answered(a, Reclassified(out))
          /\ UNCHANGED <<visible, faults>> /\ phase[a] # "idle"
        BY <1>5 DEF FetchReturns, Single!Close, Single!Return, Leads, Waits, diskVars
    <2>2. key[a] = o /\ backend \in {"gix", "gvfs"}
        BY <2>1 DEF PhaseInv, Current
    <2>3. Honest(out, o, backend, visible', faults')
        BY <2>1, <2>2 DEF OutcomeInv
    <2>4. out \in {"Ok"} \cup Errors
        <3>1. flight[a] \in Single!Flights
            BY <2>1 DEF FlightInv, LeaderOwns, FollowerHasLeader
        <3> QED
            BY <2>1, <3>1 DEF Types, Single!TypeOK
    <2>5. CASE out = "Ok"
        BY <1>2, <2>1, <2>2, <2>3, <2>5 DEF Honest, Reclassified, Errors
    <2>6. CASE out \in Errors /\ backend = "gvfs"
        BY <2>1, <2>3, <2>6 DEF Honest, Reclassified, Errors
    <2>7. CASE out \in Errors /\ backend = "gix"
        BY <2>1, <2>3, <2>7 DEF Honest, Reclassified, Errors
    <2> QED
        BY <2>2, <2>4, <2>5, <2>6, <2>7
<1>6. CASE DaemonFetch(a)
    <2>0. backend = "daemon" /\ disk \in [Oids -> {"absent", "stub", "partial", "whole"}]
        BY <1>6 DEF DaemonFetch, HydrateInv, DiskStates
    <2>1. CASE o \in Upstream /\ Lands({o}) /\ Answered(a, "Ok")
        <3>0. backend # "gvfs" /\ UNCHANGED <<backend, claimed>>
            BY <1>1, <1>6 DEF DaemonFetch
        <3>1. disk'[o] = "whole" /\ (faults' = 0 => o \in visible')
            BY <1>1, <2>1, <3>0, LandsGrown DEF StoreBasics
        <3>2. faults' > 0 \/ faults' = 0
            BY DEF Grown
        <3> QED
            BY <2>0, <2>1, <3>1, <3>2 DEF Errors
    <2>2. CASE o \notin Upstream /\ Answered(a, "Backend")
        BY <2>0, <2>2 DEF Errors
    <2>3. CASE Fault /\ \E res \in {"Transport", "Backend"} : Answered(a, res)
        <3>1. faults' > 0
            BY <2>3, FaultGrows DEF Types
        <3> QED
            BY <2>0, <2>3, <3>1 DEF Errors
    <2> QED
        BY <1>6, <2>1, <2>2, <2>3 DEF DaemonFetch
<1> QED
    BY <1>3, <1>4, <1>5, <1>6 DEF AnswersOne

(* The job of a thread whose call has got one more answer.                 *)
LEMMA AnsweredJob ==
    ASSUME HydrateInv, StoreInv, Grown, NEW a \in Actors, job[a].todo # <<>>, ~Batched(a),
           NEW res \in {"Ok"} \cup Errors, Answered(a, res),
           FetchHonest(ProbeOf(Current(a), res), Current(a), backend', visible', faults'),
           res = "Ok" => disk'[Current(a)] = "whole"
    PROVE  /\ Advanced(a) /\ JobInv' /\ BatchFresh'
           /\ a = Worker => HeadersCome'
<1> USE DEF StoreInv
<1> DEFINE j == job[a]  k == job'[a]  o == Current(a)  p == ProbeOf(o, res)
<1>1. job \in [Actors -> Jobs] /\ o \in Oids /\ p \in Probes /\ j.todo \in Seq(Oids)
      /\ j.probes \in Seq(Probes) /\ j.call \in {"none", "fetch", "headers", "bytes"}
    BY CurrentOid, ProbeSorts DEF Types, Jobs
<1>2. /\ job' = [job EXCEPT ![a] = [j EXCEPT !.todo = Tail(j.todo), !.probes = Append(j.probes, p)]]
    BY DEF Answered, ProbeOf
<1>3. /\ Tail(j.todo) \in Seq(Oids) /\ ToSet(j.todo) = {o} \cup ToSet(Tail(j.todo))
      /\ Append(j.probes, p) \in Seq(Probes) /\ Len(Append(j.probes, p)) = Len(j.probes) + 1
      /\ ToSet(Append(j.probes, p)) = ToSet(j.probes) \cup {p}
    BY <1>1, TailSet, AppendSet DEF Current
<1>4. /\ k.call = j.call /\ k.oids = j.oids /\ k.todo = Tail(j.todo) /\ k.probes = Append(j.probes, p)
      /\ k \in Jobs /\ job' \in [Actors -> Jobs] /\ \A u \in Actors \ {a} : job'[u] = job[u]
    <2>1. j \in Jobs /\ k = [j EXCEPT !.todo = Tail(j.todo), !.probes = Append(j.probes, p)]
        BY <1>1, <1>2
    <2>2. k \in Jobs
        BY <1>3, <2>1 DEF Jobs
    <2> QED
        BY <1>1, <1>2, <2>1, <2>2 DEF Jobs
<1>5. Advanced(a)
    BY <1>3, <1>4 DEF Advanced
<1>6. /\ p.oid = o /\ p.header = NoHeader /\ (p.res \notin Errors <=> res = "Ok")
    BY <1>1, ProbeSorts
<1> HIDE DEF p, o
<1>7. JobAt(j, backend', disk', visible', DOMAIN headers', faults', claimed')
    <2>1. \A oo \in Oids : disk[oo] = "whole" => disk'[oo] = "whole"
        BY DEF Grown
    <2>2. j \in Jobs /\ JobAt(j, backend, disk, visible, DOMAIN headers, faults, claimed)
        BY <1>1 DEF JobInv
    <2>3. faults \in Nat /\ faults' \in Nat /\ faults <= faults' /\ visible \subseteq visible'
          /\ DOMAIN headers \subseteq DOMAIN headers' /\ backend' = backend /\ claimed \subseteq claimed'
        BY DEF Types, Grown
    <2>4. JobAt(j, backend, disk', visible', DOMAIN headers', faults', claimed')
        BY <2>1, <2>2, <2>3, JobGrows
    <2> QED
        BY <2>3, <2>4
<1>8. JobAt(k, backend', disk', visible', DOMAIN headers', faults', claimed')
    <2>1. j.call # "none"
        BY DEF JobInv, JobAt, NoJob
    <2>2. ASSUME k.call = "fetch" PROVE OneFetch(k, backend', visible', faults')
        <3>1. PICK x \in Oids : j.oids = <<x>> /\ j.todo = <<x>> /\ j.probes = <<>>
            BY <1>4, <1>7, <2>2 DEF JobAt, OneFetch
        <3>2. o = x /\ k.todo = <<>> /\ k.probes = <<p>> /\ k.oids = <<x>>
            BY <1>4, <3>1 DEF o, Current
        <3>3. FetchHonest(k.probes[1], x, backend', visible', faults') /\ Len(k.probes) = 1
            BY <3>2 DEF p, o
        <3> QED
            BY <3>2, <3>3 DEF OneFetch
    <2>3. ASSUME k.call = "headers" PROVE k.todo \in Seq(Blobs)
        <3>1. j.todo \in Seq(Blobs)
            BY <1>4, <1>7, <2>3 DEF JobAt
        <3> QED
            BY <1>4, <3>1, TailSet
    <2>4. ASSUME NEW q \in ToSet(k.probes) PROVE ProbeTrue(q, k.call, disk', claimed')
        <3>1. CASE q = p
            BY <1>6, <3>1 DEF ProbeTrue, o
        <3>2. CASE q \in ToSet(j.probes)
            BY <1>4, <1>7, <3>2 DEF JobAt
        <3> QED
            BY <1>3, <1>4, <2>4, <3>1, <3>2
    <2>5. Accounted(k, visible', DOMAIN headers')
        <3>1. Accounted(j, visible', DOMAIN headers')
            BY <1>7 DEF JobAt
        <3> QED
            BY <1>3, <1>4, <1>6, <3>1 DEF Accounted
    <2> QED
        BY <1>4, <2>1, <2>2, <2>3, <2>4, <2>5 DEF JobAt
<1>9. JobInv'
    BY <1>4, <1>8, JobStays DEF JobInv
<1>10. BatchFresh'
    <2> SUFFICES ASSUME NEW u \in Actors, Batched(u)', job'[u].todo # <<>> PROVE job'[u].probes = <<>>
        BY DEF BatchFresh
    <2>1. Batched(u)
        BY <1>4 DEF Batched, Grown
    <2> QED
        BY <1>4, <2>1 DEF BatchFresh
<1>11. ASSUME a = Worker PROVE HeadersCome'
    <2> SUFFICES ASSUME k.call = "headers", NoExcuse', NEW x \in ToSet(k.oids) \cap Upstream
                 PROVE  \/ Known(x)'
                        \/ x \in ToSet(k.todo)
                        \/ \E q \in ToSet(k.probes) : q.oid = x /\ q.res \notin Errors
        BY <1>11 DEF HeadersCome
    <2>1. NoExcuse
        BY NoExcuseBefore
    <2>2. \/ Known(x)
          \/ x \in ToSet(j.todo)
          \/ \E q \in ToSet(j.probes) : q.oid = x /\ q.res \notin Errors
        BY <1>4, <1>11, <2>1 DEF QueueInv, HeadersCome
    <2>3. CASE x = o
        <3>1. p.res \notin Errors
            BY <2>3, GrownFaults DEF NoExcuse, FetchHonest, p, o
        <3> QED
            BY <1>3, <1>4, <1>6, <2>3, <3>1
    <2> QED
        BY <1>3, <1>4, <2>2, <2>3, KnownGrows
<1> QED
    BY <1>5, <1>9, <1>10, <1>11

LEMMA AnswersOneFlights ==
    ASSUME StoreInv, Grown, NEW a \in Actors, AnswersOne(a)
    PROVE  /\ Single!TypeOK' /\ FlightInv' /\ OutcomeInv' /\ StageInv' /\ ~Batched(a)
           /\ phase'[a] = "idle"
           /\ \A u \in Actors : phase'[u] # "idle" => phase'[u] = phase[u] /\ key'[u] = key[u]
<1> USE DEF StoreInv
<1>0. stage' = stage /\ DOMAIN phase = Actors
    BY AnswersOneFrame DEF Types, Single!TypeOK
<1>1. CASE NoopFetch(a) \/ FetchPresent(a) \/ DaemonFetch(a)
    <2>1. UNCHANGED flightVars /\ ~Batched(a) /\ phase[a] = "idle"
        BY <1>1 DEF NoopFetch, FetchPresent, DaemonFetch, Fetching, Batched
    <2> QED
        BY <1>0, <2>1, FlightsStay, OutcomesStay, StagesStay DEF flightVars
<1>2. CASE FetchReturns(a)
    <2>1. /\ phase[a] # "idle" /\ phase' = [phase EXCEPT ![a] = "idle"]
          /\ UNCHANGED <<outcome, key, flight, disk, visible, faults>>
        BY <1>2 DEF FetchReturns, Single!Close, Single!Return, diskVars
    <2>2. \A u \in Actors : phase'[u] # "idle" => phase'[u] = phase[u] /\ key'[u] = key[u]
        BY <1>0, <2>1
    <2>3. OutcomeInv'
        BY <2>1, <2>2 DEF OutcomeInv, Leads, Waits, Grown
    <2>4. StageInv'
        BY <1>0, <2>1, <2>2 DEF StageInv, Leads, Grown
    <2>5. Single!TypeOK' /\ FlightInv'
        BY <1>2, LeaveKeeps DEF FetchReturns, Types
    <2> QED
        BY <1>0, <2>1, <2>2, <2>3, <2>4, <2>5 DEF PhaseInv
<1> QED
    BY <1>1, <1>2 DEF AnswersOne

LEMMA AnswersOneInv ==
    ASSUME HydrateInv, HydrateInv', StoreInv, NEW a \in Actors, AnswersOne(a)
    PROVE  StoreInv'
<1>1. UNCHANGED <<Local, stage>> /\ Types
    BY AnswersOneFrame DEF StoreInv
<1>2. Grown /\ SeenInv' /\ job[a].todo # <<>>
    BY <1>1, AnswersOneGrown, LocalGrown DEF StoreBasics, StoreInv
<1>3. /\ Single!TypeOK' /\ FlightInv' /\ OutcomeInv' /\ StageInv' /\ ~Batched(a)
      /\ phase'[a] = "idle"
      /\ \A u \in Actors : phase'[u] # "idle" => phase'[u] = phase[u] /\ key'[u] = key[u]
    BY <1>2, AnswersOneFlights
<1>4. Advanced(a) /\ JobInv' /\ BatchFresh' /\ (a = Worker => HeadersCome')
    BY <1>2, <1>3, OneAnswer, AnsweredJob
<1>5. Types'
    BY <1>1, <1>2, <1>3, <1>4 DEF Types, Grown, Local, readerVars, workerVars, Advanced
<1>6. PhaseInv'
    BY <1>2, <1>3, <1>4 DEF StoreInv, PhaseInv, Advanced, Batched, Grown
<1>7. DiskWanted'
    <2>1. CASE DaemonFetch(a)
        BY <1>2, <2>1 DEF DaemonFetch, DiskWanted, Grown
    <2>2. CASE ~DaemonFetch(a)
        <3>1. disk' = disk
            BY <2>2 DEF AnswersOne, NoopFetch, FetchPresent, FetchReturns, diskVars
        <3> QED
            BY <1>2, <3>1, DiskWantedStays DEF StoreInv
    <2> QED
        BY <2>1, <2>2
<1>8. CallsInv' /\ WantInv' /\ QueueInv'
    BY <1>1, <1>2, <1>4, <1>7, AdvancedKeeps
<1> QED
    BY <1>1, <1>2, <1>3, <1>4, <1>5, <1>6, <1>8, FetcherFrame DEF StoreInv

-----------------------------------------------------------------------------
(* Answers about a whole batch.                                            *)

LEMMA FirstPlace ==
    ASSUME NEW X, NEW s \in Seq(X), NEW x \in ToSet(s)
    PROVE  \E i \in DOMAIN s : s[i] = x /\ FirstAt(s, i)
<1> DEFINE T == {i \in DOMAIN s : s[i] = x}
<1>1. T \in SUBSET Nat /\ T # {} /\ DOMAIN s = 1..Len(s) /\ Len(s) \in Nat
    BY DEF ToSet
<1>2. PICK i \in T : \A j \in T : i <= j
    BY <1>1, LeastOf
<1>3. \A j \in 1..(i - 1) : j \in DOMAIN s /\ ~(i <= j)
    BY <1>1
<1> QED
    BY <1>2, <1>3 DEF FirstAt

(* The answers, put in the order of the question: an object's own probe is *)
(* at its first place, and everywhere else is an error.                    *)
LEMMA ReorderHolds ==
    ASSUME NEW oids \in Seq(Oids), NEW by,
           \A o \in ToSet(oids) : by[o] \in Probes /\ by[o].oid = o
    PROVE  /\ Reorder(oids, by) \in Seq(Probes)
           /\ DOMAIN Reorder(oids, by) = DOMAIN oids
           /\ \A i \in DOMAIN oids : Reorder(oids, by)[i].oid = oids[i]
           /\ \A p \in ToSet(Reorder(oids, by)) :
                 \/ \E o \in ToSet(oids) : p = by[o]
                 \/ p.res = "Backend" /\ p.header = NoHeader
           /\ \A o \in ToSet(oids) : by[o] \in ToSet(Reorder(oids, by))
<1> DEFINE R == Reorder(oids, by)
<1>1. DOMAIN oids = 1..Len(oids) /\ Len(oids) \in Nat /\ \A i \in DOMAIN oids : oids[i] \in ToSet(oids)
      /\ oids[i] \in Oids
    BY DEF ToSet
<1>2. \A o \in Oids : /\ Probe(o, "Backend") \in Probes /\ Probe(o, "Backend").oid = o
                      /\ Probe(o, "Backend").res = "Backend" /\ Probe(o, "Backend").header = NoHeader
    BY DEF Probe, Probes, Outcomes, Errors, SomeHeader
<1>3. DOMAIN R = DOMAIN oids /\ \A i \in DOMAIN oids :
          R[i] = IF FirstAt(oids, i) THEN by[oids[i]] ELSE Probe(oids[i], "Backend")
    BY DEF Reorder
<1> HIDE DEF R
<1>4. \A i \in DOMAIN oids : R[i] \in Probes /\ R[i].oid = oids[i]
    BY <1>1, <1>2, <1>3
<1>5. R \in Seq(Probes)
    <2>1. R = [i \in 1..Len(oids) |-> R[i]]
        BY <1>1, <1>3 DEF R, Reorder
    <2> QED
        BY <1>1, <1>4, <2>1
<1>6. ASSUME NEW p \in ToSet(R)
      PROVE  \/ \E o \in ToSet(oids) : p = by[o]
             \/ p.res = "Backend" /\ p.header = NoHeader
    BY <1>1, <1>2, <1>3 DEF ToSet
<1>7. ASSUME NEW o \in ToSet(oids) PROVE by[o] \in ToSet(R)
    <2>1. PICK i \in DOMAIN oids : oids[i] = o /\ FirstAt(oids, i)
        BY FirstPlace
    <2> QED
        BY <1>3, <2>1 DEF ToSet
<1> QED
    BY <1>3, <1>4, <1>5, <1>6, <1>7 DEF R

(* The job of a thread whose call has got all its answers.                 *)
LEMMA AnsweredBatch ==
    ASSUME HydrateInv, StoreInv, Grown, NEW a \in Actors, job[a].todo # <<>>, Batched(a),
           NEW ps \in Seq(Probes), AnsweredAll(a, ps),
           \A p \in ToSet(ps) : ProbeTrue(p, job[a].call, disk', claimed'),
           \A o \in ToSet(job[a].todo) : \E p \in ToSet(ps) : p.oid = o,
           NoExcuse' => \A o \in ToSet(job[a].todo) \cap Upstream :
               Known(o)' \/ \E p \in ToSet(ps) : p.oid = o /\ p.res \notin Errors
    PROVE  /\ Advanced(a) /\ JobInv' /\ BatchFresh'
           /\ a = Worker => HeadersCome'
<1> USE DEF StoreInv
<1> DEFINE j == job[a]  k == job'[a]
<1>1. job \in [Actors -> Jobs] /\ j \in Jobs
    BY DEF Types
<1>2. job' = [job EXCEPT ![a] = [j EXCEPT !.todo = <<>>, !.probes = ps]]
    BY DEF AnsweredAll
<1>3. ToSet(<<>>) = {} /\ <<>> \in Seq(Oids) /\ <<>> \in Seq(Blobs)
    BY DEF ToSet
<1>4. /\ k.call = j.call /\ k.oids = j.oids /\ k.todo = <<>> /\ k.probes = ps
      /\ k \in Jobs /\ job' \in [Actors -> Jobs] /\ \A u \in Actors \ {a} : job'[u] = job[u]
    <2>1. k = [j EXCEPT !.todo = <<>>, !.probes = ps]
        BY <1>1, <1>2
    <2>2. k \in Jobs
        <3>1. <<>> \in Seq(Oids)
            OBVIOUS
        <3> QED
            BY <1>1, <2>1, <3>1 DEF Jobs
    <2> QED
        BY <1>1, <1>2, <2>1, <2>2 DEF Jobs
<1>5. Advanced(a)
    BY <1>3, <1>4 DEF Advanced
<1>6. j.call \in {"headers", "bytes"} /\ j.probes = <<>>
    BY DEF Batched, BatchFresh
<1>7. JobAt(j, backend, disk, visible, DOMAIN headers, faults, claimed)
    BY DEF JobInv
<1>8. JobAt(k, backend', disk', visible', DOMAIN headers', faults', claimed')
    <2>1. Accounted(k, visible', DOMAIN headers')
        <3>1. Accounted(j, visible, DOMAIN headers) /\ visible \subseteq visible'
              /\ DOMAIN headers \subseteq DOMAIN headers'
            BY <1>7 DEF JobAt, Grown
        <3> QED
            BY <1>3, <1>4, <1>6, <3>1 DEF Accounted
    <2> QED
        BY <1>3, <1>4, <1>6, <2>1 DEF JobAt
<1>9. JobInv'
    BY <1>4, <1>8, JobStays DEF JobInv
<1>10. BatchFresh'
    BY <1>4 DEF BatchFresh, Batched, Grown
<1>11. ASSUME a = Worker PROVE HeadersCome'
    <2> SUFFICES ASSUME k.call = "headers", NoExcuse', NEW x \in ToSet(k.oids) \cap Upstream
                 PROVE  \/ Known(x)'
                        \/ \E q \in ToSet(k.probes) : q.oid = x /\ q.res \notin Errors
        BY <1>11 DEF HeadersCome
    <2>1. NoExcuse
        BY NoExcuseBefore
    <2>2. Known(x) \/ x \in ToSet(j.todo)
        BY <1>3, <1>4, <1>6, <1>11, <2>1 DEF QueueInv, HeadersCome
    <2> QED
        BY <1>4, <2>2, KnownGrows
<1> QED
    BY <1>5, <1>9, <1>10, <1>11

\* The answers about a batch, as AnsweredBatch needs them.
GoodBatch(a, ps) ==
    /\ ps \in Seq(Probes)
    /\ AnsweredAll(a, ps)
    /\ \A p \in ToSet(ps) : ProbeTrue(p, job[a].call, disk', claimed')
    /\ \A o \in ToSet(job[a].todo) : \E p \in ToSet(ps) : p.oid = o
    /\ NoExcuse' => \A o \in ToSet(job[a].todo) \cap Upstream :
          Known(o)' \/ \E p \in ToSet(ps) : p.oid = o /\ p.res \notin Errors

(* A table with a true probe for each object of the batch.                 *)
LEMMA GoodTable ==
    ASSUME Types, NEW a \in Actors, NEW by, AnsweredAll(a, Reorder(job[a].todo, by)),
           \A o \in ToSet(job[a].todo) :
               /\ by[o] \in Probes /\ by[o].oid = o /\ ProbeTrue(by[o], job[a].call, disk', claimed')
               /\ NoExcuse' /\ o \in Upstream => Known(o)' \/ by[o].res \notin Errors
    PROVE  GoodBatch(a, Reorder(job[a].todo, by))
<1>1. job[a].todo \in Seq(Oids)
    BY DEF Types, Jobs
<1>2. /\ Reorder(job[a].todo, by) \in Seq(Probes)
      /\ \A p \in ToSet(Reorder(job[a].todo, by)) :
                 \/ \E o \in ToSet(job[a].todo) : p = by[o]
                 \/ p.res = "Backend" /\ p.header = NoHeader
      /\ \A o \in ToSet(job[a].todo) : by[o] \in ToSet(Reorder(job[a].todo, by))
    BY <1>1, ReorderHolds
<1>3. "Backend" \in Errors
    BY DEF Errors
<1>4. ASSUME NEW p \in ToSet(Reorder(job[a].todo, by)) PROVE ProbeTrue(p, job[a].call, disk', claimed')
    <2>1. CASE p.res = "Backend" /\ p.header = NoHeader
        BY <1>3, <2>1 DEF ProbeTrue
    <2> QED
        BY <1>2, <2>1
<1> QED
    BY <1>2, <1>4 DEF GoodBatch

LEMMA HeaderIsNone == \A o \in Oids : Header(o) # NoHeader
    BY HydrateAssumption DEF Header, NoHeader

LEMMA GvfsAnswers ==
    ASSUME HydrateInv, HydrateInv', StoreInv, Grown, NEW a \in Actors, GvfsPrefetchHeaders(a)
    PROVE  \E ps : GoodBatch(a, ps)
<1> USE DEF StoreInv
<1> DEFINE oids == job[a].todo
           remote == Keep(oids, Oids \ visible)
           table(answer) == [o \in ToSet(oids) |->
                                IF StoreHas(o) THEN Probe(o, "Present") ELSE answer[o]]
<1>1. backend = "gvfs" /\ job[a].call = "headers" /\ oids # <<>> /\ visible' = visible
    BY DEF GvfsPrefetchHeaders, Batched, Fetching
<1>2. oids \in Seq(Blobs) /\ oids \in Seq(Oids)
    BY <1>1 DEF JobInv, JobAt, Types, Jobs
<1>3. ToSet(oids) \subseteq Blobs /\ Blobs \subseteq Oids
    BY <1>2 DEF ToSet, Blobs
<1>4. remote \in Seq(Oids) /\ ToSet(remote) = ToSet(oids) \cap (Oids \ visible)
    BY <1>2, KeepHolds
<1> HIDE DEF remote
<1>5. ASSUME NEW o \in ToSet(oids), StoreHas(o)
      PROVE  /\ Probe(o, "Present") \in Probes /\ Probe(o, "Present").oid = o
             /\ ProbeTrue(Probe(o, "Present"), job[a].call, disk', claimed') /\ Known(o)'
    <2>1. disk'[o] = "whole" /\ o \in Oids
        BY <1>1, <1>3, <1>5 DEF StoreHas, HydrateInv, VisibleIsWhole
    <2> QED
        BY <1>1, <1>5, <2>1 DEF Probe, Probes, Outcomes, SomeHeader, ProbeTrue, Known, Resolves,
                                HeaderHere, StoreHas
<1>6. \A o \in ToSet(oids) : ~StoreHas(o) => o \in ToSet(remote)
    BY <1>3, <1>4 DEF StoreHas
<1>7. ASSUME NEW r \in SetToSeqs(ToSet(remote) \cap Upstream),
             AnsweredAll(a, Reorder(oids, table([o \in ToSet(remote) |->
                 IF o \in Upstream
                   THEN ProbeWith(o, "HeaderOnly", [kind |-> "blob", size |-> Sizes(r, o, remote)])
                   ELSE Probe(o, "Refused")])))
      PROVE  \E ps : GoodBatch(a, ps)
    <2> DEFINE ans == [o \in ToSet(remote) |->
                 IF o \in Upstream
                   THEN ProbeWith(o, "HeaderOnly", [kind |-> "blob", size |-> Sizes(r, o, remote)])
                   ELSE Probe(o, "Refused")]
    <2>1. IsFiniteSet(ToSet(remote) \cap Upstream)
        BY <1>4, ElementsFinite, FS_Subset
    <2>2. r \in Seq(ToSet(remote) \cap Upstream) /\ ToSet(r) = ToSet(remote) \cap Upstream
        BY <2>1, RepliesAreComplete
    <2>3. ASSUME NEW o \in ToSet(remote) \cap Upstream PROVE Sizes(r, o, remote) = Size[o]
        BY <2>2, PlaceOf DEF Sizes
    <2>4. ASSUME NEW o \in ToSet(oids), ~StoreHas(o)
          PROVE  /\ ans[o] \in Probes /\ ans[o].oid = o /\ ProbeTrue(ans[o], job[a].call, disk', claimed')
                 /\ o \in Upstream => ans[o].res \notin Errors
        <3>1. o \in ToSet(remote) /\ o \in Oids /\ Kind[o] = "blob"
            BY <1>3, <1>6, <2>4 DEF Blobs
        <3>2. CASE o \in Upstream
            <4>1. ans[o] = ProbeWith(o, "HeaderOnly", Header(o))
                BY <2>3, <3>1, <3>2 DEF Header
            <4>2. Header(o) # NoHeader
                BY <3>1, HeaderIsNone
            <4> HIDE DEF ans
            <4> QED
                BY <1>1, <3>1, <4>1, <4>2 DEF ProbeWith, Probes, Outcomes, SomeHeader, Errors, ProbeTrue
        <3>3. CASE o \notin Upstream
            <4>1. ans[o] = Probe(o, "Refused")
                BY <3>1, <3>3
            <4> HIDE DEF ans
            <4> QED
                BY <3>1, <3>3, <4>1 DEF Probe, Probes, Outcomes, SomeHeader, Errors, ProbeTrue
        <3> QED
            BY <3>2, <3>3
    <2> HIDE DEF ans
    <2> DEFINE by == table(ans)
    <2>5. AnsweredAll(a, Reorder(oids, by))
        BY <1>7 DEF ans
    <2>6. \A o \in ToSet(oids) : by[o] = IF StoreHas(o) THEN Probe(o, "Present") ELSE ans[o]
        OBVIOUS
    <2> HIDE DEF by
    <2>7. \A o \in ToSet(oids) :
               /\ by[o] \in Probes /\ by[o].oid = o /\ ProbeTrue(by[o], job[a].call, disk', claimed')
               /\ NoExcuse' /\ o \in Upstream => Known(o)' \/ by[o].res \notin Errors
        BY <1>5, <2>4, <2>6
    <2> QED
        BY <2>5, <2>7, GoodTable
<1>8. ASSUME Fault, AnsweredAll(a, Reorder(oids, table([o \in ToSet(remote) |-> Probe(o, "Transport")])))
      PROVE  \E ps : GoodBatch(a, ps)
    <2> DEFINE by == table([o \in ToSet(remote) |-> Probe(o, "Transport")])
    <2>1. \A o \in ToSet(oids) : by[o] = IF StoreHas(o) THEN Probe(o, "Present") ELSE Probe(o, "Transport")
        BY <1>6
    <2>2. AnsweredAll(a, Reorder(oids, by))
        BY <1>8
    <2> HIDE DEF by
    <2>3. \A o \in Oids : /\ Probe(o, "Transport") \in Probes /\ Probe(o, "Transport").oid = o
                          /\ ProbeTrue(Probe(o, "Transport"), job[a].call, disk', claimed')
        BY DEF Probe, Probes, Outcomes, SomeHeader, Errors, ProbeTrue
    <2>4. ~NoExcuse'
        BY <1>8, FaultGrows DEF NoExcuse, Types
    <2>5. \A o \in ToSet(oids) :
               /\ by[o] \in Probes /\ by[o].oid = o /\ ProbeTrue(by[o], job[a].call, disk', claimed')
               /\ NoExcuse' /\ o \in Upstream => Known(o)' \/ by[o].res \notin Errors
        BY <1>3, <1>5, <2>1, <2>3, <2>4
    <2> QED
        BY <2>2, <2>5, GoodTable
<1> QED
    BY <1>7, <1>8 DEF GvfsPrefetchHeaders, remote

(* The last probe for an object is at its first place, and where there is  *)
(* none the object is taken to be present.                                 *)
LEMMA ReassembledHolds ==
    ASSUME NEW oids \in Seq(Oids), NEW ps \in Seq(Probes)
    PROVE  /\ Reassembled(oids, ps) \in Seq(Probes)
           /\ DOMAIN Reassembled(oids, ps) = DOMAIN oids
           /\ \A i \in DOMAIN oids :
                /\ Reassembled(oids, ps)[i].oid = oids[i]
                /\ \/ Reassembled(oids, ps)[i] \in ToSet(ps)
                   \/ Reassembled(oids, ps)[i] = Probe(oids[i], "Present")
                /\ FirstAt(oids, i) =>
                     \/ Reassembled(oids, ps)[i] \in ToSet(ps)
                     \/ \A p \in ToSet(ps) : p.oid # oids[i]
<1> DEFINE R == Reassembled(oids, ps)
           last(o) == SelectLastInSeq(ps, LAMBDA p : p.oid = o)
<1>1. DOMAIN oids = 1..Len(oids) /\ Len(oids) \in Nat /\ \A i \in DOMAIN oids : oids[i] \in Oids
    OBVIOUS
<1>2. \A o \in Oids : Probe(o, "Present") \in Probes /\ Probe(o, "Present").oid = o
    BY DEF Probe, Probes, Outcomes, SomeHeader
<1>3. \A o \in Oids : IF last(o) = 0 THEN \A i \in DOMAIN ps : ps[i].oid # o
                      ELSE last(o) \in DOMAIN ps /\ ps[last(o)].oid = o
    BY LastProbe
<1>4. DOMAIN R = DOMAIN oids /\ \A i \in DOMAIN oids :
          R[i] = IF FirstAt(oids, i) /\ last(oids[i]) # 0 THEN ps[last(oids[i])]
                                                         ELSE Probe(oids[i], "Present")
    BY DEF Reassembled
<1> HIDE DEF R, last
<1>5. \A p \in ToSet(ps) : p \in Probes
    BY DEF ToSet
<1>6. ASSUME NEW i \in DOMAIN oids
      PROVE  /\ R[i] \in Probes /\ R[i].oid = oids[i]
             /\ R[i] \in ToSet(ps) \/ R[i] = Probe(oids[i], "Present")
             /\ FirstAt(oids, i) => R[i] \in ToSet(ps) \/ \A p \in ToSet(ps) : p.oid # oids[i]
    <2>1. CASE FirstAt(oids, i) /\ last(oids[i]) # 0
        <3>1. last(oids[i]) \in DOMAIN ps /\ ps[last(oids[i])].oid = oids[i] /\ R[i] = ps[last(oids[i])]
            BY <1>1, <1>3, <1>4, <2>1
        <3>2. R[i] \in ToSet(ps) /\ R[i].oid = oids[i]
            BY <3>1 DEF ToSet
        <3> QED
            BY <1>5, <3>2
    <2>2. CASE ~(FirstAt(oids, i) /\ last(oids[i]) # 0)
        <3>1. R[i] = Probe(oids[i], "Present")
            BY <1>4, <2>2
        <3>2. FirstAt(oids, i) => \A p \in ToSet(ps) : p.oid # oids[i]
            BY <1>1, <1>3, <2>2 DEF ToSet
        <3> QED
            BY <1>1, <1>2, <3>1, <3>2
    <2> QED
        BY <2>1, <2>2
<1>7. R \in Seq(Probes)
    <2>1. R = [i \in 1..Len(oids) |-> R[i]]
        BY <1>1, <1>4 DEF R, Reassembled
    <2> QED
        BY <1>1, <1>6, <2>1
<1> QED
    BY <1>4, <1>6, <1>7 DEF R

(* What the daemon answers about the first place of an object is true once *)
(* what it fetched has landed.                                             *)
LEMMA ServerHonest ==
    ASSUME NEW oids \in Seq(Oids), NEW peers
    PROVE  /\ ServerProbes(oids, peers) \in Seq(Probes) /\ DOMAIN ServerProbes(oids, peers) = DOMAIN oids
           /\ \A i \in DOMAIN oids :
                /\ ServerProbes(oids, peers)[i].oid = oids[i]
                /\ ServerProbes(oids, peers)[i].header \in {NoHeader, Header(oids[i])}
                /\ FirstAt(oids, i) /\ ServerProbes(oids, peers)[i].res \notin Errors =>
                     \/ oids[i] \in Upstream \ peers \/ disk[oids[i]] = "whole"
                     \/ oids[i] \in peers /\ ServerProbes(oids, peers)[i].res = "Present"
<1> DEFINE query == Keep(oids, {o \in Oids : disk[o] # "whole"})
           table == [o \in Oids |->
                       IF o \in peers THEN Probe(o, "Present")
                       ELSE IF o \in Upstream THEN ProbeWith(o, "PresentWithHeader", Header(o))
                       ELSE Probe(o, "Refused")]
           ps == Reorder(query, table)
           wire == ServerProbes(oids, peers)
<1>1. query \in Seq(Oids) /\ ToSet(query) = ToSet(oids) \cap {o \in Oids : disk[o] # "whole"}
    BY KeepHolds
<1>2. \A o \in Oids : /\ table[o] \in Probes /\ table[o].oid = o
                      /\ table[o].header \in {NoHeader, Header(o)}
                      /\ table[o].res \notin Errors =>
                           o \in Upstream \ peers \/ (o \in peers /\ table[o].res = "Present")
    BY DEF Probe, ProbeWith, Probes, Outcomes, SomeHeader, Errors
<1>3. wire = Reassembled(oids, ps)
    BY DEF ServerProbes
<1> HIDE DEF query, table, wire
<1>4. ToSet(query) \subseteq Oids
    BY <1>1
<1>5. /\ ps \in Seq(Probes)
      /\ \A p \in ToSet(ps) : \/ \E o \in ToSet(query) : p = table[o]
                              \/ p.res = "Backend" /\ p.header = NoHeader
      /\ \A o \in ToSet(query) : table[o] \in ToSet(ps)
    BY <1>1, <1>2, <1>4, ReorderHolds
<1> HIDE DEF ps
<1>6. /\ wire \in Seq(Probes) /\ DOMAIN wire = DOMAIN oids
      /\ \A i \in DOMAIN oids :
           /\ wire[i].oid = oids[i]
           /\ wire[i] \in ToSet(ps) \/ wire[i] = Probe(oids[i], "Present")
           /\ FirstAt(oids, i) => wire[i] \in ToSet(ps) \/ \A p \in ToSet(ps) : p.oid # oids[i]
    BY <1>3, <1>5, ReassembledHolds
<1>7. "Backend" \in Errors
    BY DEF Errors
<1>8. ASSUME NEW i \in DOMAIN oids
      PROVE  /\ wire[i].header \in {NoHeader, Header(oids[i])}
             /\ FirstAt(oids, i) /\ wire[i].res \notin Errors =>
                  \/ oids[i] \in Upstream \ peers \/ disk[oids[i]] = "whole"
                  \/ oids[i] \in peers /\ wire[i].res = "Present"
    <2>0. oids[i] \in Oids /\ oids[i] \in ToSet(oids)
        BY DEF ToSet
    <2>1. CASE wire[i] \in ToSet(ps)
        <3>1. CASE wire[i].res = "Backend" /\ wire[i].header = NoHeader
            BY <1>7, <3>1
        <3>2. CASE \E o \in ToSet(query) : wire[i] = table[o]
            BY <1>2, <1>4, <1>6, <3>2
        <3> QED
            BY <1>5, <2>1, <3>1, <3>2
    <2>2. CASE wire[i] \notin ToSet(ps)
        <3>1. wire[i].header = NoHeader
            BY <1>6, <2>2 DEF Probe
        <3>2. ASSUME FirstAt(oids, i) PROVE disk[oids[i]] = "whole"
            <4>1. oids[i] \notin ToSet(query)
                BY <1>2, <1>4, <1>5, <1>6, <2>2, <3>2
            <4> QED
                BY <1>1, <2>0, <4>1
        <3> QED
            BY <3>1, <3>2
    <2> QED
        BY <2>1, <2>2
<1> QED
    BY <1>6, <1>8 DEF wire

LEMMA DaemonAnswers ==
    ASSUME HydrateInv, StoreInv, Grown, NEW a \in Actors, DaemonBatch(a)
    PROVE  \E ps : GoodBatch(a, ps)
<1> USE DEF StoreInv
<1> DEFINE oids == job[a].todo
           failed(res) == [i \in DOMAIN oids |-> Probe(oids[i], res)]
           S(peers) == {o \in ToSet(oids) \ peers : o \in Upstream \/ disk[o] = "whole"}
<1>1. oids \in Seq(Oids) /\ DOMAIN oids = 1..Len(oids) /\ Len(oids) \in Nat
    BY DEF Types, Jobs
<1>2. ToSet(oids) \subseteq Oids /\ \A i \in DOMAIN oids : oids[i] \in Oids /\ oids[i] \in ToSet(oids)
    BY <1>1 DEF ToSet
<1>3. ASSUME NEW peers \in SUBSET {o \in ToSet(oids) : disk[o] # "whole"}, Lands(S(peers)),
             claimed' = claimed \cup peers, AnsweredAll(a, MergeProbes(oids, ServerProbes(oids, peers)))
      PROVE  \E ps : GoodBatch(a, ps)
    <2> DEFINE wire == ServerProbes(oids, peers)
               first(o) == SelectInSeq(wire, LAMBDA p : p.oid = o)
               by == [o \in ToSet(oids) |->
                        IF first(o) = 0 THEN Probe(o, "Backend") ELSE OverTheWire(wire[first(o)])]
               T == S(peers)
    <2>0. \A o \in ToSet(oids) : o \in T <=> (o \notin peers /\ (o \in Upstream \/ disk[o] = "whole"))
        OBVIOUS
    <2>1. T \in SUBSET Oids /\ Lands(T)
        BY <1>2, <1>3
    <2> HIDE DEF T
    <2>2. (faults' = 0 => T \subseteq visible') /\ \A o \in T : disk'[o] = "whole"
        <3>1. backend # "gvfs"
            BY DEF DaemonBatch
        <3>2. UNCHANGED backend /\ claimed \subseteq claimed'
            BY DEF Grown
        <3> QED
            BY <2>1, <3>1, <3>2, LandsGrown DEF StoreBasics
    <2>3. /\ wire \in Seq(Probes) /\ DOMAIN wire = DOMAIN oids
          /\ \A i \in DOMAIN oids :
                /\ wire[i].oid = oids[i]
                /\ wire[i].header \in {NoHeader, Header(oids[i])}
                /\ FirstAt(oids, i) /\ wire[i].res \notin Errors =>
                     \/ oids[i] \in Upstream \ peers \/ disk[oids[i]] = "whole"
                     \/ oids[i] \in peers /\ wire[i].res = "Present"
        BY <1>1, ServerHonest
    <2>4. AnsweredAll(a, Reorder(oids, by))
        BY <1>3 DEF MergeProbes
    <2> HIDE DEF wire
    <2>5. \A o \in Oids : IF first(o) = 0 THEN \A i \in DOMAIN wire : wire[i].oid # o
                          ELSE /\ first(o) \in DOMAIN wire /\ wire[first(o)].oid = o
                               /\ \A i \in 1..(first(o) - 1) : wire[i].oid # o
        BY <2>3, FirstProbe
    <2> HIDE DEF first
    <2>6. ASSUME NEW o \in ToSet(oids)
          PROVE  /\ by[o] \in Probes /\ by[o].oid = o /\ ProbeTrue(by[o], job[a].call, disk', claimed')
                 /\ NoExcuse' /\ o \in Upstream => Known(o)' \/ by[o].res \notin Errors
        <3>1. PICK n \in DOMAIN oids : oids[n] = o
            BY DEF ToSet
        <3>2. first(o) # 0 /\ o \in Oids
            BY <1>2, <2>3, <2>5, <3>1
        <3> DEFINE k == first(o)
        <3>3. k \in DOMAIN oids /\ wire[k].oid = o /\ oids[k] = o /\ wire[k] \in Probes
              /\ \A i \in 1..(k - 1) : wire[i].oid # o
            BY <2>3, <2>5, <3>2
        <3>4. FirstAt(oids, k)
            <4>1. \A i \in 1..(k - 1) : i \in DOMAIN oids
                BY <1>1, <3>3
            <4> QED
                BY <2>3, <3>3, <4>1 DEF FirstAt
        <3>5. by[o] = OverTheWire(wire[k])
            BY <3>2
        <3> HIDE DEF by, k
        <3>6. /\ by[o] \in Probes /\ by[o].oid = o /\ by[o].header = wire[k].header
              /\ by[o].res \notin Errors => wire[k].res \notin Errors /\ by[o].res = wire[k].res
            <4>1. CASE wire[k].res \in Errors
                <5>1. by[o] = [wire[k] EXCEPT !.res = "Backend"] /\ "Backend" \in Errors
                    BY <3>5, <4>1 DEF OverTheWire, Errors
                <5> QED
                    BY <3>3, <5>1 DEF Probes, Outcomes
            <4>2. CASE wire[k].res \notin Errors
                BY <3>3, <3>5, <4>2 DEF OverTheWire
            <4> QED
                BY <4>1, <4>2
        <3>7. by[o].res \notin Errors => disk'[o] = "whole" \/ (by[o].res = "Present" /\ o \in claimed')
            <4>1. ASSUME by[o].res \notin Errors
                  PROVE  \/ o \in Upstream \ peers \/ disk[o] = "whole"
                         \/ o \in peers /\ by[o].res = "Present"
                BY <2>3, <3>3, <3>4, <3>6, <4>1
            <4>2. disk[o] = "whole" => o \notin peers
                BY <1>3
            <4> QED
                BY <1>3, <2>0, <2>2, <4>1, <4>2
        <3>8. ProbeTrue(by[o], job[a].call, disk', claimed')
            BY <2>3, <3>3, <3>6, <3>7 DEF ProbeTrue
        <3>9. NoExcuse' /\ o \in Upstream => Known(o)'
            BY <1>3, <2>0, <2>2 DEF NoExcuse, Known, Resolves, HeaderHere, StoreHas
        <3> QED
            BY <3>6, <3>8, <3>9
    <2> HIDE DEF by
    <2> QED
        BY <2>4, <2>6, GoodTable
<1>4. ASSUME NEW res \in {"Transport", "Backend"}, Fault, AnsweredAll(a, failed(res))
      PROVE  \E ps : GoodBatch(a, ps)
    <2>1. \A o \in Oids : /\ Probe(o, res) \in Probes /\ Probe(o, res).oid = o
                          /\ ProbeTrue(Probe(o, res), job[a].call, disk', claimed')
        BY DEF Probe, Probes, Outcomes, SomeHeader, Errors, ProbeTrue
    <2> DEFINE ps == failed(res)
    <2>2. \A i \in DOMAIN oids : ps[i] = Probe(oids[i], res)
        OBVIOUS
    <2>3. ps \in Seq(Probes) /\ DOMAIN ps = DOMAIN oids
        BY <1>1, <1>2, <2>1
    <2>4. ~NoExcuse'
        BY <1>4, FaultGrows DEF NoExcuse, Types
    <2>5. AnsweredAll(a, ps)
        BY <1>4
    <2> HIDE DEF ps
    <2>6. \A p \in ToSet(ps) : ProbeTrue(p, job[a].call, disk', claimed')
        BY <1>2, <2>1, <2>2, <2>3 DEF ToSet
    <2>7. \A o \in ToSet(oids) : \E p \in ToSet(ps) : p.oid = o
        BY <1>2, <2>1, <2>2, <2>3 DEF ToSet
    <2> QED
        BY <2>3, <2>4, <2>5, <2>6, <2>7 DEF GoodBatch
<1> QED
    BY <1>3, <1>4 DEF DaemonBatch

LEMMA AnswersBatchInv ==
    ASSUME HydrateInv, HydrateInv', StoreInv, NEW a \in Actors, AnswersBatch(a)
    PROVE  StoreInv'
<1>1. /\ UNCHANGED Local /\ UNCHANGED flightVars /\ UNCHANGED stage
      /\ job[a].todo # <<>> /\ phase[a] = "idle" /\ Batched(a) /\ Types
    BY AnswersBatchFrame DEF StoreInv
<1>2. Grown /\ SeenInv'
    BY <1>1, AnswersBatchGrown, LocalGrown DEF StoreBasics, StoreInv
<1>3. PICK ps : GoodBatch(a, ps)
    BY <1>2, GvfsAnswers, DaemonAnswers DEF AnswersBatch
<1>4. Advanced(a) /\ JobInv' /\ BatchFresh' /\ (a = Worker => HeadersCome')
    BY <1>1, <1>2, <1>3, AnsweredBatch DEF GoodBatch
<1>5. Single!TypeOK' /\ FlightInv' /\ OutcomeInv' /\ StageInv'
    BY <1>1, <1>2, FlightsStay, OutcomesStay, StagesStay DEF StoreInv
<1>6. Types'
    BY <1>1, <1>2, <1>4, <1>5 DEF Types, Grown, Local, readerVars, workerVars, Advanced
<1>7. PhaseInv'
    BY <1>1, <1>2, <1>4, PhasesStay DEF StoreInv, Advanced
<1>8. DiskWanted'
    <2>1. CASE DaemonBatch(a)
        BY <1>2, <2>1 DEF DaemonBatch, DiskWanted, Grown
    <2>2. CASE GvfsPrefetchHeaders(a)
        BY <1>2, <2>2, DiskWantedStays DEF StoreInv, GvfsPrefetchHeaders
    <2> QED
        BY <2>1, <2>2 DEF AnswersBatch
<1>9. CallsInv' /\ WantInv' /\ QueueInv'
    BY <1>1, <1>2, <1>4, <1>8, AdvancedKeeps
<1> QED
    BY <1>1, <1>2, <1>4, <1>5, <1>6, <1>7, <1>9, FetcherFrame DEF StoreInv

-----------------------------------------------------------------------------
(* Steps outside the fetchers: the disk and the flights are as they were.  *)

Surface ==
    /\ UNCHANGED <<backend, cast, disk, visible, faults, claimed>> /\ UNCHANGED flightVars /\ UNCHANGED stage
    /\ HeadersGrown
    /\ wanted \subseteq wanted' /\ lost \subseteq lost'

LEMMA SurfaceKeeps ==
    ASSUME StoreInv, Surface
    PROVE  /\ Grown /\ SeenInv' /\ Single!TypeOK' /\ FlightInv' /\ OutcomeInv' /\ StageInv'
           /\ HeadersTrue' /\ DiskWanted' /\ DOMAIN stage' = Actors
<1>1. Grown
    BY DEF StoreInv, Types, Surface, HeadersGrown, Grown, HeaderHere, StoreHas
<1>2. SeenInv' /\ DiskWanted' /\ HeadersTrue' /\ DOMAIN stage' = Actors
    BY DEF StoreInv, Types, Surface, SeenInv, WantInv, DiskWanted, HeadersGrown
<1> QED
    BY <1>1, <1>2, FlightsStay, OutcomesStay, StagesStay DEF StoreInv, Surface

LEMMA HeadersKept ==
    ASSUME Types, HeadersTrue, UNCHANGED headers
    PROVE  HeadersGrown
    BY DEF Types, HeadersTrue, HeadersGrown

\* Who has nothing to fetch is not in the coalescer.
LEMMA NothingToFetch ==
    ASSUME StoreInv, NEW a \in Actors, job[a].todo = <<>>
    PROVE  phase[a] = "idle"
    BY DEF StoreInv, PhaseInv

LEMMA NotBusy ==
    ASSUME StoreInv, NEW a \in Actors, ~Busy(a)
    PROVE  job[a] = NoJob /\ phase[a] = "idle"
<1>1. job[a] = NoJob
    BY DEF StoreInv, JobInv, JobAt, Busy
<1> QED
    BY <1>1, NothingToFetch DEF NoJob

(* Thread a leaves its call or makes a new one.                            *)
LEMMA SurfaceJobs ==
    ASSUME StoreInv, Surface, NEW a \in Actors, phase[a] = "idle",
           NEW j \in Jobs, job' = [job EXCEPT ![a] = j], j.probes = <<>>,
           JobAt(j, backend', disk', visible', DOMAIN headers', faults', claimed')
    PROVE  /\ job' \in [Actors -> Jobs] /\ PhaseInv' /\ JobInv' /\ BatchFresh'
           /\ job'[a] = j /\ \A u \in Actors \ {a} : job'[u] = job[u]
<1>1. Grown
    BY SurfaceKeeps
<1>2. job \in [Actors -> Jobs] /\ backend' = backend
    BY DEF StoreInv, Types, Surface
<1>3. job' \in [Actors -> Jobs] /\ job'[a] = j /\ \A u \in Actors \ {a} : job'[u] = job[u]
    BY <1>2
<1>4. PhaseInv'
    BY <1>1, <1>3, PhasesStay DEF StoreInv, Surface
<1>5. JobInv'
    BY <1>1, <1>3, JobStays DEF StoreInv, JobInv
<1>6. BatchFresh'
    BY <1>2, <1>3 DEF StoreInv, BatchFresh, Batched
<1> QED
    BY <1>3, <1>4, <1>5, <1>6

LEMMA SurfaceSameJobs ==
    ASSUME StoreInv, Surface, UNCHANGED job
    PROVE  PhaseInv' /\ JobInv' /\ BatchFresh'
<1>1. Grown
    BY SurfaceKeeps
<1>2. PhaseInv'
    BY <1>1, PhasesStay DEF StoreInv, Surface
<1>3. JobInv'
    BY <1>1, JobStays DEF StoreInv, JobInv
<1>4. BatchFresh'
    BY DEF StoreInv, BatchFresh, Batched, Surface
<1> QED
    BY <1>2, <1>3, <1>4

LEMMA NoJobFits ==
    NoJob \in Jobs /\ ToSet(NoJob.todo) = {} /\ \A b, D, V, H, f, C : JobAt(NoJob, b, D, V, H, f, C)
<1>1. ToSet(<<>>) = {}
    BY DEF ToSet
<1>2. <<>> \in Seq(Oids) /\ <<>> \in Seq(Probes)
    OBVIOUS
<1>3. NoJob \in Jobs
    BY <1>2 DEF NoJob, Jobs
<1> QED
    BY <1>1, <1>3 DEF NoJob, JobAt, Accounted

LEMMA BulkReturnsInv ==
    ASSUME HydrateInv, StoreInv, NEW a \in Actors, BulkReturns(a)
    PROVE  StoreInv'
<1> DEFINE j == job[a]  ps == job[a].probes  oids == job[a].oids
           R == Reassembled(oids, ps)
<1>1. /\ j.call \in {"headers", "bytes"} /\ j.todo = <<>> /\ headers' = Published(ps)
      /\ returned' = [returned EXCEPT ![a] = [call |-> j.call, probes |-> R]]
      /\ job' = [job EXCEPT ![a] = NoJob]
      /\ UNCHANGED <<backend, cast, disk, visible, faults, claimed>> /\ UNCHANGED flightVars
      /\ UNCHANGED stage
      /\ UNCHANGED <<asked, reply, reads, posting, wanted, tx, queue, task, skipped, lost, walk>>
    BY DEF BulkReturns, diskVars, readerVars, workerVars
<1>2. ps \in Seq(Probes) /\ oids \in Seq(Oids) /\ Types
    BY DEF StoreInv, Types, Jobs
<1>3. JobAt(j, backend, disk, visible, DOMAIN headers, faults, claimed)
    BY DEF StoreInv, JobInv
<1>4. \A p \in ToSet(ps) : ProbeTrue(p, j.call, disk, claimed)
    BY <1>3 DEF JobAt
<1>5. HeadersGrown /\ \A p \in ToSet(ps) : p.header # NoHeader => p.oid \in DOMAIN headers'
    BY <1>1, <1>2, <1>4, PublishedGrown DEF StoreInv
<1>6. Surface
    BY <1>1, <1>5 DEF Surface
<1>7. /\ Grown /\ SeenInv' /\ Single!TypeOK' /\ FlightInv' /\ OutcomeInv' /\ StageInv'
      /\ HeadersTrue' /\ DiskWanted' /\ DOMAIN stage' = Actors
    BY <1>6, SurfaceKeeps
<1>8. phase[a] = "idle"
    BY <1>1, NothingToFetch
<1>9. /\ job' \in [Actors -> Jobs] /\ PhaseInv' /\ JobInv' /\ BatchFresh'
      /\ job'[a] = NoJob /\ \A u \in Actors \ {a} : job'[u] = job[u]
    <2>1. NoJob.probes = <<>>
        BY DEF NoJob
    <2> QED
        BY <1>1, <1>6, <1>8, <2>1, NoJobFits, SurfaceJobs
<1>10. /\ R \in Seq(Probes) /\ DOMAIN R = DOMAIN oids
       /\ \A i \in DOMAIN oids :
            /\ R[i].oid = oids[i]
            /\ FirstAt(oids, i) => R[i] \in ToSet(ps) \/ \A p \in ToSet(ps) : p.oid # oids[i]
    BY <1>2, ReassembledHolds
<1> HIDE DEF R
<1>11. returned' \in [Actors -> [call : {"none", "headers", "bytes"}, probes : Seq(Probes)]]
    BY <1>1, <1>10 DEF StoreInv, Types
<1>12. Types'
    BY <1>1, <1>2, <1>7, <1>9, <1>11 DEF Types, Grown
<1>13. Worker \in Actors /\ Warmer \in Actors /\ Readers \subseteq Actors
    BY DEF Actors
<1>14. CallsInv'
    BY <1>1, <1>9, <1>13 DEF StoreInv, CallsInv, NoJob
<1>15. WantInv'
    BY <1>1, <1>7, <1>9, WantStays DEF StoreInv, NoJob
<1>16. PostingInv' /\ FailuresHaveCauses' /\ WalkInv'
    BY <1>1, <1>2, <1>7, FailuresStay, WalkStays DEF StoreInv, PostingInv
<1>17. FirstProbeHonest'
    <2>1. ASSUME NEW u \in Actors, u # a PROVE returned'[u] = returned[u]
        BY <1>1, <1>2, <2>1 DEF Types
    <2>2. returned'[a] = [call |-> j.call, probes |-> R]
        BY <1>1, <1>2 DEF Types
    <2>3. [i \in DOMAIN R |-> R[i].oid] = oids
        BY <1>2, <1>10
    <2>4. ASSUME NEW i \in DOMAIN R, FirstAt(oids, i), R[i].res \notin Errors
          PROVE  \/ disk'[R[i].oid] = "whole"
                 \/ j.call = "headers" /\ R[i].oid \in DOMAIN headers'
                 \/ R[i].res = "Present" /\ R[i].oid \in claimed'
        <3>1. CASE R[i] \in ToSet(ps)
            BY <1>1, <1>4, <1>5, <2>4, <3>1 DEF ProbeTrue
        <3>2. CASE \A p \in ToSet(ps) : p.oid # oids[i]
            <4>1. oids[i] \in ToSet(oids) /\ ToSet(j.todo) = {} /\ oids[i] \in Oids
                BY <1>1, <1>2, <1>10 DEF ToSet
            <4>2. oids[i] \in visible \/ (j.call = "headers" /\ oids[i] \in DOMAIN headers)
                BY <1>3, <3>2, <4>1 DEF JobAt, Accounted
            <4>3. oids[i] \in visible => disk[oids[i]] = "whole"
                BY <4>1 DEF HydrateInv, VisibleIsWhole
            <4> QED
                BY <1>1, <1>7, <1>10, <4>2, <4>3 DEF Grown
        <3> QED
            BY <1>10, <2>4, <3>1, <3>2
    <2>5. \A i \in DOMAIN returned'[a].probes :
               LET p == returned'[a].probes[i]
                   os == [n \in DOMAIN returned'[a].probes |-> returned'[a].probes[n].oid]
               IN FirstAt(os, i) /\ p.res \notin Errors =>
                    \/ disk'[p.oid] = "whole"
                    \/ returned'[a].call = "headers" /\ p.oid \in DOMAIN headers'
                    \/ p.res = "Present" /\ p.oid \in claimed'
        BY <2>2, <2>3, <2>4
    <2>6. ASSUME NEW u \in Actors
          PROVE  \A i \in DOMAIN returned'[u].probes :
               LET p == returned'[u].probes[i]
                   os == [n \in DOMAIN returned'[u].probes |-> returned'[u].probes[n].oid]
               IN FirstAt(os, i) /\ p.res \notin Errors =>
                    \/ disk'[p.oid] = "whole"
                    \/ returned'[u].call = "headers" /\ p.oid \in DOMAIN headers'
                    \/ p.res = "Present" /\ p.oid \in claimed'
        <3>1. CASE u = a
            BY <2>5, <3>1
        <3>2. CASE u # a
            BY <1>2, <1>7, <2>1, <3>2, ReturnedStays DEF StoreInv
        <3> QED
            BY <3>1, <3>2
    <2> QED
        BY <2>6 DEF FirstProbeHonest
<1>18. QueueInv'
    <2>1. CASE a # Worker
        BY <1>1, <1>2, <1>7, <1>9, <1>13, <2>1, QueueStays DEF StoreInv
    <2>2. CASE a = Worker
        <3>1. HeadersCome'
            BY <1>9, <2>2 DEF HeadersCome, NoJob
        <3>2. ASSUME NoExcuse', NEW o \in Upstream, Soon(o) PROVE Soon(o)'
            <4>1. CASE Known(o)
                BY <1>7, <4>1, KnownGrows DEF Soon
            <4>2. CASE task.kind = "Headers" /\ o \in ToSet(task.oids)
                BY <1>1, <4>2 DEF Soon
            <4>3. CASE j.call = "headers" /\ o \in ToSet(oids) /\ ~Known(o)
                <5>1. NoExcuse
                    BY <1>2, <1>7, <3>2, NoExcuseBefore
                <5>2. ToSet(j.todo) = {} /\ o \in Oids
                    BY <1>1, HydrateAssumption DEF ToSet
                <5>3. PICK p \in ToSet(ps) : p.oid = o /\ p.res \notin Errors
                    BY <2>2, <4>3, <5>1, <5>2 DEF StoreInv, QueueInv, HeadersCome
                <5>4. disk[o] = "whole" \/ p.header # NoHeader
                    BY <1>4, <4>3, <5>3 DEF ProbeTrue, Known
                <5>5. CASE disk[o] = "whole"
                    BY <4>3, <5>1, <5>2, <5>5 DEF StoreInv, SeenInv, NoExcuse, Known, Resolves, HeaderHere, StoreHas
                <5>6. CASE p.header # NoHeader
                    BY <1>5, <5>3, <5>6 DEF Soon, Known, Resolves
                <5> QED
                    BY <5>4, <5>5, <5>6
            <4> QED
                BY <2>2, <3>2, <4>1, <4>2, <4>3 DEF Soon
        <3>3. NoExcuse' => \A o \in skipped' \cap Upstream : Size[o] > Cap \/ o \in claimed'
            BY <1>1, <1>2, <1>7, NoExcuseBefore DEF StoreInv, QueueInv
        <3> QED
            BY <1>1, <1>2, <1>7, <3>1, <3>2, <3>3, QueueCarries DEF StoreInv
    <2> QED
        BY <2>1, <2>2
<1> QED
    BY <1>7, <1>9, <1>12, <1>14, <1>15, <1>16, <1>17, <1>18 DEF StoreInv

-----------------------------------------------------------------------------
(* The readers.                                                            *)

LEMMA Singleton ==
    ASSUME NEW o \in Oids
    PROVE  /\ <<o>> \in Seq(Oids) /\ ToSet(<<o>>) = {o} /\ <<o>> # <<>>
           /\ FetchOne(o) \in Jobs /\ FetchOne(o).probes = <<>> /\ FetchOne(o).call = "fetch"
           /\ FetchOne(o).todo = <<o>> /\ FetchOne(o).oids = <<o>>
           /\ \A b, D, V, H, f, C : JobAt(FetchOne(o), b, D, V, H, f, C)
<1>1. <<o>> \in Seq(Oids) /\ ToSet(<<o>>) = {o} /\ <<o>> # <<>> /\ ToSet(<<>>) = {}
    BY DEF ToSet
<1>2. <<>> \in Seq(Probes)
    OBVIOUS
<1>3. FetchOne(o) \in Jobs
    BY <1>1, <1>2 DEF FetchOne, Jobs
<1>4. ASSUME NEW b, NEW D, NEW V, NEW H, NEW f, NEW C PROVE JobAt(FetchOne(o), b, D, V, H, f, C)
    <2>1. OneFetch(FetchOne(o), b, V, f)
        BY DEF FetchOne, OneFetch
    <2>2. Accounted(FetchOne(o), V, H)
        BY <1>1 DEF FetchOne, Accounted
    <2> QED
        BY <1>1, <2>1, <2>2 DEF FetchOne, JobAt
<1> QED
    BY <1>1, <1>3, <1>4 DEF FetchOne

LEMMA ServedIsNoError ==
    ASSUME NEW op, NEW o \in Oids
    PROVE  /\ Served(op, o) \notin Errors /\ "none" \notin Errors /\ "UnexpectedKind" \notin Errors
           /\ Served(op, o) = "UnexpectedKind" => op # Kind[o]
           /\ Served(op, o) = "Ok" => Readable(op, o)
           /\ StoreHas(o) /\ Kind[o] = "tree" => Served("tree", o) = "Ok"
           /\ Hit(op, o) /\ Served(op, o) = "Corrupt" => disk[o] \in Cut
    BY DEF Served, Errors, Hit, Readable

\* What is cut has a cause.
LEMMA CutIsCaused ==
    ASSUME SeenInv, NEW o \in Oids, disk[o] \in Cut
    PROVE  backend = "gvfs" /\ faults > 0 /\ disk[o] # "absent"
    BY DEF SeenInv, Cut

\* The failures of all readers, if those of reader r have causes and no other has a new reply.
LEMMA FailuresMove ==
    ASSUME HydrateInv, StoreInv, Grown, NEW r \in Readers, NEW op, NEW o \in Oids, NEW rep,
           asked' = [asked EXCEPT ![r] = <<op, o>>], reply' = [reply EXCEPT ![r] = rep],
           backend # "noop" /\ faults' = 0 /\ o \in Upstream => rep \notin Errors,
           rep = "UnexpectedKind" => op # Kind[o],
           rep = "Corrupt" => backend = "gvfs" /\ faults > 0 /\ disk[o] # "absent",
           backend = "gvfs" /\ rep \in Errors =>
             /\ rep = "Refused" => o \notin Upstream
             /\ o \notin Upstream /\ faults' = 0 => rep = "Refused"
    PROVE  FailuresHaveCauses'
<1>1. asked \in [Readers -> {"blob", "tree", "header"} \X Oids] /\ DOMAIN reply = Readers
      /\ backend' = backend
    BY DEF HydrateInv, ReadersAsk, Grown
<1>2. asked'[r] = <<op, o>> /\ reply'[r] = rep
      /\ \A u \in Readers \ {r} : asked'[u] = asked[u] /\ reply'[u] = reply[u]
    BY <1>1
<1>3. asked'[r][1] = op /\ asked'[r][2] = o
    BY <1>2
<1>4. (faults' = 0 => faults = 0) /\ (faults > 0 => faults' > 0)
    BY GrownFaults DEF StoreInv
<1>5. \A x \in Oids : disk[x] # "absent" => disk'[x] # "absent"
    BY DEF Grown
<1>6. \A u \in Readers : asked[u][2] \in Oids
    BY <1>1
<1> QED
    BY <1>1, <1>2, <1>3, <1>4, <1>5, <1>6 DEF StoreInv, FailuresHaveCauses

LEMMA ReadHitInv ==
    ASSUME HydrateInv, StoreInv, NEW r \in Readers, NEW op \in {"blob", "tree", "header"},
           NEW o \in Oids, ReadHit(r, op, o)
    PROVE  StoreInv'
<1>1. /\ ~Busy(r) /\ UNCHANGED <<backend, cast, disk, visible, faults, claimed>> /\ UNCHANGED flightVars
      /\ UNCHANGED stage
      /\ UNCHANGED <<job, returned, posting, wanted, tx, queue, task, skipped, lost, walk>>
      /\ headers' = Recalled({o}) \/ UNCHANGED headers
    BY DEF ReadHit, Idle, diskVars, workerVars
<1>2. HeadersGrown /\ Types
    BY <1>1, RecalledGrown, HeadersKept DEF StoreInv
<1>3. Surface
    BY <1>1, <1>2 DEF Surface
<1>4. /\ Grown /\ SeenInv' /\ Single!TypeOK' /\ FlightInv' /\ OutcomeInv' /\ StageInv'
      /\ HeadersTrue' /\ DiskWanted' /\ DOMAIN stage' = Actors
    BY <1>3, SurfaceKeeps
<1>5. PhaseInv' /\ JobInv' /\ BatchFresh'
    BY <1>1, <1>3, SurfaceSameJobs
<1>6. Types'
    BY <1>1, <1>2, <1>4 DEF Types, Grown
<1>7. r \in Actors
    BY DEF Actors
<1>8. job[r] = NoJob
    BY <1>1, <1>7, NotBusy
<1>9. \A u \in Readers \ {r} : asked'[u] = asked[u]
    BY DEF ReadHit, HydrateInv, ReadersAsk
<1>10. CallsInv' /\ WantInv'
    BY <1>1, <1>4, <1>8, <1>9 DEF StoreInv, CallsInv, WantInv, DiskWanted, NoJob
<1>11. FailuresHaveCauses'
    <2>1. Served(op, o) = "Corrupt" => backend = "gvfs" /\ faults > 0 /\ disk[o] # "absent"
        BY ServedIsNoError, CutIsCaused DEF ReadHit, StoreInv
    <2> QED
        BY <1>4, <2>1, FailuresMove, ServedIsNoError DEF ReadHit
<1>12. FirstProbeHonest' /\ PostingInv' /\ QueueInv' /\ WalkInv'
    BY <1>1, <1>2, <1>4, AllReturnedStay, QueueStays, WalkStays DEF StoreInv, PostingInv
<1> QED
    BY <1>4, <1>5, <1>6, <1>10, <1>11, <1>12 DEF StoreInv

LEMMA ReadMissInv ==
    ASSUME HydrateInv, StoreInv, NEW r \in Readers, NEW op \in {"blob", "tree", "header"},
           NEW o \in Oids, ReadMiss(r, op, o)
    PROVE  StoreInv'
<1>1. /\ ~Busy(r) /\ UNCHANGED <<backend, cast, disk, visible, faults, claimed>> /\ UNCHANGED flightVars
      /\ UNCHANGED stage
      /\ UNCHANGED <<headers, returned, posting, tx, queue, task, skipped, lost, walk>>
      /\ job' = [job EXCEPT ![r] = FetchOne(o)] /\ wanted' = wanted \cup {o}
    BY DEF ReadMiss, Idle, diskVars, workerVars
<1>2. HeadersGrown /\ Types
    BY <1>1, HeadersKept DEF StoreInv
<1>3. Surface
    BY <1>1, <1>2 DEF Surface
<1>4. /\ Grown /\ SeenInv' /\ Single!TypeOK' /\ FlightInv' /\ OutcomeInv' /\ StageInv'
      /\ HeadersTrue' /\ DiskWanted' /\ DOMAIN stage' = Actors
    BY <1>3, SurfaceKeeps
<1>5. r \in Actors /\ Worker \in Actors \ {r} /\ Warmer \in Actors \ {r} /\ Readers \subseteq Actors
    BY HydrateAssumption DEF Actors
<1>6. phase[r] = "idle"
    BY <1>1, <1>5, NotBusy
<1>7. /\ job' \in [Actors -> Jobs] /\ PhaseInv' /\ JobInv' /\ BatchFresh'
      /\ job'[r] = FetchOne(o) /\ \A u \in Actors \ {r} : job'[u] = job[u]
    BY <1>1, <1>3, <1>5, <1>6, Singleton, SurfaceJobs
<1>8. Types'
    BY <1>1, <1>2, <1>4, <1>7 DEF Types, Grown
<1>9. asked'[r] = <<op, o>> /\ \A u \in Readers \ {r} : asked'[u] = asked[u]
    BY DEF ReadMiss, HydrateInv, ReadersAsk
<1>10. CallsInv'
    <2>1. job'[r].call = "fetch" /\ job'[r].oids = <<o>> /\ asked'[r][2] = o
        BY <1>7, <1>9 DEF FetchOne
    <2>2. CallsInv
        BY DEF StoreInv
    <2> QED
        BY <1>1, <1>5, <1>7, <1>9, <2>1, <2>2 DEF CallsInv
<1>11. WantInv'
    <2>1. \A u \in Readers : job'[u].call = "fetch" => asked'[u][2] \in wanted'
        BY <1>1, <1>5, <1>7, <1>9 DEF StoreInv, WantInv
    <2>2. \A u \in Actors : job'[u].call \in {"fetch", "bytes"} =>
              \A x \in ToSet(job'[u].todo) : Big(x) => x \in wanted'
        BY <1>1, <1>7, Singleton DEF StoreInv, WantInv
    <2> QED
        BY <1>4, <2>1, <2>2 DEF WantInv, DiskWanted, Big
<1>12. FailuresHaveCauses'
    <2>1. "none" \notin Errors
        BY DEF Errors
    <2> QED
        BY <1>4, <2>1, FailuresMove DEF ReadMiss
<1>13. FirstProbeHonest' /\ PostingInv' /\ QueueInv' /\ WalkInv'
    BY <1>1, <1>2, <1>4, <1>5, <1>7, AllReturnedStay, QueueStays, WalkStays DEF StoreInv, PostingInv
<1> QED
    BY <1>4, <1>7, <1>8, <1>10, <1>11, <1>12, <1>13 DEF StoreInv

(* What a hydrating read makes of the fetcher's answer.                    *)
LEMMA RetriedIsCaused ==
    ASSUME Types, NEW a \in Actors, NEW op \in {"blob", "tree", "header"}, NEW o \in Oids,
           FetchHonest(job[a].probes[1], o, backend, visible, faults)
    PROVE  LET rep == Retried(a, op, o)
           IN  /\ backend # "noop" /\ faults = 0 /\ o \in Upstream => rep = Served(op, o)
               /\ rep = "UnexpectedKind" => op # Kind[o]
               /\ rep = "Ok" => job[a].probes[1].res \notin Errors /\ Readable(op, o)
               /\ rep = "Corrupt" => disk[o] \in Cut
               /\ backend = "gvfs" /\ rep \in Errors =>
                    /\ rep = "Refused" => o \notin Upstream
                    /\ o \notin Upstream /\ faults = 0 => rep = "Refused"
<1> DEFINE p == job[a].probes[1]  rep == Retried(a, op, o)
<1>0. faults \in Nat
    BY DEF Types
<1>1. o \in visible => Hit(op, o)
    BY DEF Hit, Readable, Resolves, HeaderHere, StoreHas
<1>2. CASE p.res \in Errors
    <2>1. rep = p.res /\ rep # "Ok" /\ rep # "UnexpectedKind" /\ rep # "Corrupt"
        BY <1>2 DEF Retried, Errors
    <2> QED
        BY <1>0, <1>2, <2>1 DEF FetchHonest
<1>3. CASE p.res \notin Errors /\ Hit(op, o)
    <2>1. rep = Served(op, o)
        BY <1>3 DEF Retried
    <2> QED
        BY <1>3, <2>1, ServedIsNoError
<1>4. CASE p.res \notin Errors /\ ~Hit(op, o)
    <2>1. rep = "NotPresentAfterFetch"
        BY <1>4 DEF Retried
    <2>2. backend = "daemon" /\ faults > 0
        BY <1>1, <1>4 DEF FetchHonest
    <2> QED
        BY <1>0, <2>1, <2>2
<1> QED
    BY <1>2, <1>3, <1>4

\* A call for one object that is over has an honest answer about it.
LEMMA FetchedHonest ==
    ASSUME StoreInv, NEW a \in Actors, Fetched(a), NEW o, job[a].oids = <<o>>
    PROVE  FetchHonest(job[a].probes[1], o, backend, visible, faults)
<1>1. OneFetch(job[a], backend, visible, faults) /\ job[a].todo = <<>>
    BY DEF StoreInv, JobInv, JobAt, Fetched
<1>2. PICK x \in Oids : job[a].oids = <<x>> /\ FetchHonest(job[a].probes[1], x, backend, visible, faults)
    BY <1>1 DEF OneFetch
<1>3. x = o
    BY <1>2
<1> QED
    BY <1>2, <1>3

LEMMA ReadFetchedInv ==
    ASSUME HydrateInv, StoreInv, NEW r \in Readers, ReadFetched(r)
    PROVE  StoreInv'
<1> DEFINE op == asked[r][1]  o == asked[r][2]
<1>0. /\ asked \in [Readers -> {"blob", "tree", "header"} \X Oids]
      /\ op \in {"blob", "tree", "header"} /\ o \in Oids /\ asked[r] = <<op, o>>
    BY DEF HydrateInv, ReadersAsk
<1>1. /\ Fetched(r) /\ UNCHANGED <<backend, cast, disk, visible, faults, claimed>> /\ UNCHANGED flightVars
      /\ UNCHANGED stage
      /\ UNCHANGED <<asked, returned, posting, wanted, tx, queue, task, skipped, lost, walk>>
      /\ headers' = Recalled({o}) \/ UNCHANGED headers
      /\ reply' = [reply EXCEPT ![r] = Retried(r, op, o)]
      /\ job' = [job EXCEPT ![r] = NoJob]
    BY DEF ReadFetched, diskVars, workerVars
<1>2. HeadersGrown /\ Types
    BY <1>0, <1>1, RecalledGrown, HeadersKept DEF StoreInv
<1>3. Surface
    BY <1>1, <1>2 DEF Surface
<1>4. /\ Grown /\ SeenInv' /\ Single!TypeOK' /\ FlightInv' /\ OutcomeInv' /\ StageInv'
      /\ HeadersTrue' /\ DiskWanted' /\ DOMAIN stage' = Actors
    BY <1>3, SurfaceKeeps
<1>5. r \in Actors /\ Worker \in Actors \ {r} /\ Warmer \in Actors \ {r} /\ Readers \subseteq Actors
    BY HydrateAssumption DEF Actors
<1>6. phase[r] = "idle" /\ NoJob.probes = <<>> /\ NoJob.call = "none"
    BY <1>1, <1>5, NothingToFetch DEF Fetched, NoJob
<1>7. /\ job' \in [Actors -> Jobs] /\ PhaseInv' /\ JobInv' /\ BatchFresh'
      /\ job'[r] = NoJob /\ \A u \in Actors \ {r} : job'[u] = job[u]
    BY <1>1, <1>3, <1>5, <1>6, NoJobFits, SurfaceJobs
<1>8. Types'
    BY <1>1, <1>2, <1>4, <1>7 DEF Types, Grown
<1>9. CallsInv'
    BY <1>1, <1>5, <1>6, <1>7 DEF StoreInv, CallsInv
<1>10. WantInv'
    BY <1>1, <1>4, <1>6, <1>7, WantStays DEF StoreInv
<1>11. FailuresHaveCauses'
    <2>1. job[r].oids = <<o>>
        BY <1>1 DEF StoreInv, CallsInv, Fetched
    <2>2. FetchHonest(job[r].probes[1], o, backend, visible, faults)
        BY <1>1, <1>5, <2>1, FetchedHonest
    <2>3. asked' = [asked EXCEPT ![r] = <<op, o>>]
        BY <1>0, <1>1
    <2> HIDE DEF op, o
    <2>4. /\ backend # "noop" /\ faults = 0 /\ o \in Upstream => Retried(r, op, o) = Served(op, o)
          /\ Retried(r, op, o) = "UnexpectedKind" => op # Kind[o]
          /\ backend = "gvfs" /\ Retried(r, op, o) \in Errors =>
               /\ Retried(r, op, o) = "Refused" => o \notin Upstream
               /\ o \notin Upstream /\ faults = 0 => Retried(r, op, o) = "Refused"
        BY <1>0, <1>2, <1>5, <2>2, RetriedIsCaused
    <2>5. Served(op, o) \notin Errors
        BY <1>0, ServedIsNoError
    <2>6. Retried(r, op, o) = "Corrupt" => disk[o] \in Cut
        BY <1>0, <1>2, <1>5, <2>2, RetriedIsCaused, Zenon
    <2>7. Retried(r, op, o) = "Corrupt" => backend = "gvfs" /\ faults > 0 /\ disk[o] # "absent"
        BY <1>0, <2>6, CutIsCaused DEF StoreInv
    <2>8. o \in Oids /\ Grown /\ faults' = faults /\ reply' = [reply EXCEPT ![r] = Retried(r, op, o)]
        BY <1>0, <1>1, <1>4 DEF op, o
    <2> QED
        BY <2>3, <2>4, <2>5, <2>7, <2>8, FailuresMove
<1>12. FirstProbeHonest' /\ PostingInv' /\ QueueInv' /\ WalkInv'
    BY <1>1, <1>2, <1>4, <1>5, <1>7, AllReturnedStay, QueueStays, WalkStays DEF StoreInv, PostingInv
<1> QED
    BY <1>4, <1>7, <1>8, <1>9, <1>10, <1>11, <1>12 DEF StoreInv

(* A step that leaves the store, the calls and the reads alone.            *)
Bookkeeping ==
    /\ UNCHANGED <<backend, cast, disk, visible, faults, claimed>> /\ UNCHANGED flightVars /\ UNCHANGED stage
    /\ UNCHANGED <<headers, job, returned, asked, reply, wanted, walk>>
    /\ lost \subseteq lost'

LEMMA BookkeepingKeeps ==
    ASSUME HydrateInv, StoreInv, Bookkeeping,
           posting' \in [Readers -> Seq(Tasks)], queue' \in Seq(Tasks),
           task' \in Tasks \cup {NoTask, [NoTask EXCEPT !.kind = "exited"]},
           job[Worker].call = "headers" => task'.kind = "Headers",
           PostingInv', Grown => QueueInv'
    PROVE  StoreInv'
<1>1. HeadersGrown /\ Types
    BY HeadersKept DEF StoreInv, Bookkeeping
<1>2. Surface
    BY <1>1 DEF Surface, Bookkeeping
<1>3. /\ Grown /\ SeenInv' /\ Single!TypeOK' /\ FlightInv' /\ OutcomeInv' /\ StageInv'
      /\ HeadersTrue' /\ DiskWanted' /\ DOMAIN stage' = Actors
    BY <1>2, SurfaceKeeps
<1>4. PhaseInv' /\ JobInv' /\ BatchFresh'
    BY <1>2, SurfaceSameJobs DEF Bookkeeping
<1>5. Types'
    BY <1>1, <1>3 DEF Types, Grown, Bookkeeping
<1>6. CallsInv' /\ WantInv'
    BY <1>3 DEF StoreInv, CallsInv, WantInv, DiskWanted, Bookkeeping
<1>7. FailuresHaveCauses' /\ FirstProbeHonest' /\ WalkInv'
    BY <1>1, <1>3, FailuresStay, AllReturnedStay, WalkStays DEF StoreInv, Bookkeeping
<1> QED
    BY <1>3, <1>4, <1>5, <1>6, <1>7 DEF StoreInv

LEMMA ConcatSet ==
    ASSUME NEW X, NEW s \in Seq(X), NEW t \in Seq(X)
    PROVE  /\ s \o t \in Seq(X) /\ Len(s \o t) = Len(s) + Len(t)
           /\ \A i \in 1..Len(s) : (s \o t)[i] = s[i]
           /\ \A i \in 1..Len(t) : (s \o t)[Len(s) + i] = t[i]
           /\ ToSet(s \o t) = ToSet(s) \cup ToSet(t)
<1> DEFINE q == s \o t
<1>1. /\ q \in Seq(X) /\ Len(q) = Len(s) + Len(t) /\ Len(s) \in Nat /\ Len(t) \in Nat
      /\ DOMAIN q = 1..(Len(s) + Len(t)) /\ DOMAIN s = 1..Len(s) /\ DOMAIN t = 1..Len(t)
      /\ \A i \in 1..(Len(s) + Len(t)) : q[i] = IF i <= Len(s) THEN s[i] ELSE t[i - Len(s)]
    OBVIOUS
<1> HIDE DEF q
<1>2. ASSUME NEW i \in 1..Len(s) PROVE i \in DOMAIN q /\ q[i] = s[i]
    BY <1>1
<1>3. ASSUME NEW i \in 1..Len(t) PROVE Len(s) + i \in DOMAIN q /\ q[Len(s) + i] = t[i]
    <2>1. Len(s) + i \in 1..(Len(s) + Len(t)) /\ ~(Len(s) + i <= Len(s)) /\ (Len(s) + i) - Len(s) = i
        BY <1>1
    <2> QED
        BY <1>1, <2>1
<1>4. ASSUME NEW i \in DOMAIN q PROVE q[i] \in ToSet(s) \cup ToSet(t)
    <2>1. CASE i <= Len(s)
        <3>1. i \in DOMAIN s /\ q[i] = s[i]
            BY <1>1, <2>1
        <3> QED
            BY <3>1 DEF ToSet
    <2>2. CASE ~(i <= Len(s))
        <3>1. i - Len(s) \in DOMAIN t /\ q[i] = t[i - Len(s)]
            BY <1>1, <2>2
        <3> QED
            BY <3>1 DEF ToSet
    <2> QED
        BY <2>1, <2>2
<1>5. ToSet(q) = ToSet(s) \cup ToSet(t)
    <2>1. ToSet(q) \subseteq ToSet(s) \cup ToSet(t)
        BY <1>4 DEF ToSet
    <2>2. ASSUME NEW x \in ToSet(s) PROVE x \in ToSet(q)
        BY <1>1, <1>2 DEF ToSet
    <2>3. ASSUME NEW x \in ToSet(t) PROVE x \in ToSet(q)
        <3>1. PICK i \in 1..Len(t) : x = t[i]
            BY <1>1 DEF ToSet
        <3>2. Len(s) + i \in DOMAIN q /\ q[Len(s) + i] = x
            BY <1>3, <3>1
        <3> QED
            BY <3>2 DEF ToSet
    <2> QED
        BY <2>1, <2>2, <2>3
<1> QED
    BY <1>1, <1>2, <1>3, <1>5 DEF q

LEMMA ReadDirInv ==
    ASSUME HydrateInv, StoreInv, NEW r \in Readers, NEW dir \in Seq(Blobs), ReadDir(r, dir)
    PROVE  StoreInv'
<1> DEFINE h == [kind |-> "Headers", oids |-> dir]  b == [kind |-> "Blobs", oids |-> dir]
<1>1. /\ UNCHANGED <<tx, queue, task, skipped, lost>>
      /\ posting' = [posting EXCEPT ![r] = PostPrefetch(dir)] /\ Types
    BY DEF ReadDir, workerVars, StoreInv
<1>2. h \in Tasks /\ b \in Tasks /\ h.kind = "Headers" /\ b.oids = h.oids
    BY DEF Tasks
<1> HIDE DEF h, b
<1>3. PICK s, t : /\ s = <<h>> /\ t = IF BlobPrefetch THEN <<b>> ELSE <<>>
                  /\ PostPrefetch(dir) = s \o t
    BY DEF PostPrefetch, h, b
<1>4. /\ PostPrefetch(dir) \in Seq(Tasks) /\ Len(PostPrefetch(dir)) <= 2
      /\ PostPrefetch(dir)[1] = h
      /\ Len(PostPrefetch(dir)) = 2 => PostPrefetch(dir)[2] = b
    <2>1. s \in Seq(Tasks) /\ Len(s) = 1 /\ s[1] = h
        BY <1>2, <1>3
    <2>2. t \in Seq(Tasks) /\ (Len(t) = 0 \/ (Len(t) = 1 /\ t[1] = b))
        BY <1>2, <1>3
    <2>3. /\ s \o t \in Seq(Tasks) /\ Len(s \o t) = 1 + Len(t) /\ (s \o t)[1] = h
          /\ Len(t) = 1 => (s \o t)[2] = b
        <3>1. /\ s \o t \in Seq(Tasks) /\ Len(s \o t) = 1 + Len(t)
              /\ \A i \in 1..1 : (s \o t)[i] = s[i]
              /\ \A i \in 1..Len(t) : (s \o t)[1 + i] = t[i]
            BY <2>1, <2>2, ConcatSet
        <3>2. (s \o t)[1] = h
            BY <2>1, <3>1
        <3>3. Len(t) = 1 => (s \o t)[1 + 1] = b
            BY <2>2, <3>1
        <3> QED
            BY <3>1, <3>2, <3>3
    <2> QED
        BY <1>3, <2>2, <2>3
<1>5. /\ posting' \in [Readers -> Seq(Tasks)] /\ posting'[r] = PostPrefetch(dir)
      /\ \A u \in Readers \ {r} : posting'[u] = posting[u]
    BY <1>1, <1>4 DEF Types
<1>6. PostingInv'
    BY <1>2, <1>4, <1>5 DEF StoreInv, PostingInv
<1>7. \A u \in Readers : Len(posting'[u]) = 1 /\ posting'[u][1].kind = "Blobs" => posting'[u] = posting[u]
    BY <1>2, <1>4, <1>5
<1>8. ASSUME Grown PROVE QueueInv'
    <2>1. job' = job
        BY DEF ReadDir
    <2>2. HeadersCome' /\ \A o \in Upstream : Soon(o) => Soon(o)'
        BY <1>1, <1>8, <2>1, SoonStays, HeadersComeStays DEF StoreInv, QueueInv
    <2>3. NoExcuse' => \A o \in skipped' \cap Upstream : Size[o] > Cap \/ o \in claimed'
        BY <1>1, <1>8, NoExcuseBefore DEF StoreInv, QueueInv, Grown
    <2> QED
        BY <1>1, <1>7, <1>8, <2>2, <2>3, QueueCarries DEF StoreInv
<1>9. Bookkeeping
    BY DEF ReadDir, Bookkeeping, diskVars, workerVars
<1>10. queue' \in Seq(Tasks) /\ task' \in Tasks \cup {NoTask, [NoTask EXCEPT !.kind = "exited"]}
      /\ (job[Worker].call = "headers" => task'.kind = "Headers")
    BY <1>1 DEF Types, StoreInv, CallsInv
<1> QED
    BY <1>5, <1>6, <1>8, <1>9, <1>10, BookkeepingKeeps

LEMMA PostInv ==
    ASSUME HydrateInv, StoreInv, NEW r \in Readers, Post(r)
    PROVE  StoreInv'
<1>0. PICK L : L = Len(queue)
    OBVIOUS
<1> DEFINE p == posting[r]  h == Head(posting[r])
<1>1. /\ p # <<>> /\ posting' = [posting EXCEPT ![r] = Tail(p)] /\ Types
      /\ UNCHANGED <<tx, task, skipped, job>>
      /\ \/ L < Capacity /\ queue' = Append(queue, h) /\ lost' = lost
         \/ ~(L < Capacity) /\ queue' = queue /\ lost' = lost \cup {h.kind}
    BY <1>0 DEF Post, StoreInv
<1>2. p \in Seq(Tasks) /\ queue \in Seq(Tasks) /\ L \in Nat /\ Len(p) \in Nat /\ Len(p) # 0
    BY <1>0, <1>1 DEF Types
<1>3. /\ h = p[1] /\ h \in Tasks /\ Tail(p) \in Seq(Tasks) /\ Len(Tail(p)) = Len(p) - 1
      /\ Len(p) = 2 => Tail(p)[1] = p[2]
    BY <1>1, <1>2
<1>4. /\ Len(p) = 1 \/ Len(p) = 2
      /\ Len(p) = 2 => h.kind = "Headers" /\ p[2].oids = h.oids
    <2>1. Len(p) <= 2 /\ (Len(p) = 2 => p[1].kind = "Headers" /\ p[2].oids = p[1].oids)
        BY DEF StoreInv, PostingInv
    <2> HIDE DEF p, h
    <2> QED
        BY <1>2, <1>3, <2>1
<1> HIDE DEF p, h
<1>5. /\ posting' \in [Readers -> Seq(Tasks)] /\ posting'[r] = Tail(p)
      /\ \A u \in Readers \ {r} : posting'[u] = posting[u]
    BY <1>1, <1>3 DEF Types
<1>6. PostingInv'
    <2>1. Len(Tail(p)) <= 2 /\ Len(Tail(p)) # 2
        BY <1>3, <1>4
    <2> QED
        BY <1>5, <2>1 DEF StoreInv, PostingInv
<1>7. Bookkeeping
    BY <1>1 DEF Post, Bookkeeping, diskVars
<1>8. task' \in Tasks \cup {NoTask, [NoTask EXCEPT !.kind = "exited"]}
      /\ (job[Worker].call = "headers" => task'.kind = "Headers")
    BY <1>1 DEF Types, StoreInv, CallsInv
<1>9. queue' \in Seq(Tasks)
    <2>1. Append(queue, h) \in Seq(Tasks)
        BY <1>2, <1>3, AppendSet
    <2> QED
        BY <1>1, <1>2, <2>1
<1>10. ASSUME Grown PROVE QueueInv'
    <2>0. /\ HeadersCome' /\ \A o \in Upstream : Soon(o) => Soon(o)'
        BY <1>1, <1>10, SoonStays, HeadersComeStays DEF StoreInv, QueueInv
    <2>1. L <= Capacity /\ Capacity \in Nat
        BY <1>0, HydrateAssumption DEF StoreInv, QueueInv
    <2>2. NoExcuse' => NoExcuse
        BY <1>1, <1>10, NoExcuseBefore
    <2>3. CASE L < Capacity /\ queue' = Append(queue, h)
        <3>1. /\ Len(queue') = L + 1 /\ queue'[L + 1] = h
              /\ \A i \in 1..L : queue'[i] = queue[i]
            BY <1>0, <1>2, <1>3, <2>3
        <3>2. Len(queue') <= Capacity
            BY <1>2, <2>1, <2>3, <3>1
        <3>3. ASSUME NEW o \in Upstream, NEW n \in 0..L, SoonAfter(o, n) PROVE SoonAfter(o, n)'
            <4>1. \A i \in 1..n : i \in 1..L
                BY <1>2
            <4> QED
                BY <2>0, <3>1, <3>3, <4>1 DEF SoonAfter
        <3>4. ASSUME NEW o \in Upstream, SoonAfter(o, L)' PROVE SoonAfter(o, L + 1)'
            <4>1. \A i \in 1..L : i \in 1..(L + 1)
                BY <1>2
            <4> QED
                BY <3>4, <4>1 DEF SoonAfter
        <3>5. ASSUME NoExcuse', NEW n \in 1..Len(queue'), queue'[n].kind = "Blobs",
                     NEW o \in ToSet(queue'[n].oids) \cap Upstream
              PROVE  SoonAfter(o, n - 1)'
            <4>1. CASE n \in 1..L
                <5>1. n - 1 \in 0..L /\ n \in 1..Len(queue)
                    BY <1>0, <1>2, <4>1
                <5>2. SoonAfter(o, n - 1)
                    BY <2>2, <3>1, <3>5, <4>1, <5>1 DEF StoreInv, QueueInv
                <5> QED
                    BY <3>3, <5>1, <5>2
            <4>2. CASE n = L + 1
                <5>1. h.kind = "Blobs" /\ n - 1 = L /\ L \in 0..L
                    BY <1>2, <3>1, <3>5, <4>2
                <5>2. Len(p) = 1
                    BY <1>4, <5>1
                <5>3. SoonAfter(o, L)
                    BY <1>0, <1>3, <2>2, <3>1, <3>5, <4>2, <5>1, <5>2 DEF StoreInv, QueueInv, p
                <5> QED
                    BY <3>3, <5>1, <5>3
            <4> QED
                BY <1>2, <3>1, <4>1, <4>2
        <3>6. ASSUME NoExcuse', NEW u \in Readers, Len(posting'[u]) = 1, posting'[u][1].kind = "Blobs",
                     NEW o \in ToSet(posting'[u][1].oids) \cap Upstream
              PROVE  SoonAfter(o, Len(queue))'
            <4>1. CASE u = r
                <5>1. Len(p) = 2
                    BY <1>2, <1>3, <1>4, <1>5, <3>6, <4>1
                <5>2. queue'[L + 1].kind = "Headers" /\ o \in ToSet(queue'[L + 1].oids)
                    BY <1>3, <1>4, <1>5, <3>1, <3>6, <4>1, <5>1
                <5>3. L + 1 \in 1..(L + 1)
                    BY <1>2
                <5> QED
                    BY <3>1, <5>2, <5>3 DEF SoonAfter
            <4>2. CASE u # r
                <5>1. SoonAfter(o, L)
                    BY <1>0, <1>5, <2>2, <3>6, <4>2 DEF StoreInv, QueueInv
                <5>2. L \in 0..L
                    BY <1>2
                <5>3. SoonAfter(o, L + 1)'
                    BY <3>3, <3>4, <5>1, <5>2
                <5> QED
                    BY <3>1, <5>3 DEF SoonAfter
            <4> QED
                BY <4>1, <4>2
        <3>7. NoExcuse' =>
                 /\ task'.kind = "Blobs" => \A o \in ToSet(task'.oids) \cap Upstream : Known(o)'
                 /\ \A o \in skipped' \cap Upstream : Size[o] > Cap \/ o \in claimed'
            BY <1>1, <1>10, <2>2, KnownGrows DEF StoreInv, QueueInv, Grown
        <3> QED
            BY <2>0, <3>2, <3>5, <3>6, <3>7 DEF QueueInv
    <2>4. CASE queue' = queue /\ lost' = lost \cup {h.kind}
        <3>1. CASE h.kind = "Headers"
            <4>1. ~NoExcuse'
                BY <2>4, <3>1 DEF NoExcuse
            <4> QED
                BY <1>0, <2>0, <2>1, <2>4, <4>1 DEF QueueInv
        <3>2. CASE h.kind # "Headers"
            <4>1. Len(posting'[r]) = 0
                BY <1>2, <1>3, <1>4, <1>5, <3>2
            <4>2. ASSUME NoExcuse' PROVE
                     /\ task'.kind = "Blobs" => \A o \in ToSet(task'.oids) \cap Upstream : Known(o)'
                     /\ \A o \in skipped' \cap Upstream : Size[o] > Cap \/ o \in claimed'
                BY <1>1, <1>10, <2>2, <4>2, KnownGrows DEF StoreInv, QueueInv, Grown
            <4>3. ASSUME NEW o \in Upstream, NEW n, SoonAfter(o, n) PROVE SoonAfter(o, n)'
                BY <2>0, <2>4, <4>3 DEF SoonAfter
            <4>4. ASSUME NoExcuse', NEW n \in 1..Len(queue'), queue'[n].kind = "Blobs",
                         NEW o \in ToSet(queue'[n].oids) \cap Upstream
                  PROVE  SoonAfter(o, n - 1)'
                BY <2>2, <2>4, <4>3, <4>4 DEF StoreInv, QueueInv
            <4>5. ASSUME NoExcuse', NEW u \in Readers, Len(posting'[u]) = 1, posting'[u][1].kind = "Blobs",
                         NEW o \in ToSet(posting'[u][1].oids) \cap Upstream
                  PROVE  SoonAfter(o, Len(queue))'
                <5>0. u # r
                    BY <4>1, <4>5
                <5>1. SoonAfter(o, L)
                    BY <1>0, <1>5, <2>2, <4>5, <5>0 DEF StoreInv, QueueInv
                <5>2. SoonAfter(o, L)'
                    BY <4>3, <5>1
                <5> QED
                    BY <1>0, <2>4, <5>2 DEF SoonAfter
            <4> QED
                BY <1>0, <2>0, <2>1, <2>4, <4>2, <4>4, <4>5 DEF QueueInv
        <3> QED
            BY <3>1, <3>2
    <2> QED
        BY <1>1, <2>3, <2>4
<1> QED
    BY <1>5, <1>6, <1>7, <1>8, <1>9, <1>10, BookkeepingKeeps

LEMMA CloseChannelInv ==
    ASSUME HydrateInv, StoreInv, CloseChannel
    PROVE  StoreInv'
<1>1. UNCHANGED <<queue, task, posting, skipped, lost, job>>
    BY DEF CloseChannel, readerVars
<1>2. Bookkeeping
    BY DEF CloseChannel, Bookkeeping, diskVars, readerVars
<1>3. ASSUME Grown PROVE QueueInv'
    BY <1>1, <1>3, QueueStays DEF StoreInv
<1>4. /\ posting' \in [Readers -> Seq(Tasks)] /\ queue' \in Seq(Tasks) /\ PostingInv'
      /\ task' \in Tasks \cup {NoTask, [NoTask EXCEPT !.kind = "exited"]}
      /\ (job[Worker].call = "headers" => task'.kind = "Headers")
    BY <1>1 DEF StoreInv, Types, CallsInv, PostingInv
<1> QED
    BY <1>2, <1>3, <1>4, BookkeepingKeeps

-----------------------------------------------------------------------------
(* The worker.                                                             *)

LEMMA RecvInv ==
    ASSUME HydrateInv, StoreInv, Recv
    PROVE  StoreInv'
<1>0. PICK L : L = Len(queue)
    OBVIOUS
<1>1. /\ task = NoTask /\ queue # <<>> /\ task' = Head(queue) /\ queue' = Tail(queue)
      /\ UNCHANGED <<posting, skipped, lost, job>> /\ Types
    BY DEF Recv, Undisturbed, readerVars, StoreInv
<1>2. queue \in Seq(Tasks)
    BY <1>1 DEF Types
<1>3. /\ L \in Nat /\ L # 0 /\ Head(queue) = queue[1] /\ queue[1] \in Tasks
      /\ queue' \in Seq(Tasks) /\ Len(queue') = L - 1
      /\ \A i \in 1..(L - 1) : queue'[i] = queue[i + 1]
    BY <1>0, <1>1, <1>2
<1>4. Bookkeeping
    BY DEF Recv, Undisturbed, Bookkeeping, diskVars, readerVars
<1>5. job[Worker].call # "headers"
    BY <1>1 DEF StoreInv, CallsInv, NoTask
<1>6. posting' \in [Readers -> Seq(Tasks)] /\ PostingInv' /\ task' \in Tasks
    BY <1>1, <1>3 DEF Types, StoreInv, PostingInv
<1>7. ASSUME Grown PROVE QueueInv'
    <2>1. NoExcuse' => NoExcuse
        BY <1>1, <1>7, NoExcuseBefore
    <2>2. HeadersCome'
        BY <1>1, <1>7, HeadersComeStays DEF StoreInv, QueueInv
    <2>3. \A o \in Upstream : Soon(o) => Known(o)'
        BY <1>1, <1>5, <1>7, KnownGrows DEF Soon, NoTask
    <2>4. ASSUME NEW o \in Upstream, NEW n \in 1..L, SoonAfter(o, n) PROVE SoonAfter(o, n - 1)'
        <3>1. CASE Soon(o)
            BY <2>3, <3>1 DEF SoonAfter, Soon
        <3>2. CASE \E i \in 1..n : queue[i].kind = "Headers" /\ o \in ToSet(queue[i].oids)
            <4>1. PICK i \in 1..n : queue[i].kind = "Headers" /\ o \in ToSet(queue[i].oids)
                BY <3>2
            <4>2. CASE i = 1
                BY <1>1, <1>3, <4>1, <4>2 DEF SoonAfter, Soon
            <4>3. CASE i # 1
                <5>1. i - 1 \in 1..(n - 1) /\ i - 1 \in 1..(L - 1) /\ (i - 1) + 1 = i
                    BY <1>3, <4>3
                <5>2. queue'[i - 1] = queue[i]
                    BY <1>3, <5>1
                <5> QED
                    BY <4>1, <5>1, <5>2 DEF SoonAfter
            <4> QED
                BY <4>2, <4>3
        <3> QED
            BY <2>4, <3>1, <3>2 DEF SoonAfter
    <2>5. Len(queue') <= Capacity
        <3>1. L <= Capacity /\ Capacity \in Nat
            BY <1>0, HydrateAssumption DEF StoreInv, QueueInv
        <3> QED
            BY <1>3, <3>1
    <2>6. ASSUME NoExcuse', task'.kind = "Blobs", NEW o \in ToSet(task'.oids) \cap Upstream
          PROVE  Known(o)'
        <3>1. 1 \in 1..Len(queue) /\ 1 - 1 = 0
            BY <1>0, <1>3
        <3>2. SoonAfter(o, 1 - 1)
            BY <1>1, <1>3, <2>1, <2>6, <3>1 DEF StoreInv, QueueInv
        <3>3. \A i : i \notin 1..(1 - 1)
            OBVIOUS
        <3> QED
            BY <2>3, <3>2, <3>3 DEF SoonAfter
    <2>7. ASSUME NoExcuse', NEW n \in 1..Len(queue'), queue'[n].kind = "Blobs",
                 NEW o \in ToSet(queue'[n].oids) \cap Upstream
          PROVE  SoonAfter(o, n - 1)'
        <3>1. n \in 1..(L - 1) /\ n \in 1..L /\ n + 1 \in 1..Len(queue) /\ (n + 1) - 1 = n
            BY <1>0, <1>3
        <3>2. queue'[n] = queue[n + 1]
            BY <1>3, <3>1
        <3>3. SoonAfter(o, (n + 1) - 1)
            BY <2>1, <2>7, <3>1, <3>2 DEF StoreInv, QueueInv
        <3> QED
            BY <2>4, <3>1, <3>3
    <2>8. ASSUME NoExcuse', NEW u \in Readers, Len(posting'[u]) = 1, posting'[u][1].kind = "Blobs",
                 NEW o \in ToSet(posting'[u][1].oids) \cap Upstream
          PROVE  SoonAfter(o, Len(queue))'
        <3>1. SoonAfter(o, L) /\ L \in 1..L
            BY <1>0, <1>1, <1>3, <2>1, <2>8 DEF StoreInv, QueueInv
        <3>2. SoonAfter(o, L - 1)'
            BY <2>4, <3>1
        <3> QED
            BY <1>3, <3>2 DEF SoonAfter
    <2>9. NoExcuse' => \A o \in skipped' \cap Upstream : Size[o] > Cap \/ o \in claimed'
        BY <1>1, <1>7, <2>1 DEF StoreInv, QueueInv, Grown
    <2> QED
        BY <2>2, <2>5, <2>6, <2>7, <2>8, <2>9 DEF QueueInv
<1> QED
    BY <1>3, <1>4, <1>5, <1>6, <1>7, BookkeepingKeeps

LEMMA WorkerRestsInv ==
    ASSUME HydrateInv, StoreInv, WorkerExits \/ TaskDone
    PROVE  StoreInv'
<1>1. /\ task' = NoTask \/ task' = [NoTask EXCEPT !.kind = "exited"]
      /\ UNCHANGED <<posting, queue, skipped, lost, job>> /\ Types
      /\ task = NoTask \/ (task.oids = <<>> /\ ~Busy(Worker))
    BY DEF WorkerExits, TaskDone, Undisturbed, readerVars, StoreInv
<1>2. Bookkeeping
    BY DEF WorkerExits, TaskDone, Undisturbed, Bookkeeping, diskVars, readerVars
<1>3. task'.kind \in {"none", "exited"} /\ ToSet(<<>>) = {}
    BY <1>1 DEF NoTask, ToSet
<1>4. job[Worker].call # "headers"
    BY <1>1 DEF StoreInv, CallsInv, NoTask, Busy
<1>5. ASSUME Grown PROVE QueueInv'
    <2>1. HeadersCome'
        BY <1>1, <1>5, HeadersComeStays DEF StoreInv, QueueInv
    <2>2. \A o \in Upstream : Soon(o) => Soon(o)'
        BY <1>1, <1>3, <1>4, <1>5, KnownGrows DEF Soon, NoTask
    <2>3. NoExcuse' => \A o \in skipped' \cap Upstream : Size[o] > Cap \/ o \in claimed'
        BY <1>1, <1>5, NoExcuseBefore DEF StoreInv, QueueInv, Grown
    <2> QED
        BY <1>1, <1>3, <1>5, <2>1, <2>2, <2>3, QueueCarries DEF StoreInv
<1>6. posting' \in [Readers -> Seq(Tasks)] /\ queue' \in Seq(Tasks) /\ PostingInv'
    BY <1>1 DEF Types, StoreInv, PostingInv
<1> QED
    BY <1>1, <1>2, <1>4, <1>5, <1>6, BookkeepingKeeps

(* A bulk call of thread a starts, or returns at once because all its      *)
(* objects are there.                                                      *)
There(call, o) == IF call = "headers" THEN Resolves(o) ELSE StoreHas(o)

LEMMA BulkStartsKeeps ==
    ASSUME HydrateInv, StoreInv, NEW a \in Actors, ~Busy(a), NEW call \in {"headers", "bytes"},
           NEW oids \in Seq(Oids), call = "headers" => oids \in Seq(Blobs),
           NEW looked \in SUBSET Oids, call = "headers" => ToSet(oids) \subseteq looked,
           BulkStarts(a, call, oids, looked), UNCHANGED <<backend, cast, disk, visible, faults, claimed>>,
           UNCHANGED flightVars, UNCHANGED stage, wanted' = wanted, lost' = lost
    PROVE  /\ Surface /\ job' \in [Actors -> Jobs] /\ PhaseInv' /\ JobInv' /\ BatchFresh'
           /\ \A u \in Actors \ {a} : job'[u] = job[u]
           /\ returned' \in [Actors -> [call : {"none", "headers", "bytes"}, probes : Seq(Probes)]]
           /\ FirstProbeHonest'
           /\ \/ job'[a] = NoJob /\ \A o \in ToSet(oids) : There(call, o)
              \/ /\ job'[a].call = call /\ job'[a].oids = oids /\ job'[a].probes = <<>>
                 /\ ToSet(job'[a].todo) = ToSet(oids) \cap {o \in Oids : ~There(call, o)}
<1> DEFINE query == Keep(oids, {o \in Oids : ~There(call, o)})
           all == [i \in DOMAIN oids |-> Probe(oids[i], "Present")]
           j == [call |-> call, oids |-> oids, todo |-> query, probes |-> <<>>]
<1>1. /\ headers' = Recalled(looked) /\ Types
      /\ \/ /\ query = <<>> /\ job' = job
            /\ returned' = [returned EXCEPT ![a] = [call |-> call, probes |-> all]]
         \/ /\ query # <<>> /\ job' = [job EXCEPT ![a] = j]
            /\ returned' = [returned EXCEPT ![a] = NoAnswer]
    <2>1. query = Keep(oids, {o \in Oids : IF call = "headers" THEN ~Resolves(o) ELSE ~StoreHas(o)})
        <3>1. \A o \in Oids : ~There(call, o) <=> IF call = "headers" THEN ~Resolves(o) ELSE ~StoreHas(o)
            BY DEF There
        <3>2. {o \in Oids : ~There(call, o)} =
                  {o \in Oids : IF call = "headers" THEN ~Resolves(o) ELSE ~StoreHas(o)}
            BY <3>1
        <3> QED
            BY <3>2
    <2> HIDE DEF query
    <2> QED
        BY <2>1 DEF BulkStarts, StoreInv
<1>2. query \in Seq(Oids) /\ ToSet(query) = ToSet(oids) \cap {o \in Oids : ~There(call, o)}
    BY KeepHolds
<1>3. call = "headers" => query \in Seq(Blobs)
    BY KeepHolds
<1> HIDE DEF query
<1>4. HeadersGrown /\ \A o \in looked : HeaderHere(o) => o \in DOMAIN headers'
    BY <1>1, RecalledGrown DEF StoreInv
<1>5. Surface
    BY <1>4 DEF Surface
<1>6. Grown
    BY <1>5, SurfaceKeeps
<1>7. job[a] = NoJob /\ phase[a] = "idle"
    BY NotBusy
<1>8. ToSet(oids) \subseteq Oids /\ DOMAIN oids = 1..Len(oids) /\ Len(oids) \in Nat
      /\ \A i \in DOMAIN oids : oids[i] \in ToSet(oids) /\ oids[i] \in Oids
    BY DEF ToSet
<1>9. \A u \in Actors \ {a} : returned'[u] = returned[u]
    BY <1>1 DEF Types
<1>10. ToSet(<<>>) = {} /\ <<>> \in Seq(Probes)
    BY DEF ToSet
<1>11. CASE query = <<>>
    <2>1. job' = job /\ returned' = [returned EXCEPT ![a] = [call |-> call, probes |-> all]]
        BY <1>1, <1>11
    <2>2. \A o \in ToSet(oids) : There(call, o)
        BY <1>2, <1>8, <1>10, <1>11
    <2>3. \A o \in Oids : /\ Probe(o, "Present") \in Probes /\ Probe(o, "Present").oid = o
        BY DEF Probe, Probes, Outcomes, SomeHeader
    <2>4. all \in Seq(Probes) /\ DOMAIN all = DOMAIN oids /\ \A i \in DOMAIN oids : all[i].oid = oids[i]
        BY <1>8, <2>3
    <2>5. PhaseInv' /\ JobInv' /\ BatchFresh'
        BY <1>5, <2>1, SurfaceSameJobs
    <2> HIDE DEF all
    <2>6. returned' \in [Actors -> [call : {"none", "headers", "bytes"}, probes : Seq(Probes)]]
          /\ returned'[a] = [call |-> call, probes |-> all]
        BY <1>1, <2>1, <2>4 DEF Types
    <2>7. \A i \in DOMAIN all :
              disk'[all[i].oid] = "whole" \/ (call = "headers" /\ all[i].oid \in DOMAIN headers')
        BY <1>4, <1>6, <1>8, <2>2, <2>4 DEF There, Resolves, StoreHas, HydrateInv, VisibleIsWhole, Grown
    <2>8. ASSUME NEW u \in Actors
          PROVE  \A i \in DOMAIN returned'[u].probes :
               LET p == returned'[u].probes[i]
                   os == [n \in DOMAIN returned'[u].probes |-> returned'[u].probes[n].oid]
               IN FirstAt(os, i) /\ p.res \notin Errors =>
                    \/ disk'[p.oid] = "whole"
                    \/ returned'[u].call = "headers" /\ p.oid \in DOMAIN headers'
                    \/ p.res = "Present" /\ p.oid \in claimed'
        <3>1. CASE u = a
            BY <2>6, <2>7, <3>1
        <3>2. CASE u # a
            BY <1>1, <1>6, <1>9, <3>2, ReturnedStays DEF StoreInv
        <3> QED
            BY <3>1, <3>2
    <2>9. FirstProbeHonest'
        BY <2>8 DEF FirstProbeHonest
    <2>10. job' \in [Actors -> Jobs]
        BY <1>1, <2>1 DEF Types
    <2> QED
        BY <1>5, <1>7, <2>1, <2>2, <2>5, <2>6, <2>9, <2>10
<1>12. CASE query # <<>>
    <2>1. job' = [job EXCEPT ![a] = j] /\ returned' = [returned EXCEPT ![a] = NoAnswer]
        BY <1>1, <1>12
    <2>2. j \in Jobs /\ j.call = call /\ j.oids = oids /\ j.todo = query /\ j.probes = <<>>
        BY <1>2, <1>10 DEF Jobs
    <2>3. returned'[a] = NoAnswer
          /\ returned' \in [Actors -> [call : {"none", "headers", "bytes"}, probes : Seq(Probes)]]
        BY <1>1, <1>10, <2>1 DEF Types, NoAnswer
    <2> HIDE DEF j
    <2>4. JobAt(j, backend', disk', visible', DOMAIN headers', faults', claimed')
        <3>1. Accounted(j, visible', DOMAIN headers')
            <4>1. ASSUME NEW o \in ToSet(oids), There(call, o)
                  PROVE  o \in visible' \/ (call = "headers" /\ o \in DOMAIN headers')
                BY <1>4, <1>6, <4>1 DEF There, Resolves, StoreHas, Grown
            <4> QED
                BY <1>2, <1>8, <2>2, <4>1 DEF Accounted
        <3> QED
            BY <1>3, <1>10, <2>2, <3>1 DEF JobAt
    <2>5. /\ job' \in [Actors -> Jobs] /\ PhaseInv' /\ JobInv' /\ BatchFresh'
          /\ job'[a] = j /\ \A u \in Actors \ {a} : job'[u] = job[u]
        BY <1>5, <1>7, <2>1, <2>2, <2>4, SurfaceJobs
    <2>6. ASSUME NEW u \in Actors
          PROVE  \A i \in DOMAIN returned'[u].probes :
               LET p == returned'[u].probes[i]
                   os == [n \in DOMAIN returned'[u].probes |-> returned'[u].probes[n].oid]
               IN FirstAt(os, i) /\ p.res \notin Errors =>
                    \/ disk'[p.oid] = "whole"
                    \/ returned'[u].call = "headers" /\ p.oid \in DOMAIN headers'
                    \/ p.res = "Present" /\ p.oid \in claimed'
        <3>1. CASE u = a
            <4>1. DOMAIN returned'[u].probes = {}
                BY <2>3, <3>1 DEF NoAnswer
            <4> QED
                BY <4>1
        <3>2. CASE u # a
            BY <1>1, <1>6, <1>9, <3>2, ReturnedStays DEF StoreInv
        <3> QED
            BY <3>1, <3>2
    <2>7. FirstProbeHonest'
        BY <2>6 DEF FirstProbeHonest
    <2> QED
        BY <1>2, <1>5, <2>2, <2>3, <2>5, <2>7
<1> QED
    BY <1>11, <1>12

(* The first objects of a task and the rest of it.                         *)
LEMMA ChunkSplits ==
    ASSUME task.oids \in Seq(Blobs)
    PROVE  /\ Chunk \in Seq(Blobs) /\ RestOfTask \in Seq(Blobs)
           /\ ToSet(task.oids) = ToSet(Chunk) \cup ToSet(RestOfTask)
<1> DEFINE s == task.oids  L == Len(task.oids)  m == IF L < MaxBatch THEN L ELSE MaxBatch
<1>1. L \in Nat /\ m \in 0..L /\ DOMAIN s = 1..L
    BY HydrateAssumption
<1>2. Chunk = SubSeq(s, 1, m)
    BY DEF Chunk
<1> HIDE DEF m
<1>3. /\ Chunk \in Seq(Blobs) /\ Len(Chunk) = m /\ DOMAIN Chunk = 1..m
      /\ \A i \in 1..m : Chunk[i] = s[i]
    BY <1>1, <1>2
<1>4. RestOfTask = SubSeq(s, m + 1, L)
    BY <1>3 DEF RestOfTask
<1>5. /\ RestOfTask \in Seq(Blobs) /\ Len(RestOfTask) = L - m /\ DOMAIN RestOfTask = 1..(L - m)
      /\ \A i \in 1..(L - m) : RestOfTask[i] = s[m + i]
    BY <1>1, <1>4
<1> HIDE DEF s, L
<1>6. ASSUME NEW x \in ToSet(s) PROVE x \in ToSet(Chunk) \cup ToSet(RestOfTask)
    <2>1. PICK i \in 1..L : x = s[i]
        BY <1>1 DEF ToSet
    <2>2. CASE i <= m
        <3>1. i \in 1..m
            BY <1>1, <2>2
        <3> QED
            BY <1>3, <2>1, <3>1 DEF ToSet
    <2>3. CASE ~(i <= m)
        <3>1. i - m \in 1..(L - m) /\ m + (i - m) = i
            BY <1>1, <2>3
        <3>2. i - m \in DOMAIN RestOfTask /\ RestOfTask[i - m] = x
            BY <1>5, <2>1, <3>1
        <3> QED
            BY <3>2 DEF ToSet
    <2> QED
        BY <2>2, <2>3
<1>7. ASSUME NEW i \in 1..m PROVE Chunk[i] \in ToSet(s)
    <2>1. i \in 1..L
        BY <1>1
    <2> QED
        BY <1>1, <1>3, <2>1 DEF ToSet
<1>8. ASSUME NEW i \in 1..(L - m) PROVE RestOfTask[i] \in ToSet(s)
    <2>1. m + i \in 1..L
        BY <1>1
    <2> QED
        BY <1>1, <1>5, <2>1 DEF ToSet
<1>9. ToSet(Chunk) \subseteq ToSet(s) /\ ToSet(RestOfTask) \subseteq ToSet(s)
    BY <1>3, <1>5, <1>7, <1>8 DEF ToSet
<1>10. ToSet(s) = ToSet(Chunk) \cup ToSet(RestOfTask)
    BY <1>6, <1>9
<1> QED
    BY <1>3, <1>5, <1>10 DEF s

LEMMA TaskSorts ==
    ASSUME Types, task.kind \in {"Headers", "Blobs"}
    PROVE  task \in Tasks /\ task.oids \in Seq(Blobs)
<1>1. task # NoTask /\ task # [NoTask EXCEPT !.kind = "exited"]
    BY DEF NoTask
<1>2. task \in Tasks
    BY <1>1 DEF Types
<1> QED
    BY <1>2 DEF Tasks

LEMMA HeadersChunkInv ==
    ASSUME HydrateInv, StoreInv, HeadersChunk
    PROVE  StoreInv'
<1>1. /\ task.kind = "Headers" /\ ~Busy(Worker) /\ BulkStarts(Worker, "headers", Chunk, ToSet(Chunk))
      /\ task' = [task EXCEPT !.oids = RestOfTask] /\ Types
      /\ UNCHANGED <<backend, cast, disk, visible, faults, claimed>> /\ UNCHANGED flightVars
      /\ UNCHANGED stage
      /\ UNCHANGED <<asked, reply, reads, posting, wanted, tx, queue, skipped, lost, walk>>
    BY DEF HeadersChunk, Working, Undisturbed, diskVars, readerVars, StoreInv
<1>2. task \in Tasks /\ task.oids \in Seq(Blobs)
    BY <1>1, TaskSorts
<1>3. /\ Chunk \in Seq(Blobs) /\ RestOfTask \in Seq(Blobs)
      /\ ToSet(task.oids) = ToSet(Chunk) \cup ToSet(RestOfTask)
    BY <1>2, ChunkSplits
<1>4. Chunk \in Seq(Oids) /\ Worker \in Actors /\ Warmer \in Actors \ {Worker}
      /\ Readers \subseteq Actors \ {Worker}
    BY <1>3, HydrateAssumption DEF Actors, Blobs
<1>5. task' \in Tasks /\ task'.kind = "Headers" /\ task'.oids = RestOfTask
    BY <1>1, <1>2, <1>3 DEF Tasks
<1>6. /\ Surface /\ job' \in [Actors -> Jobs] /\ PhaseInv' /\ JobInv' /\ BatchFresh'
      /\ \A u \in Actors \ {Worker} : job'[u] = job[u]
      /\ returned' \in [Actors -> [call : {"none", "headers", "bytes"}, probes : Seq(Probes)]]
      /\ FirstProbeHonest'
      /\ \/ job'[Worker] = NoJob /\ \A o \in ToSet(Chunk) : There("headers", o)
         \/ /\ job'[Worker].call = "headers" /\ job'[Worker].oids = Chunk /\ job'[Worker].probes = <<>>
            /\ ToSet(job'[Worker].todo) = ToSet(Chunk) \cap {o \in Oids : ~There("headers", o)}
    <2>1. ToSet(Chunk) \in SUBSET Oids
        BY <1>4 DEF ToSet
    <2> QED
        BY <1>1, <1>3, <1>4, <2>1, BulkStartsKeeps
<1>7. /\ Grown /\ SeenInv' /\ Single!TypeOK' /\ FlightInv' /\ OutcomeInv' /\ StageInv'
      /\ HeadersTrue' /\ DiskWanted' /\ DOMAIN stage' = Actors
    BY <1>6, SurfaceKeeps
<1>8. Types'
    BY <1>1, <1>5, <1>6, <1>7 DEF Types, Grown
<1>9. job'[Worker].call \in {"none", "headers"} /\ job[Worker] = NoJob /\ NoJob.call = "none"
    BY <1>1, <1>4, <1>6, NotBusy DEF NoJob
<1>10. CallsInv'
    BY <1>1, <1>4, <1>5, <1>6, <1>9 DEF StoreInv, CallsInv
<1>11. WantInv'
    BY <1>1, <1>6, <1>7, <1>9, WantStays DEF StoreInv
<1>12. FailuresHaveCauses' /\ PostingInv' /\ WalkInv'
    BY <1>1, <1>7, FailuresStay, WalkStays DEF StoreInv, PostingInv
<1>13. QueueInv'
    <2>1. HeadersCome'
        <3> SUFFICES ASSUME job'[Worker].call = "headers", NEW o \in ToSet(job'[Worker].oids) \cap Upstream
                     PROVE  Known(o)' \/ o \in ToSet(job'[Worker].todo)
            BY DEF HeadersCome
        <3>1. o \in ToSet(Chunk) /\ o \in Oids
            BY <1>6, <1>9, HydrateAssumption
        <3> QED
            BY <1>6, <1>7, <1>9, <3>1, KnownGrows DEF There, Known
    <2>2. ASSUME NEW o \in Upstream, Soon(o) PROVE Soon(o)'
        <3>1. CASE Known(o)
            BY <1>7, <3>1, KnownGrows DEF Soon
        <3>2. CASE o \in ToSet(RestOfTask)
            BY <1>5, <3>2 DEF Soon
        <3>3. CASE o \in ToSet(Chunk)
            <4>1. CASE job'[Worker] = NoJob
                BY <1>6, <1>9, <3>1, <3>3, <4>1 DEF There, Known
            <4>2. CASE job'[Worker] # NoJob
                BY <1>6, <3>3, <4>2 DEF Soon
            <4> QED
                BY <4>1, <4>2
        <3> QED
            BY <1>3, <1>9, <2>2, <3>1, <3>2, <3>3 DEF Soon
    <2>3. NoExcuse' => \A o \in skipped' \cap Upstream : Size[o] > Cap \/ o \in claimed'
        BY <1>1, <1>7, NoExcuseBefore DEF StoreInv, QueueInv, Grown
    <2> QED
        BY <1>1, <1>5, <1>7, <2>1, <2>2, <2>3, QueueCarries DEF StoreInv
<1> QED
    BY <1>6, <1>7, <1>8, <1>10, <1>11, <1>12, <1>13 DEF StoreInv

\* A blob whose header is known is under the cap if it is small.
LEMMA CapIsExact ==
    ASSUME Types, HeadersTrue, NEW o \in Blobs
    PROVE  /\ UnderCap(o) => ~Big(o)
           /\ Resolves(o) /\ ~UnderCap(o) => Size[o] > Cap
<1>1. /\ DOMAIN Recalled({o}) = DOMAIN headers \cup {x \in {o} : HeaderHere(x)}
      /\ \A x \in DOMAIN Recalled({o}) : Recalled({o})[x] = Header(x)
    BY RecalledTrue
<1>2. Resolves(o) => Recalled({o})[o] = Header(o)
    BY <1>1 DEF Resolves
<1>3. Header(o).kind = "blob" /\ Header(o).size = Size[o] /\ Size[o] \in Nat /\ Cap \in Nat
    BY HydrateAssumption DEF Header, Blobs
<1> QED
    BY <1>2, <1>3 DEF UnderCap, Big

LEMMA BlobsChunkInv ==
    ASSUME HydrateInv, StoreInv, BlobsChunk
    PROVE  StoreInv'
<1> DEFINE keep == Keep(Chunk, {o \in Oids : UnderCap(o)})
<1>1. /\ task.kind = "Blobs" /\ ~Busy(Worker)
      /\ skipped' = skipped \cup {o \in ToSet(Chunk) : ~UnderCap(o)}
      /\ \/ keep = <<>> /\ headers' = Recalled(ToSet(Chunk)) /\ UNCHANGED <<job, returned>>
         \/ BulkStarts(Worker, "bytes", keep, ToSet(Chunk))
      /\ task' = [task EXCEPT !.oids = RestOfTask] /\ Types
      /\ UNCHANGED <<backend, cast, disk, visible, faults, claimed>> /\ UNCHANGED flightVars
      /\ UNCHANGED stage
      /\ UNCHANGED <<asked, reply, reads, posting, wanted, tx, queue, lost, walk>>
    BY DEF BlobsChunk, Working, Undisturbed, diskVars, readerVars, StoreInv
<1>2. task \in Tasks /\ task.oids \in Seq(Blobs)
    BY <1>1, TaskSorts
<1>3. /\ Chunk \in Seq(Blobs) /\ RestOfTask \in Seq(Blobs)
      /\ ToSet(task.oids) = ToSet(Chunk) \cup ToSet(RestOfTask)
    BY <1>2, ChunkSplits
<1>4. ToSet(Chunk) \subseteq Blobs /\ Blobs \subseteq Oids
    BY <1>3 DEF ToSet, Blobs
<1>5. keep \in Seq(Blobs) /\ ToSet(keep) = ToSet(Chunk) \cap {o \in Oids : UnderCap(o)}
    BY <1>3, KeepHolds
<1> HIDE DEF keep
<1>6. keep \in Seq(Oids) /\ Worker \in Actors /\ Warmer \in Actors \ {Worker}
      /\ Readers \subseteq Actors \ {Worker}
    BY <1>5, HydrateAssumption DEF Actors, Blobs
<1>7. task' \in Tasks /\ task'.kind = "Blobs" /\ task'.oids = RestOfTask
    BY <1>1, <1>2, <1>3 DEF Tasks
<1>8. job[Worker] = NoJob /\ NoJob.call = "none"
    BY <1>1, <1>6, NotBusy DEF NoJob
<1>9. /\ Surface /\ job' \in [Actors -> Jobs] /\ PhaseInv' /\ JobInv' /\ BatchFresh'
      /\ \A u \in Actors \ {Worker} : job'[u] = job[u]
      /\ returned' \in [Actors -> [call : {"none", "headers", "bytes"}, probes : Seq(Probes)]]
      /\ FirstProbeHonest'
      /\ \/ job'[Worker] = NoJob
         \/ job'[Worker].call = "bytes" /\ ToSet(job'[Worker].todo) \subseteq ToSet(keep)
    <2>1. CASE headers' = Recalled(ToSet(Chunk)) /\ UNCHANGED <<job, returned>>
        <3>1. HeadersGrown
            BY <1>1, <1>4, <2>1, RecalledGrown DEF StoreInv
        <3>2. Surface
            BY <1>1, <3>1 DEF Surface
        <3>3. Grown
            BY <3>2, SurfaceKeeps
        <3> QED
            BY <1>1, <1>8, <2>1, <3>2, <3>3, SurfaceSameJobs, AllReturnedStay DEF StoreInv, Types
    <2>2. CASE BulkStarts(Worker, "bytes", keep, ToSet(Chunk))
        <3>1. /\ Surface /\ job' \in [Actors -> Jobs] /\ PhaseInv' /\ JobInv' /\ BatchFresh'
              /\ \A u \in Actors \ {Worker} : job'[u] = job[u]
              /\ returned' \in [Actors -> [call : {"none", "headers", "bytes"}, probes : Seq(Probes)]]
              /\ FirstProbeHonest'
              /\ \/ job'[Worker] = NoJob
                 \/ /\ job'[Worker].call = "bytes"
                    /\ ToSet(job'[Worker].todo) = ToSet(keep) \cap {o \in Oids : ~There("bytes", o)}
            <4>1. ToSet(Chunk) \in SUBSET Oids
                BY <1>4
            <4> QED
                BY <1>1, <1>6, <2>2, <4>1, BulkStartsKeeps
        <3> QED
            BY <3>1
    <2> QED
        BY <1>1, <2>1, <2>2
<1>10. /\ Grown /\ SeenInv' /\ Single!TypeOK' /\ FlightInv' /\ OutcomeInv' /\ StageInv'
      /\ HeadersTrue' /\ DiskWanted' /\ DOMAIN stage' = Actors
    BY <1>9, SurfaceKeeps
<1>11. Types'
    BY <1>1, <1>7, <1>9, <1>10 DEF Types, Grown
<1>12. job'[Worker].call \in {"none", "bytes"}
    BY <1>8, <1>9
<1>13. CallsInv'
    BY <1>1, <1>6, <1>9, <1>12 DEF StoreInv, CallsInv
<1>14. WantInv'
    <2>1. \A o \in ToSet(keep) : ~Big(o)
        BY <1>1, <1>4, <1>5, CapIsExact DEF StoreInv
    <2>2. \A u \in Actors : job'[u].call \in {"fetch", "bytes"} =>
              \A o \in ToSet(job'[u].todo) : Big(o) => o \in wanted'
        BY <1>1, <1>8, <1>9, <2>1 DEF StoreInv, WantInv
    <2>3. \A r \in Readers : job'[r].call = "fetch" => asked'[r][2] \in wanted'
        BY <1>1, <1>6, <1>9 DEF StoreInv, WantInv
    <2> QED
        BY <1>10, <2>2, <2>3 DEF WantInv, DiskWanted, Big
<1>15. FailuresHaveCauses' /\ PostingInv' /\ WalkInv'
    BY <1>1, <1>10, FailuresStay, WalkStays DEF StoreInv, PostingInv
<1>16. QueueInv'
    <2>1. HeadersCome'
        BY <1>12 DEF HeadersCome
    <2>2. \A o \in Upstream : Soon(o) => Soon(o)'
        BY <1>1, <1>8, <1>10, KnownGrows DEF Soon
    <2>3. ASSUME NoExcuse', NEW o \in skipped' \cap Upstream PROVE Size[o] > Cap \/ o \in claimed'
        <3>1. NoExcuse
            BY <1>1, <1>10, <2>3, NoExcuseBefore
        <3>2. CASE o \in skipped
            BY <1>1, <2>3, <3>1, <3>2 DEF StoreInv, QueueInv
        <3>3. CASE o \in ToSet(Chunk) /\ ~UnderCap(o)
            <4>1. Known(o) /\ o \in Blobs
                BY <1>1, <1>3, <1>4, <2>3, <3>1, <3>3 DEF StoreInv, QueueInv
            <4> QED
                BY <1>1, <3>3, <4>1, CapIsExact DEF StoreInv, Known
        <3> QED
            BY <1>1, <2>3, <3>2, <3>3
    <2> QED
        BY <1>1, <1>3, <1>7, <1>10, <2>1, <2>2, <2>3, QueueCarries DEF StoreInv
<1> QED
    BY <1>9, <1>10, <1>11, <1>13, <1>14, <1>15, <1>16 DEF StoreInv

-----------------------------------------------------------------------------
(* The warmer.                                                             *)

Distinct(s) == \A i, k \in DOMAIN s : s[i] = s[k] => i = k

(* The first of the trees ahead is read: the others stay ahead.            *)
LEMMA BehindTheFirst ==
    ASSUME NEW X, NEW fr \in Seq(X), NEW nx \in Seq(X), fr # <<>>, Distinct(fr \o nx)
    PROVE  /\ Tail(fr) \o nx \in Seq(X) /\ Len(fr \o nx) = Len(Tail(fr) \o nx) + 1
           /\ ToSet(fr \o nx) = {Head(fr)} \cup ToSet(Tail(fr) \o nx)
           /\ Distinct(Tail(fr) \o nx) /\ Head(fr) \notin ToSet(Tail(fr) \o nx)
<1> DEFINE A == fr \o nx  tl == Tail(fr)  R == tl \o nx
<1>1. /\ tl \in Seq(X) /\ Len(tl) = Len(fr) - 1 /\ Len(fr) \in Nat /\ Len(fr) >= 1
      /\ Len(nx) \in Nat /\ Head(fr) = fr[1]
      /\ \A i \in 1..(Len(fr) - 1) : tl[i] = fr[i + 1]
    OBVIOUS
<1>2. ToSet(fr) = {Head(fr)} \cup ToSet(tl)
    BY TailSet
<1> HIDE DEF tl
<1>3. /\ A \in Seq(X) /\ Len(A) = Len(fr) + Len(nx) /\ ToSet(A) = ToSet(fr) \cup ToSet(nx)
      /\ \A i \in 1..Len(fr) : A[i] = fr[i]
      /\ \A i \in 1..Len(nx) : A[Len(fr) + i] = nx[i]
    BY ConcatSet
<1>4. /\ R \in Seq(X) /\ Len(R) = Len(tl) + Len(nx) /\ ToSet(R) = ToSet(tl) \cup ToSet(nx)
      /\ \A i \in 1..Len(tl) : R[i] = tl[i]
      /\ \A i \in 1..Len(nx) : R[Len(tl) + i] = nx[i]
    <2>1. tl \in Seq(X)
        BY <1>1
    <2> QED
        BY ONLY <2>1, ConcatSet, nx \in Seq(X) DEF R
<1> HIDE DEF A, R
<1>5. /\ DOMAIN A = 1..Len(A) /\ DOMAIN R = 1..Len(R) /\ Len(A) \in Nat /\ Len(R) \in Nat
      /\ Len(A) = Len(R) + 1 /\ A[1] = Head(fr) /\ ToSet(A) = {Head(fr)} \cup ToSet(R)
    BY <1>1, <1>2, <1>3, <1>4
<1>6. ASSUME NEW i \in DOMAIN R PROVE i + 1 \in DOMAIN A /\ R[i] = A[i + 1] /\ i \in Nat /\ i >= 1
    <2>1. i \in Nat /\ i >= 1 /\ i + 1 \in DOMAIN A
        BY <1>5
    <2>2. CASE i <= Len(fr) - 1
        <3>1. i + 1 \in 1..Len(fr) /\ i \in 1..(Len(fr) - 1) /\ i \in 1..Len(tl)
            BY <1>1, <2>1, <2>2
        <3> QED
            BY <1>1, <1>3, <1>4, <2>1, <3>1
    <2>3. CASE ~(i <= Len(fr) - 1)
        <3> DEFINE k == i - (Len(fr) - 1)
        <3>1. k \in 1..Len(nx) /\ Len(tl) + k = i /\ Len(fr) + k = i + 1
            BY <1>1, <1>4, <1>5, <2>1, <2>3
        <3> HIDE DEF k
        <3>2. R[Len(tl) + k] = nx[k] /\ A[Len(fr) + k] = nx[k]
            BY <1>3, <1>4, <3>1
        <3> QED
            BY <2>1, <3>1, <3>2
    <2> QED
        BY <2>2, <2>3
<1>7. Distinct(A)
    BY DEF A
<1>8. ASSUME NEW i \in DOMAIN R, NEW k \in DOMAIN R, R[i] = R[k] PROVE i = k
    <2>1. i + 1 = k + 1
        BY <1>6, <1>7, <1>8 DEF Distinct
    <2> QED
        BY <1>6, <2>1
<1>9. ASSUME NEW i \in DOMAIN R PROVE R[i] # Head(fr)
    <2>1. 1 \in DOMAIN A /\ i + 1 # 1
        BY <1>5, <1>6
    <2> QED
        BY <1>5, <1>6, <1>7, <2>1 DEF Distinct
<1>10. Head(fr) \notin ToSet(R)
    BY <1>9 DEF ToSet
<1> QED
    BY <1>4, <1>5, <1>8, <1>10 DEF A, R, tl, Distinct

LEMMA DistinctConcat ==
    ASSUME NEW X, NEW s \in Seq(X), NEW t \in Seq(X), Distinct(s), Distinct(t),
           \A x \in ToSet(s) : x \notin ToSet(t)
    PROVE  Distinct(s \o t)
<1> DEFINE A == s \o t
<1>1. /\ A \in Seq(X) /\ Len(A) = Len(s) + Len(t) /\ Len(s) \in Nat /\ Len(t) \in Nat
      /\ \A i \in 1..(Len(s) + Len(t)) : A[i] = IF i <= Len(s) THEN s[i] ELSE t[i - Len(s)]
    BY ConcatProperties
<1>2. DOMAIN A = 1..(Len(s) + Len(t)) /\ DOMAIN s = 1..Len(s) /\ DOMAIN t = 1..Len(t)
    BY <1>1
<1> HIDE DEF A
<1>3. ASSUME NEW i \in DOMAIN A, i <= Len(s) PROVE i \in DOMAIN s /\ A[i] = s[i] /\ A[i] \in ToSet(s)
    <2>1. i \in DOMAIN s /\ A[i] = s[i]
        BY <1>1, <1>2, <1>3
    <2> QED
        BY <2>1 DEF ToSet
<1>4. ASSUME NEW i \in DOMAIN A, ~(i <= Len(s))
      PROVE  i - Len(s) \in DOMAIN t /\ A[i] = t[i - Len(s)] /\ A[i] \in ToSet(t)
    <2>1. i - Len(s) \in DOMAIN t /\ A[i] = t[i - Len(s)]
        BY <1>1, <1>2, <1>4
    <2> QED
        BY <2>1 DEF ToSet
<1>5. ASSUME NEW i \in DOMAIN A, NEW k \in DOMAIN A, A[i] = A[k] PROVE i = k
    <2>1. CASE i <= Len(s) /\ k <= Len(s)
        BY <1>3, <1>5, <2>1 DEF Distinct
    <2>2. CASE ~(i <= Len(s)) /\ ~(k <= Len(s))
        <3>1. i - Len(s) = k - Len(s)
            BY <1>4, <1>5, <2>2 DEF Distinct
        <3> QED
            BY <1>1, <1>2, <3>1
    <2> QED
        BY <1>3, <1>4, <1>5, <2>1, <2>2
<1> QED
    BY <1>5 DEF Distinct, A

LEMMA DistinctCount ==
    ASSUME NEW X, NEW s \in Seq(X), Distinct(s)
    PROVE  IsFiniteSet(ToSet(s)) /\ Cardinality(ToSet(s)) = Len(s)
<1> DEFINE D == 1..Len(s)
<1>0. Len(s) \in Nat /\ DOMAIN s = D
    OBVIOUS
<1>1. IsFiniteSet(D) /\ DOMAIN s = D /\ Cardinality(D) = Len(s)
    BY <1>0, FS_Interval
<1>2. s \in Surjection(D, ToSet(s))
    BY <1>1 DEF Surjection, ToSet
<1>3. s \in Injection(D, ToSet(s))
    BY <1>1, <1>2 DEF Surjection, Injection, IsInjective, Distinct
<1> QED
    BY <1>1, <1>2, <1>3, FS_Surjection

Walks == [at : Places, frontier : Seq(TreeOids), next : Seq(TreeOids), visited : SUBSET TreeOids,
          warmed : Nat, errors : Nat]

LEMMA WalkSorts ==
    ASSUME Types
    PROVE  /\ walk \in Walks /\ walk.frontier \in Seq(TreeOids) /\ walk.next \in Seq(TreeOids)
           /\ walk.visited \subseteq TreeOids /\ walk.warmed \in Nat /\ walk.errors \in Nat
           /\ walk.at \in Places /\ TreeOids \subseteq Oids
    BY DEF Types, Walks, TreeOids

(* One tree more is read, and its subtrees that were not seen yet are      *)
(* ahead.                                                                  *)
LEMMA WalkedKeeps ==
    ASSUME Types, WalkInv, walk.frontier # <<>>, NEW t, t = Head(walk.frontier), disk[t] = "whole",
           UNCHANGED <<backend, disk, faults>>, walk' = Walked(t)
    PROVE  WalkInv' /\ walk' \in Walks /\ walk'.at = "read"
<1> DEFINE fr == walk.frontier  nx == walk.next  v == walk.visited  sub == Subtrees[t]
           F == FirstOccurrences(sub, Oids \ v)
           R == Tail(fr) \o nx
<1>0. fr # <<>> /\ t = Head(fr)
    OBVIOUS
<1>1. /\ fr \in Seq(TreeOids) /\ nx \in Seq(TreeOids) /\ v \subseteq TreeOids /\ walk.warmed \in Nat
      /\ walk.errors \in Nat /\ TreeOids \subseteq Oids /\ walk \in Walks
    BY WalkSorts
<1>2. /\ Tail(fr) \in Seq(TreeOids) /\ t \in TreeOids
    BY <1>1, TailSet
<1>3. sub \in Seq(TreeOids)
    BY <1>1, <1>2, HydrateAssumption DEF TreeOids
<1>4. ToSet(sub) \subseteq TreeOids
    BY <1>3 DEF ToSet
<1>5. F \in Seq(TreeOids) /\ ToSet(F) = ToSet(sub) \cap (Oids \ v) /\ Distinct(F)
    BY ONLY <1>3, FirstsHold DEF Distinct, F
<1>6. walk' = [walk EXCEPT !.at = "read", !.frontier = Tail(fr), !.warmed = walk.warmed + 1,
                           !.next = nx \o F, !.visited = v \cup ToSet(sub)]
    BY DEF Walked
<1> HIDE DEF F, sub
<1>7. nx \o F \in Seq(TreeOids)
    BY <1>1, <1>5, ConcatProperties
<1>8. /\ walk'.at = "read" /\ walk'.frontier = Tail(fr) /\ walk'.warmed = walk.warmed + 1
      /\ walk'.next = nx \o F /\ walk'.visited = v \cup ToSet(sub) /\ walk'.errors = walk.errors
    BY <1>1, <1>6 DEF Walks
<1>9. walk' \in Walks
    <2>1. v \cup ToSet(sub) \in SUBSET TreeOids /\ walk.warmed + 1 \in Nat /\ "read" \in Places
        BY <1>1, <1>4 DEF Places
    <2> QED
        BY <1>1, <1>2, <1>6, <1>7, <2>1 DEF Walks
<1>10. /\ IsFiniteSet(v) /\ ToSet(fr \o nx) \subseteq v /\ Distinct(fr \o nx)
       /\ Cardinality(v) = walk.warmed + walk.errors + Len(fr \o nx)
       /\ walk.errors > 0 => backend = "noop" \/ faults > 0 \/ ~(v \subseteq Upstream)
       /\ walk.errors = 0 => \A x \in v \ ToSet(fr \o nx) :
            disk[x] = "whole" /\ ToSet(Subtrees[x]) \subseteq v
    BY DEF WalkInv, Ahead, Distinct
<1>11. /\ R \in Seq(TreeOids) /\ Len(fr \o nx) = Len(R) + 1 /\ ToSet(fr \o nx) = {t} \cup ToSet(R)
       /\ Distinct(R) /\ t \notin ToSet(R)
    <2>1. fr \in Seq(TreeOids) /\ nx \in Seq(TreeOids) /\ fr # <<>> /\ Distinct(fr \o nx) /\ t = Head(fr)
        BY <1>0, <1>1, <1>10
    <2> HIDE DEF fr, nx
    <2>2. /\ Tail(fr) \o nx \in Seq(TreeOids) /\ Len(fr \o nx) = Len(Tail(fr) \o nx) + 1
          /\ ToSet(fr \o nx) = {Head(fr)} \cup ToSet(Tail(fr) \o nx)
          /\ Distinct(Tail(fr) \o nx) /\ Head(fr) \notin ToSet(Tail(fr) \o nx)
        BY ONLY <2>1, BehindTheFirst
    <2> QED
        BY <2>1, <2>2, Zenon DEF R
<1>12. Tail(fr) \o (nx \o F) = R \o F
    <2>1. Tail(fr) \in Seq(TreeOids) /\ nx \in Seq(TreeOids) /\ F \in Seq(TreeOids)
        BY <1>1, <1>2, <1>5
    <2> HIDE DEF fr, nx, F
    <2> QED
        BY ONLY <2>1, ConcatAssociative DEF R
<1> HIDE DEF R, fr, nx, v
<1>13. Ahead' = R \o F
    BY <1>8, <1>12 DEF Ahead
<1>14. /\ R \o F \in Seq(TreeOids) /\ Len(R \o F) = Len(R) + Len(F)
       /\ ToSet(R \o F) = ToSet(R) \cup ToSet(F)
    BY <1>5, <1>11, ConcatSet
<1>15. Distinct(R \o F)
    <2>1. \A x \in ToSet(R) : x \notin ToSet(F)
        BY <1>5, <1>10, <1>11
    <2> QED
        BY <1>5, <1>11, <2>1, DistinctConcat
<1>16. v \cup ToSet(sub) = v \cup ToSet(F) /\ v \cap ToSet(F) = {}
    BY <1>1, <1>4, <1>5
<1>17. IsFiniteSet(walk'.visited) /\ Cardinality(walk'.visited) = Cardinality(v) + Len(F)
    <2>1. IsFiniteSet(ToSet(F)) /\ Cardinality(ToSet(F)) = Len(F)
        BY <1>5, DistinctCount
    <2>2. /\ IsFiniteSet(v \cup ToSet(F))
          /\ Cardinality(v \cup ToSet(F)) = Cardinality(v) + Cardinality(ToSet(F)) - Cardinality({})
        BY <1>10, <1>16, <2>1, FS_Union
    <2>3. Cardinality({}) = 0 /\ Cardinality(v) \in Nat /\ Len(F) \in Nat
        BY <1>5, <1>10, FS_EmptySet, FS_CardinalityType
    <2>4. Cardinality(v \cup ToSet(F)) = Cardinality(v) + Len(F)
        BY ONLY <2>1, <2>2, <2>3
    <2> QED
        BY <1>8, <1>16, <2>2, <2>4
<1>18. Cardinality(walk'.visited) = walk'.warmed + walk'.errors + Len(Ahead')
    <2>1. Len(R) \in Nat /\ Len(F) \in Nat
        BY <1>5, <1>11
    <2>2. /\ Cardinality(walk'.visited) = Cardinality(v) + Len(F)
          /\ Cardinality(v) = walk.warmed + walk.errors + Len(fr \o nx)
          /\ Len(fr \o nx) = Len(R) + 1 /\ Len(Ahead') = Len(R) + Len(F)
          /\ walk'.warmed = walk.warmed + 1 /\ walk'.errors = walk.errors
          /\ walk.warmed \in Nat /\ walk.errors \in Nat
        BY <1>1, <1>8, <1>10, <1>11, <1>13, <1>14, <1>17
    <2>3. Cardinality(v) + Len(F) = (walk.warmed + 1) + walk.errors + (Len(R) + Len(F))
        <3>1. PICK w \in Nat, e \in Nat, k \in Nat, f \in Nat : w = walk.warmed /\ e = walk.errors /\ k = Len(R) /\ f = Len(F)
            BY <2>1, <2>2
        <3>2. PICK c, l : c = Cardinality(v) /\ l = Len(fr \o nx)
            OBVIOUS
        <3>3. c = w + e + l /\ l = k + 1
            BY <2>2, <3>1, <3>2, Zenon
        <3>4. c + f = (w + 1) + e + (k + f) /\ c = w + (e + 1) + k
            BY <3>3
        <3> QED
            BY <3>1, <3>2, <3>4, Zenon
    <2> QED
        BY ONLY <2>2, <2>3, Zenon
<1>19. ToSet(Ahead') \subseteq walk'.visited
    BY <1>8, <1>10, <1>11, <1>13, <1>14, <1>16
<1>20. ASSUME walk'.errors = 0, NEW x \in walk'.visited \ ToSet(Ahead')
       PROVE  disk[x] = "whole" /\ ToSet(Subtrees[x]) \subseteq walk'.visited
    <2>1. x \in v /\ x \notin ToSet(R)
        BY <1>8, <1>13, <1>14, <1>16, <1>20
    <2>2. CASE x = t
        BY <1>8, <2>2 DEF sub
    <2>3. CASE x # t
        BY <1>8, <1>10, <1>11, <1>20, <2>1, <2>3
    <2> QED
        BY <2>2, <2>3
<1>21. WalkInv'
    <2>1. \A i, k \in DOMAIN Ahead' : Ahead'[i] = Ahead'[k] => i = k
        BY <1>13, <1>15 DEF Distinct
    <2>2. walk'.errors > 0 => backend' = "noop" \/ faults' > 0 \/ ~(walk'.visited \subseteq Upstream)
        BY <1>8, <1>10
    <2>3. walk'.errors = 0 => \A x \in walk'.visited \ ToSet(Ahead') :
             disk'[x] = "whole" /\ ToSet(Subtrees[x]) \subseteq walk'.visited
        BY <1>20
    <2> QED
        BY <1>8, <1>17, <1>18, <1>19, <2>1, <2>2, <2>3 DEF WalkInv
<1> QED
    BY <1>8, <1>9, <1>21

(* A tree that cannot be read is left behind.                              *)
LEMMA MissedKeeps ==
    ASSUME Types, WalkInv, walk.frontier # <<>>, UNCHANGED <<backend, disk, faults>>,
           walk' = [walk EXCEPT !.at = "read", !.frontier = Tail(@), !.errors = @ + 1],
           backend = "noop" \/ faults > 0 \/ Head(walk.frontier) \notin Upstream
    PROVE  WalkInv' /\ walk' \in Walks /\ walk'.at = "read"
<1> DEFINE fr == walk.frontier  nx == walk.next  v == walk.visited  t == Head(walk.frontier)
           R == Tail(fr) \o nx
<1>0. fr # <<>> /\ t = Head(fr)
    OBVIOUS
<1>1. /\ fr \in Seq(TreeOids) /\ nx \in Seq(TreeOids) /\ v \subseteq TreeOids /\ walk.warmed \in Nat
      /\ walk.errors \in Nat /\ walk \in Walks
    BY WalkSorts
<1>2. Tail(fr) \in Seq(TreeOids)
    BY <1>1, TailSet
<1>3. walk' = [walk EXCEPT !.at = "read", !.frontier = Tail(fr), !.errors = walk.errors + 1]
    OBVIOUS
<1>4. /\ walk'.at = "read" /\ walk'.frontier = Tail(fr) /\ walk'.warmed = walk.warmed
      /\ walk'.next = nx /\ walk'.visited = v /\ walk'.errors = walk.errors + 1
    BY <1>1, <1>3 DEF Walks
<1>5. walk' \in Walks
    <2>1. walk.errors + 1 \in Nat /\ "read" \in Places
        BY <1>1 DEF Places
    <2> QED
        BY <1>1, <1>2, <1>3, <2>1 DEF Walks
<1>6. /\ IsFiniteSet(v) /\ ToSet(fr \o nx) \subseteq v /\ Distinct(fr \o nx)
      /\ Cardinality(v) = walk.warmed + walk.errors + Len(fr \o nx)
    BY DEF WalkInv, Ahead, Distinct
<1>7. /\ R \in Seq(TreeOids) /\ Len(fr \o nx) = Len(R) + 1 /\ ToSet(fr \o nx) = {t} \cup ToSet(R)
      /\ Distinct(R)
    <2>1. fr \in Seq(TreeOids) /\ nx \in Seq(TreeOids) /\ fr # <<>> /\ Distinct(fr \o nx) /\ t = Head(fr)
        BY <1>0, <1>1, <1>6
    <2> HIDE DEF fr, nx, t
    <2>2. /\ Tail(fr) \o nx \in Seq(TreeOids) /\ Len(fr \o nx) = Len(Tail(fr) \o nx) + 1
          /\ ToSet(fr \o nx) = {Head(fr)} \cup ToSet(Tail(fr) \o nx)
          /\ Distinct(Tail(fr) \o nx) /\ Head(fr) \notin ToSet(Tail(fr) \o nx)
        BY ONLY <2>1, BehindTheFirst
    <2> QED
        BY <2>1, <2>2, Zenon DEF R
<1>8. Ahead' = R
    BY <1>4 DEF Ahead
<1> HIDE DEF R, fr, nx, v, t
<1>9. Cardinality(walk'.visited) = walk'.warmed + walk'.errors + Len(Ahead')
    <2>1. Len(R) \in Nat
        BY <1>7
    <2>2. /\ Cardinality(walk'.visited) = Cardinality(v)
          /\ Cardinality(v) = walk.warmed + walk.errors + Len(fr \o nx)
          /\ Len(fr \o nx) = Len(R) + 1 /\ Len(Ahead') = Len(R)
          /\ walk'.warmed = walk.warmed /\ walk'.errors = walk.errors + 1
          /\ walk.warmed \in Nat /\ walk.errors \in Nat
        BY <1>1, <1>4, <1>6, <1>7, <1>8
    <2>3. Cardinality(v) = walk.warmed + (walk.errors + 1) + Len(R)
        <3>1. PICK w \in Nat, e \in Nat, k \in Nat, f \in Nat : w = walk.warmed /\ e = walk.errors /\ k = Len(R) /\ f = 0
            BY <2>1, <2>2
        <3>2. PICK c, l : c = Cardinality(v) /\ l = Len(fr \o nx)
            OBVIOUS
        <3>3. c = w + e + l /\ l = k + 1
            BY <2>2, <3>1, <3>2, Zenon
        <3>4. c + f = (w + 1) + e + (k + f) /\ c = w + (e + 1) + k
            BY <3>3
        <3> QED
            BY <3>1, <3>2, <3>4, Zenon
    <2> QED
        BY ONLY <2>2, <2>3, Zenon
<1>10. walk'.errors # 0
    BY <1>1, <1>4
<1>11. backend' = "noop" \/ faults' > 0 \/ ~(walk'.visited \subseteq Upstream)
    BY <1>4, <1>6, <1>7 DEF t
<1>12. WalkInv'
    <2>1. \A i, k \in DOMAIN Ahead' : Ahead'[i] = Ahead'[k] => i = k
        BY <1>7, <1>8 DEF Distinct
    <2> QED
        BY <1>4, <1>6, <1>7, <1>8, <1>9, <1>10, <1>11, <2>1 DEF WalkInv
<1> QED
    BY <1>4, <1>5, <1>12

(* What is left to check when the warmer has made its step.                *)
LEMMA WarmCloses ==
    ASSUME HydrateInv, StoreInv, Surface, UNCHANGED <<asked, reply, posting, wanted, queue, task, skipped, lost>>,
           job' \in [Actors -> Jobs], PhaseInv', JobInv', BatchFresh',
           \A u \in Actors \ {Warmer} : job'[u] = job[u],
           returned' \in [Actors -> [call : {"none", "headers", "bytes"}, probes : Seq(Probes)]],
           FirstProbeHonest', walk' \in Walks, WalkInv',
           job'[Warmer].call \in {"none", "fetch", "bytes"},
           job'[Warmer].call = "bytes" => walk'.at = "read",
           job'[Warmer].call = "fetch" =>
             walk'.at = "reading" /\ walk'.frontier # <<>> /\ job'[Warmer].oids = <<Head(walk'.frontier)>>,
           ToSet(job'[Warmer].todo) \subseteq TreeOids
    PROVE  StoreInv'
<1>1. /\ Grown /\ SeenInv' /\ Single!TypeOK' /\ FlightInv' /\ OutcomeInv' /\ StageInv'
      /\ HeadersTrue' /\ DiskWanted' /\ DOMAIN stage' = Actors /\ Types
    BY SurfaceKeeps DEF StoreInv
<1>2. Types'
    BY <1>1 DEF Types, Grown, Walks
<1>3. /\ Readers \subseteq Actors \ {Warmer} /\ Worker \in Actors \ {Warmer} /\ Warmer \in Actors
    BY HydrateAssumption DEF Actors
<1>4. CallsInv'
    BY <1>3 DEF StoreInv, CallsInv
<1>5. WantInv'
    <2>1. \A o \in TreeOids : ~Big(o)
        BY DEF TreeOids, Big
    <2>2. \A u \in Actors : job'[u].call \in {"fetch", "bytes"} =>
              \A o \in ToSet(job'[u].todo) : Big(o) => o \in wanted'
        BY <2>1 DEF StoreInv, WantInv
    <2>3. \A r \in Readers : job'[r].call = "fetch" => asked'[r][2] \in wanted'
        BY <1>3 DEF StoreInv, WantInv
    <2> QED
        BY <1>1, <2>2, <2>3 DEF WantInv, DiskWanted, Big
<1>6. FailuresHaveCauses' /\ PostingInv' /\ QueueInv'
    BY <1>1, <1>3, FailuresStay, QueueStays DEF StoreInv, PostingInv
<1> QED
    BY <1>1, <1>2, <1>4, <1>5, <1>6 DEF StoreInv

LEMMA WarmFrame ==
    ASSUME UNCHANGED Unwalked
    PROVE  /\ UNCHANGED <<backend, cast, disk, visible, faults, claimed>> /\ UNCHANGED flightVars
           /\ UNCHANGED stage
           /\ UNCHANGED <<asked, reply, posting, wanted, queue, task, skipped, lost>>
    BY DEF Unwalked, diskVars, readerVars, workerVars

\* The warmer between two calls: the others, and what returned, are as before.
LEMMA WarmerCalls ==
    ASSUME StoreInv, UNCHANGED Unwalked, UNCHANGED <<headers, returned>>, phase[Warmer] = "idle",
           NEW j \in Jobs, job' = [job EXCEPT ![Warmer] = j], j.probes = <<>>,
           JobAt(j, backend', disk', visible', DOMAIN headers', faults', claimed')
    PROVE  /\ Surface /\ job' \in [Actors -> Jobs] /\ PhaseInv' /\ JobInv' /\ BatchFresh'
           /\ job'[Warmer] = j /\ \A u \in Actors \ {Warmer} : job'[u] = job[u]
           /\ returned' \in [Actors -> [call : {"none", "headers", "bytes"}, probes : Seq(Probes)]]
           /\ FirstProbeHonest'
<1>1. HeadersGrown /\ Types
    BY HeadersKept DEF StoreInv
<1>2. Surface
    BY <1>1, WarmFrame DEF Surface
<1>3. Grown
    BY <1>2, SurfaceKeeps
<1>4. Warmer \in Actors
    BY DEF Actors
<1>5. returned' \in [Actors -> [call : {"none", "headers", "bytes"}, probes : Seq(Probes)]]
    BY <1>1 DEF Types
<1>6. FirstProbeHonest'
    BY <1>1, <1>3, AllReturnedStay DEF StoreInv
<1> QED
    BY <1>2, <1>4, <1>5, <1>6, SurfaceJobs

LEMMA WarmerAt ==
    ASSUME StoreInv, ~Busy(Warmer)
    PROVE  Warmer \in Actors /\ job[Warmer] = NoJob /\ phase[Warmer] = "idle"
<1>1. Warmer \in Actors
    BY DEF Actors
<1> QED
    BY <1>1, NotBusy

\* What a read of a tree finds is the tree, or a file cut short.
LEMMA TreeServed ==
    ASSUME NEW t \in TreeOids
    PROVE  /\ Served("tree", t) \in {"Ok", "Corrupt"}
           /\ Hit("tree", t) /\ Served("tree", t) # "Ok" => disk[t] \in Cut
    BY DEF Served, TreeOids, Hit, Readable

LEMMA WarmReadInv ==
    ASSUME HydrateInv, StoreInv, WarmRead
    PROVE  StoreInv'
<1> DEFINE t == Head(walk.frontier)
<1>1. /\ walk.at = "read" /\ ~Busy(Warmer) /\ walk.frontier # <<>> /\ UNCHANGED Unwalked
      /\ UNCHANGED <<headers, returned>> /\ Types
      /\ \/ Hit("tree", t) /\ Served("tree", t) = "Ok" /\ walk' = Walked(t) /\ UNCHANGED job
         \/ Hit("tree", t) /\ Served("tree", t) # "Ok" /\ walk' = WarmFailed /\ UNCHANGED job
         \/ walk' = [walk EXCEPT !.at = "reading"] /\ job' = [job EXCEPT ![Warmer] = FetchOne(t)]
    BY DEF WarmRead, StoreInv
<1>2. Warmer \in Actors /\ job[Warmer] = NoJob /\ phase[Warmer] = "idle" /\ job \in [Actors -> Jobs]
    BY <1>1, WarmerAt DEF Types
<1>3. walk \in Walks /\ walk.frontier \in Seq(TreeOids) /\ TreeOids \subseteq Oids
    BY <1>1, WalkSorts
<1>4. t \in TreeOids
    BY <1>1, <1>3, TailSet
<1>5. /\ UNCHANGED <<backend, disk, faults>>
      /\ UNCHANGED <<asked, reply, posting, wanted, queue, task, skipped, lost>>
    BY <1>1, WarmFrame
<1> HIDE DEF t
<1>6. CASE Hit("tree", t) /\ UNCHANGED job /\ walk' = IF Served("tree", t) = "Ok" THEN Walked(t) ELSE WarmFailed
    <2>2. WalkInv' /\ walk' \in Walks /\ walk'.at = "read"
        <3>1. CASE Served("tree", t) = "Ok"
            <4>1. Readable("tree", t)
                BY <1>3, <1>4, <3>1, ServedIsNoError
            <4>2. disk[t] = "whole"
                BY <1>3, <1>4, <4>1 DEF Readable, StoreHas, HydrateInv, VisibleIsWhole
            <4>3. walk' = Walked(t)
                BY <1>6, <3>1
            <4> QED
                BY <1>1, <1>5, <4>2, <4>3, WalkedKeeps DEF StoreInv, t
        <3>2. CASE Served("tree", t) # "Ok"
            <4>1. disk[t] \in Cut
                BY <1>3, <1>4, <1>6, <3>2, TreeServed
            <4>2. faults > 0
                BY <1>3, <1>4, <4>1, CutIsCaused DEF StoreInv
            <4>3. walk' = [walk EXCEPT !.at = "read", !.frontier = Tail(@), !.errors = @ + 1]
                BY <1>6, <3>2 DEF WarmFailed
            <4> QED
                BY <1>1, <1>5, <4>2, <4>3, MissedKeeps DEF StoreInv
        <3> QED
            BY <3>1, <3>2
    <2>3. /\ NoJob \in Jobs /\ NoJob.probes = <<>> /\ ToSet(NoJob.todo) = {} /\ NoJob.call = "none"
          /\ JobAt(NoJob, backend', disk', visible', DOMAIN headers', faults', claimed')
        BY NoJobFits DEF NoJob
    <2>4. job' = [job EXCEPT ![Warmer] = NoJob]
        BY <1>2, <1>6
    <2>5. /\ Surface /\ job' \in [Actors -> Jobs] /\ PhaseInv' /\ JobInv' /\ BatchFresh'
          /\ job'[Warmer] = NoJob /\ \A u \in Actors \ {Warmer} : job'[u] = job[u]
          /\ returned' \in [Actors -> [call : {"none", "headers", "bytes"}, probes : Seq(Probes)]]
          /\ FirstProbeHonest'
        BY <1>1, <1>2, <2>3, <2>4, WarmerCalls
    <2> QED
        BY <1>5, <2>2, <2>3, <2>5, WarmCloses
<1>7. CASE walk' = [walk EXCEPT !.at = "reading"] /\ job' = [job EXCEPT ![Warmer] = FetchOne(t)]
    <2>1. /\ walk' \in Walks /\ walk'.at = "reading" /\ walk'.frontier = walk.frontier
          /\ walk'.next = walk.next /\ walk'.visited = walk.visited /\ walk'.warmed = walk.warmed
          /\ walk'.errors = walk.errors
        BY <1>3, <1>7 DEF Walks, Places
    <2>2. Ahead' = Ahead
        BY <2>1 DEF Ahead
    <2>3. WalkInv'
        BY <1>5, <2>1, <2>2 DEF StoreInv, WalkInv
    <2>4. t \in Oids
        BY <1>3, <1>4
    <2>5. /\ FetchOne(t) \in Jobs /\ FetchOne(t).probes = <<>> /\ ToSet(FetchOne(t).todo) = {t}
          /\ FetchOne(t).call = "fetch" /\ FetchOne(t).oids = <<t>>
          /\ JobAt(FetchOne(t), backend', disk', visible', DOMAIN headers', faults', claimed')
        BY <2>4, Singleton
    <2>6. /\ Surface /\ job' \in [Actors -> Jobs] /\ PhaseInv' /\ JobInv' /\ BatchFresh'
          /\ job'[Warmer] = FetchOne(t) /\ \A u \in Actors \ {Warmer} : job'[u] = job[u]
          /\ returned' \in [Actors -> [call : {"none", "headers", "bytes"}, probes : Seq(Probes)]]
          /\ FirstProbeHonest'
        BY <1>1, <1>2, <1>7, <2>5, WarmerCalls
    <2>7. walk'.frontier # <<>> /\ t = Head(walk'.frontier)
        BY <1>1, <2>1 DEF t
    <2> QED
        BY <1>4, <1>5, <2>1, <2>3, <2>5, <2>6, <2>7, WarmCloses
<1> QED
    BY <1>1, <1>6, <1>7

LEMMA WarmFetchedInv ==
    ASSUME HydrateInv, StoreInv, WarmFetched
    PROVE  StoreInv'
<1> DEFINE t == Head(walk.frontier)  rep == Retried(Warmer, "tree", t)
<1>1. /\ walk.at = "reading" /\ Fetched(Warmer) /\ UNCHANGED Unwalked
      /\ UNCHANGED <<headers, returned>> /\ Types /\ job' = [job EXCEPT ![Warmer] = NoJob]
      /\ \/ rep = "Ok" /\ walk' = Walked(t)
         \/ rep # "Ok" /\ walk' = [walk EXCEPT !.at = "read", !.frontier = Tail(@), !.errors = @ + 1]
    BY DEF WarmFetched, WarmFailed, StoreInv
<1>2. Warmer \in Actors
    BY DEF Actors
<1>3. walk.frontier # <<>> /\ job[Warmer].oids = <<t>> /\ phase[Warmer] = "idle"
    BY <1>1, <1>2, NothingToFetch DEF StoreInv, CallsInv, Fetched
<1>4. walk \in Walks /\ walk.frontier \in Seq(TreeOids) /\ TreeOids \subseteq Oids
    BY <1>1, WalkSorts
<1>5. t \in TreeOids
    BY <1>3, <1>4, TailSet
<1>6. FetchHonest(job[Warmer].probes[1], t, backend, visible, faults)
    BY <1>1, <1>2, <1>3, FetchedHonest
<1>7. /\ UNCHANGED <<backend, disk, faults>>
      /\ UNCHANGED <<asked, reply, posting, wanted, queue, task, skipped, lost>>
    BY <1>1, WarmFrame
<1> HIDE DEF t
<1>8. /\ backend # "noop" /\ faults = 0 /\ t \in Upstream => rep = Served("tree", t)
      /\ rep = "Ok" => Readable("tree", t)
      /\ rep = "Corrupt" => disk[t] \in Cut
    BY <1>1, <1>2, <1>4, <1>5, <1>6, RetriedIsCaused
<1>9. Served("tree", t) \in {"Ok", "Corrupt"}
    BY <1>4, <1>5, TreeServed
<1> HIDE DEF rep
<1>10. WalkInv' /\ walk' \in Walks /\ walk'.at = "read"
    <2>1. CASE rep = "Ok" /\ walk' = Walked(t)
        <3>1. disk[t] = "whole"
            BY <1>4, <1>5, <1>8, <2>1 DEF Readable, StoreHas, HydrateInv, VisibleIsWhole
        <3> QED
            BY <1>1, <1>3, <1>7, <2>1, <3>1, WalkedKeeps DEF StoreInv, t
    <2>2. CASE rep # "Ok" /\ walk' = [walk EXCEPT !.at = "read", !.frontier = Tail(@), !.errors = @ + 1]
        <3>1. faults \in Nat
            BY <1>1 DEF Types
        <3>2. rep = "Corrupt" => faults > 0
            BY <1>4, <1>5, <1>8, CutIsCaused DEF StoreInv
        <3>3. backend = "noop" \/ faults > 0 \/ Head(walk.frontier) \notin Upstream
            BY <1>8, <1>9, <2>2, <3>1, <3>2 DEF t
        <3> QED
            BY <1>1, <1>3, <1>7, <2>2, <3>3, MissedKeeps DEF StoreInv
    <2> QED
        BY <1>1, <2>1, <2>2
<1>11. /\ NoJob \in Jobs /\ NoJob.probes = <<>> /\ ToSet(NoJob.todo) = {} /\ NoJob.call = "none"
      /\ JobAt(NoJob, backend', disk', visible', DOMAIN headers', faults', claimed')
    BY NoJobFits DEF NoJob
<1>12. /\ Surface /\ job' \in [Actors -> Jobs] /\ PhaseInv' /\ JobInv' /\ BatchFresh'
       /\ job'[Warmer] = NoJob /\ \A u \in Actors \ {Warmer} : job'[u] = job[u]
       /\ returned' \in [Actors -> [call : {"none", "headers", "bytes"}, probes : Seq(Probes)]]
       /\ FirstProbeHonest'
    BY <1>1, <1>3, <1>11, WarmerCalls
<1> QED
    BY <1>7, <1>10, <1>11, <1>12, WarmCloses

\* The bulk call with which the warmer fetches a level.
LEMMA WarmerFetchesLevel ==
    ASSUME HydrateInv, StoreInv, ~Busy(Warmer), UNCHANGED Unwalked,
           NEW level \in Seq(TreeOids), BulkStarts(Warmer, "bytes", level, {}),
           walk' \in Walks, WalkInv', walk'.at = "read"
    PROVE  StoreInv'
<1>1. /\ UNCHANGED <<backend, cast, disk, visible, faults, claimed>> /\ UNCHANGED flightVars
      /\ UNCHANGED stage
      /\ UNCHANGED <<asked, reply, posting, wanted, queue, task, skipped, lost>>
    BY WarmFrame
<1>2. Warmer \in Actors /\ level \in Seq(Oids) /\ ToSet(level) \subseteq TreeOids
    BY DEF Actors, TreeOids, ToSet
<1>3. /\ Surface /\ job' \in [Actors -> Jobs] /\ PhaseInv' /\ JobInv' /\ BatchFresh'
      /\ \A u \in Actors \ {Warmer} : job'[u] = job[u]
      /\ returned' \in [Actors -> [call : {"none", "headers", "bytes"}, probes : Seq(Probes)]]
      /\ FirstProbeHonest'
      /\ \/ job'[Warmer] = NoJob
         \/ /\ job'[Warmer].call = "bytes"
            /\ ToSet(job'[Warmer].todo) = ToSet(level) \cap {o \in Oids : ~There("bytes", o)}
    BY <1>1, <1>2, BulkStartsKeeps
<1>4. ToSet(NoJob.todo) = {} /\ NoJob.call = "none"
    BY NoJobFits DEF NoJob
<1>5. job'[Warmer].call \in {"none", "bytes"} /\ ToSet(job'[Warmer].todo) \subseteq TreeOids
    BY <1>2, <1>3, <1>4
<1> QED
    BY <1>1, <1>3, <1>5, WarmCloses

LEMMA WarmStartInv ==
    ASSUME HydrateInv, StoreInv, WarmStart
    PROVE  StoreInv'
<1>1. /\ walk.at = "start" /\ BulkStarts(Warmer, "bytes", <<RootTree>>, {}) /\ UNCHANGED Unwalked
      /\ walk' = [walk EXCEPT !.at = "read", !.frontier = <<RootTree>>, !.visited = {RootTree}]
      /\ Types
    BY DEF WarmStart, StoreInv
<1>2. ~Busy(Warmer)
    BY <1>1 DEF StoreInv, CallsInv, Busy
<1>3. RootTree \in TreeOids /\ RootTree \in Oids
    BY HydrateAssumption DEF TreeOids
<1>4. <<RootTree>> \in Seq(TreeOids) /\ ToSet(<<RootTree>>) = {RootTree}
    BY <1>3 DEF ToSet
<1>5. /\ walk \in Walks /\ walk.frontier \in Seq(TreeOids) /\ walk.next \in Seq(TreeOids)
      /\ walk.warmed \in Nat /\ walk.errors \in Nat
    BY <1>1, WalkSorts
<1>6. /\ walk' \in Walks /\ walk'.at = "read" /\ walk'.frontier = <<RootTree>> /\ walk'.next = walk.next
      /\ walk'.visited = {RootTree} /\ walk'.warmed = walk.warmed /\ walk'.errors = walk.errors
    BY <1>1, <1>3, <1>4, <1>5 DEF Walks, Places
<1>7. walk.warmed = 0 /\ walk.errors = 0 /\ Len(walk.next) = 0
    <2>1. walk.visited = {} /\ Cardinality(walk.visited) = walk.warmed + walk.errors + Len(Ahead)
        BY <1>1 DEF StoreInv, WalkInv
    <2>2. Cardinality({}) = 0
        BY FS_EmptySet
    <2>3. /\ Len(Ahead) = Len(walk.frontier) + Len(walk.next) /\ Len(walk.frontier) \in Nat
          /\ Len(walk.next) \in Nat
        BY <1>5, ConcatSet DEF Ahead
    <2>4. PICK w \in Nat, e \in Nat, f \in Nat, n \in Nat :
             w = walk.warmed /\ e = walk.errors /\ f = Len(walk.frontier) /\ n = Len(walk.next)
        BY <1>5, <2>3
    <2>5. w + e + (f + n) = 0
        BY <2>1, <2>2, <2>3, <2>4, Zenon
    <2>6. w = 0 /\ e = 0 /\ n = 0
        BY <2>5
    <2> QED
        BY <2>4, <2>6
<1>8. walk.next = <<>>
    BY <1>5, <1>7
<1>9. Ahead' = <<RootTree>>
    <2>1. Ahead' = <<RootTree>> \o <<>>
        BY <1>6, <1>8 DEF Ahead
    <2> QED
        BY <1>4, <2>1
<1>10. WalkInv'
    <2>1. IsFiniteSet({RootTree}) /\ Cardinality({RootTree}) = 1
        BY FS_Singleton
    <2>2. Len(<<RootTree>>) = 1 /\ DOMAIN <<RootTree>> = {1}
        OBVIOUS
    <2>3. Cardinality(walk'.visited) = walk'.warmed + walk'.errors + Len(Ahead')
        BY <1>6, <1>7, <1>9, <2>1, <2>2
    <2> QED
        BY <1>4, <1>6, <1>7, <1>9, <2>1, <2>2, <2>3 DEF WalkInv
<1> QED
    BY <1>1, <1>2, <1>4, <1>6, <1>10, WarmerFetchesLevel

LEMMA WarmLevelInv ==
    ASSUME HydrateInv, StoreInv, WarmLevel
    PROVE  StoreInv'
<1>1. /\ walk.at = "read" /\ ~Busy(Warmer) /\ walk.frontier = <<>> /\ UNCHANGED Unwalked /\ Types
      /\ \/ walk.next = <<>> /\ walk' = [walk EXCEPT !.at = "done"] /\ UNCHANGED <<headers, job, returned>>
         \/ /\ BulkStarts(Warmer, "bytes", walk.next, {})
            /\ walk' = [walk EXCEPT !.frontier = walk.next, !.next = <<>>]
    BY DEF WarmLevel, StoreInv
<1>2. walk \in Walks /\ walk.next \in Seq(TreeOids)
    BY <1>1, WalkSorts
<1>3. /\ UNCHANGED <<backend, disk, faults>>
      /\ UNCHANGED <<asked, reply, posting, wanted, queue, task, skipped, lost>>
    BY <1>1, WarmFrame
<1>4. Ahead = walk.next /\ walk.next \o <<>> = walk.next /\ <<>> \in Seq(TreeOids)
    BY <1>1, <1>2 DEF Ahead
<1>5. CASE walk.next = <<>> /\ walk' = [walk EXCEPT !.at = "done"] /\ UNCHANGED <<headers, job, returned>>
    <2>1. /\ walk' \in Walks /\ walk'.at = "done" /\ walk'.frontier = walk.frontier
          /\ walk'.next = walk.next /\ walk'.visited = walk.visited /\ walk'.warmed = walk.warmed
          /\ walk'.errors = walk.errors
        BY <1>2, <1>5 DEF Walks, Places
    <2>2. Ahead' = Ahead /\ Ahead = <<>>
        BY <1>4, <1>5, <2>1 DEF Ahead
    <2>3. WalkInv'
        BY <1>3, <2>1, <2>2 DEF StoreInv, WalkInv
    <2>4. Warmer \in Actors /\ job[Warmer] = NoJob /\ phase[Warmer] = "idle" /\ job \in [Actors -> Jobs]
        BY <1>1, WarmerAt DEF Types
    <2>5. /\ NoJob \in Jobs /\ NoJob.probes = <<>> /\ ToSet(NoJob.todo) = {} /\ NoJob.call = "none"
          /\ JobAt(NoJob, backend', disk', visible', DOMAIN headers', faults', claimed')
        BY NoJobFits DEF NoJob
    <2>6. job' = [job EXCEPT ![Warmer] = NoJob]
        BY <1>5, <2>4
    <2>7. /\ Surface /\ job' \in [Actors -> Jobs] /\ PhaseInv' /\ JobInv' /\ BatchFresh'
          /\ job'[Warmer] = NoJob /\ \A u \in Actors \ {Warmer} : job'[u] = job[u]
          /\ returned' \in [Actors -> [call : {"none", "headers", "bytes"}, probes : Seq(Probes)]]
          /\ FirstProbeHonest'
        BY <1>1, <1>5, <2>4, <2>5, <2>6, WarmerCalls
    <2> QED
        BY <1>3, <2>1, <2>3, <2>5, <2>7, WarmCloses
<1>6. CASE BulkStarts(Warmer, "bytes", walk.next, {}) /\ walk' = [walk EXCEPT !.frontier = walk.next, !.next = <<>>]
    <2>1. /\ walk' \in Walks /\ walk'.at = "read" /\ walk'.frontier = walk.next
          /\ walk'.next = <<>> /\ walk'.visited = walk.visited /\ walk'.warmed = walk.warmed
          /\ walk'.errors = walk.errors
        BY <1>1, <1>2, <1>4, <1>6 DEF Walks
    <2>2. Ahead' = Ahead
        BY <1>4, <2>1 DEF Ahead
    <2>3. WalkInv'
        BY <1>3, <2>1, <2>2 DEF StoreInv, WalkInv
    <2> QED
        BY <1>1, <1>2, <1>6, <2>1, <2>3, WarmerFetchesLevel
<1> QED
    BY <1>1, <1>5, <1>6

-----------------------------------------------------------------------------
(* What happens behind the process's back.                                 *)

\* The store finds more, and nothing else changes but what is wanted.
LEMMA MoreIsFound ==
    ASSUME HydrateInv, StoreInv, DiskGrown, DiskWanted', wanted \subseteq wanted',
           UNCHANGED <<backend, cast, headers, job, returned, asked, reply, posting, walk>>,
           UNCHANGED flightVars, UNCHANGED stage, UNCHANGED <<queue, task, skipped, lost>>
    PROVE  StoreInv'
<1>1. Grown /\ SeenInv' /\ Types
    BY DEF StoreInv, Types, DiskGrown, Grown
<1>2. Single!TypeOK' /\ FlightInv' /\ OutcomeInv' /\ StageInv' /\ PhaseInv'
    BY <1>1, FlightsStay, OutcomesStay, StagesStay, PhasesStay DEF StoreInv
<1>3. Types'
    BY <1>1, <1>2 DEF Types, Grown
<1>4. JobInv'
    BY <1>1, JobStays DEF StoreInv, JobInv
<1>5. BatchFresh' /\ CallsInv' /\ HeadersTrue' /\ PostingInv'
    BY DEF StoreInv, BatchFresh, Batched, CallsInv, HeadersTrue, PostingInv
<1>6. WantInv'
    BY <1>1, WantStays DEF StoreInv
<1>7. FailuresHaveCauses' /\ FirstProbeHonest' /\ QueueInv' /\ WalkInv'
    BY <1>1, FailuresStay, AllReturnedStay, QueueStays, WalkStays DEF StoreInv
<1> QED
    BY <1>1, <1>2, <1>3, <1>4, <1>5, <1>6, <1>7 DEF StoreInv

LEMMA RefreshInv ==
    ASSUME HydrateInv, StoreInv, NEW o \in Oids, Refresh(o)
    PROVE  StoreInv'
<1>1. /\ visible' = visible \cup {o} /\ UNCHANGED <<disk, faults, claimed>>
      /\ UNCHANGED <<backend, cast, headers, job, returned, asked, reply, posting, walk>>
      /\ UNCHANGED flightVars /\ UNCHANGED stage /\ UNCHANGED <<queue, task, skipped, lost, wanted>>
    BY DEF Refresh, readerVars, workerVars
<1>2. DiskGrown
    BY <1>1 DEF StoreInv, Types, SeenInv, DiskGrown, HeaderHere, StoreHas
<1>3. DiskWanted'
    BY <1>1 DEF StoreInv, WantInv, DiskWanted
<1> QED
    BY <1>1, <1>2, <1>3, MoreIsFound

LEMMA ElsewhereInv ==
    ASSUME HydrateInv, StoreInv, NEW o \in Oids, Elsewhere(o)
    PROVE  StoreInv'
<1>1. /\ visible' = visible \cup {o} /\ disk' = [disk EXCEPT ![o] = "whole"] /\ Fault
      /\ UNCHANGED <<backend, cast, headers, job, returned, asked, reply, posting, walk>>
      /\ UNCHANGED flightVars /\ UNCHANGED stage /\ UNCHANGED <<queue, task, skipped, lost, claimed>>
      /\ wanted' = wanted \cup {o}
    BY DEF Elsewhere, workerVars
<1>2. DiskGrown
    BY <1>1, FoundGrown DEF StoreInv, StoreBasics
<1>3. DiskWanted'
    BY <1>1 DEF StoreInv, WantInv, DiskWanted, HydrateInv, DiskStates
<1> QED
    BY <1>1, <1>2, <1>3, MoreIsFound

-----------------------------------------------------------------------------
(* A process that has just started, the first time or after a crash.       *)

\* What it finds: the disk, and what earlier processes have left to be said.
Found ==
    /\ backend \in Backends
    /\ faults \in Nat
    /\ visible \subseteq Oids
    /\ SeenInv
    /\ DiskWanted
    /\ NoExcuse => \A o \in skipped \cap Upstream : Size[o] > Cap \/ o \in claimed

LEMMA FreshFlights ==
    ASSUME Fresh
    PROVE  Single!TypeOK /\ FlightInv /\ OutcomeInv /\ StageInv /\ PhaseInv
<1>1. /\ open = [k \in Oids |-> NoFlight] /\ outcome = [f \in Single!Flights |-> Pending]
      /\ phase = [a \in Actors |-> "idle"] /\ key \in [Actors -> Oids]
      /\ flight = [a \in Actors |-> NoFlight] /\ calls = [a \in Actors |-> 0]
    BY DEF Fresh, Single!Init
<1>2. 0 \in 0..MaxCalls
    BY HydrateAssumption
<1>3. Single!TypeOK
    BY <1>1, <1>2 DEF Single!TypeOK
<1>4. FreshPending
    <2> SUFFICES ASSUME NEW a \in Actors, NEW n \in 1..MaxCalls PROVE outcome[<<a, n>>] = Pending
        BY DEF FreshPending
    <2>1. <<a, n>> \in Single!Flights
        BY DEF Single!Flights
    <2> QED
        BY <1>1, <2>1
<1>5. CallsCounted /\ LeaderOwns /\ OpenHasLeader /\ FollowerHasLeader
    BY <1>1 DEF CallsCounted, LeaderOwns, OpenHasLeader, FollowerHasLeader, Leads, Waits
<1>6. OutcomeInv /\ StageInv /\ PhaseInv
    BY <1>1 DEF OutcomeInv, StageInv, PhaseInv, Leads, Waits
<1> QED
    BY <1>3, <1>4, <1>5, <1>6 DEF FlightInv

LEMMA FreshInv == Fresh /\ Found => StoreInv
<1> SUFFICES ASSUME Fresh, Found PROVE StoreInv
    OBVIOUS
<1>1. Single!TypeOK /\ FlightInv /\ OutcomeInv /\ StageInv /\ PhaseInv
    BY FreshFlights
<1>2. /\ headers = [o \in {} |-> NoHeader] /\ stage = [a \in Actors |-> "start"]
      /\ job = [a \in Actors |-> NoJob] /\ returned = [a \in Actors |-> NoAnswer]
      /\ asked = [r \in Readers |-> <<"header", RootTree>>] /\ reply = [r \in Readers |-> "none"]
      /\ posting = [r \in Readers |-> <<>>] /\ queue = <<>> /\ task = NoTask /\ walk = NotWalking
    BY DEF Fresh
<1>3. /\ NoJob \in Jobs /\ NoJob.probes = <<>> /\ NoJob.todo = <<>> /\ NoJob.call = "none"
      /\ \A b, D, V, H, f, C : JobAt(NoJob, b, D, V, H, f, C)
    BY NoJobFits DEF NoJob
<1>4. <<>> \in Seq(Probes) /\ <<>> \in Seq(Tasks) /\ <<>> \in Seq(TreeOids) /\ Len(<<>>) = 0
      /\ <<>> \o <<>> = <<>>
    OBVIOUS
<1>5. NoAnswer \in [call : {"none", "headers", "bytes"}, probes : Seq(Probes)] /\ NoAnswer.probes = <<>>
    BY <1>4 DEF NoAnswer
<1>6. walk \in Walks
    BY <1>2, <1>4 DEF Walks, NotWalking, Places
<1>7. Types
    <2>1. DOMAIN headers \subseteq Oids /\ DOMAIN stage = Actors
        BY <1>2
    <2>2. job \in [Actors -> Jobs]
        BY <1>2, <1>3
    <2>3. returned \in [Actors -> [call : {"none", "headers", "bytes"}, probes : Seq(Probes)]]
        BY <1>2, <1>5
    <2>4. posting \in [Readers -> Seq(Tasks)] /\ queue \in Seq(Tasks)
        BY <1>2, <1>4
    <2> QED
        BY <1>1, <1>2, <1>6, <2>1, <2>2, <2>3, <2>4 DEF Types, Found, Walks
<1>8. \A a \in Actors : job[a] = NoJob
    BY <1>2
<1>9. JobInv /\ BatchFresh
    BY <1>3, <1>8 DEF JobInv, BatchFresh
<1>10. Worker \in Actors /\ Warmer \in Actors /\ Readers \subseteq Actors
    BY DEF Actors
<1>11. CallsInv /\ WantInv
    BY <1>3, <1>8, <1>10 DEF CallsInv, WantInv, Found, DiskWanted
<1>12. FailuresHaveCauses /\ HeadersTrue
    BY <1>2 DEF FailuresHaveCauses, HeadersTrue, Errors
<1>13. FirstProbeHonest
    <2>1. \A a \in Actors : DOMAIN returned[a].probes = {}
        BY <1>2, <1>5
    <2> QED
        BY <2>1 DEF FirstProbeHonest
<1>14. PostingInv
    BY <1>2, <1>4 DEF PostingInv
<1>15. QueueInv
    <2>1. Len(queue) = 0 /\ Capacity \in Nat /\ \A r \in Readers : Len(posting[r]) = 0
        BY <1>2, <1>4, HydrateAssumption
    <2>2. HeadersCome
        BY <1>3, <1>8, <1>10 DEF HeadersCome
    <2>3. task.kind # "Blobs"
        BY <1>2 DEF NoTask
    <2> QED
        BY <2>1, <2>2, <2>3 DEF QueueInv, Found
<1>16. WalkInv
    <2>1. /\ walk.at = "start" /\ walk.visited = {} /\ walk.warmed = 0 /\ walk.errors = 0
          /\ walk.frontier = <<>> /\ walk.next = <<>>
        BY <1>2 DEF NotWalking
    <2>2. Ahead = <<>> /\ DOMAIN Ahead = {} /\ ToSet(Ahead) = {} /\ Len(Ahead) = 0
        BY <1>4, <2>1 DEF Ahead, ToSet
    <2>3. IsFiniteSet({}) /\ Cardinality({}) = 0
        BY FS_EmptySet
    <2>4. Cardinality(walk.visited) = walk.warmed + walk.errors + Len(Ahead)
        BY <2>1, <2>2, <2>3
    <2> QED
        BY <2>1, <2>2, <2>3, <2>4 DEF WalkInv
<1> QED
    BY <1>1, <1>7, <1>9, <1>11, <1>12, <1>13, <1>14, <1>15, <1>16 DEF StoreInv, Found

LEMMA InitStoreInv == Init => StoreInv
<1> SUFFICES ASSUME Init PROVE StoreInv
    OBVIOUS
<1>1. Found
    BY DEF Init, Found, SeenInv, DiskWanted, Cut
<1> QED
    BY <1>1, FreshInv DEF Init

LEMMA CrashInv ==
    ASSUME HydrateInv, StoreInv, Crash
    PROVE  StoreInv'
<1>1. faults' \in Nat /\ faults' > 0
    BY FaultGrows DEF Crash, StoreInv, Types
<1>2. faults' # 0
    BY <1>1
<1>3. Found'
    BY <1>1, <1>2 DEF Crash, StoreInv, Types, WantInv, Found, SeenInv, DiskWanted, NoExcuse
<1>4. Fresh'
    <2>1. key' \in [Actors -> Oids]
        BY HydrateAssumption DEF Crash
    <2>2. Single!Init'
        BY <2>1 DEF Crash, Single!Init
    <2> QED
        BY <2>2 DEF Crash, Fresh
<1>5. Fresh' /\ Found' => StoreInv'
    BY FreshInv, PTL
<1> QED
    BY <1>3, <1>4, <1>5

-----------------------------------------------------------------------------
(* Every step.                                                             *)

LEMMA StutterInv ==
    ASSUME HydrateInv, StoreInv, UNCHANGED vars
    PROVE  StoreInv'
<1>1. /\ UNCHANGED <<backend, cast, headers, job, returned, asked, reply, posting, walk>>
      /\ UNCHANGED <<disk, visible, faults, claimed>> /\ UNCHANGED flightVars /\ UNCHANGED stage
      /\ UNCHANGED <<queue, task, skipped, lost, wanted>>
    BY DEF vars, diskVars, readerVars, workerVars
<1>2. DiskGrown
    BY <1>1, DiskKept DEF StoreInv, StoreBasics
<1>3. DiskWanted'
    BY <1>1 DEF StoreInv, WantInv, DiskWanted
<1> QED
    BY <1>1, <1>2, <1>3, MoreIsFound

LEMMA RequestInv ==
    ASSUME HydrateInv, StoreInv, NEW r \in Readers, Request(r)
    PROVE  StoreInv'
<1>1. cast \in Casts
    BY DEF HydrateInv, ReadersAsk
<1>2. \A q \in cast.reads : q[1] \in {"blob", "tree", "header"} /\ q[2] \in Oids
    BY <1>1, HydrateAssumption
<1>3. \A dir \in cast.dirs : dir \in Seq(Blobs)
    BY <1>1, HydrateAssumption DEF Blobs
<1>4. ASSUME NEW q \in cast.reads, ReadHit(r, q[1], q[2]) \/ ReadMiss(r, q[1], q[2]) PROVE StoreInv'
    BY <1>2, <1>4, ReadHitInv, ReadMissInv
<1>5. ASSUME NEW dir \in cast.dirs, ReadDir(r, dir) PROVE StoreInv'
    BY <1>3, <1>5, ReadDirInv
<1> QED
    BY <1>4, <1>5 DEF Request

LEMMA NextStoreInv == HydrateInv /\ StoreInv /\ [Next]_vars => StoreInv'
<1> SUFFICES ASSUME HydrateInv, StoreInv, [Next]_vars PROVE StoreInv'
    OBVIOUS
<1>0. HydrateInv'
    BY NextInv
<1>1. CASE UNCHANGED vars
    BY <1>1, StutterInv
<1>2. ASSUME NEW a \in Actors, FetchStep(a) PROVE StoreInv'
    BY <1>0, <1>2, FetchStepSorts, InsideInv, AnswersOneInv, AnswersBatchInv, BulkReturnsInv
<1>3. ASSUME NEW r \in Readers, ReaderStep(r) \/ Request(r) PROVE StoreInv'
    BY <1>3, ReadFetchedInv, PostInv, RequestInv DEF ReaderStep
<1>4. CASE WorkerStep
    BY <1>4, RecvInv, WorkerRestsInv, HeadersChunkInv, BlobsChunkInv DEF WorkerStep
<1>5. CASE WarmStep
    BY <1>5, WarmStartInv, WarmReadInv, WarmFetchedInv, WarmLevelInv DEF WarmStep
<1>6. CASE CloseChannel
    BY <1>6, CloseChannelInv
<1>7. ASSUME NEW o \in Oids, Refresh(o) \/ Elsewhere(o) PROVE StoreInv'
    BY <1>7, RefreshInv, ElsewhereInv
<1>8. CASE Crash
    BY <1>8, CrashInv
<1> QED
    BY <1>1, <1>2, <1>3, <1>4, <1>5, <1>6, <1>7, <1>8 DEF Next

LEMMA SpecStoreInv == Spec => [](HydrateInv /\ StoreInv)
<1>1. Init => HydrateInv /\ StoreInv
    BY InitInv, InitStoreInv
<1>2. (HydrateInv /\ StoreInv) /\ [Next]_vars => (HydrateInv /\ StoreInv)'
    BY NextInv, NextStoreInv
<1> QED
    BY <1>1, <1>2, PTL DEF Spec

-----------------------------------------------------------------------------
(* The theorems.                                                           *)

(* A hydrating read fails only with a cause: over a fetcher that fetches,  *)
(* without a fault, a reader is not told an error about an object the      *)
(* remote has, whoever leads the flight it waits for; and a GVFS 404       *)
(* reaches leader and followers as Refused, which nothing else does.       *)
THEOREM FailuresAreCaused == Spec => []FailuresHaveCauses
<1>1. HydrateInv /\ StoreInv => FailuresHaveCauses
    BY DEF StoreInv
<1> QED
    BY <1>1, SpecStoreInv, PTL

(* The header cache holds only true headers: what GVFS sizes, a daemon's   *)
(* probes and the store itself publish, in any order, is what the objects  *)
(* are.                                                                    *)
THEOREM HeadersAreTrue == Spec => []HeadersTrue
<1>1. HydrateInv /\ StoreInv => HeadersTrue
    BY DEF StoreInv
<1> QED
    BY <1>1, SpecStoreInv, PTL

(* A probe of a bulk call that is not an error is true for the first place *)
(* of its object, however reorder_probes, merge_probes and the             *)
(* reassembly of HydratingObjectStore move it about; only a plain Present  *)
(* of an object the daemon skipped for another mount's batch is excused.   *)
THEOREM FirstProbesAreHonest == Spec => []FirstProbeHonest
<1>1. HydrateInv /\ StoreInv => FirstProbeHonest
    BY DEF StoreInv
<1> QED
    BY <1>1, SpecStoreInv, PTL

(* The prefetch channel keeps to its capacity and the worker to the cap,   *)
(* exactly: over GVFS no large blob that nobody read is on disk, and no    *)
(* small one is left out without a fault, a dropped Headers task or a      *)
(* batch of another mount that the daemon skipped it for.                  *)
THEOREM PrefetchKeepsToBounds == Spec => []PrefetchBounded
<1>1. HydrateInv /\ StoreInv => PrefetchBounded
    <2> SUFFICES ASSUME HydrateInv, StoreInv PROVE PrefetchBounded
        OBVIOUS
    <2>1. Len(queue) <= Capacity
        BY DEF StoreInv, QueueInv
    <2>2. backend = "gvfs" => \A o \in Oids :
              disk[o] # "absent" /\ Kind[o] = "blob" /\ Size[o] > Cap => o \in wanted
        BY DEF StoreInv, WantInv, Big
    <2>3. ASSUME backend # "noop", NEW o \in skipped \cap Upstream, Size[o] <= Cap, ~(faults > 0),
                 "Headers" \notin lost, o \notin claimed
          PROVE  FALSE
        <3>1. faults \in Nat /\ Size[o] \in Nat /\ Cap \in Nat
            BY HydrateAssumption DEF StoreInv, Types
        <3>2. NoExcuse
            BY <2>3, <3>1 DEF NoExcuse
        <3>3. Size[o] > Cap
            BY <2>3, <3>2 DEF StoreInv, QueueInv
        <3> QED
            BY <2>3, <3>1, <3>3
    <2> QED
        BY <2>1, <2>2, <2>3 DEF PrefetchBounded
<1> QED
    BY <1>1, SpecStoreInv, PTL

(* warm_tree_closure reads no tree twice, fails on none without a cause,   *)
(* and when it is done without a failure, it has read every tree it saw,   *)
(* and these are closed under subtrees and on disk.                        *)
THEOREM WarmingIsComplete == Spec => []WarmCoversClosure
<1>1. HydrateInv /\ StoreInv => WarmCoversClosure
    <2> SUFFICES ASSUME HydrateInv, StoreInv PROVE WarmCoversClosure
        OBVIOUS
    <2>1. /\ walk.warmed \in Nat /\ walk.errors \in Nat /\ walk.frontier \in Seq(TreeOids)
          /\ walk.next \in Seq(TreeOids)
        BY WalkSorts DEF StoreInv
    <2>2. Len(Ahead) \in Nat
        <3>1. Ahead \in Seq(TreeOids)
            BY <2>1, ConcatSet DEF Ahead
        <3> QED
            BY <3>1
    <2>3. PICK w \in Nat, e \in Nat, n \in Nat : w = walk.warmed /\ e = walk.errors /\ n = Len(Ahead)
        BY <2>1, <2>2
    <2>4. Cardinality(walk.visited) = w + e + n
        BY <2>3 DEF StoreInv, WalkInv
    <2>5. walk.warmed + walk.errors <= Cardinality(walk.visited)
        <3>1. w + e <= w + e + n
            OBVIOUS
        <3> QED
            BY <2>3, <2>4, <3>1, Zenon
    <2>6. ASSUME walk.at = "done", walk.errors = 0
          PROVE  /\ walk.warmed = Cardinality(walk.visited)
                 /\ \A t \in walk.visited : disk[t] = "whole" /\ ToSet(Subtrees[t]) \subseteq walk.visited
        <3>1. Ahead = <<>>
            BY <2>6 DEF StoreInv, WalkInv
        <3>2. n = 0 /\ e = 0 /\ ToSet(Ahead) = {}
            BY <2>3, <2>6, <3>1 DEF ToSet
        <3>3. Cardinality(walk.visited) = w
            BY <2>4, <3>2
        <3> QED
            BY <2>3, <2>6, <3>2, <3>3 DEF StoreInv, WalkInv
    <2> QED
        BY <2>5, <2>6 DEF StoreInv, WalkInv, WarmCoversClosure
<1> QED
    BY <1>1, SpecStoreInv, PTL
=============================================================================
