---------------------------- MODULE MountCliProofs ----------------------------
(***************************************************************************)
(* Theorems about MountCli and the providers it mounts, for any command    *)
(* line, repository and number of operations.                              *)
(*                                                                         *)
(* MountInv follows run_mount and run_mount_multi: mounts are built in the *)
(* order of the specs, one at a time, and none before the mountpoints were *)
(* compared, and every mount the kernel has is that of one session in the  *)
(* vector (SessionsOwn).  It is what makes the providers' tables last:     *)
(* SpacesApart holds because a table that answers were given from is never *)
(* built again.                                                            *)
(*                                                                         *)
(* Path resolution is proved against the reference listing AllPaths: both  *)
(* are loops, and what a loop computes is shown by least counterexample.   *)
(* The overlays that build_root_overlay makes are tidy (every node lies in *)
(* a directory), so that resolving in them finds what they contain.        *)
(*                                                                         *)
(* ReplyInv, ListingInv and HandleInv stand on that, one on the other's    *)
(* side: every answer given, every entry listed and every byte read is     *)
(* right for the commit that was shown then, and stays so.                 *)
(***************************************************************************)
EXTENDS MountCli, SequenceTheorems, WellFoundedInduction, TLAPS

\* The stages before the provider of the current spec exists.
Building == {"args", "source", "projection", "overlay", "index", "provider"}

\* The stages that are reached only when the arguments were accepted.
Accepted == Stages \ {"args", "failing", "exited", "killed"}

\* Providers are built in the order of the specs, at most one for each.
InOrder ==
    /\ plan \in Plans
    /\ stage \in Stages
    /\ turn \in DOMAIN Specs
    /\ \A m \in DOMAIN attrs : m \in DOMAIN Specs /\ m <= turn /\ (stage \in Building => m < turn)
    /\ stage = "mount" => turn \in DOMAIN attrs

\* Only a built provider is mounted.
MountsAreBuilt == mounted \subseteq DOMAIN attrs

\* The mountpoints were compared before anything was built.
ChecksPassed == stage \in Accepted \/ DOMAIN attrs # {} => Distinct

\* Every mount the kernel has is that of one session in the vector; while the mounts are made, the
\* vector has those of the specs so far, in their order.
OneEach(s) == \A i, j \in DOMAIN s : s[i] = s[j] => i = j
OfFirst(n) == Len(sessions) = n /\ \A i \in 1..n : sessions[i] = i
SessionsOwn ==
    /\ sessions \in Seq(DOMAIN Specs)
    /\ OneEach(sessions)
    /\ mounted = ToSet(sessions)
    /\ stage \in Building \cup {"mount"} => OfFirst(turn - 1)
    /\ stage \in {"handler", "parked"} => OfFirst(Len(Specs))
    /\ stage = "exited" => sessions = <<>>

MountInv ==
    /\ InOrder
    /\ MountsAreBuilt
    /\ ChecksPassed
    /\ SessionsOwn

(* The specs of a plan are a sequence, of one for `projgit mount`.         *)
LEMMA SpecsAreSequence ==
    ASSUME plan \in Plans
    PROVE  /\ Len(Specs) \in Nat \ {0}
           /\ DOMAIN Specs = 1..Len(Specs)
           /\ ~plan.multi => Len(Specs) = 1
    BY MountCliAssumption DEF Specs

(* A session is pushed at the end of the vector and dropped from its head. *)
LEMMA PushSession ==
    ASSUME NEW S, NEW s \in Seq(S), NEW x \in S, OneEach(s), x \notin ToSet(s)
    PROVE  /\ Append(s, x) \in Seq(S) /\ OneEach(Append(s, x))
           /\ ToSet(Append(s, x)) = ToSet(s) \cup {x}
           /\ Len(Append(s, x)) = Len(s) + 1 /\ Append(s, x)[Len(s) + 1] = x
           /\ \A i \in 1..Len(s) : Append(s, x)[i] = s[i]
<1> DEFINE t == Append(s, x)
<1>1. /\ t \in Seq(S) /\ DOMAIN t = 1..(Len(s) + 1) /\ DOMAIN s = 1..Len(s) /\ Len(s) \in Nat
      /\ Len(t) = Len(s) + 1 /\ t[Len(s) + 1] = x /\ \A i \in 1..Len(s) : t[i] = s[i]
    OBVIOUS
<1> HIDE DEF t
<1>2. \A i \in DOMAIN t : i = Len(s) + 1 \/ i \in DOMAIN s
    BY <1>1
<1>3. ToSet(t) = ToSet(s) \cup {x}
    BY <1>1, <1>2 DEF ToSet
<1>4. OneEach(t)
    BY <1>1, <1>2 DEF OneEach, ToSet
<1> QED
    BY <1>1, <1>3, <1>4 DEF t

LEMMA DropFirst ==
    ASSUME NEW S, NEW s \in Seq(S), OneEach(s), s # <<>>
    PROVE  Tail(s) \in Seq(S) /\ OneEach(Tail(s)) /\ ToSet(Tail(s)) = ToSet(s) \ {Head(s)}
<1> DEFINE t == Tail(s)
<1>1. /\ t \in Seq(S) /\ DOMAIN t = 1..(Len(s) - 1) /\ DOMAIN s = 1..Len(s) /\ Len(s) \in Nat \ {0}
      /\ \A i \in DOMAIN t : t[i] = s[i + 1]
      /\ Head(s) = s[1]
    OBVIOUS
<1> HIDE DEF t
<1>2. \A i \in DOMAIN t : i + 1 \in DOMAIN s /\ i + 1 # 1
    BY <1>1
<1>3. \A i \in DOMAIN s : i # 1 => i - 1 \in DOMAIN t /\ t[i - 1] = s[i]
    BY <1>1
<1>4. OneEach(t)
    <2> SUFFICES ASSUME NEW i \in DOMAIN t, NEW j \in DOMAIN t, t[i] = t[j] PROVE i = j
        BY DEF OneEach
    <2>1. i + 1 = j + 1
        BY <1>1, <1>2 DEF OneEach
    <2> QED
        BY <1>1, <2>1
<1>5. 1 \in DOMAIN s
    BY <1>1
<1>6. ASSUME NEW y \in ToSet(t) PROVE y \in ToSet(s) /\ y # Head(s)
    <2>1. PICK i \in DOMAIN t : y = t[i]
        BY DEF ToSet
    <2>2. i + 1 \in DOMAIN s /\ i + 1 # 1 /\ y = s[i + 1]
        BY <1>1, <1>2, <2>1
    <2> QED
        BY <1>1, <1>5, <2>2 DEF ToSet, OneEach
<1>7. ASSUME NEW y \in ToSet(s), y # Head(s) PROVE y \in ToSet(t)
    <2>1. PICK i \in DOMAIN s : y = s[i]
        BY DEF ToSet
    <2>2. i # 1
        BY <1>1, <1>7, <2>1
    <2> QED
        BY <1>3, <2>1, <2>2 DEF ToSet
<1>8. ToSet(t) = ToSet(s) \ {Head(s)}
    BY <1>6, <1>7
<1> QED
    BY <1>1, <1>4, <1>8 DEF t

(* Nothing is built before the arguments are checked.                      *)
LEMMA InitInv == Init => MountInv
<1> SUFFICES ASSUME Init PROVE MountInv
    OBVIOUS
<1>1. /\ plan \in Plans /\ DOMAIN attrs = {} /\ mounted = {} /\ stage = "args" /\ turn = 1
      /\ sessions = <<>>
    BY DEF Init
<1>2. 1 \in DOMAIN Specs
    BY <1>1, SpecsAreSequence
<1>3. SessionsOwn
    BY <1>1 DEF SessionsOwn, OneEach, OfFirst, ToSet
<1> QED
    BY <1>1, <1>2, <1>3
    DEF MountInv, InOrder, MountsAreBuilt, ChecksPassed, Stages, Accepted

(* A step that changes neither the stage nor a mount, and no provider but  *)
(* in what its table holds, preserves the invariant.                       *)
LEMMA Stays ==
    ASSUME MountInv, UNCHANGED <<plan, stage, turn, mounted, sessions>>, DOMAIN attrs' = DOMAIN attrs
    PROVE  MountInv'
<1>1. SessionsOwn'
    BY DEF MountInv, SessionsOwn, OneEach, OfFirst, Specs
<1> QED
    BY <1>1 DEF MountInv, InOrder, MountsAreBuilt, ChecksPassed, Specs, Distinct

(* Nor does one that only goes on to a later stage.                        *)
LEMMA GoesOn ==
    ASSUME MountInv, UNCHANGED <<plan, turn, mounted, attrs, sessions>>,
           stage' \in Stages \ {"mount", "handler"},
           stage' \in Building => stage \in Building,
           stage' = "parked" => stage = "handler",
           stage' \in Accepted => Distinct,
           stage' = "exited" => sessions = <<>>
    PROVE  MountInv'
<1>1. SessionsOwn'
    <2>1. stage' \in Building \cup {"mount"} => OfFirst(turn - 1)
        BY DEF MountInv, SessionsOwn
    <2>2. stage' \in {"handler", "parked"} => OfFirst(Len(Specs))
        BY DEF MountInv, SessionsOwn
    <2> QED
        BY <2>1, <2>2 DEF MountInv, SessionsOwn, OneEach, OfFirst, Specs
<1> QED
    BY <1>1 DEF MountInv, InOrder, MountsAreBuilt, ChecksPassed, Specs, Distinct

(* The steps of the main thread.                                           *)
LEMMA MainInv == ASSUME MountInv, Main PROVE MountInv'
<1> USE DEF Goes, provider, client, store, Stages, Building, Accepted
<1>0. stage \in Accepted => Distinct
    BY DEF MountInv, ChecksPassed
<1>1. CASE CheckArgs
    <2>1. plan.multi => Distinct \/ stage' = "failing"
        BY <1>1 DEF CheckArgs
    <2>2. ~plan.multi => Distinct
        BY SpecsAreSequence DEF MountInv, InOrder, Distinct
    <2> QED
        BY <1>1, <2>1, <2>2, GoesOn DEF CheckArgs
<1>2. CASE OpenSource
    BY <1>0, <1>2, GoesOn DEF OpenSource
<1>3. CASE BuildProjection
    BY <1>0, <1>3, GoesOn DEF BuildProjection
<1>4. CASE SkipOverlay
    BY <1>0, <1>4, GoesOn DEF SkipOverlay
<1>5. CASE PinCommit
    BY <1>0, <1>5, GoesOn DEF PinCommit
<1>6. CASE BuildOverlay
    BY <1>0, <1>6, GoesOn DEF BuildOverlay
<1>7. CASE NewProvider
    <2>0. CASE UNCHANGED <<stamp, attrs>> /\ stage' = "failing"
        BY <1>7, <2>0, GoesOn DEF NewProvider
    <2>1. CASE attrs' = Extend(attrs, turn, [i \in {RootInode} |-> RootSnapshot]) /\ stage' = "mount"
        <3>1. /\ stage = "provider" /\ stage' = "mount"
              /\ UNCHANGED <<plan, turn, mounted, sessions>>
              /\ DOMAIN attrs' = DOMAIN attrs \cup {turn}
            BY <1>7, <2>1 DEF NewProvider, Extend
        <3>2. InOrder'
            BY <3>1, SpecsAreSequence DEF MountInv, InOrder, Specs
        <3>3. SessionsOwn'
            BY <3>1 DEF MountInv, SessionsOwn, OneEach, OfFirst, Specs
        <3> QED
            BY <1>0, <3>1, <3>2, <3>3 DEF MountInv, MountsAreBuilt, ChecksPassed, Distinct, Specs
    <2> QED
        BY <1>7, <2>0, <2>1 DEF NewProvider
<1>8. CASE MountBackground
    <2>1. /\ stage = "mount" /\ stage' \in {"projection", "handler"}
          /\ mounted' = mounted \cup {turn} /\ sessions' = Append(sessions, turn) /\ UNCHANGED <<plan, attrs>>
          /\ \/ turn < Len(Specs) /\ turn' = turn + 1 /\ stage' = "projection"
             \/ ~(turn < Len(Specs)) /\ stage' = "handler" /\ turn' = turn
        BY <1>8 DEF MountBackground
    <2>2. InOrder'
        BY <2>1, SpecsAreSequence DEF MountInv, InOrder, Specs
    <2>3. /\ turn \in DOMAIN Specs /\ DOMAIN Specs = 1..Len(Specs) /\ Len(Specs) \in Nat \ {0}
          /\ sessions \in Seq(DOMAIN Specs) /\ OneEach(sessions) /\ mounted = ToSet(sessions)
          /\ OfFirst(turn - 1)
        BY <2>1, SpecsAreSequence DEF MountInv, InOrder, SessionsOwn
    <2>4. turn \notin ToSet(sessions)
        <3>1. DOMAIN sessions = 1..(turn - 1)
            BY <2>3 DEF OfFirst
        <3> QED
            BY <2>3, <3>1 DEF OfFirst, ToSet
    <2>5. /\ sessions' \in Seq(DOMAIN Specs) /\ OneEach(sessions')
          /\ ToSet(sessions') = ToSet(sessions) \cup {turn}
          /\ Len(sessions') = Len(sessions) + 1 /\ sessions'[Len(sessions) + 1] = turn
          /\ \A i \in 1..Len(sessions) : sessions'[i] = sessions[i]
        BY <2>1, <2>3, <2>4, PushSession
    <2>6. Len(sessions') = turn /\ \A i \in 1..turn : sessions'[i] = i
        BY <2>3, <2>5 DEF OfFirst
    <2>7. stage' = "projection" => OfFirst(turn - 1)'
        BY <2>1, <2>3, <2>6 DEF OfFirst
    <2>8. stage' = "handler" => OfFirst(Len(Specs))'
        BY <2>1, <2>3, <2>6 DEF OfFirst, Specs
    <2>9. OneEach(sessions)'
        BY <2>5 DEF OneEach
    <2>10. SessionsOwn'
        BY <2>1, <2>3, <2>5, <2>7, <2>8, <2>9 DEF SessionsOwn, Specs
    <2> QED
        BY <1>0, <2>1, <2>2, <2>10
        DEF MountInv, InOrder, MountsAreBuilt, ChecksPassed, Distinct, Specs
<1>9. CASE InstallHandler
    BY <1>0, <1>9, GoesOn DEF InstallHandler
<1>10. CASE Unpark
    BY <1>0, <1>10, GoesOn DEF Unpark
<1>11. CASE Exit
    BY <1>11, GoesOn DEF Exit
<1>12. CASE DropSession
    <2>1. /\ UNCHANGED <<plan, stage, turn, attrs>> /\ mounted' = mounted \ {Head(sessions)}
          /\ sessions # <<>> /\ sessions' = Tail(sessions) /\ stage \in {"unmounting", "failing"}
        BY <1>12 DEF DropSession, Dropping
    <2>2. /\ sessions' \in Seq(DOMAIN Specs) /\ OneEach(sessions')
          /\ ToSet(sessions') = ToSet(sessions) \ {Head(sessions)}
        BY <2>1, DropFirst DEF MountInv, SessionsOwn
    <2>3. OneEach(sessions)'
        BY <2>2 DEF OneEach
    <2>4. SessionsOwn'
        BY <2>1, <2>2, <2>3 DEF MountInv, SessionsOwn, Specs
    <2> QED
        BY <2>1, <2>4 DEF MountInv, InOrder, MountsAreBuilt, ChecksPassed, Distinct, Specs
<1> QED
    BY <1>1, <1>2, <1>3, <1>4, <1>5, <1>6, <1>7, <1>8, <1>9, <1>10, <1>11, <1>12 DEF Main

(* The client changes no mount; a lookup adds to one table.                *)
LEMMA ClientKeeps ==
    ASSUME Client
    PROVE  UNCHANGED <<plan, stage, turn, sessions, mounted>> /\ DOMAIN attrs' = DOMAIN attrs
<1> USE DEF provider, client, store, cli
<1>1. UNCHANGED <<plan, stage, turn, sessions>>
    BY DEF Client
<1>2. ASSUME NEW m, NEW n, NEW p, LookupFails(m, p, n)
      PROVE  UNCHANGED mounted /\ DOMAIN attrs' = DOMAIN attrs
    BY <1>2 DEF LookupFails
<1>3. ASSUME NEW m, NEW n, NEW p, LookupAnswers(m, p, n)
      PROVE  UNCHANGED mounted /\ DOMAIN attrs' = DOMAIN attrs
    BY <1>3 DEF LookupAnswers, Publish
<1>4. ASSUME NEW r, Open(r) PROVE UNCHANGED <<mounted, attrs>>
    BY <1>4 DEF Open
<1>5. ASSUME NEW k, Read(k) PROVE UNCHANGED <<mounted, attrs>>
    BY <1>5 DEF Read
<1>6. ASSUME NEW m, NEW i, OpenDir(m, i) PROVE UNCHANGED <<mounted, attrs>>
    BY <1>6 DEF OpenDir
<1>7. ReadLink \/ ReadFails \/ ReadDirReplies \/ ReadDirFails => UNCHANGED <<mounted, attrs>>
    BY DEF ReadLink, ReadFails, ReadDirReplies, ReadDirFails
<1>8. \/ \E m, n, p : LookupFails(m, p, n) \/ LookupAnswers(m, p, n)
      \/ \E r : Open(r)
      \/ \E k : Read(k)
      \/ \E m, i : OpenDir(m, i)
      \/ ReadLink \/ ReadFails \/ ReadDirReplies \/ ReadDirFails
    BY DEF Client
<1>9. UNCHANGED mounted /\ DOMAIN attrs' = DOMAIN attrs
    BY <1>2, <1>3, <1>4, <1>5, <1>6, <1>7, <1>8
<1> QED
    BY <1>1, <1>9

(* Every step preserves the invariant.                                     *)
LEMMA NextInv == MountInv /\ [Next]_vars => MountInv'
<1> SUFFICES ASSUME MountInv, [Next]_vars PROVE MountInv'
    OBVIOUS
<1> USE DEF provider, client, store, cli
<1>1. CASE UNCHANGED vars
    BY <1>1, Stays DEF vars
<1>2. CASE Main
    BY <1>2, MainInv
<1>3. CASE Client
    BY <1>3, ClientKeeps, Stays
<1>4. CASE StepFails
    BY <1>4, GoesOn DEF StepFails, Stages, Building, Accepted
<1>5. CASE CtrlC
    BY <1>5, Stays DEF CtrlC
<1>6. CASE Killed
    BY <1>6, GoesOn DEF Killed, Stages, Building, Accepted
<1>7. ASSUME UNCHANGED cli, NEW r, NEW c, MoveRef(r, c) PROVE MountInv'
    BY <1>7, Stays DEF MoveRef
<1>8. ASSUME UNCHANGED cli, NEW o, Arrives(o) PROVE MountInv'
    BY <1>8, Stays DEF Arrives
<1>9. ASSUME UNCHANGED cli, NEW r, DeleteRef(r) PROVE MountInv'
    BY <1>9, Stays DEF DeleteRef
<1> QED
    BY <1>1, <1>2, <1>3, <1>4, <1>5, <1>6, <1>7, <1>8, <1>9 DEF Next, Environment

LEMMA SpecInv == Spec => []MountInv
    BY InitInv, NextInv, PTL DEF Spec

-----------------------------------------------------------------------------
(* A process that ends on its own leaves no mount, wherever a step failed  *)
(* and however many mounts were up by then, and one that waits for Ctrl-C  *)
(* has every mount it was asked for: the mounts the kernel has are, at any *)
(* moment, those of the sessions still in the vector (SessionsOwn), and    *)
(* run_mount_multi returns when the vector was dropped.                    *)
THEOREM NoMountLeft == Spec => []LeavesNoMount
<1>1. MountInv => LeavesNoMount
    <2> SUFFICES ASSUME MountInv PROVE LeavesNoMount
        OBVIOUS
    <2>1. DOMAIN Specs = 1..Len(Specs) /\ Len(Specs) \in Nat
        BY SpecsAreSequence DEF MountInv, InOrder
    <2>2. stage = "exited" => mounted = {}
        BY DEF MountInv, SessionsOwn, ToSet
    <2>3. ASSUME stage = "parked" PROVE mounted = DOMAIN Specs
        <3>1. OfFirst(Len(Specs)) /\ mounted = ToSet(sessions) /\ sessions \in Seq(DOMAIN Specs)
            BY <2>3 DEF MountInv, SessionsOwn
        <3>2. DOMAIN sessions = 1..Len(Specs)
            BY <3>1 DEF OfFirst
        <3> QED
            BY <2>1, <3>1, <3>2 DEF OfFirst, ToSet
    <2> QED
        BY <2>2, <2>3 DEF LeavesNoMount
<1> QED
    BY <1>1, SpecInv, PTL

(* No two mounts of one process are on one directory.                      *)
THEOREM DirectoriesDistinct == Spec => []OneMountPerDirectory
<1>1. MountInv => OneMountPerDirectory
    BY DEF MountInv, InOrder, MountsAreBuilt, ChecksPassed, OneMountPerDirectory, Distinct
<1> QED
    BY <1>1, SpecInv, PTL

-----------------------------------------------------------------------------
(* The inode spaces.  A hash is a number; nothing else is asked of it.     *)

HashIsNumber == \A k : Hash(k) \in Nat

(* InodeAllocator::reserved steps over 0 and the root and clears the high  *)
(* bit.                                                                    *)
LEMMA ReservedRange == ASSUME NEW h \in Nat PROVE Reserved(h) \in 2..(HighBit - 1)
<1>1. h % HighBit \in 0..(HighBit - 1)
    BY ProjectionFsAssumption
<1> QED
    BY <1>1, ProjectionFsAssumption DEF Reserved, RootInode

(* No entry has the inode of the root, and only synthetic ones the high    *)
(* bit.                                                                    *)
LEMMA InodeSpace ==
    ASSUME HashIsNumber, NEW m, NEW r, NEW path
    PROVE  /\ InodeFor(m, r, path) # RootInode
           /\ InodeFor(m, r, path) >= HighBit <=> r.space # "Tree"
<1>1. CASE r.space = "Tree"
    <2>1. ForTreeEntry(m, r.oid, path) \in 2..(HighBit - 1)
        BY ReservedRange DEF ForTreeEntry, HashIsNumber
    <2> QED
        BY <1>1, <2>1, ProjectionFsAssumption DEF InodeFor, RootInode
<1>2. CASE r.space # "Tree"
    <2>1. Reserved(Hash(<<"synth", m, path>>)) \in Nat
        BY ReservedRange, ProjectionFsAssumption DEF HashIsNumber
    <2>2. Reserved(Hash(<<"synth", m, path>>)) % HighBit \in 0..(HighBit - 1)
        BY <2>1, ProjectionFsAssumption
    <2> QED
        BY <1>2, <2>2, ProjectionFsAssumption DEF InodeFor, ForSynthetic, RootInode
<1> QED
    BY <1>1, <1>2

(* The kind of a snapshot says on which side of the overlay its entry is.  *)
LEMMA SnapshotSpace ==
    ASSUME NEW r, NEW path
    PROVE  /\ SnapshotFor(r, path).is \in SnapshotKinds \ {"Root"}
           /\ SnapshotFor(r, path).is \in SyntheticKinds <=> r.space # "Tree"
    BY DEF SnapshotFor, SnapshotKinds, SyntheticKinds

(* An attribute carries the inode it was made for.                         *)
LEMMA AttrOfInode ==
    ASSUME NEW m, NEW i, NEW s, s.is \in SnapshotKinds
    PROVE  AttrOf(m, i, s).inode = i
    BY DEF AttrOf, DirAttr, Attr, SnapshotKinds

(* A lookup adds one inode to one table, of the space its snapshot is of.  *)
LEMMA LookupSpaces ==
    ASSUME HashIsNumber, MountInv, SpacesApart, NEW m, NEW p, NEW n, LookupAnswers(m, p, n)
    PROVE  SpacesApart'
<1> DEFINE r == Resolved(m, p, n)
           path == JoinPath(ParentPath(m, p).path, n)
           i == InodeFor(m, r, path)
           snap == SnapshotFor(r, path)
           reply == Reply(m, p, n, AttrOf(m, i, snap))
<1>1. m \in DOMAIN attrs
    BY DEF LookupAnswers, MountInv, MountsAreBuilt
<1>2. Publish(m, i, snap) /\ replies' = replies \cup {reply}
    BY DEF LookupAnswers
<1>3. /\ snap.is \in SnapshotKinds \ {"Root"}
      /\ i # RootInode
      /\ snap.is \in SyntheticKinds <=> i >= HighBit
    BY InodeSpace, SnapshotSpace
<1>4. reply.mount = m /\ reply.answer.inode = i
    BY <1>3, AttrOfInode DEF Reply
<1> HIDE DEF r, path, i, snap, reply
<1>5. /\ DOMAIN attrs' = DOMAIN attrs
      /\ DOMAIN attrs'[m] = DOMAIN attrs[m] \cup {i}
      /\ \A j \in DOMAIN attrs'[m] :
            attrs'[m][j] = IF j \in DOMAIN attrs[m] THEN attrs[m][j] ELSE snap
      /\ \A k \in DOMAIN attrs : k # m => attrs'[k] = attrs[k]
    BY <1>1, <1>2 DEF Publish
<1>6. ASSUME NEW k \in DOMAIN attrs', NEW j \in DOMAIN attrs'[k]
      PROVE  /\ attrs'[k][j].is = "Root" <=> j = RootInode
             /\ attrs'[k][j].is \in SyntheticKinds <=> j >= HighBit
    <2>1. CASE k \in DOMAIN attrs /\ j \in DOMAIN attrs[k]
        <3>1. attrs'[k][j] = attrs[k][j]
            BY <1>5, <2>1
        <3> QED
            BY <2>1, <3>1 DEF SpacesApart
    <2>2. CASE ~(k \in DOMAIN attrs /\ j \in DOMAIN attrs[k])
        <3>1. k = m /\ j = i /\ attrs'[k][j] = snap
            BY <1>5, <1>6, <2>2
        <3> QED
            BY <1>3, <3>1
    <2> QED
        BY <2>1, <2>2
<1>7. ASSUME NEW q \in replies', q.answer.ok
      PROVE  /\ q.mount \in DOMAIN attrs'
             /\ q.answer.inode \in DOMAIN attrs'[q.mount] \ {RootInode}
    <2>1. CASE q = reply
        BY <1>1, <1>3, <1>4, <1>5, <2>1
    <2>2. CASE q \in replies
        BY <1>5, <1>7, <2>2 DEF SpacesApart
    <2> QED
        BY <1>2, <1>7, <2>1, <2>2
<1> QED
    BY <1>6, <1>7 DEF SpacesApart

(* A step that leaves the tables alone and adds no answer that is ok.      *)
LEMMA SpacesStay ==
    ASSUME SpacesApart, UNCHANGED attrs, \A q \in replies' : q \in replies \/ ~q.answer.ok
    PROVE  SpacesApart'
    BY DEF SpacesApart

LEMMA InitSpaces == Init => SpacesApart
    BY DEF Init, SpacesApart

(* Every step keeps the spaces apart.  A new provider's table replaces     *)
(* none that an answer was given from, because mounts are built in order.  *)
LEMMA NextSpaces ==
    ASSUME HashIsNumber
    PROVE  MountInv /\ SpacesApart /\ [Next]_vars => SpacesApart'
<1> SUFFICES ASSUME MountInv, SpacesApart, [Next]_vars PROVE SpacesApart'
    OBVIOUS
<1> USE DEF provider, client, store, cli, Forgets
<1>1. CASE UNCHANGED vars
    BY <1>1, SpacesStay DEF vars
<1>2. CASE NewProvider
    <2>0. CASE UNCHANGED <<stamp, attrs>>
        BY <1>2, <2>0, SpacesStay DEF NewProvider
    <2> SUFFICES ASSUME attrs' = Extend(attrs, turn, [i \in {RootInode} |-> RootSnapshot])
                 PROVE  SpacesApart'
        BY <1>2, <2>0 DEF NewProvider
    <2>1. /\ attrs' = Extend(attrs, turn, [i \in {RootInode} |-> RootSnapshot])
          /\ stage = "provider" /\ UNCHANGED replies
        BY <1>2 DEF NewProvider, Goes
    <2>2. turn \notin DOMAIN attrs
        BY <2>1, SpecsAreSequence DEF MountInv, InOrder, Building
    <2>3. /\ DOMAIN attrs' = DOMAIN attrs \cup {turn}
          /\ attrs'[turn] = [i \in {RootInode} |-> RootSnapshot]
          /\ \A k \in DOMAIN attrs : attrs'[k] = attrs[k]
        BY <2>1, <2>2 DEF Extend
    <2>4. RootSnapshot.is = "Root" /\ RootSnapshot.is \notin SyntheticKinds /\ ~(RootInode >= HighBit)
        BY ProjectionFsAssumption DEF RootSnapshot, SyntheticKinds, RootInode
    <2>5. ASSUME NEW k \in DOMAIN attrs', NEW j \in DOMAIN attrs'[k]
          PROVE  /\ attrs'[k][j].is = "Root" <=> j = RootInode
                 /\ attrs'[k][j].is \in SyntheticKinds <=> j >= HighBit
        <3>1. CASE k \in DOMAIN attrs
            BY <2>3, <2>5, <3>1 DEF SpacesApart
        <3>2. CASE k = turn
            <4>1. j = RootInode /\ attrs'[k][j] = RootSnapshot
                BY <2>3, <2>5, <3>2
            <4> QED
                BY <2>4, <4>1
        <3> QED
            BY <2>3, <3>1, <3>2
    <2> QED
        BY <2>1, <2>3, <2>5 DEF SpacesApart
<1>3. CASE \/ CheckArgs \/ OpenSource \/ BuildProjection \/ SkipOverlay \/ PinCommit \/ BuildOverlay
           \/ MountBackground \/ InstallHandler \/ Unpark \/ Exit
    BY <1>3, SpacesStay
    DEF CheckArgs, OpenSource, BuildProjection, SkipOverlay, PinCommit, BuildOverlay,
        MountBackground, InstallHandler, Unpark, Exit
<1>4. CASE DropSession
    BY <1>4, SpacesStay DEF DropSession
<1>5. ASSUME NEW m, NEW n, NEW p, LookupFails(m, p, n) PROVE SpacesApart'
    <2>1. UNCHANGED attrs /\ \E e : replies' = replies \cup {Reply(m, p, n, Errno(e))}
        BY <1>5 DEF LookupFails
    <2>2. \A e : ~Reply(m, p, n, Errno(e)).answer.ok
        BY DEF Reply, Errno
    <2> QED
        BY <2>1, <2>2, SpacesStay
<1>6. ASSUME NEW m, NEW n, NEW p, LookupAnswers(m, p, n) PROVE SpacesApart'
    BY <1>6, LookupSpaces
<1>7. ASSUME NEW r, Open(r) PROVE SpacesApart'
    BY <1>7, SpacesStay DEF Open
<1>8. ASSUME NEW k, Read(k) PROVE SpacesApart'
    BY <1>8, SpacesStay DEF Read
<1>9. ASSUME NEW m, NEW i, OpenDir(m, i) PROVE SpacesApart'
    BY <1>9, SpacesStay DEF OpenDir
<1>10. ReadLink \/ ReadFails \/ ReadDirReplies \/ ReadDirFails => SpacesApart'
    BY SpacesStay DEF ReadLink, ReadFails, ReadDirReplies, ReadDirFails
<1>11. StepFails \/ CtrlC \/ Killed => SpacesApart'
    BY SpacesStay DEF StepFails, CtrlC, Killed
<1>12. ASSUME NEW r, NEW c, MoveRef(r, c) \/ DeleteRef(r) PROVE SpacesApart'
    BY <1>12, SpacesStay DEF MoveRef, DeleteRef
<1>13. ASSUME NEW o, Arrives(o) PROVE SpacesApart'
    BY <1>13, SpacesStay DEF Arrives
<1>14. CASE Main
    BY <1>2, <1>3, <1>4, <1>14 DEF Main
<1>15. CASE Client
    <2>1. \/ \E m, n, p : LookupFails(m, p, n) \/ LookupAnswers(m, p, n)
          \/ \E r : Open(r)
          \/ \E k : Read(k)
          \/ \E m, i : OpenDir(m, i)
          \/ ReadLink \/ ReadFails \/ ReadDirReplies \/ ReadDirFails
        BY <1>15 DEF Client
    <2> QED
        BY <1>5, <1>6, <1>7, <1>8, <1>9, <1>10, <2>1
<1>16. CASE Environment
    BY <1>11, <1>12, <1>13, <1>16 DEF Environment
<1> QED
    BY <1>1, <1>14, <1>15, <1>16 DEF Next

(* Whatever the hash gives: no entry takes the root's inode, synthetic and *)
(* tree entries never share one, and every inode a lookup answered can be  *)
(* resolved again for as long as the mount is up.                          *)
THEOREM InodeSpacesApart ==
    ASSUME HashIsNumber
    PROVE  Spec => []SpacesApart
    BY InitInv, NextInv, InitSpaces, NextSpaces, PTL DEF Spec

-----------------------------------------------------------------------------
(* The loops of path resolution.  A walk begins at place b and goes on     *)
(* from the place before; that it exists, and is unique, is shown by least *)
(* counterexample.                                                         *)

(* A set of numbers that is not empty has a least member.                  *)
LEMMA LeastOf ==
    ASSUME NEW T \in SUBSET Nat, T # {}
    PROVE  \E x \in T : \A y \in T : x <= y
<1> DEFINE R == OpToRel(<, Nat)
<1>1. IsWellFoundedOn(R, Nat)
    BY NatLessThanWellFounded
<1>2. \A x, y \in Nat : y < x => <<y, x>> \in R
    BY DEF OpToRel
<1> HIDE DEF R
<1>3. PICK x \in T : \A y \in T : ~(<<y, x>> \in R)
    BY <1>1, WFMin
<1>4. x \in Nat
    OBVIOUS
<1>5. ASSUME NEW y \in T PROVE x <= y
    <2>1. y \in Nat /\ ~(<<y, x>> \in R)
        BY <1>3
    <2>2. ~(y < x)
        BY <1>2, <1>4, <2>1
    <2> QED
        BY <1>4, <2>1, <2>2
<1> QED
    BY <1>5

\* One turn of the loop of NavLookup, and of the loop of ResolveInSynthetic at the path q.
NavAfter(up, n, hv) ==
    CASE ~up.ok -> up
      [] up.ok /\ ~Descends(up.mode) -> Fails("NotADirectory")
      [] up.ok /\ Descends(up.mode) /\ up.oid \notin hv -> Fails("Store")
      [] OTHER -> IF Listed(up.oid, n) THEN IsTree(EntryAt(up.oid, n)) ELSE Fails("NotFound")
SynAfter(ov, up, q) ==
    CASE ~up.ok -> up
      [] up.ok /\ up.mode # "Directory" -> Fails("NotADirectory")
      [] OTHER -> IF q \in DOMAIN ov THEN IsSynthetic(ov[q]) ELSE Fails("NotFound")

\* What lies one level deeper than the paths in S.
Below(S) == UNION {{<<Append(x[1], e.name), e>> : e \in ToSet(Trees[x[2].oid])} :
                   x \in {y \in S : y[2].mode = "Directory"}}

\* Where a walk begins, and how it goes on to place i: a walk is named by its kind and arguments.
First(kind, a) ==
    CASE kind = "nav" -> IsTree(Entry("", "Directory", a[1]))
      [] kind = "syn" -> IsSynthetic(a[1][<<a[2][1]>>])
      [] kind = "paths" -> {<<<<>>, Entry("", "Directory", a[1])>>}
      [] kind = "only" -> <<>>
After(kind, a, up, i) ==
    CASE kind = "nav" -> NavAfter(up, a[2][i], a[3])
      [] kind = "syn" -> SynAfter(a[1], up, SubSeq(a[2], 1, i))
      [] kind = "paths" -> up \cup Below(up)
      [] kind = "only" -> IF a[1][i] \in a[2] THEN Append(up, a[1][i]) ELSE up
Turn(kind, a, f, b, i) == IF i = b THEN First(kind, a) ELSE After(kind, a, f[i - 1], i)
IsWalk(kind, a, b, m, f) == f = [i \in b..m |-> Turn(kind, a, f, b, i)]

(* A loop of any length computes something.                                *)
LEMMA WalksExist ==
    ASSUME NEW kind, NEW a, NEW b \in Nat, NEW m \in Nat
    PROVE  \E f : IsWalk(kind, a, b, m, f)
<1> DEFINE T == {n \in Nat : ~\E f : IsWalk(kind, a, b, n, f)}
<1> SUFFICES ASSUME T # {} PROVE FALSE
    OBVIOUS
<1>1. PICK x \in T : \A y \in T : x <= y
    BY LeastOf
<1>2. x \in Nat /\ ~\E f : IsWalk(kind, a, b, x, f)
    OBVIOUS
<1>3. CASE x <= b
    <2> DEFINE f == [i \in b..x |-> First(kind, a)]
    <2>1. \A i \in b..x : i = b
        BY <1>2, <1>3
    <2>2. f = [i \in b..x |-> Turn(kind, a, f, b, i)]
        BY <2>1 DEF Turn
    <2> QED
        BY <1>2, <2>2 DEF IsWalk
<1>4. CASE ~(x <= b)
    <2> DEFINE y == x - 1
    <2>1. y \in Nat /\ y \notin T
        <3>1. x - 1 \in Nat /\ ~(x <= x - 1)
            BY <1>2, <1>4
        <3> QED
            BY <1>1, <3>1
    <2>2. PICK f : IsWalk(kind, a, b, y, f)
        BY <2>1
    <2> DEFINE g == [i \in b..x |-> IF i = x THEN Turn(kind, a, f, b, x) ELSE f[i]]
    <2>3. \A i \in b..x : i # x => i \in b..y
        BY <1>2
    <2>4. \A i \in b..x : i # b => i - 1 \in b..x /\ i - 1 # x
        BY <1>2
    <2>5. ASSUME NEW i \in b..x PROVE g[i] = Turn(kind, a, g, b, i)
        <3>1. i # b => g[i - 1] = f[i - 1]
            BY <2>4
        <3>2. Turn(kind, a, g, b, i) = Turn(kind, a, f, b, i)
            BY <3>1 DEF Turn
        <3>3. i # x => f[i] = Turn(kind, a, f, b, i)
            BY <2>2, <2>3 DEF IsWalk
        <3> QED
            BY <3>2, <3>3
    <2>6. g = [i \in b..x |-> Turn(kind, a, g, b, i)]
        BY <2>5
    <2> QED
        BY <1>2, <2>6 DEF IsWalk
<1> QED
    BY <1>2, <1>3, <1>4

(* Two walks that begin alike and take the same turns up to m agree at m.  *)
LEMMA WalksAgree ==
    ASSUME NEW kind, NEW a, NEW c, NEW b \in Nat, NEW m \in Nat, NEW k \in Nat, b <= m, m <= k,
           NEW f, IsWalk(kind, a, b, m, f), NEW g, IsWalk(kind, c, b, k, g),
           First(kind, a) = First(kind, c),
           \A i \in b..m : i # b => \A up : After(kind, a, up, i) = After(kind, c, up, i)
    PROVE  \A i \in b..m : f[i] = g[i]
<1> DEFINE T == {i \in b..m : f[i] # g[i]}
<1> SUFFICES ASSUME T # {} PROVE FALSE
    OBVIOUS
<1>1. T \in SUBSET Nat
    OBVIOUS
<1>2. PICK x \in T : \A y \in T : x <= y
    BY <1>1, LeastOf
<1>3. x \in b..m /\ x \in b..k /\ x \in Nat /\ f[x] # g[x]
    OBVIOUS
<1>4. f[x] = Turn(kind, a, f, b, x) /\ g[x] = Turn(kind, c, g, b, x)
    BY <1>3 DEF IsWalk
<1>5. x # b
    BY <1>3, <1>4 DEF Turn
<1>6. x - 1 \in b..m /\ ~(x <= x - 1)
    BY <1>3, <1>5
<1>7. f[x - 1] = g[x - 1]
    BY <1>2, <1>6
<1>8. f[x] = After(kind, a, g[x - 1], x) /\ g[x] = After(kind, c, g[x - 1], x)
    BY <1>4, <1>5, <1>7 DEF Turn
<1> QED
    BY <1>3, <1>5, <1>8

-----------------------------------------------------------------------------
(* TreeNavigator::lookup, one component at a time.                         *)

(* TreeNavigator::lookup is such a loop,                                   *)
LEMMA NavWalk ==
    ASSUME NEW t, NEW path, NEW hv, Len(path) \in Nat
    PROVE  \E w : /\ IsWalk("nav", <<t, path, hv>>, 0, Len(path), w)
                  /\ NavLookup(t, path, hv) = IF ValidPath(path) THEN w[Len(path)] ELSE Fails("InvalidPath")
<1> DEFINE G(w) == [i \in 0..Len(path) |->
                        IF i = 0 THEN IsTree(Entry("", "Directory", t)) ELSE NavAfter(w[i - 1], path[i], hv)]
           v == CHOOSE w : w = G(w)
<1>1. \A w : IsWalk("nav", <<t, path, hv>>, 0, Len(path), w) <=> w = G(w)
    BY DEF IsWalk, Turn, First, After
<1>2. \E w : w = G(w)
    BY <1>1, WalksExist
<1>3. v = G(v)
    BY <1>2
<1>4. NavLookup(t, path, hv) = IF ValidPath(path) THEN v[Len(path)] ELSE Fails("InvalidPath")
    BY Zenon DEF NavLookup, NavAfter
<1> HIDE DEF G, v
<1> QED
    BY <1>1, <1>3, <1>4

(* that begins at the tree itself.                                         *)
LEMMA NavRoot ==
    ASSUME NEW t, NEW hv
    PROVE  NavLookup(t, <<>>, hv) = IsTree(Entry("", "Directory", t))
<1>1. PICK w : /\ IsWalk("nav", <<t, <<>>, hv>>, 0, Len(<<>>), w)
               /\ NavLookup(t, <<>>, hv) = IF ValidPath(<<>>) THEN w[Len(<<>>)] ELSE Fails("InvalidPath")
    BY NavWalk
<1>2. ValidPath(<<>>)
    BY DEF ValidPath
<1>3. w[0] = IsTree(Entry("", "Directory", t))
    <2>1. 0 \in 0..Len(<<>>)
        OBVIOUS
    <2>2. w[0] = Turn("nav", <<t, <<>>, hv>>, w, 0, 0)
        BY <1>1, <2>1 DEF IsWalk
    <2>3. First("nav", <<t, <<>>, hv>>) = IsTree(Entry("", "Directory", t))
        BY DEF First
    <2> QED
        BY <2>2, <2>3 DEF Turn
<1> QED
    BY <1>1, <1>2, <1>3

(* The step from a directory to a name in it.                              *)
LEMMA NavStep ==
    ASSUME NEW t, NEW hv, NEW X, NEW p \in Seq(X), NEW n \in X, ValidPath(Append(p, n))
    PROVE  ValidPath(p) /\ NavLookup(t, Append(p, n), hv) = NavAfter(NavLookup(t, p, hv), n, hv)
<1> DEFINE q == Append(p, n)
           L == Len(p)
           a == <<t, p, hv>>
           c == <<t, q, hv>>
<1>1. L \in Nat /\ Len(q) = L + 1 /\ q[L + 1] = n /\ \A i \in 1..L : q[i] = p[i]
    OBVIOUS
<1>2. DOMAIN p = 1..L /\ DOMAIN q = 1..L + 1
    OBVIOUS
<1>3. ValidPath(p)
    BY <1>1, <1>2 DEF ValidPath
<1>4. PICK f : IsWalk("nav", a, 0, L, f) /\ NavLookup(t, p, hv) = f[L]
    BY <1>1, <1>3, NavWalk
<1>5. PICK g : IsWalk("nav", c, 0, L + 1, g) /\ NavLookup(t, q, hv) = g[L + 1]
    <2>1. ValidPath(q) /\ Len(q) \in Nat /\ Len(q) = L + 1
        BY <1>1
    <2> HIDE DEF q, L
    <2> QED
        BY <2>1, NavWalk
<1>6. First("nav", a) = First("nav", c)
    BY DEF First
<1>7. \A i \in 0..L : i # 0 => \A up : After("nav", a, up, i) = After("nav", c, up, i)
    <2>1. \A i \in 0..L : i # 0 => i \in 1..L
        BY <1>1
    <2> QED
        BY <1>1, <2>1 DEF After
<1>8. g[L + 1] = NavAfter(g[L], n, hv)
    <2>1. L + 1 \in 0..L + 1 /\ L + 1 # 0 /\ (L + 1) - 1 = L
        BY <1>1
    <2>2. g[L + 1] = Turn("nav", c, g, 0, L + 1)
        BY <1>5, <2>1 DEF IsWalk
    <2>3. g[L + 1] = After("nav", c, g[L], L + 1)
        BY <2>1, <2>2 DEF Turn
    <2> QED
        BY <1>1, <2>3 DEF After
<1> HIDE DEF a, c, q, L
<1>9. f[L] = g[L]
    <2>1. 0 <= L /\ L <= L + 1 /\ L + 1 \in Nat /\ L \in 0..L /\ 0 \in Nat
        BY <1>1
    <2>2. \A i \in 0..L : f[i] = g[i]
        BY <1>1, <1>4, <1>5, <1>6, <1>7, <2>1, WalksAgree
    <2> QED
        BY <2>1, <2>2
<1> QED
    BY <1>3, <1>4, <1>5, <1>8, <1>9 DEF q

-----------------------------------------------------------------------------
(* resolve_in_synthetic, one component at a time.                          *)

(* resolve_in_synthetic is another,                                        *)
LEMMA SynWalk ==
    ASSUME NEW ov, NEW path, Len(path) \in Nat
    PROVE  \E w : /\ IsWalk("syn", <<ov, path>>, 1, Len(path), w)
                  /\ ResolveInSynthetic(ov, path) = w[Len(path)]
<1> DEFINE G(w) == [i \in 1..Len(path) |->
                        IF i = 1 THEN IsSynthetic(ov[<<path[1]>>])
                        ELSE SynAfter(ov, w[i - 1], SubSeq(path, 1, i))]
           v == CHOOSE w : w = G(w)
<1>1. \A w : IsWalk("syn", <<ov, path>>, 1, Len(path), w) <=> w = G(w)
    BY DEF IsWalk, Turn, First, After
<1>2. \E w : w = G(w)
    BY <1>1, WalksExist
<1>3. v = G(v)
    BY <1>2
<1>4. ResolveInSynthetic(ov, path) = v[Len(path)]
    BY Zenon DEF ResolveInSynthetic, SynAfter
<1> HIDE DEF G, v
<1> QED
    BY <1>1, <1>3, <1>4

(* that begins at the first component.                                     *)
LEMMA SynRoot ==
    ASSUME NEW ov, NEW n
    PROVE  ResolveInSynthetic(ov, <<n>>) = IsSynthetic(ov[<<n>>])
<1> DEFINE a == <<ov, <<n>>>>
<1>1. Len(<<n>>) = 1 /\ 1 \in Nat
    OBVIOUS
<1>2. PICK w : IsWalk("syn", a, 1, 1, w) /\ ResolveInSynthetic(ov, <<n>>) = w[1]
    <2>1. Len(<<n>>) \in Nat
        BY <1>1
    <2> QED
        BY <1>1, <2>1, SynWalk
<1>3. First("syn", a) = IsSynthetic(ov[<<n>>])
    BY DEF First
<1>4. w[1] = Turn("syn", a, w, 1, 1)
    BY <1>2 DEF IsWalk
<1> QED
    BY <1>2, <1>3, <1>4 DEF Turn

(* The prefixes of a path and one name more.                               *)
LEMMA PrefixOfAppend ==
    ASSUME NEW X, NEW p \in Seq(X), NEW n \in X
    PROVE  /\ SubSeq(Append(p, n), 1, Len(p) + 1) = Append(p, n)
           /\ \A i \in 0..Len(p) : SubSeq(Append(p, n), 1, i) = SubSeq(p, 1, i)
<1>1. Append(p, n) \in Seq(X) /\ Len(Append(p, n)) = Len(p) + 1 /\ Len(p) \in Nat
    OBVIOUS
<1>2. SubSeq(Append(p, n), 1, Len(p) + 1) = Append(p, n)
    BY <1>1, SubSeqFull
<1>3. ASSUME NEW i \in 0..Len(p) PROVE SubSeq(Append(p, n), 1, i) = SubSeq(p, 1, i)
    BY <1>1
<1> QED
    BY <1>2, <1>3

(* A synthetic path is resolved from the one above it.                     *)
LEMMA SynStep ==
    ASSUME NEW ov, NEW X, NEW p \in Seq(X), p # <<>>, NEW n \in X
    PROVE  ResolveInSynthetic(ov, Append(p, n)) = SynAfter(ov, ResolveInSynthetic(ov, p), Append(p, n))
<1> DEFINE q == Append(p, n)
           L == Len(p)
           a == <<ov, p>>
           c == <<ov, q>>
<1>1. L \in Nat /\ L >= 1 /\ Len(q) = L + 1 /\ q[1] = p[1] /\ q # <<>>
    OBVIOUS
<1>2. /\ SubSeq(q, 1, L + 1) = q
      /\ \A i \in 0..L : SubSeq(q, 1, i) = SubSeq(p, 1, i)
    BY PrefixOfAppend
<1>3. First("syn", a) = First("syn", c)
    BY <1>1 DEF First
<1>4. \A i \in 1..L : i # 1 => \A up : After("syn", a, up, i) = After("syn", c, up, i)
    <2>1. \A i \in 1..L : SubSeq(q, 1, i) = SubSeq(p, 1, i)
        BY <1>1, <1>2
    <2> HIDE DEF q, L
    <2> QED
        BY <2>1 DEF After
<1> HIDE DEF q, L
<1>5. PICK f : IsWalk("syn", a, 1, L, f) /\ ResolveInSynthetic(ov, p) = f[L]
    BY <1>1, SynWalk DEF L
<1>6. PICK g : IsWalk("syn", c, 1, L + 1, g) /\ ResolveInSynthetic(ov, q) = g[L + 1]
    <2>1. Len(q) \in Nat
        BY <1>1
    <2> QED
        BY <1>1, <2>1, SynWalk
<1>7. g[L + 1] = SynAfter(ov, g[L], q)
    <2>1. L + 1 \in 1..L + 1 /\ L + 1 # 1 /\ (L + 1) - 1 = L
        BY <1>1
    <2>2. g[L + 1] = Turn("syn", c, g, 1, L + 1)
        BY <1>6, <2>1 DEF IsWalk
    <2>3. g[L + 1] = After("syn", c, g[L], L + 1)
        BY <2>1, <2>2 DEF Turn
    <2> QED
        BY <1>2, <2>3 DEF After
<1> HIDE DEF a, c
<1>8. f[L] = g[L]
    <2>1. 1 <= L /\ L <= L + 1 /\ L + 1 \in Nat /\ L \in 1..L /\ 1 \in Nat
        BY <1>1
    <2>2. \A i \in 1..L : f[i] = g[i]
        BY <1>1, <1>3, <1>4, <1>5, <1>6, <2>1, WalksAgree
    <2> QED
        BY <2>1, <2>2
<1> QED
    BY <1>5, <1>6, <1>7, <1>8 DEF q

-----------------------------------------------------------------------------
(* The synthetic .git.  An overlay is tidy when every path of it is a      *)
(* top-level name or lies in one of its directories: RootOverlay is a tree *)
(* of nested maps, so nothing else can be built, and what splicing has to  *)
(* keep is that no file gets children.                                     *)

NodeModes == {"Directory", "RegularFile"}
InDirectory(ov, q) == \E p \in DOMAIN ov : \E n \in Names : q = Append(p, n) /\ ov[p].mode = "Directory"
Tidy(ov) ==
    \A q \in DOMAIN ov :
        /\ q \in Seq(Names) /\ q # <<>>
        /\ ov[q].mode \in NodeModes
        /\ Len(q) = 1 \/ InDirectory(ov, q)

(* Every path of a tidy overlay is found.                                  *)
LEMMA TidyFinds ==
    ASSUME NEW ov, Tidy(ov), NEW q \in DOMAIN ov
    PROVE  ResolveInSynthetic(ov, q) = IsSynthetic(ov[q])
<1> DEFINE Lost(p) == p \in DOMAIN ov /\ ResolveInSynthetic(ov, p) # IsSynthetic(ov[p])
           T == {k \in Nat : \E p \in DOMAIN ov : Lost(p) /\ Len(p) = k}
<1>0. \A p \in DOMAIN ov : p \in Seq(Names) /\ p # <<>> /\ Len(p) \in Nat
    BY DEF Tidy
<1> SUFFICES ASSUME Lost(q) PROVE FALSE
    OBVIOUS
<1>1. T # {} /\ T \in SUBSET Nat
    BY <1>0
<1>2. PICK x \in T : \A y \in T : x <= y
    BY <1>1, LeastOf
<1>3. PICK p \in DOMAIN ov : Lost(p) /\ Len(p) = x
    OBVIOUS
<1>4. CASE Len(p) = 1
    <2>1. p = <<p[1]>>
        BY <1>0, <1>4
    <2> QED
        BY <1>3, <2>1, SynRoot
<1>5. CASE InDirectory(ov, p)
    <2>1. PICK r \in DOMAIN ov, n \in Names : p = Append(r, n) /\ ov[r].mode = "Directory"
        BY <1>5 DEF InDirectory
    <2>2. r \in Seq(Names) /\ r # <<>> /\ Len(r) \in Nat /\ ~(x <= Len(r))
        BY <1>0, <1>3, <2>1
    <2>3. ~Lost(r)
        BY <1>2, <2>2
    <2>4. ResolveInSynthetic(ov, r) = IsSynthetic(ov[r])
        BY <2>3
    <2>5. ResolveInSynthetic(ov, p) = SynAfter(ov, IsSynthetic(ov[r]), p)
        BY <2>1, <2>2, <2>4, SynStep
    <2> QED
        BY <1>3, <2>1, <2>5 DEF SynAfter, IsSynthetic
<1> QED
    BY <1>3, <1>4, <1>5 DEF Tidy

(* Adding or replacing a node in a directory keeps an overlay tidy, unless *)
(* a file takes the place of a directory.                                  *)
LEMMA WithTidy ==
    ASSUME NEW ov, Tidy(ov), NEW p \in DOMAIN ov, ov[p].mode = "Directory", NEW n \in Names,
           NEW q, q = Append(p, n), NEW node, node.mode \in NodeModes,
           q \in DOMAIN ov => ov[q].mode # "Directory"
    PROVE  Tidy(With(ov, q, node))
<1> DEFINE v == With(ov, q, node)
<1>1. /\ DOMAIN v = DOMAIN ov \cup {q}
      /\ v[q] = node
      /\ \A r \in DOMAIN ov : r # q => v[r] = ov[r]
    BY DEF With
<1>2. q \in Seq(Names) /\ q # <<>> /\ p # q
    BY DEF Tidy
<1> HIDE DEF v
<1>3. ASSUME NEW r \in DOMAIN ov, ov[r].mode = "Directory"
      PROVE  r \in DOMAIN v /\ v[r].mode = "Directory"
    BY <1>1, <1>3
<1>4. \A r : InDirectory(ov, r) => InDirectory(v, r)
    BY <1>3 DEF InDirectory
<1>5. InDirectory(v, q)
    BY <1>3 DEF InDirectory
<1>6. ASSUME NEW r \in DOMAIN v
      PROVE  /\ r \in Seq(Names) /\ r # <<>>
             /\ v[r].mode \in NodeModes
             /\ Len(r) = 1 \/ InDirectory(v, r)
    <2>1. CASE r = q
        BY <1>1, <1>2, <1>5, <2>1
    <2>2. CASE r # q
        <3>1. r \in DOMAIN ov /\ v[r] = ov[r]
            BY <1>1, <1>6, <2>2
        <3> QED
            BY <1>4, <3>1 DEF Tidy
    <2> QED
        BY <2>1, <2>2
<1> QED
    BY <1>6 DEF Tidy, v

(* The overlay of a detached HEAD.                                         *)
LEMMA A1Is ==
    ASSUME NEW c
    PROVE  /\ Tidy(A1Overlay(c))
           /\ <<".git">> \in DOMAIN A1Overlay(c) /\ A1Overlay(c)[<<".git">>] = SynDir
           /\ <<".git", "refs">> \in DOMAIN A1Overlay(c) /\ A1Overlay(c)[<<".git", "refs">>] = SynDir
           /\ <<".git", "refs", "heads">> \in DOMAIN A1Overlay(c)
           /\ A1Overlay(c)[<<".git", "refs", "heads">>] = SynDir
           /\ <<".git", "HEAD">> \in DOMAIN A1Overlay(c)
           /\ A1Overlay(c)[<<".git", "HEAD">>] = SynFile(<<c>>)
           /\ <<".git", "index">> \notin DOMAIN A1Overlay(c)
           /\ \A q \in DOMAIN A1Overlay(c) : q[1] = ".git"
           /\ \A q \in DOMAIN A1Overlay(c) :
                Len(q) > 1 /\ q[2] = "refs" => A1Overlay(c)[q].mode = "Directory" /\ Len(q) <= 3
<1> DEFINE d1 == <<".git">>
           d2 == <<".git", "refs">>
           d3 == <<".git", "refs", "heads">>
           d4 == <<".git", "refs", "tags">>
           d5 == <<".git", "objects">>
           d6 == <<".git", "objects", "info">>
           f1 == <<".git", "HEAD">>
           f2 == <<".git", "config">>
           f3 == <<".git", "packed-refs">>
           f4 == <<".git", "objects", "info", "alternates">>
           dirs == {d1, d2, d3, d4, d5, d6}
           base == [p \in dirs |-> SynDir]
           head == With(base, f1, SynFile(<<c>>))
           config == With(head, f2, SynFile(<<"config">>))
           packed == With(config, f3, SynFile(<<>>))
           last == With(packed, f4, SynFile(<<"objects">>))
<1>1. A1Overlay(c) = last
    BY Zenon DEF A1Overlay
<1>2. /\ d2 = Append(d1, "refs") /\ d3 = Append(d2, "heads") /\ d4 = Append(d2, "tags")
      /\ d5 = Append(d1, "objects") /\ d6 = Append(d5, "info")
      /\ f1 = Append(d1, "HEAD") /\ f2 = Append(d1, "config") /\ f3 = Append(d1, "packed-refs")
      /\ f4 = Append(d6, "alternates")
    OBVIOUS
<1>3. f1 \notin dirs /\ f2 \notin dirs \cup {f1} /\ f3 \notin dirs \cup {f1, f2}
      /\ f4 \notin dirs \cup {f1, f2, f3} /\ <<".git", "index">> \notin dirs \cup {f1, f2, f3, f4}
    OBVIOUS
<1>4. \A q \in dirs \cup {f1, f2, f3, f4} :
         /\ q[1] = ".git"
         /\ Len(q) > 1 /\ q[2] = "refs" => q \in dirs /\ Len(q) <= 3
    <2>1. /\ d1[1] = ".git" /\ d2[1] = ".git" /\ d3[1] = ".git" /\ d4[1] = ".git" /\ d5[1] = ".git"
          /\ d6[1] = ".git" /\ f1[1] = ".git" /\ f2[1] = ".git" /\ f3[1] = ".git" /\ f4[1] = ".git"
        OBVIOUS
    <2>2. Len(d1) <= 3 /\ Len(d2) <= 3 /\ Len(d3) <= 3 /\ Len(d4) <= 3 /\ Len(d5) <= 3 /\ Len(d6) <= 3
        OBVIOUS
    <2>3. f1[2] # "refs" /\ f2[2] # "refs" /\ f3[2] # "refs" /\ f4[2] # "refs"
        OBVIOUS
    <2> HIDE DEF d1, d2, d3, d4, d5, d6, f1, f2, f3, f4
    <2> QED
        BY <2>1, <2>2, <2>3
<1>5. dirs \subseteq Seq(Names) /\ Len(d1) = 1 /\ <<>> \notin dirs
    <2>1. /\ d1 \in Seq(Names) /\ d2 \in Seq(Names) /\ d3 \in Seq(Names)
          /\ d4 \in Seq(Names) /\ d5 \in Seq(Names) /\ d6 \in Seq(Names)
        BY NamesAssumption
    <2>2. d1 # <<>> /\ d2 # <<>> /\ d3 # <<>> /\ d4 # <<>> /\ d5 # <<>> /\ d6 # <<>>
        OBVIOUS
    <2>3. Len(d1) = 1
        OBVIOUS
    <2> HIDE DEF d1, d2, d3, d4, d5, d6
    <2> QED
        BY <2>1, <2>2, <2>3
<1> HIDE DEF d1, d2, d3, d4, d5, d6, f1, f2, f3, f4
<1>6. DOMAIN base = dirs /\ \A q \in dirs : base[q] = SynDir
    OBVIOUS
<1>7. SynDir.mode = "Directory" /\ \A x : SynFile(x).mode = "RegularFile"
    BY DEF SynDir, SynFile
<1> HIDE DEF base
<1>8. Tidy(base)
    <2>1. \A q \in dirs : q = d1 \/ InDirectory(base, q)
        <3>1. /\ InDirectory(base, d2) /\ InDirectory(base, d3) /\ InDirectory(base, d4)
              /\ InDirectory(base, d5) /\ InDirectory(base, d6)
            <4>1. /\ "refs" \in Names /\ "heads" \in Names /\ "tags" \in Names
                  /\ "objects" \in Names /\ "info" \in Names
                BY NamesAssumption
            <4>2. \A q \in {d1, d2, d5} : q \in DOMAIN base /\ base[q].mode = "Directory"
                BY <1>6, <1>7
            <4> QED
                BY <1>2, <4>1, <4>2 DEF InDirectory
        <3> QED
            BY <3>1
    <2> QED
        BY <1>5, <1>6, <1>7, <2>1 DEF Tidy, NodeModes
<1>9. /\ DOMAIN head = dirs \cup {f1} /\ head[f1] = SynFile(<<c>>)
      /\ \A q \in dirs : head[q] = SynDir
    BY <1>3, <1>6 DEF With
<1>10. Tidy(head)
    <2>1. d1 \in DOMAIN base /\ base[d1].mode = "Directory"
        BY <1>6, <1>7
    <2>2. f1 = Append(d1, "HEAD") /\ "HEAD" \in Names
        BY <1>2, NamesAssumption
    <2>3. SynFile(<<c>>).mode \in NodeModes
        BY <1>7 DEF NodeModes
    <2>4. f1 \notin DOMAIN base
        BY <1>3, <1>6
    <2> QED
        BY <2>1, <2>2, <2>3, <2>4, <1>8, WithTidy
<1> HIDE DEF head
<1>11. /\ DOMAIN config = dirs \cup {f1, f2} /\ config[f1] = SynFile(<<c>>)
       /\ \A q \in dirs : config[q] = SynDir
    BY <1>3, <1>9 DEF With
<1>12. Tidy(config)
    <2>1. d1 \in DOMAIN head /\ head[d1].mode = "Directory"
        BY <1>9, <1>7
    <2>2. f2 = Append(d1, "config") /\ "config" \in Names
        BY <1>2, NamesAssumption
    <2>3. SynFile(<<"config">>).mode \in NodeModes
        BY <1>7 DEF NodeModes
    <2>4. f2 \notin DOMAIN head
        BY <1>3, <1>9
    <2> QED
        BY <2>1, <2>2, <2>3, <2>4, <1>10, WithTidy
<1> HIDE DEF config
<1>13. /\ DOMAIN packed = dirs \cup {f1, f2, f3} /\ packed[f1] = SynFile(<<c>>)
       /\ \A q \in dirs : packed[q] = SynDir
    BY <1>3, <1>11 DEF With
<1>14. Tidy(packed)
    <2>1. d1 \in DOMAIN config /\ config[d1].mode = "Directory"
        BY <1>11, <1>7
    <2>2. f3 = Append(d1, "packed-refs") /\ "packed-refs" \in Names
        BY <1>2, NamesAssumption
    <2>3. SynFile(<<>>).mode \in NodeModes
        BY <1>7 DEF NodeModes
    <2>4. f3 \notin DOMAIN config
        BY <1>3, <1>11
    <2> QED
        BY <2>1, <2>2, <2>3, <2>4, <1>12, WithTidy
<1> HIDE DEF packed
<1>15. /\ DOMAIN last = dirs \cup {f1, f2, f3, f4} /\ last[f1] = SynFile(<<c>>)
       /\ \A q \in dirs : last[q] = SynDir
    BY <1>3, <1>13 DEF With
<1>16. Tidy(last)
    <2>1. d6 \in DOMAIN packed /\ packed[d6].mode = "Directory"
        BY <1>13, <1>7
    <2>2. f4 = Append(d6, "alternates") /\ "alternates" \in Names
        BY <1>2, NamesAssumption
    <2>3. SynFile(<<"objects">>).mode \in NodeModes
        BY <1>7 DEF NodeModes
    <2>4. f4 \notin DOMAIN packed
        BY <1>3, <1>13
    <2> QED
        BY <2>1, <2>2, <2>3, <2>4, <1>14, WithTidy
<1> HIDE DEF last
<1>17. \A q \in DOMAIN last :
          /\ q[1] = ".git"
          /\ Len(q) > 1 /\ q[2] = "refs" => last[q].mode = "Directory" /\ Len(q) <= 3
    BY <1>4, <1>7, <1>15
<1>18. <<".git", "index">> \notin DOMAIN last
    BY <1>3, <1>15
<1>19. /\ <<".git">> \in DOMAIN last /\ last[<<".git">>] = SynDir
       /\ <<".git", "refs">> \in DOMAIN last /\ last[<<".git", "refs">>] = SynDir
       /\ <<".git", "refs", "heads">> \in DOMAIN last /\ last[<<".git", "refs", "heads">>] = SynDir
       /\ <<".git", "HEAD">> \in DOMAIN last /\ last[<<".git", "HEAD">>] = SynFile(<<c>>)
    BY <1>15, Zenon DEF d1, d2, d3, f1
<1> QED
    BY <1>1, <1>16, <1>17, <1>18, <1>19

(* With the index of the commit's tree.                                    *)
LEMMA A1PlusIs ==
    ASSUME NEW c
    PROVE  LET v == A1PlusOverlay(c) IN
           /\ Tidy(v)
           /\ <<".git">> \in DOMAIN v /\ v[<<".git">>].mode = "Directory"
           /\ <<".git", "HEAD">> \in DOMAIN v /\ v[<<".git", "HEAD">>] = SynFile(<<c>>)
           /\ <<".git", "index">> \in DOMAIN v /\ v[<<".git", "index">>] = SynFile(<<"index", RootOf[c]>>)
           /\ \A q \in DOMAIN v : q[1] = ".git"
           /\ \A q \in DOMAIN v : Len(q) > 1 /\ q[2] = "refs" => v[q].mode = "Directory" /\ Len(q) <= 3
<1> DEFINE u == A1Overlay(c)
           v == A1PlusOverlay(c)
           g == <<".git">>
           h == <<".git", "HEAD">>
           i == <<".git", "index">>
           node == SynFile(<<"index", RootOf[c]>>)
<1>1. /\ i = Append(g, "index") /\ "index" \in Names /\ h # i /\ g # i
      /\ i[1] = ".git" /\ i[2] # "refs" /\ SynDir.mode = "Directory" /\ node.mode \in NodeModes
    BY NamesAssumption DEF SynDir, SynFile, NodeModes
<1>2. /\ Tidy(u)
      /\ g \in DOMAIN u /\ u[g] = SynDir
      /\ h \in DOMAIN u /\ u[h] = SynFile(<<c>>)
      /\ i \notin DOMAIN u
      /\ \A q \in DOMAIN u : q[1] = ".git"
      /\ \A q \in DOMAIN u : Len(q) > 1 /\ q[2] = "refs" => u[q].mode = "Directory" /\ Len(q) <= 3
    BY A1Is, Zenon
<1>3. v = With(u, i, node)
    BY Zenon DEF A1PlusOverlay
<1> HIDE DEF u, g, h, i, v, node
<1>4. DOMAIN v = DOMAIN u \cup {i} /\ v[i] = node /\ \A q \in DOMAIN u : q # i => v[q] = u[q]
    BY <1>3 DEF With
<1>5. Tidy(v)
    BY <1>1, <1>2, <1>3, WithTidy
<1>6. \A q \in DOMAIN v : q[1] = ".git"
    BY <1>1, <1>2, <1>4
<1>7. \A q \in DOMAIN v : Len(q) > 1 /\ q[2] = "refs" => v[q].mode = "Directory" /\ Len(q) <= 3
    BY <1>1, <1>2, <1>4
<1>8. g \in DOMAIN v /\ v[g].mode = "Directory" /\ h \in DOMAIN v /\ v[h] = SynFile(<<c>>)
    BY <1>1, <1>2, <1>4
<1>9. i \in DOMAIN v /\ v[i] = node
    BY <1>4
<1> QED
    BY <1>5, <1>6, <1>7, <1>8, <1>9, Zenon DEF v, g, h, i, node

(* The path of a branch's loose ref.                                       *)
LEMMA BranchFile ==
    ASSUME NEW b \in DOMAIN BranchPath
    PROVE  LET path == <<".git">> \o BranchPath[b] IN
           /\ path \in Seq(Names) /\ Len(path) \in Nat /\ Len(path) > 3
           /\ path[1] = ".git" /\ path[2] = "refs"
           /\ \A i \in 1..Len(path) - 1 :
                /\ SubSeq(path, 1, i) \in Seq(Names) /\ Len(SubSeq(path, 1, i)) = i
                /\ SubSeq(path, 1, i)[1] = ".git"
                /\ i > 1 => SubSeq(path, 1, i)[2] = "refs"
           /\ SubSeq(path, 1, 1) = <<".git">>
           /\ \A i \in 2..Len(path) : path[i] \in Names /\ SubSeq(path, 1, i) = Append(SubSeq(path, 1, i - 1), path[i])
           /\ SubSeq(path, 1, Len(path)) = path
<1> DEFINE g == <<".git">>
           B == BranchPath[b]
           path == g \o B
<1>1. B \in Seq(Names) /\ Len(B) \in Nat /\ Len(B) > 2 /\ B[1] = "refs" /\ g \in Seq(Names) /\ Len(g) = 1 /\ g[1] = ".git"
    BY NamesAssumption
<1> HIDE DEF g, B
<1>2. /\ path \in Seq(Names) /\ Len(path) = Len(B) + 1
      /\ \A i \in 1..Len(path) : path[i] = IF i <= Len(g) THEN g[i] ELSE B[i - Len(g)]
    <2>1. /\ path \in Seq(Names) /\ Len(path) = Len(g) + Len(B)
          /\ \A i \in 1..Len(g) + Len(B) : path[i] = IF i <= Len(g) THEN g[i] ELSE B[i - Len(g)]
        BY <1>1, ConcatProperties, Zenon
    <2> HIDE DEF path
    <2> QED
        BY <1>1, <2>1
<1>3. path[1] = ".git" /\ path[2] = "refs"
    BY <1>1, <1>2
<1>4. SubSeq(path, 1, 1) = g
    <2>1. 1 \in 1..Len(path) /\ 1 \in 1..Len(path) /\ <<path[1]>> \in Seq(Names) /\ SubSeq(path, 2, 1) = <<>>
        BY <1>1, <1>2
    <2>2. SubSeq(path, 1, 1) = <<path[1]>> \o SubSeq(path, 2, 1)
        <3> HIDE DEF path
        <3> QED
            BY <1>2, <2>1, SubSeqRecursiveFirst
    <2>3. SubSeq(path, 1, 1) = <<path[1]>>
        BY <2>1, <2>2, ConcatEmptySeq
    <2> QED
        BY <1>3, <2>3 DEF g
<1> HIDE DEF path
<1>5. Len(path) \in Nat /\ Len(path) > 3
    BY <1>1, <1>2
<1>6. ASSUME NEW i \in 1..Len(path) - 1
      PROVE  /\ SubSeq(path, 1, i) \in Seq(Names) /\ Len(SubSeq(path, 1, i)) = i
             /\ SubSeq(path, 1, i)[1] = ".git"
             /\ i > 1 => SubSeq(path, 1, i)[2] = "refs"
    BY <1>2, <1>3, <1>5
<1>7. ASSUME NEW i \in 2..Len(path)
      PROVE  path[i] \in Names /\ SubSeq(path, 1, i) = Append(SubSeq(path, 1, i - 1), path[i])
    BY <1>2, <1>5
<1>8. SubSeq(path, 1, Len(path)) = path
    BY <1>2, SubSeqFull
<1> QED
    BY <1>2, <1>3, <1>4, <1>5, <1>6, <1>7, <1>8, Zenon DEF path, g, B

\* Where HEAD and the branch are, and what they say, in an overlay of branch b at commit c.
Symbolic(v, b, c) ==
    /\ Tidy(v)
    /\ \A q \in DOMAIN v : q[1] = ".git"
    /\ <<".git", "HEAD">> \in DOMAIN v /\ v[<<".git", "HEAD">>] = SynFile(<<"ref", b>>)
    /\ <<".git", "index">> \in DOMAIN v /\ v[<<".git", "index">>] = SynFile(<<"index", RootOf[c]>>)
    /\ <<".git">> \o BranchPath[b] \in DOMAIN v /\ v[<<".git">> \o BranchPath[b]] = SynFile(<<c>>)

(* apply_a2_ref_visibility: the directories of the branch's name are made, *)
(* none of them replaces a file, and HEAD is the only file replaced.       *)
LEMMA A2Is ==
    ASSUME NEW c, NEW b \in DOMAIN BranchPath
    PROVE  Symbolic(A2Overlay(A1PlusOverlay(c), b, c), b, c)
<1> DEFINE u == A1PlusOverlay(c)
           g == <<".git">>
           h == <<".git", "HEAD">>
           i == <<".git", "index">>
           index == SynFile(<<"index", RootOf[c]>>)
           head == SynFile(<<"ref", b>>)
           path == g \o BranchPath[b]
           above == {SubSeq(path, 1, k) : k \in 1..Len(path) - 1}
           w == With(u, h, head)
           d == [p \in DOMAIN w \cup above |-> IF p \in DOMAIN w THEN w[p] ELSE SynDir]
           v == With(d, path, SynFile(<<c>>))
           L == Len(path)
<1>1. A2Overlay(u, b, c) = v
    BY Zenon DEF A2Overlay, SpliceNested
<1>2. /\ path \in Seq(Names) /\ L \in Nat /\ L > 3
      /\ path[1] = ".git" /\ path[2] = "refs"
      /\ \A k \in 1..L - 1 :
           /\ SubSeq(path, 1, k) \in Seq(Names) /\ Len(SubSeq(path, 1, k)) = k
           /\ SubSeq(path, 1, k)[1] = ".git"
           /\ k > 1 => SubSeq(path, 1, k)[2] = "refs"
      /\ SubSeq(path, 1, 1) = g
      /\ \A k \in 2..L : path[k] \in Names /\ SubSeq(path, 1, k) = Append(SubSeq(path, 1, k - 1), path[k])
      /\ SubSeq(path, 1, L) = path
    BY BranchFile, Zenon
<1>3. /\ Tidy(u)
      /\ g \in DOMAIN u /\ u[g].mode = "Directory"
      /\ h \in DOMAIN u /\ u[h] = SynFile(<<c>>)
      /\ i \in DOMAIN u /\ u[i] = index
      /\ \A q \in DOMAIN u : q[1] = ".git"
      /\ \A q \in DOMAIN u : Len(q) > 1 /\ q[2] = "refs" => u[q].mode = "Directory" /\ Len(q) <= 3
    BY A1PlusIs, Zenon
<1>4. /\ h = Append(g, "HEAD") /\ "HEAD" \in Names /\ h # i /\ g # h
      /\ h[1] = ".git" /\ h[2] = "HEAD" /\ i[2] = "index"
    BY NamesAssumption
<1>5. /\ SynFile(<<c>>).mode = "RegularFile" /\ head.mode = "RegularFile" /\ SynDir.mode = "Directory"
      /\ "RegularFile" \in NodeModes /\ "Directory" \in NodeModes
    BY DEF SynFile, SynDir, NodeModes
<1> HIDE DEF u, g, h, i, index, head, path, L
<1>6. DOMAIN w = DOMAIN u /\ w[h] = head /\ \A q \in DOMAIN u : q # h => w[q] = u[q]
    BY <1>3 DEF With
<1>7. Tidy(w)
    BY <1>3, <1>4, <1>5, WithTidy
<1> HIDE DEF w
<1>8. \A q \in DOMAIN w : Len(q) > 1 /\ q[2] = "refs" => w[q].mode = "Directory" /\ Len(q) <= 3
    BY <1>3, <1>4, <1>6
<1>9. /\ DOMAIN d = DOMAIN w \cup above
      /\ \A q \in DOMAIN w : d[q] = w[q]
      /\ \A q \in above : q \notin DOMAIN w => d[q] = SynDir
    OBVIOUS
<1> HIDE DEF d
<1>10. ASSUME NEW k \in 1..L - 1
       PROVE  SubSeq(path, 1, k) \in DOMAIN d /\ d[SubSeq(path, 1, k)].mode = "Directory"
    <2> DEFINE q == SubSeq(path, 1, k)
    <2>1. q \in above
        BY DEF L
    <2>2. q \in DOMAIN w => w[q].mode = "Directory"
        <3>1. CASE k = 1
            BY <1>2, <1>3, <1>4, <1>6, <3>1
        <3>2. CASE k # 1
            <4>1. k > 1 /\ Len(q) = k /\ q[2] = "refs"
                BY <1>2, <3>2
            <4> QED
                BY <1>8, <4>1
        <3> QED
            BY <3>1, <3>2
    <2> HIDE DEF q
    <2>3. q \in DOMAIN d /\ d[q].mode = "Directory"
        BY <1>5, <1>9, <2>1, <2>2
    <2> QED
        BY <2>3 DEF q
<1>11. Tidy(d)
    <2>1. \A q : InDirectory(w, q) => InDirectory(d, q)
        BY <1>9 DEF InDirectory
    <2>2. ASSUME NEW q \in DOMAIN d
          PROVE  /\ q \in Seq(Names) /\ q # <<>>
                 /\ d[q].mode \in NodeModes
                 /\ Len(q) = 1 \/ InDirectory(d, q)
        <3>1. CASE q \in DOMAIN w
            BY <1>7, <1>9, <2>1, <3>1 DEF Tidy
        <3>2. CASE q \notin DOMAIN w
            <4>1. PICK k \in 1..L - 1 : q = SubSeq(path, 1, k)
                BY <1>9, <2>2, <3>2 DEF L
            <4>2. q \in Seq(Names) /\ Len(q) = k /\ d[q].mode \in NodeModes
                BY <1>2, <1>5, <1>10, <4>1
            <4>3. q # <<>>
                BY <1>2, <4>2
            <4>4. k # 1 => InDirectory(d, q)
                <5> SUFFICES ASSUME k # 1 PROVE InDirectory(d, q)
                    OBVIOUS
                <5>1. k \in 2..L /\ k - 1 \in 1..L - 1
                    BY <1>2
                <5>2. path[k] \in Names /\ q = Append(SubSeq(path, 1, k - 1), path[k])
                    BY <1>2, <4>1, <5>1
                <5>3. SubSeq(path, 1, k - 1) \in DOMAIN d /\ d[SubSeq(path, 1, k - 1)].mode = "Directory"
                    BY <1>10, <5>1
                <5> QED
                    BY <5>2, <5>3 DEF InDirectory
            <4> QED
                BY <4>2, <4>3, <4>4
        <3> QED
            BY <3>1, <3>2
    <2> QED
        BY <2>2 DEF Tidy
<1>12. path \notin DOMAIN d
    <2>1. path \notin DOMAIN w
        BY <1>2, <1>8 DEF L
    <2>2. path \notin above
        <3>1. \A k \in 1..L - 1 : Len(SubSeq(path, 1, k)) # L
            BY <1>2
        <3> QED
            BY <3>1 DEF L
    <2> QED
        BY <1>9, <2>1, <2>2
<1>13. /\ DOMAIN v = DOMAIN d \cup {path} /\ v[path] = SynFile(<<c>>)
       /\ \A q \in DOMAIN d : v[q] = d[q]
    BY <1>12 DEF With
<1>14. Tidy(v)
    <2> DEFINE p == SubSeq(path, 1, L - 1)
    <2>1. L - 1 \in 1..L - 1 /\ L \in 2..L
        BY <1>2
    <2>2. p \in DOMAIN d /\ d[p].mode = "Directory"
        BY <1>10, <2>1
    <2>3. path[L] \in Names /\ path = Append(p, path[L])
        BY <1>2, <2>1
    <2>4. SynFile(<<c>>).mode \in NodeModes
        BY <1>5
    <2> HIDE DEF p
    <2> QED
        BY <1>11, <1>12, <2>2, <2>3, <2>4, WithTidy
<1> HIDE DEF v
<1>15. \A q \in DOMAIN v : q[1] = ".git"
    <2>1. \A q \in DOMAIN w : q[1] = ".git"
        BY <1>3, <1>6
    <2>2. \A q \in above : q[1] = ".git"
        BY <1>2 DEF L
    <2> QED
        BY <1>2, <1>9, <1>13, <2>1, <2>2
<1>16. h \in DOMAIN v /\ v[h] = head
    BY <1>3, <1>6, <1>9, <1>13
<1>17. i \in DOMAIN v /\ v[i] = index
    BY <1>3, <1>4, <1>6, <1>9, <1>13
<1>18. path \in DOMAIN v /\ v[path] = SynFile(<<c>>)
    BY <1>13
<1>19. Symbolic(v, b, c)
    BY <1>14, <1>15, <1>16, <1>17, <1>18, Zenon DEF Symbolic, h, i, path, head, index, g
<1> QED
    BY <1>1, <1>19 DEF u

\* What build_root_overlay can give.
IsDotgit(ov) ==
    \/ ov = NoOverlay
    \/ \E c : ov = A1PlusOverlay(c)
    \/ \E c : \E b \in DOMAIN BranchPath : ov = A2Overlay(A1PlusOverlay(c), b, c)
DotgitBuilt == \A m \in DOMAIN overlay : IsDotgit(overlay[m])

(* Overlays are only built by build_root_overlay.                          *)
LEMMA DotgitStep == DotgitBuilt /\ [Next]_vars => DotgitBuilt'
<1> SUFFICES ASSUME DotgitBuilt, [Next]_vars PROVE DotgitBuilt'
    OBVIOUS
<1> USE DEF provider, client, store, cli
<1>1. ASSUME NEW x, IsDotgit(x), overlay' = Extend(overlay, turn, x) PROVE DotgitBuilt'
    <2>1. /\ DOMAIN overlay' = DOMAIN overlay \cup {turn}
          /\ \A m \in DOMAIN overlay \cup {turn} : overlay'[m] = IF m = turn THEN x ELSE overlay[m]
        BY <1>1 DEF Extend
    <2> QED
        BY <1>1, <2>1 DEF DotgitBuilt
<1>2. CASE UNCHANGED overlay
    BY <1>2 DEF DotgitBuilt
<1>3. CASE SkipOverlay
    BY <1>1, <1>3 DEF SkipOverlay, IsDotgit
<1>4. CASE BuildOverlay
    <2>1. IsDotgit(Dotgit(proj[turn]))
        BY DEF Dotgit, IsDotgit, IsBranch
    <2>2. UNCHANGED overlay \/ overlay' = Extend(overlay, turn, Dotgit(proj[turn]))
        BY <1>4 DEF BuildOverlay
    <2> QED
        BY <1>1, <1>2, <2>1, <2>2
<1>5. CASE Main
    <2>1. DropSession => UNCHANGED overlay
        BY DEF DropSession
    <2>2. CheckArgs \/ OpenSource \/ BuildProjection \/ PinCommit \/ NewProvider \/ MountBackground
            \/ InstallHandler \/ Unpark \/ Exit => UNCHANGED overlay
        BY DEF CheckArgs, OpenSource, BuildProjection, PinCommit, NewProvider, MountBackground,
               InstallHandler, Unpark, Exit
    <2> QED
        BY <1>2, <1>3, <1>4, <1>5, <2>1, <2>2 DEF Main
<1>6. CASE Client
    <2>1. \A m, p, n : LookupFails(m, p, n) \/ LookupAnswers(m, p, n) => UNCHANGED overlay
        BY DEF LookupFails, LookupAnswers
    <2>2. \A r : Open(r) \/ Read(r) => UNCHANGED overlay
        BY DEF Open, Read
    <2>3. \A m, i : OpenDir(m, i) => UNCHANGED overlay
        BY DEF OpenDir
    <2>4. ReadLink \/ ReadFails \/ ReadDirReplies \/ ReadDirFails => UNCHANGED overlay
        BY DEF ReadLink, ReadFails, ReadDirReplies, ReadDirFails
    <2> QED
        BY <1>2, <1>6, <2>1, <2>2, <2>3, <2>4 DEF Client
<1>7. CASE Environment
    <2>1. StepFails \/ CtrlC \/ Killed => UNCHANGED overlay
        BY DEF StepFails, CtrlC, Killed
    <2>2. \A r, c : MoveRef(r, c) \/ DeleteRef(r) => UNCHANGED overlay
        BY DEF MoveRef, DeleteRef
    <2>3. \A o : Arrives(o) => UNCHANGED overlay
        BY DEF Arrives
    <2> QED
        BY <1>2, <1>7, <2>1, <2>2, <2>3 DEF Environment
<1> QED
    BY <1>2, <1>5, <1>6, <1>7 DEF Next, vars

(* HEAD of an overlay, and what it leads to.                               *)
LEMMA DetachedHead ==
    ASSUME NEW c
    PROVE  LET v == A1PlusOverlay(c) IN
           /\ ResolveInSynthetic(v, <<".git", "HEAD">>) = IsSynthetic(SynFile(<<c>>))
           /\ ResolveInSynthetic(v, <<".git", "index">>) = IsSynthetic(SynFile(<<"index", RootOf[c]>>))
<1> DEFINE v == A1PlusOverlay(c)
<1>1. /\ Tidy(v)
      /\ <<".git", "HEAD">> \in DOMAIN v /\ v[<<".git", "HEAD">>] = SynFile(<<c>>)
      /\ <<".git", "index">> \in DOMAIN v /\ v[<<".git", "index">>] = SynFile(<<"index", RootOf[c]>>)
    BY A1PlusIs, Zenon
<1> HIDE DEF v
<1>2. /\ ResolveInSynthetic(v, <<".git", "HEAD">>) = IsSynthetic(v[<<".git", "HEAD">>])
      /\ ResolveInSynthetic(v, <<".git", "index">>) = IsSynthetic(v[<<".git", "index">>])
    BY <1>1, TidyFinds
<1> QED
    BY <1>1, <1>2, Zenon DEF v

(* In an A2 overlay HEAD names the branch and the loose ref has the        *)
(* commit.                                                                 *)
LEMMA SymbolicHead ==
    ASSUME NEW c, NEW b \in DOMAIN BranchPath
    PROVE  LET v == A2Overlay(A1PlusOverlay(c), b, c) IN
           /\ ResolveInSynthetic(v, <<".git", "HEAD">>) = IsSynthetic(SynFile(<<"ref", b>>))
           /\ ResolveInSynthetic(v, <<".git", "index">>) = IsSynthetic(SynFile(<<"index", RootOf[c]>>))
           /\ ResolveInSynthetic(v, <<".git">> \o BranchPath[b]) = IsSynthetic(SynFile(<<c>>))
<1> DEFINE v == A2Overlay(A1PlusOverlay(c), b, c)
           path == <<".git">> \o BranchPath[b]
<1>1. Symbolic(v, b, c)
    BY A2Is
<1> HIDE DEF v
<1>2. /\ Tidy(v)
      /\ <<".git", "HEAD">> \in DOMAIN v /\ v[<<".git", "HEAD">>] = SynFile(<<"ref", b>>)
      /\ <<".git", "index">> \in DOMAIN v /\ v[<<".git", "index">>] = SynFile(<<"index", RootOf[c]>>)
      /\ path \in DOMAIN v /\ v[path] = SynFile(<<c>>)
    BY <1>1, Zenon DEF Symbolic
<1> HIDE DEF path
<1>3. /\ ResolveInSynthetic(v, <<".git", "HEAD">>) = IsSynthetic(v[<<".git", "HEAD">>])
      /\ ResolveInSynthetic(v, <<".git", "index">>) = IsSynthetic(v[<<".git", "index">>])
      /\ ResolveInSynthetic(v, path) = IsSynthetic(v[path])
    BY <1>2, TidyFinds
<1> QED
    BY <1>2, <1>3, Zenon DEF v, path

(* Every such overlay reads as git reads it.                               *)
LEMMA DotgitReads == DotgitBuilt => DotgitCoherent
<1> SUFFICES ASSUME DotgitBuilt, NEW m \in DOMAIN overlay, overlay[m] # NoOverlay
             PROVE  LET At(path) == ResolveInSynthetic(overlay[m], <<".git">> \o path)
                        head == At(<<"HEAD">>).content
                        leaf == IF Len(head) = 2 THEN At(BranchPath[head[2]]) ELSE At(<<"HEAD">>)
                    IN /\ leaf.ok
                       /\ At(<<"index">>).content = <<"index", RootOf[leaf.content[1]]>>
    BY Zenon DEF DotgitCoherent
<1> DEFINE ov == overlay[m]
           At(path) == ResolveInSynthetic(ov, <<".git">> \o path)
           head == At(<<"HEAD">>).content
           leaf == IF Len(head) = 2 THEN At(BranchPath[head[2]]) ELSE At(<<"HEAD">>)
<1>1. <<".git">> \o <<"HEAD">> = <<".git", "HEAD">> /\ <<".git">> \o <<"index">> = <<".git", "index">>
    <2>1. <<".git">> \in Seq(Names) /\ "HEAD" \in Names /\ "index" \in Names
        BY NamesAssumption
    <2>2. Append(<<".git">>, "HEAD") = <<".git">> \o <<"HEAD">> /\ Append(<<".git">>, "index") = <<".git">> \o <<"index">>
        BY <2>1, AppendIsConcat
    <2>3. <<".git", "HEAD">> = Append(<<".git">>, "HEAD") /\ <<".git", "index">> = Append(<<".git">>, "index")
        OBVIOUS
    <2> QED
        BY <2>2, <2>3, Zenon
<1>2. \A x : IsSynthetic(SynFile(x)).ok /\ IsSynthetic(SynFile(x)).content = x
    BY DEF IsSynthetic, SynFile
<1>3. CASE \E c : ov = A1PlusOverlay(c)
    <2>1. PICK c : ov = A1PlusOverlay(c)
        BY <1>3
    <2>2. /\ At(<<"HEAD">>) = IsSynthetic(SynFile(<<c>>))
          /\ At(<<"index">>) = IsSynthetic(SynFile(<<"index", RootOf[c]>>))
        BY <1>1, <2>1, DetachedHead, Zenon
    <2> HIDE DEF At
    <2>3. head = <<c>> /\ Len(<<c>>) = 1
        BY <1>2, <2>2
    <2>4. leaf = IsSynthetic(SynFile(<<c>>))
        BY <2>2, <2>3
    <2>5. leaf.ok /\ leaf.content[1] = c /\ At(<<"index">>).content = <<"index", RootOf[c]>>
        BY <1>2, <2>2, <2>4
    <2> HIDE DEF leaf
    <2>6. leaf.ok /\ At(<<"index">>).content = <<"index", RootOf[leaf.content[1]]>>
        BY <2>5, Zenon
    <2> QED
        BY <2>6, Zenon DEF At, leaf, head
<1>4. CASE \E c : \E b \in DOMAIN BranchPath : ov = A2Overlay(A1PlusOverlay(c), b, c)
    <2>1. PICK c : \E b \in DOMAIN BranchPath : ov = A2Overlay(A1PlusOverlay(c), b, c)
        BY <1>4
    <2>2. PICK b \in DOMAIN BranchPath : ov = A2Overlay(A1PlusOverlay(c), b, c)
        BY <2>1
    <2>3. /\ At(<<"HEAD">>) = IsSynthetic(SynFile(<<"ref", b>>))
          /\ At(<<"index">>) = IsSynthetic(SynFile(<<"index", RootOf[c]>>))
          /\ At(BranchPath[b]) = IsSynthetic(SynFile(<<c>>))
        BY <1>1, <2>2, SymbolicHead, Zenon
    <2> HIDE DEF At
    <2>4. head = <<"ref", b>> /\ Len(<<"ref", b>>) = 2 /\ <<"ref", b>>[2] = b
        BY <1>2, <2>3
    <2>5. leaf = IsSynthetic(SynFile(<<c>>))
        BY <2>3, <2>4
    <2>6. leaf.ok /\ leaf.content[1] = c /\ At(<<"index">>).content = <<"index", RootOf[c]>>
        BY <1>2, <2>3, <2>5
    <2> HIDE DEF leaf
    <2>7. leaf.ok /\ At(<<"index">>).content = <<"index", RootOf[leaf.content[1]]>>
        BY <2>6, Zenon
    <2> QED
        BY <2>7, Zenon DEF At, leaf, head
<1> QED
    BY <1>3, <1>4 DEF DotgitBuilt, IsDotgit

(* The .git of a mount is readable as git reads it, however the ref moved  *)
(* while the mount was being made: HEAD leads to a commit, and the index   *)
(* is that commit's tree.                                                  *)
THEOREM DotgitReadable == Spec => []DotgitCoherent
<1>1. Init => DotgitBuilt
    BY DEF Init, DotgitBuilt
<1> QED
    BY <1>1, DotgitStep, DotgitReads, PTL DEF Spec

-----------------------------------------------------------------------------
(* The reference listing.  A tree's paths are found level by level; from   *)
(* the levels come the facts the rest uses: the root is listed, a listed   *)
(* directory's entries are, and nothing else is.                           *)

(* The reference listing is a loop over the depth,                         *)
LEMMA PathsWalk ==
    ASSUME NEW t \in DOMAIN Trees
    PROVE  \E w : IsWalk("paths", <<t>>, 0, Depth, w) /\ AllPaths[t] = w[Depth]
<1> DEFINE G(w) == [i \in 0..Depth |->
                        IF i = 0 THEN {<<<<>>, Entry("", "Directory", t)>>}
                        ELSE w[i - 1] \cup Below(w[i - 1])]
           v == CHOOSE w : w = G(w)
<1>1. \A w : IsWalk("paths", <<t>>, 0, Depth, w) <=> w = G(w)
    BY DEF IsWalk, Turn, First, After
<1>2. \E w : w = G(w)
    BY <1>1, WalksExist, TreesAssumption
<1>3. v = G(v)
    BY <1>2
<1>4. AllPaths[t] = v[Depth]
    BY Zenon DEF AllPaths, Below
<1> HIDE DEF G, v
<1> QED
    BY <1>1, <1>3, <1>4

\* The levels of tree t.
Levels(t, w) ==
    /\ AllPaths[t] = w[Depth]
    /\ w[0] = {<<<<>>, Entry("", "Directory", t)>>}
    /\ \A i \in 1..Depth : w[i] = w[i - 1] \cup Below(w[i - 1])

(* which fills in one level after the other,                               *)
LEMMA LevelsExist ==
    ASSUME NEW t \in DOMAIN Trees
    PROVE  \E w : Levels(t, w)
<1>1. PICK w : IsWalk("paths", <<t>>, 0, Depth, w) /\ AllPaths[t] = w[Depth]
    BY PathsWalk
<1>2. \A i \in 0..Depth : w[i] = Turn("paths", <<t>>, w, 0, i)
    BY <1>1 DEF IsWalk
<1>3. First("paths", <<t>>) = {<<<<>>, Entry("", "Directory", t)>>}
    BY DEF First
<1>4. w[0] = {<<<<>>, Entry("", "Directory", t)>>}
    <2>1. 0 \in 0..Depth
        BY TreesAssumption
    <2> QED
        BY <1>2, <1>3, <2>1 DEF Turn
<1>5. \A up, i : After("paths", <<t>>, up, i) = up \cup Below(up)
    BY DEF After
<1>6. ASSUME NEW i \in 1..Depth PROVE w[i] = w[i - 1] \cup Below(w[i - 1])
    <2>1. i \in 0..Depth /\ i # 0
        BY TreesAssumption
    <2> QED
        BY <1>2, <1>5, <2>1 DEF Turn
<1> QED
    BY <1>1, <1>4, <1>6 DEF Levels

(* and loses nothing on the way.                                           *)
LEMMA LevelsGrow ==
    ASSUME NEW t, NEW w, Levels(t, w), NEW i \in 0..Depth, NEW j \in i..Depth
    PROVE  w[i] \subseteq w[j]
<1> DEFINE T == {k \in i..Depth : ~(w[i] \subseteq w[k])}
<1> SUFFICES ASSUME T # {} PROVE FALSE
    OBVIOUS
<1>0. Depth \in Nat
    BY TreesAssumption
<1>1. T \in SUBSET Nat
    BY <1>0
<1>2. PICK x \in T : \A y \in T : x <= y
    BY <1>1, LeastOf
<1>3. x \in i..Depth /\ ~(w[i] \subseteq w[x]) /\ x # i
    OBVIOUS
<1>4. x \in 1..Depth /\ x - 1 \in i..Depth /\ ~(x <= x - 1)
    BY <1>0, <1>3
<1>5. w[i] \subseteq w[x - 1]
    BY <1>2, <1>4
<1>6. w[x - 1] \subseteq w[x]
    BY <1>4 DEF Levels
<1> QED
    BY <1>3, <1>5, <1>6

\* x is the entry e of the directory at y.
Under(x, y, e) ==
    /\ y[2].mode = "Directory" /\ e \in ToSet(Trees[y[2].oid])
    /\ x = <<Append(y[1], e.name), e>>

(* What one more level adds.                                               *)
LEMMA BelowIs ==
    ASSUME NEW S, NEW x
    PROVE  x \in Below(S) <=> \E y \in S : \E e : Under(x, y, e)
    BY DEF Below, Under

\* What is listed: a path of names that git allows, and an entry of a known mode.
WellNamed(x) ==
    /\ x[1] \in Seq(Names) /\ ValidPath(x[1])
    /\ x[2].mode \in Modes
    /\ x[2].mode = "Directory" <=> x[2].oid \in DOMAIN Trees
    /\ x[2].mode \in {"RegularFile", "ExecutableFile", "Symlink"} => x[2].oid \in DOMAIN Bytes

(* An entry of a listed directory is well named.                           *)
LEMMA UnderWellNamed ==
    ASSUME NEW x, NEW y, NEW e, WellNamed(y), Under(x, y, e)
    PROVE  /\ WellNamed(x) /\ Len(x[1]) = Len(y[1]) + 1 /\ x[1] = Append(y[1], e.name) /\ x[2] = e
           /\ e.name \in Names
<1>1. /\ y[1] \in Seq(Names) /\ ValidPath(y[1]) /\ y[2].oid \in DOMAIN Trees
      /\ e \in ToSet(Trees[y[2].oid])
    BY DEF WellNamed, Under
<1>2. /\ e.name \in Names \ {".", ".."} /\ e.mode \in Modes
      /\ e.mode = "Directory" <=> e.oid \in DOMAIN Trees
      /\ e.mode \in {"RegularFile", "ExecutableFile", "Symlink"} => e.oid \in DOMAIN Bytes
    BY <1>1, TreesAssumption
<1>3. x[1] = Append(y[1], e.name) /\ x[2] = e
    BY DEF Under
<1>4. Append(y[1], e.name) \in Seq(Names) /\ Len(Append(y[1], e.name)) = Len(y[1]) + 1
    BY <1>1, <1>2
<1>5. ValidPath(Append(y[1], e.name))
    BY <1>1, <1>2 DEF ValidPath
<1> QED
    BY <1>2, <1>3, <1>4, <1>5 DEF WellNamed

(* So is the root.                                                         *)
LEMMA RootWellNamed ==
    ASSUME NEW t \in DOMAIN Trees
    PROVE  WellNamed(<<<<>>, Entry("", "Directory", t)>>)
<1>1. <<>> \in Seq(Names) /\ ValidPath(<<>>)
    BY DEF ValidPath
<1>2. Entry("", "Directory", t).mode = "Directory" /\ Entry("", "Directory", t).oid = t
    BY DEF Entry
<1> QED
    BY <1>1, <1>2 DEF WellNamed, Modes

(* A path is found at the level of its length.                             *)
LEMMA LevelIsLength ==
    ASSUME NEW t \in DOMAIN Trees, NEW w, Levels(t, w), NEW i \in 0..Depth, NEW x \in w[i]
    PROVE  WellNamed(x) /\ Len(x[1]) \in 0..i /\ x \in w[Len(x[1])]
<1> DEFINE P(k) == \A y \in w[k] : WellNamed(y) /\ Len(y[1]) \in 0..k /\ y \in w[Len(y[1])]
           T == {k \in 0..Depth : ~P(k)}
<1>0. Depth \in Nat
    BY TreesAssumption
<1>1. T = {}
    <2> SUFFICES ASSUME T # {} PROVE FALSE
        OBVIOUS
    <2>1. T \in SUBSET Nat
        BY <1>0
    <2>2. PICK k \in T : \A j \in T : k <= j
        BY <2>1, LeastOf
    <2>3. k \in 0..Depth /\ ~P(k)
        OBVIOUS
    <2>4. P(0)
        <3> DEFINE r == <<<<>>, Entry("", "Directory", t)>>
        <3>1. w[0] = {r} /\ r[1] = <<>> /\ Len(<<>>) = 0 /\ WellNamed(r)
            BY RootWellNamed DEF Levels
        <3> HIDE DEF r
        <3> QED
            BY <3>1
    <2>5. k \in 1..Depth /\ k - 1 \in 0..Depth /\ ~(k <= k - 1)
        BY <1>0, <2>3, <2>4
    <2>6. P(k - 1)
        BY <2>2, <2>5
    <2>7. ASSUME NEW y \in w[k] PROVE WellNamed(y) /\ Len(y[1]) \in 0..k /\ y \in w[Len(y[1])]
        <3>1. CASE y \in w[k - 1]
            BY <1>0, <2>5, <2>6, <3>1
        <3>2. CASE y \notin w[k - 1]
            <4>1. y \in Below(w[k - 1])
                BY <2>5, <2>7, <3>2 DEF Levels
            <4>2. PICK z, e : z \in w[k - 1] /\ Under(y, z, e)
                BY <4>1, BelowIs
            <4>3. WellNamed(z) /\ Len(z[1]) \in 0..(k - 1) /\ z \in w[Len(z[1])]
                BY <2>6, <4>2
            <4>4. WellNamed(y) /\ Len(y[1]) = Len(z[1]) + 1
                BY <4>2, <4>3, UnderWellNamed
            <4>5. Len(y[1]) \in 1..k /\ Len(y[1]) \in 1..Depth /\ Len(y[1]) - 1 = Len(z[1])
                BY <1>0, <2>5, <4>3, <4>4
            <4>6. y \in Below(w[Len(z[1])])
                BY <4>2, <4>3, BelowIs
            <4>7. y \in w[Len(y[1])]
                BY <4>5, <4>6 DEF Levels
            <4> QED
                BY <4>4, <4>5, <4>7
        <3> QED
            BY <3>1, <3>2
    <2> QED
        BY <2>3, <2>7
<1> QED
    BY <1>1

RootAt(t) == <<<<>>, Entry("", "Directory", t)>>

(* The listing has the root.                                               *)
LEMMA RootListed ==
    ASSUME NEW t \in DOMAIN Trees
    PROVE  RootAt(t) \in AllPaths[t] /\ WellNamed(RootAt(t)) /\ RootAt(t)[1] = <<>> /\ RootAt(t)[2].mode = "Directory"
<1>1. PICK w : Levels(t, w)
    BY LevelsExist
<1>2. 0 \in 0..Depth /\ Depth \in 0..Depth
    BY TreesAssumption
<1>3. w[0] \subseteq w[Depth]
    BY <1>1, <1>2, LevelsGrow
<1>4. w[0] = {RootAt(t)} /\ AllPaths[t] = w[Depth]
    BY <1>1 DEF Levels, RootAt
<1>5. WellNamed(RootAt(t))
    BY RootWellNamed DEF RootAt
<1> QED
    BY <1>3, <1>4, <1>5 DEF RootAt, Entry

(* Everything listed is well named.                                        *)
LEMMA PathsWellNamed ==
    ASSUME NEW t \in DOMAIN Trees, NEW x \in AllPaths[t]
    PROVE  WellNamed(x)
<1>1. PICK w : Levels(t, w)
    BY LevelsExist
<1>2. Depth \in 0..Depth
    BY TreesAssumption
<1>3. x \in w[Depth]
    BY <1>1 DEF Levels
<1> QED
    BY <1>1, <1>2, <1>3, LevelIsLength

(* A listed directory's entries are listed: no tree nests deeper than      *)
(* Depth.                                                                  *)
LEMMA PathsClosed ==
    ASSUME NEW t \in DOMAIN Trees, NEW y \in AllPaths[t], NEW x, NEW e, Under(x, y, e)
    PROVE  x \in AllPaths[t]
<1>1. PICK w : Levels(t, w)
    BY LevelsExist
<1>2. Depth \in 0..Depth /\ Depth \in Nat
    BY TreesAssumption
<1>3. y \in w[Depth] /\ AllPaths[t] = w[Depth]
    BY <1>1 DEF Levels
<1>4. Len(y[1]) \in 0..Depth /\ y \in w[Len(y[1])]
    BY <1>1, <1>2, <1>3, LevelIsLength
<1>5. Len(y[1]) # Depth
    BY TreesAssumption DEF Under
<1> DEFINE k == Len(y[1]) + 1
<1>6. k \in 1..Depth /\ k - 1 = Len(y[1]) /\ k \in 0..Depth /\ Depth \in k..Depth
    BY <1>2, <1>4, <1>5
<1>7. x \in Below(w[Len(y[1])])
    BY <1>4, BelowIs
<1> HIDE DEF k
<1>8. x \in w[k]
    BY <1>1, <1>6, <1>7 DEF Levels
<1>9. w[k] \subseteq w[Depth]
    BY <1>1, <1>6, LevelsGrow
<1> QED
    BY <1>3, <1>8, <1>9

(* And only they are, and the root.                                        *)
LEMMA PathsOrigin ==
    ASSUME NEW t \in DOMAIN Trees, NEW x \in AllPaths[t], x # RootAt(t)
    PROVE  \E y \in AllPaths[t] : \E e : Under(x, y, e)
<1>1. PICK w : Levels(t, w)
    BY LevelsExist
<1>2. Depth \in 0..Depth /\ Depth \in Nat
    BY TreesAssumption
<1>3. AllPaths[t] = w[Depth] /\ w[0] = {RootAt(t)}
    BY <1>1 DEF Levels, RootAt
<1> DEFINE T == {i \in 0..Depth : x \in w[i]}
<1>4. T # {} /\ T \in SUBSET Nat
    BY <1>2, <1>3
<1>5. PICK k \in T : \A j \in T : k <= j
    BY <1>4, LeastOf
<1>6. k \in 0..Depth /\ x \in w[k] /\ k # 0
    BY <1>3
<1>7. k \in 1..Depth /\ k - 1 \in 0..Depth /\ ~(k <= k - 1) /\ Depth \in (k - 1)..Depth
    BY <1>2, <1>6
<1>8. x \notin w[k - 1]
    BY <1>5, <1>7
<1>9. x \in Below(w[k - 1])
    BY <1>1, <1>6, <1>7, <1>8 DEF Levels
<1>10. w[k - 1] \subseteq w[Depth]
    BY <1>1, <1>7, LevelsGrow
<1> QED
    BY <1>3, <1>9, <1>10, BelowIs

(* A path that is not empty has one parent and one name.                   *)
LEMMA AppendOnce ==
    ASSUME NEW p \in Seq(Names), NEW q \in Seq(Names), NEW m \in Names, NEW n \in Names,
           Append(p, m) = Append(q, n)
    PROVE  p = q /\ m = n
    BY AppendInjective

(* A path names one entry, because a tree names none twice.                *)
LEMMA PathsUnique ==
    ASSUME NEW t \in DOMAIN Trees, NEW x \in AllPaths[t], NEW y \in AllPaths[t], x[1] = y[1]
    PROVE  x[2] = y[2]
<1> DEFINE Twice(n) == \E u, v \in AllPaths[t] : u[1] = v[1] /\ u[2] # v[2] /\ Len(u[1]) = n
           T == {n \in Nat : Twice(n)}
<1> SUFFICES ASSUME x[2] # y[2] PROVE FALSE
    OBVIOUS
<1>0. \A u \in AllPaths[t] : u[1] \in Seq(Names) /\ Len(u[1]) \in Nat
    BY PathsWellNamed DEF WellNamed
<1>1. T # {} /\ T \in SUBSET Nat
    BY <1>0
<1>2. PICK n \in T : \A k \in T : n <= k
    BY <1>1, LeastOf
<1>3. PICK u \in AllPaths[t], v \in AllPaths[t] : u[1] = v[1] /\ u[2] # v[2] /\ Len(u[1]) = n
    OBVIOUS
<1>4. RootAt(t)[1] = <<>>
    BY RootListed
<1>5. ASSUME NEW a \in AllPaths[t], a # RootAt(t)
      PROVE  /\ \E b \in AllPaths[t] : \E e : Under(a, b, e)
             /\ a[1] # <<>>
    <2>1. PICK b, e : b \in AllPaths[t] /\ Under(a, b, e)
        BY <1>5, PathsOrigin
    <2>2. WellNamed(b)
        BY <2>1, PathsWellNamed
    <2>3. Len(a[1]) = Len(b[1]) + 1 /\ Len(b[1]) \in Nat
        BY <1>0, <2>1, <2>2, UnderWellNamed
    <2>4. a[1] # <<>>
        BY <2>3
    <2> QED
        BY <2>1, <2>4
<1>6. u # RootAt(t) /\ v # RootAt(t)
    BY <1>3, <1>4, <1>5
<1>7. PICK b, e : b \in AllPaths[t] /\ Under(u, b, e)
    BY <1>5, <1>6
<1>8. PICK c, f : c \in AllPaths[t] /\ Under(v, c, f)
    BY <1>5, <1>6
<1>9. /\ Len(u[1]) = Len(b[1]) + 1 /\ u[1] = Append(b[1], e.name) /\ u[2] = e
      /\ v[1] = Append(c[1], f.name) /\ v[2] = f
      /\ e.name \in Names /\ f.name \in Names
    BY <1>7, <1>8, PathsWellNamed, UnderWellNamed
<1>10. b[1] = c[1] /\ e.name = f.name
    <2>1. b[1] \in Seq(Names) /\ c[1] \in Seq(Names)
        BY <1>0, <1>7, <1>8
    <2>2. Append(b[1], e.name) = Append(c[1], f.name)
        BY <1>3, <1>9
    <2>3. e.name \in Names /\ f.name \in Names
        BY <1>9
    <2> DEFINE bp == b[1]
               cp == c[1]
               en == e.name
               fn == f.name
    <2> HIDE DEF bp, cp, en, fn
    <2>4. bp = cp /\ en = fn
        <3>1. bp \in Seq(Names) /\ cp \in Seq(Names) /\ en \in Names /\ fn \in Names
            BY <2>1, <2>3 DEF bp, cp, en, fn
        <3>2. Append(bp, en) = Append(cp, fn)
            BY <2>2 DEF bp, cp, en, fn
        <3> QED
            BY <3>1, <3>2, AppendOnce
    <2> QED
        BY <2>4 DEF bp, cp, en, fn
<1>11. b[2] = c[2]
    <2>1. Len(b[1]) \in Nat /\ ~(n <= Len(b[1]))
        BY <1>0, <1>3, <1>9
    <2>2. ~Twice(Len(b[1]))
        BY <1>2, <2>1
    <2> QED
        BY <1>7, <1>8, <1>10, <2>2
<1>12. e = f
    <2>1. b[2].oid \in DOMAIN Trees /\ e \in ToSet(Trees[b[2].oid]) /\ f \in ToSet(Trees[b[2].oid])
        BY <1>7, <1>8, <1>11, PathsWellNamed DEF Under, WellNamed
    <2> QED
        BY <1>10, <2>1, TreesAssumption
<1> QED
    BY <1>3, <1>9, <1>12

\* q is a prefix of p, and shorter.
Above1(q, p) == Len(q) < Len(p) /\ IsPrefix(q, p)

(* What is above a path is above what is below it.                         *)
LEMMA AboveAppend ==
    ASSUME NEW p \in Seq(Names), NEW n \in Names, NEW q \in Seq(Names), q = p \/ Above1(q, p)
    PROVE  Above1(q, Append(p, n))
<1>1. Len(q) <= Len(p) /\ Len(q) \in Nat /\ Len(p) \in Nat /\ Len(Append(p, n)) = Len(p) + 1
    BY DEF Above1
<1>2. SubSeq(q, 1, Len(q)) = SubSeq(p, 1, Len(q))
    BY DEF Above1, IsPrefix
<1>3. SubSeq(p, 1, Len(q)) = SubSeq(Append(p, n), 1, Len(q))
    <2>1. Len(q) \in 0..Len(p)
        BY <1>1
    <2> QED
        BY <2>1, PrefixOfAppend
<1> QED
    BY <1>1, <1>2, <1>3 DEF Above1, IsPrefix

(* The way to a listed path leads through directories.                     *)
LEMMA WayIsDirectories ==
    ASSUME NEW t \in DOMAIN Trees, NEW x \in AllPaths[t], NEW k \in 0..Len(x[1]) - 1
    PROVE  \E y \in AllPaths[t] : y[1] = SubSeq(x[1], 1, k) /\ y[2].mode = "Directory"
<1> DEFINE Bad(n) == \E u \in AllPaths[t] : /\ Len(u[1]) = n
                                            /\ k < n
                                            /\ ~\E y \in AllPaths[t] : /\ y[1] = SubSeq(u[1], 1, k)
                                                                       /\ y[2].mode = "Directory"
           T == {n \in Nat : Bad(n)}
<1>0. \A u \in AllPaths[t] : u[1] \in Seq(Names) /\ Len(u[1]) \in Nat
    BY PathsWellNamed DEF WellNamed
<1>00. k \in Nat /\ k < Len(x[1])
    BY <1>0
<1> SUFFICES ASSUME T # {} PROVE FALSE
    BY <1>0, <1>00
<1>1. PICK n \in T : \A j \in T : n <= j
    BY LeastOf
<1>2. PICK u \in AllPaths[t] : /\ Len(u[1]) = n
                               /\ k < n
                               /\ ~\E y \in AllPaths[t] : y[1] = SubSeq(u[1], 1, k) /\ y[2].mode = "Directory"
    OBVIOUS
<1>3. u # RootAt(t)
    <2>1. Len(RootAt(t)[1]) = 0
        BY RootListed
    <2> QED
        BY <1>00, <1>2, <2>1
<1>4. PICK b, e : b \in AllPaths[t] /\ Under(u, b, e)
    BY <1>3, PathsOrigin
<1>5. Len(u[1]) = Len(b[1]) + 1 /\ u[1] = Append(b[1], e.name) /\ e.name \in Names /\ b[1] \in Seq(Names)
    BY <1>0, <1>4, PathsWellNamed, UnderWellNamed
<1>6. SubSeq(u[1], 1, k) = SubSeq(b[1], 1, k)
    <2>1. k \in 0..Len(b[1])
        BY <1>0, <1>00, <1>2, <1>5
    <2> QED
        BY <1>5, <2>1, PrefixOfAppend
<1>7. CASE k = Len(b[1])
    <2>1. SubSeq(b[1], 1, k) = b[1]
        BY <1>5, <1>7, SubSeqFull
    <2> QED
        BY <1>2, <1>4, <1>6, <2>1 DEF Under
<1>8. CASE k # Len(b[1])
    <2>1. Len(b[1]) \in Nat /\ ~(n <= Len(b[1])) /\ k < Len(b[1])
        BY <1>0, <1>00, <1>2, <1>5, <1>8
    <2>2. ~Bad(Len(b[1]))
        BY <1>1, <2>1
    <2> QED
        BY <1>2, <1>4, <1>6, <2>1, <2>2
<1> QED
    BY <1>7, <1>8

\* What looking a path up means, by the reference listing.
Right(t, path, hv, r) ==
    \/ \E x \in AllPaths[t] : x[1] = path /\ r = IsTree(x[2])
    \/ r = Fails("InvalidPath") /\ \A x \in AllPaths[t] : x[1] # path
    \/ r = Fails("NotFound") /\ \A x \in AllPaths[t] : x[1] # path
    \/ r = Fails("NotADirectory") /\ \E x \in AllPaths[t] : Above1(x[1], path) /\ x[2].mode # "Directory"
    \/ r = Fails("Store") /\ \E x \in AllPaths[t] : Above1(x[1], path) /\ x[2].mode = "Directory" /\ x[2].oid \notin hv

(* Resolving nothing gives the tree.                                       *)
LEMMA RightRoot ==
    ASSUME NEW t \in DOMAIN Trees, NEW hv
    PROVE  Right(t, <<>>, hv, NavLookup(t, <<>>, hv))
<1>1. NavLookup(t, <<>>, hv) = IsTree(Entry("", "Directory", t))
    BY NavRoot
<1>2. RootAt(t) \in AllPaths[t] /\ RootAt(t)[1] = <<>> /\ RootAt(t)[2] = Entry("", "Directory", t)
    BY RootListed DEF RootAt
<1> QED
    BY <1>1, <1>2 DEF Right

(* A step below a path that is looked up rightly.                          *)
LEMMA RightStep ==
    ASSUME NEW t \in DOMAIN Trees, NEW hv, NEW p \in Seq(Names), NEW n \in Names,
           Right(t, p, hv, NavLookup(t, p, hv))
    PROVE  Right(t, Append(p, n), hv, NavLookup(t, Append(p, n), hv))
<1> DEFINE path == Append(p, n)
           up == NavLookup(t, p, hv)
           r == NavLookup(t, path, hv)
<1>0. \A x \in AllPaths[t] : WellNamed(x) /\ x[1] \in Seq(Names)
    BY PathsWellNamed DEF WellNamed
<1>1. ASSUME NEW x \in AllPaths[t], x[1] = path
      PROVE  \E y \in AllPaths[t] : y[1] = p /\ y[2].mode = "Directory" /\ Listed(y[2].oid, n)
    <2>1. x # RootAt(t)
        <3>1. path # <<>>
            OBVIOUS
        <3> QED
            BY <1>1, <3>1, RootListed
    <2>2. PICK y, e : y \in AllPaths[t] /\ Under(x, y, e)
        BY <2>1, PathsOrigin
    <2>3. x[1] = Append(y[1], e.name) /\ e.name \in Names /\ y[1] \in Seq(Names)
        BY <1>0, <2>2, UnderWellNamed
    <2>4. y[1] = p /\ e.name = n
        <3>1. Append(y[1], e.name) = Append(p, n)
            BY <1>1, <2>3
        <3> QED
            BY <2>3, <3>1, AppendOnce
    <2> QED
        BY <2>2, <2>4 DEF Under, Listed
<1>2. CASE ~ValidPath(path)
    <2>1. r = Fails("InvalidPath")
        BY <1>2 DEF NavLookup
    <2>2. \A x \in AllPaths[t] : x[1] # path
        BY <1>0, <1>2 DEF WellNamed
    <2> QED
        BY <2>1, <2>2 DEF Right
<1>3. CASE ValidPath(path)
    <2>1. r = NavAfter(up, n, hv) /\ ValidPath(p)
        BY <1>3, NavStep
    <2>2. \A x \in AllPaths[t] : x[1] = p \/ Above1(x[1], p) => Above1(x[1], path)
        BY <1>0, AboveAppend
    <2> HIDE DEF r, up, path
    <2>3. CASE \E x \in AllPaths[t] : x[1] = p /\ up = IsTree(x[2])
        <3>1. PICK x \in AllPaths[t] : x[1] = p /\ up = IsTree(x[2])
            BY <2>3
        <3>2. up.ok /\ up.mode = x[2].mode /\ up.oid = x[2].oid
            BY <3>1 DEF IsTree
        <3>3. CASE up.mode # "Directory"
            <4>1. r = Fails("NotADirectory")
                BY <2>1, <3>2, <3>3 DEF NavAfter, Descends
            <4> QED
                BY <2>2, <3>1, <3>2, <3>3, <4>1 DEF Right, r, path
        <3>4. CASE up.mode = "Directory" /\ up.oid \notin hv
            <4>1. r = Fails("Store")
                BY <2>1, <3>2, <3>4 DEF NavAfter, Descends
            <4> QED
                BY <2>2, <3>1, <3>2, <3>4, <4>1 DEF Right, r, path
        <3>5. CASE up.mode = "Directory" /\ up.oid \in hv /\ Listed(up.oid, n)
            <4> DEFINE e == EntryAt(up.oid, n)
            <4>1. r = IsTree(e)
                BY <2>1, <3>2, <3>5 DEF NavAfter, Descends
            <4>2. e \in ToSet(Trees[up.oid]) /\ e.name = n
                BY <3>5 DEF Listed, EntryAt
            <4>3. Under(<<path, e>>, x, e)
                BY <3>1, <3>2, <3>5, <4>2 DEF Under, path
            <4>4. <<path, e>> \in AllPaths[t]
                BY <4>3, PathsClosed
            <4> HIDE DEF e
            <4> QED
                BY <4>1, <4>4 DEF Right, r, path
        <3>6. CASE up.mode = "Directory" /\ up.oid \in hv /\ ~Listed(up.oid, n)
            <4>1. r = Fails("NotFound")
                BY <2>1, <3>2, <3>6 DEF NavAfter, Descends
            <4>2. \A z \in AllPaths[t] : z[1] # path
                <5> SUFFICES ASSUME NEW z \in AllPaths[t], z[1] = path PROVE FALSE
                    OBVIOUS
                <5>1. PICK y \in AllPaths[t] : y[1] = p /\ y[2].mode = "Directory" /\ Listed(y[2].oid, n)
                    BY <1>1 DEF path
                <5>2. y[2] = x[2]
                    BY <3>1, <5>1, PathsUnique
                <5> QED
                    BY <3>2, <3>6, <5>1, <5>2
            <4> QED
                BY <4>1, <4>2 DEF Right, r, path
        <3> QED
            BY <3>3, <3>4, <3>5, <3>6
    <2>4. CASE up = Fails("InvalidPath") \/ up = Fails("NotFound")
        <3>1. \A x \in AllPaths[t] : x[1] # p
            BY <2>4 DEF Right, up, IsTree, Fails
        <3>2. r = up
            BY <2>1, <2>4 DEF NavAfter, Fails
        <3>3. \A x \in AllPaths[t] : x[1] # path
            BY <1>1, <3>1 DEF path
        <3> QED
            BY <2>4, <3>2, <3>3 DEF Right, r, path
    <2>5. CASE up = Fails("NotADirectory") /\ \E x \in AllPaths[t] : Above1(x[1], p) /\ x[2].mode # "Directory"
        <3>1. r = up
            BY <2>1, <2>5 DEF NavAfter, Fails
        <3> QED
            BY <2>2, <2>5, <3>1 DEF Right, r, path
    <2>6. CASE up = Fails("Store") /\ \E x \in AllPaths[t] : Above1(x[1], p) /\ x[2].mode = "Directory" /\ x[2].oid \notin hv
        <3>1. r = up
            BY <2>1, <2>6 DEF NavAfter, Fails
        <3> QED
            BY <2>2, <2>6, <3>1 DEF Right, r, path
    <2> QED
        BY <2>3, <2>4, <2>5, <2>6 DEF Right, up, r, path
<1> QED
    BY <1>2, <1>3

(* TreeNavigator::lookup finds what the reference lists, and its errors    *)
(* mean what they say.                                                     *)
LEMMA NavRight ==
    ASSUME NEW t \in DOMAIN Trees, NEW hv, NEW path \in Seq(Names)
    PROVE  Right(t, path, hv, NavLookup(t, path, hv))
<1> DEFINE Wrong(p) == ~Right(t, p, hv, NavLookup(t, p, hv))
           T == {k \in 0..Len(path) : Wrong(SubSeq(path, 1, k))}
<1>0. Len(path) \in Nat /\ SubSeq(path, 1, Len(path)) = path /\ Len(path) \in 0..Len(path)
    BY SubSeqFull
<1>1. T = {}
    <2> SUFFICES ASSUME T # {} PROVE FALSE
        OBVIOUS
    <2>1. T \in SUBSET Nat
        BY <1>0
    <2>2. PICK k \in T : \A j \in T : k <= j
        BY <2>1, LeastOf
    <2>3. k \in 0..Len(path) /\ Wrong(SubSeq(path, 1, k))
        OBVIOUS
    <2>4. k # 0
        <3>1. SubSeq(path, 1, 0) = <<>>
            BY <1>0
        <3> QED
            BY <2>3, <3>1, RightRoot
    <2>5. k \in 1..Len(path) /\ k - 1 \in 0..Len(path) /\ ~(k <= k - 1)
        BY <1>0, <2>3, <2>4
    <2>6. ~Wrong(SubSeq(path, 1, k - 1))
        BY <2>2, <2>5
    <2>7. /\ SubSeq(path, 1, k) = Append(SubSeq(path, 1, k - 1), path[k])
          /\ SubSeq(path, 1, k - 1) \in Seq(Names) /\ path[k] \in Names
        BY <2>5
    <2> QED
        BY <2>3, <2>6, <2>7, RightStep
<1> HIDE DEF T, Wrong
<1> QED
    BY <1>0, <1>1 DEF T, Wrong

-----------------------------------------------------------------------------
(* Projection::lookup.  What a mount shows, as functions of its projection *)
(* p, its overlay ov and the commit c, so that they can be compared before *)
(* and after a step.                                                       *)

MayShow == Commits \cup {None}
ShownBy(p, c) ==
    IF c = None THEN {}
    ELSE IF p.kind # "Subtree" THEN {RootOf[c]}
    ELSE {x[2].oid : x \in {y \in AllPaths[RootOf[c]] : y[1] = p.path /\ y[2].mode = "Directory"}}
TreeBy(p, c, path) == UNION {{x[2] : x \in {y \in AllPaths[t] : y[1] = path}} : t \in ShownBy(p, c)}
NamedBy(p, ov, c, path) ==
    IF Shadows(ov, path[1]) THEN {ov[q] : q \in {path} \cap DOMAIN ov} ELSE TreeBy(p, c, path)
DownBy(p, c) == IF p.kind = "Subtree" THEN WayTo(RootOf[c], p.path) ELSE {}
WayBy(p, c, path) == DownBy(p, c) \cup UNION {WayTo(t, path) : t \in ShownBy(p, c)}

\* What a path resolves to when it names x.
Resolves(ov, path, x) == IF Shadows(ov, path[1]) THEN IsSynthetic(x) ELSE IsTree(x)

\* What each result r of a lookup means.
Means(p, ov, c, path, hv, r) ==
    \/ \E x \in NamedBy(p, ov, c, path) : r = Resolves(ov, path, x)
    \/ /\ r \in {Fails("InvalidPath"), Fails("NotFound")} /\ NamedBy(p, ov, c, path) = {}
       /\ Shadows(ov, path[1]) \/ c # None
    \/ /\ r = Fails("NotADirectory") /\ NamedBy(p, ov, c, path) = {}
       /\ \/ c # None /\ ShownBy(p, c) = {}
          \/ \E k \in 1..Len(path) - 1 : \E x \in NamedBy(p, ov, c, SubSeq(path, 1, k)) : x.mode # "Directory"
    \/ /\ r = Fails("Store") /\ ~Shadows(ov, path[1])
       /\ c = None \/ \E o \in WayBy(p, c, path) : o \notin hv

(* A path above another is one of its prefixes.                            *)
LEMMA AboveIs ==
    ASSUME NEW p \in Seq(Names), NEW q \in Seq(Names), Above1(q, p)
    PROVE  Len(q) \in 0..Len(p) - 1 /\ SubSeq(p, 1, Len(q)) = q /\ IsPrefix(q, p)
<1>1. SubSeq(q, 1, Len(q)) = q
    BY SubSeqFull
<1>2. Len(q) \in Nat /\ Len(p) \in Nat
    OBVIOUS
<1> QED
    BY <1>1, <1>2 DEF Above1, IsPrefix

(* A path that goes through something that is not a directory names        *)
(* nothing.                                                                *)
LEMMA NothingBelow ==
    ASSUME NEW t \in DOMAIN Trees, NEW path \in Seq(Names),
           NEW x \in AllPaths[t], Above1(x[1], path), x[2].mode # "Directory"
    PROVE  \A y \in AllPaths[t] : y[1] # path
<1> SUFFICES ASSUME NEW y \in AllPaths[t], y[1] = path PROVE FALSE
    OBVIOUS
<1>1. x[1] \in Seq(Names)
    BY PathsWellNamed DEF WellNamed
<1>2. Len(x[1]) \in 0..Len(path) - 1 /\ SubSeq(path, 1, Len(x[1])) = x[1]
    BY <1>1, AboveIs
<1>3. PICK z \in AllPaths[t] : z[1] = SubSeq(y[1], 1, Len(x[1])) /\ z[2].mode = "Directory"
    BY <1>2, WayIsDirectories
<1> QED
    BY <1>2, <1>3, PathsUnique

(* resolve_in_synthetic finds what the overlay has.                        *)
SynMeans(ov, path, r) ==
    \/ path \in DOMAIN ov /\ r = IsSynthetic(ov[path])
    \/ r = Fails("NotFound") /\ path \notin DOMAIN ov
    \/ /\ r = Fails("NotADirectory") /\ path \notin DOMAIN ov
       /\ \E q \in DOMAIN ov : Above1(q, path) /\ ov[q].mode # "Directory"

(* One more component in the overlay,                                      *)
LEMMA SynMeansStep ==
    ASSUME NEW ov, Tidy(ov), NEW p \in Seq(Names), p # <<>>, NEW n \in Names,
           SynMeans(ov, p, ResolveInSynthetic(ov, p))
    PROVE  SynMeans(ov, Append(p, n), ResolveInSynthetic(ov, Append(p, n)))
<1> DEFINE path == Append(p, n)
           up == ResolveInSynthetic(ov, p)
           r == ResolveInSynthetic(ov, path)
<1>0. \A q \in DOMAIN ov : q \in Seq(Names)
    BY DEF Tidy
<1>1. r = SynAfter(ov, up, path)
    BY SynStep
<1>2. \A q \in DOMAIN ov : q = p \/ Above1(q, p) => Above1(q, path)
    BY <1>0, AboveAppend
<1>3. path \in DOMAIN ov => r = IsSynthetic(ov[path])
    BY TidyFinds
<1> HIDE DEF path, up, r
<1>4. \A node : IsSynthetic(node).ok
    BY DEF IsSynthetic
<1>5. \A e : ~Fails(e).ok
    BY DEF Fails
<1>6. CASE path \in DOMAIN ov
    BY <1>3, <1>6 DEF SynMeans, path, r
<1>7. CASE path \notin DOMAIN ov /\ p \in DOMAIN ov /\ up = IsSynthetic(ov[p])
    <2>1. up.ok /\ up.mode = ov[p].mode
        BY <1>7 DEF IsSynthetic
    <2>2. CASE up.mode # "Directory"
        <3>1. r = Fails("NotADirectory")
            BY <1>1, <2>1, <2>2 DEF SynAfter
        <3> QED
            BY <1>2, <1>7, <2>1, <2>2, <3>1 DEF SynMeans, path, r
    <2>3. CASE up.mode = "Directory"
        <3>1. r = Fails("NotFound")
            BY <1>1, <1>7, <2>1, <2>3 DEF SynAfter
        <3> QED
            BY <1>7, <3>1 DEF SynMeans, path, r
    <2> QED
        BY <2>2, <2>3
<1>8. CASE path \notin DOMAIN ov /\ up = Fails("NotFound")
    <2>1. r = up
        BY <1>1, <1>5, <1>8 DEF SynAfter
    <2> QED
        BY <1>8, <2>1 DEF SynMeans, path, r
<1>9. CASE /\ path \notin DOMAIN ov /\ up = Fails("NotADirectory")
           /\ \E q \in DOMAIN ov : Above1(q, p) /\ ov[q].mode # "Directory"
    <2>1. r = up
        BY <1>1, <1>5, <1>9 DEF SynAfter
    <2> QED
        BY <1>2, <1>9, <2>1 DEF SynMeans, path, r
<1> QED
    BY <1>6, <1>7, <1>8, <1>9 DEF SynMeans, up, path, r

(* and so any number of them.                                              *)
LEMMA SynRight ==
    ASSUME NEW ov, Tidy(ov), NEW path \in Seq(Names), path # <<>>, Shadows(ov, path[1])
    PROVE  SynMeans(ov, path, ResolveInSynthetic(ov, path))
<1> DEFINE Wrong(p) == ~SynMeans(ov, p, ResolveInSynthetic(ov, p))
           T == {k \in 1..Len(path) : Wrong(SubSeq(path, 1, k))}
<1>0. Len(path) \in Nat /\ SubSeq(path, 1, Len(path)) = path /\ Len(path) \in 1..Len(path) /\ 1 \in 1..Len(path)
    BY SubSeqFull
<1>1. T = {}
    <2> SUFFICES ASSUME T # {} PROVE FALSE
        OBVIOUS
    <2>1. T \in SUBSET Nat
        BY <1>0
    <2>2. PICK k \in T : \A j \in T : k <= j
        BY <2>1, LeastOf
    <2>3. k \in 1..Len(path) /\ Wrong(SubSeq(path, 1, k))
        OBVIOUS
    <2>4. k # 1
        <3>1. SubSeq(path, 1, 1) = <<path[1]>>
            <4>1. <<path[1]>> \in Seq(Names) /\ SubSeq(path, 2, 1) = <<>>
                BY <1>0
            <4>2. SubSeq(path, 1, 1) = <<path[1]>> \o SubSeq(path, 2, 1)
                BY <1>0, SubSeqRecursiveFirst
            <4> QED
                BY <4>1, <4>2, ConcatEmptySeq
        <3>2. <<path[1]>> \in DOMAIN ov
            BY DEF Shadows
        <3>3. ResolveInSynthetic(ov, <<path[1]>>) = IsSynthetic(ov[<<path[1]>>])
            BY SynRoot
        <3>4. SynMeans(ov, <<path[1]>>, ResolveInSynthetic(ov, <<path[1]>>))
            BY <3>2, <3>3, Zenon DEF SynMeans
        <3> QED
            BY <2>3, <3>1, <3>4
    <2>5. k \in 2..Len(path) /\ k - 1 \in 1..Len(path) /\ ~(k <= k - 1)
        BY <1>0, <2>3, <2>4
    <2>6. ~Wrong(SubSeq(path, 1, k - 1))
        BY <2>2, <2>5
    <2>7. /\ SubSeq(path, 1, k) = Append(SubSeq(path, 1, k - 1), path[k])
          /\ SubSeq(path, 1, k - 1) \in Seq(Names) /\ path[k] \in Names
          /\ SubSeq(path, 1, k - 1) # <<>>
        BY <2>5
    <2> QED
        BY <2>3, <2>6, <2>7, SynMeansStep
<1> HIDE DEF T, Wrong
<1> QED
    BY <1>0, <1>1 DEF T, Wrong

(* Projection::root_tree.                                                  *)
LEMMA RootRight ==
    ASSUME NEW p \in Projections, NEW rs \in [Refs -> MayShow], NEW hv,
           NEW c, c = ResolveCommit(p, rs), NEW root, root = RootTree(p, rs, hv)
    PROVE  /\ c \in MayShow
           /\ ShownBy(p, c) \subseteq DOMAIN Trees
           /\ \/ root = Fails("Store") /\ c = None
              \/ \E e : root = IsTree(e) /\ ShownBy(p, c) = {e.oid} /\ e.oid \in DOMAIN Trees
              \/ /\ root \in {Fails("InvalidPath"), Fails("NotFound"), Fails("NotADirectory")}
                 /\ c # None /\ ShownBy(p, c) = {}
              \/ root = Fails("Store") /\ p.kind = "Subtree" /\ \E o \in WayTo(RootOf[c], p.path) : o \notin hv
<1> DEFINE t == RootOf[c]
<1>0. c \in MayShow
    BY DEF Projections, ResolveCommit, MayShow
<1>00. CASE c = None
    <2>1. root = Fails("Store")
        BY <1>00 DEF RootTree
    <2>2. ShownBy(p, c) = {}
        BY <1>00 DEF ShownBy
    <2> QED
        BY <1>0, <1>00, <2>1, <2>2
<1> SUFFICES ASSUME c # None
             PROVE  /\ c \in MayShow
                    /\ ShownBy(p, c) \subseteq DOMAIN Trees
                    /\ \/ \E e : root = IsTree(e) /\ ShownBy(p, c) = {e.oid} /\ e.oid \in DOMAIN Trees
                       \/ /\ root \in {Fails("InvalidPath"), Fails("NotFound"), Fails("NotADirectory")}
                          /\ c # None /\ ShownBy(p, c) = {}
                       \/ root = Fails("Store") /\ p.kind = "Subtree" /\ \E o \in WayTo(RootOf[c], p.path) : o \notin hv
    BY <1>00
<1>1. c \in Commits /\ c \in MayShow
    BY <1>0 DEF MayShow
<1>2. t \in DOMAIN Trees
    BY <1>1, ProjectionFsAssumption
<1>3. CASE p.kind # "Subtree"
    <2>1. root = IsTree(Entry("", "Directory", t))
        BY <1>3 DEF RootTree
    <2>2. ShownBy(p, c) = {t} /\ Entry("", "Directory", t).oid = t
        BY <1>3 DEF ShownBy, Entry
    <2> QED
        BY <1>1, <1>2, <2>1, <2>2
<1>4. CASE p.kind = "Subtree"
    <2> DEFINE r == NavLookup(t, p.path, hv)
    <2>1. p.path \in Seq(Names)
        BY <1>4 DEF Projections
    <2>2. root = IF r.ok /\ ~Descends(r.mode) THEN Fails("NotADirectory") ELSE r
        BY <1>4 DEF RootTree
    <2>3. Right(t, p.path, hv, r)
        BY <1>2, <2>1, NavRight
    <2>4. ShownBy(p, c) = {x[2].oid : x \in {y \in AllPaths[t] : y[1] = p.path /\ y[2].mode = "Directory"}}
        BY <1>4 DEF ShownBy
    <2> HIDE DEF r, t
    <2>5. ShownBy(p, c) \subseteq DOMAIN Trees
        BY <1>2, <2>4, PathsWellNamed DEF WellNamed
    <2>6. \A e : ~Fails(e).ok
        BY DEF Fails
    <2>7. CASE \E x \in AllPaths[t] : x[1] = p.path /\ r = IsTree(x[2])
        <3>1. PICK x \in AllPaths[t] : x[1] = p.path /\ r = IsTree(x[2])
            BY <2>7
        <3>2. r.ok /\ r.mode = x[2].mode
            BY <3>1 DEF IsTree
        <3>3. \A y \in AllPaths[t] : y[1] = p.path => y[2] = x[2]
            BY <1>2, <3>1, PathsUnique
        <3>4. CASE x[2].mode = "Directory"
            <4>1. root = IsTree(x[2])
                BY <2>2, <3>1, <3>2, <3>4 DEF Descends
            <4>2. ShownBy(p, c) = {x[2].oid}
                BY <2>4, <3>1, <3>3, <3>4
            <4> QED
                BY <1>1, <1>2, <2>5, <4>1, <4>2 DEF t
        <3>5. CASE x[2].mode # "Directory"
            <4>1. root = Fails("NotADirectory")
                BY <2>2, <3>2, <3>5 DEF Descends
            <4>2. ShownBy(p, c) = {}
                BY <2>4, <3>3, <3>5
            <4> QED
                BY <1>1, <1>2, <4>1, <4>2 DEF t
        <3> QED
            BY <3>4, <3>5
    <2>8. CASE r \in {Fails("InvalidPath"), Fails("NotFound")} /\ \A x \in AllPaths[t] : x[1] # p.path
        <3>1. root = r
            BY <2>2, <2>6, <2>8
        <3>2. ShownBy(p, c) = {}
            BY <2>4, <2>8
        <3> QED
            BY <1>1, <1>2, <2>8, <3>1, <3>2 DEF t
    <2>9. CASE r = Fails("NotADirectory") /\ \E x \in AllPaths[t] : Above1(x[1], p.path) /\ x[2].mode # "Directory"
        <3>1. root = r
            BY <2>2, <2>6, <2>9
        <3>2. \A y \in AllPaths[t] : y[1] # p.path
            BY <1>2, <2>1, <2>9, NothingBelow
        <3>3. ShownBy(p, c) = {}
            BY <2>4, <3>2
        <3> QED
            BY <1>1, <1>2, <2>9, <3>1, <3>3 DEF t
    <2>10. CASE r = Fails("Store") /\ \E x \in AllPaths[t] : /\ Above1(x[1], p.path)
                                                            /\ x[2].mode = "Directory" /\ x[2].oid \notin hv
        <3>1. root = r
            BY <2>2, <2>6, <2>10
        <3>2. PICK x \in AllPaths[t] : Above1(x[1], p.path) /\ x[2].mode = "Directory" /\ x[2].oid \notin hv
            BY <2>10
        <3>3. x[2].oid \in WayTo(t, p.path)
            BY <3>2 DEF WayTo, Above1
        <3> QED
            BY <1>1, <1>2, <1>4, <2>5, <2>10, <3>1, <3>2, <3>3 DEF t
    <2> QED
        BY <2>3, <2>7, <2>8, <2>9, <2>10 DEF Right
<1> QED
    BY <1>3, <1>4

(* Projection::lookup finds what the mount shows at the path, and each     *)
(* error means what it says.                                               *)
LEMMA LookupRight ==
    ASSUME NEW p \in Projections, NEW rs \in [Refs -> MayShow], NEW hv, NEW ov, Tidy(ov),
           NEW path \in Seq(Names), path # <<>>, NEW c, c = ResolveCommit(p, rs)
    PROVE  Means(p, ov, c, path, hv, Lookup(p, ov, path, rs, hv))
<1> DEFINE r == Lookup(p, ov, path, rs, hv)
<1>0. path[1] \in Names /\ Len(path) \in Nat /\ Len(path) >= 1
    OBVIOUS
<1>00. \A k \in 1..Len(path) - 1 : SubSeq(path, 1, k)[1] = path[1]
    BY <1>0
<1>1. CASE Shadows(ov, path[1])
    <2>1. r = ResolveInSynthetic(ov, path)
        BY <1>1 DEF Lookup
    <2>2. SynMeans(ov, path, r)
        BY <1>1, <2>1, SynRight
    <2>3. NamedBy(p, ov, c, path) = {ov[q] : q \in {path} \cap DOMAIN ov}
        BY <1>1 DEF NamedBy
    <2>4. \A x : Resolves(ov, path, x) = IsSynthetic(x)
        BY <1>1 DEF Resolves
    <2> HIDE DEF r
    <2>5. CASE path \in DOMAIN ov /\ r = IsSynthetic(ov[path])
        <3>1. ov[path] \in NamedBy(p, ov, c, path)
            BY <2>3, <2>5
        <3> QED
            BY <2>4, <2>5, <3>1 DEF Means, r
    <2>6. CASE r = Fails("NotFound") /\ path \notin DOMAIN ov
        <3>1. NamedBy(p, ov, c, path) = {}
            BY <2>3, <2>6
        <3> QED
            BY <1>1, <2>6, <3>1 DEF Means, r
    <2>7. CASE /\ r = Fails("NotADirectory") /\ path \notin DOMAIN ov
               /\ \E q \in DOMAIN ov : Above1(q, path) /\ ov[q].mode # "Directory"
        <3>1. NamedBy(p, ov, c, path) = {}
            BY <2>3, <2>7
        <3>2. PICK q \in DOMAIN ov : Above1(q, path) /\ ov[q].mode # "Directory"
            BY <2>7
        <3>3. q \in Seq(Names) /\ q # <<>>
            BY DEF Tidy
        <3>4. Len(q) \in 1..Len(path) - 1 /\ SubSeq(path, 1, Len(q)) = q
            <4>1. Len(q) \in 0..Len(path) - 1 /\ SubSeq(path, 1, Len(q)) = q
                BY <3>2, <3>3, AboveIs
            <4> QED
                BY <1>0, <3>3, <4>1
        <3>5. Shadows(ov, q[1])
            BY <1>00, <1>1, <3>4
        <3>6. ov[q] \in NamedBy(p, ov, c, SubSeq(path, 1, Len(q)))
            BY <3>4, <3>5 DEF NamedBy
        <3> QED
            BY <2>7, <3>1, <3>2, <3>4, <3>6 DEF Means, r
    <2> QED
        BY <2>2, <2>5, <2>6, <2>7 DEF SynMeans
<1>2. CASE ~Shadows(ov, path[1])
    <2> DEFINE root == RootTree(p, rs, hv)
    <2>1. r = IF root.ok THEN NavLookup(root.oid, path, hv) ELSE root
        BY <1>2 DEF Lookup
    <2>2. NamedBy(p, ov, c, path) = TreeBy(p, c, path)
        BY <1>2 DEF NamedBy
    <2>3. \A x : Resolves(ov, path, x) = IsTree(x)
        BY <1>2 DEF Resolves
    <2>4. \A k \in 1..Len(path) - 1 : NamedBy(p, ov, c, SubSeq(path, 1, k)) = TreeBy(p, c, SubSeq(path, 1, k))
        BY <1>00, <1>2 DEF NamedBy
    <2>5. \/ root = Fails("Store") /\ c = None
          \/ \E e : root = IsTree(e) /\ ShownBy(p, c) = {e.oid} /\ e.oid \in DOMAIN Trees
          \/ /\ root \in {Fails("InvalidPath"), Fails("NotFound"), Fails("NotADirectory")}
             /\ c # None /\ ShownBy(p, c) = {}
          \/ root = Fails("Store") /\ p.kind = "Subtree" /\ \E o \in WayTo(RootOf[c], p.path) : o \notin hv
        BY RootRight
    <2> HIDE DEF root, r
    <2>6. \A e : ~Fails(e).ok
        BY DEF Fails
    <2>60. CASE root = Fails("Store") /\ c = None
        <3>1. r = root
            BY <2>1, <2>6, <2>60
        <3> QED
            BY <1>2, <2>60, <3>1 DEF Means, r
    <2>7. CASE /\ root \in {Fails("InvalidPath"), Fails("NotFound"), Fails("NotADirectory")}
               /\ c # None /\ ShownBy(p, c) = {}
        <3>1. r = root
            BY <2>1, <2>6, <2>7
        <3>2. NamedBy(p, ov, c, path) = {}
            BY <2>2, <2>7 DEF TreeBy
        <3> QED
            BY <2>7, <3>1, <3>2 DEF Means, r
    <2>8. CASE root = Fails("Store") /\ p.kind = "Subtree" /\ \E o \in WayTo(RootOf[c], p.path) : o \notin hv
        <3>1. r = root
            BY <2>1, <2>6, <2>8
        <3>2. \E o \in WayBy(p, c, path) : o \notin hv
            <4>1. PICK o \in WayTo(RootOf[c], p.path) : o \notin hv
                BY <2>8
            <4>2. p.kind = "Subtree"
                BY <2>8
            <4>3. DownBy(p, c) = WayTo(RootOf[c], p.path)
                BY <4>2 DEF DownBy
            <4>4. DownBy(p, c) \subseteq WayBy(p, c, path)
                BY Zenon DEF WayBy
            <4> QED
                BY <4>1, <4>3, <4>4
        <3> QED
            BY <1>2, <2>8, <3>1, <3>2 DEF Means, r
    <2>9. CASE \E e : root = IsTree(e) /\ ShownBy(p, c) = {e.oid} /\ e.oid \in DOMAIN Trees
        <3>1. PICK e : root = IsTree(e) /\ ShownBy(p, c) = {e.oid} /\ e.oid \in DOMAIN Trees
            BY <2>9
        <3> DEFINE t == e.oid
        <3>2. r = NavLookup(t, path, hv)
            BY <2>1, <3>1 DEF IsTree
        <3>3. Right(t, path, hv, r)
            BY <3>1, <3>2, NavRight
        <3>4. \A q : TreeBy(p, c, q) = {x[2] : x \in {y \in AllPaths[t] : y[1] = q}}
            BY <3>1 DEF TreeBy
        <3>5. t \in DOMAIN Trees /\ ShownBy(p, c) = {t}
            BY <3>1
        <3> HIDE DEF t
        <3>6. CASE \E x \in AllPaths[t] : x[1] = path /\ r = IsTree(x[2])
            <4>1. PICK x \in AllPaths[t] : x[1] = path /\ r = IsTree(x[2])
                BY <3>6
            <4>2. x[2] \in NamedBy(p, ov, c, path)
                BY <2>2, <3>4, <4>1
            <4> QED
                BY <2>3, <4>1, <4>2 DEF Means, r
        <3>7. CASE r \in {Fails("InvalidPath"), Fails("NotFound")} /\ \A x \in AllPaths[t] : x[1] # path
            <4>1. NamedBy(p, ov, c, path) = {}
                BY <2>2, <3>4, <3>7
            <4>2. c # None
                BY <3>5 DEF ShownBy
            <4> QED
                BY <3>7, <4>1, <4>2 DEF Means, r
        <3>8. CASE r = Fails("NotADirectory") /\ \E x \in AllPaths[t] : Above1(x[1], path) /\ x[2].mode # "Directory"
            <4>1. PICK x \in AllPaths[t] : Above1(x[1], path) /\ x[2].mode # "Directory"
                BY <3>8
            <4>2. NamedBy(p, ov, c, path) = {}
                <5>1. \A y \in AllPaths[t] : y[1] # path
                    BY <3>5, <4>1, NothingBelow
                <5> QED
                    BY <2>2, <3>4, <5>1
            <4>3. x[1] \in Seq(Names)
                BY <3>5, PathsWellNamed DEF WellNamed
            <4>4. x[1] # <<>>
                <5>1. RootAt(t) \in AllPaths[t] /\ RootAt(t)[1] = <<>> /\ RootAt(t)[2].mode = "Directory"
                    BY <3>5, RootListed
                <5> QED
                    BY <3>5, <4>1, <5>1, PathsUnique
            <4>5. Len(x[1]) \in 1..Len(path) - 1 /\ SubSeq(path, 1, Len(x[1])) = x[1]
                <5>1. Len(x[1]) \in 0..Len(path) - 1 /\ SubSeq(path, 1, Len(x[1])) = x[1]
                    BY <4>1, <4>3, AboveIs
                <5> QED
                    BY <1>0, <4>3, <4>4, <5>1
            <4>6. x[2] \in NamedBy(p, ov, c, SubSeq(path, 1, Len(x[1])))
                <5>1. x[2] \in TreeBy(p, c, x[1])
                    BY <3>4
                <5>2. NamedBy(p, ov, c, SubSeq(path, 1, Len(x[1]))) = TreeBy(p, c, SubSeq(path, 1, Len(x[1])))
                    BY <2>4, <4>5
                <5> QED
                    BY <4>5, <5>1, <5>2
            <4> QED
                BY <3>8, <4>1, <4>2, <4>5, <4>6 DEF Means, r
        <3>9. CASE r = Fails("Store") /\ \E x \in AllPaths[t] : /\ Above1(x[1], path)
                                                               /\ x[2].mode = "Directory" /\ x[2].oid \notin hv
            <4>1. PICK x \in AllPaths[t] : Above1(x[1], path) /\ x[2].mode = "Directory" /\ x[2].oid \notin hv
                BY <3>9
            <4>2. x[2].oid \in WayTo(t, path)
                BY <4>1 DEF WayTo, Above1
            <4>3. x[2].oid \in WayBy(p, c, path)
                BY <3>5, <4>2 DEF WayBy
            <4> QED
                BY <1>2, <3>9, <4>1, <4>3 DEF Means, r
        <3> QED
            BY <3>3, <3>6, <3>7, <3>8, <3>9 DEF Right
    <2> QED
        BY <2>5, <2>60, <2>7, <2>8, <2>9
<1> QED
    BY <1>1, <1>2

-----------------------------------------------------------------------------
(* Providers.  A provider is built from a projection, an overlay and a     *)
(* time stamp that were made before it, and from then on they stay.        *)

\* Specs whose mount is to show one commit for ever.
Pinned(s) == s.subtree # <<>> \/ s.base \in Commits

ProjectionsMade == \A m \in DOMAIN proj : /\ m \in DOMAIN Specs /\ proj[m] \in Projections
                                          /\ Pinned(Specs[m]) => proj[m].kind # "Ref"
StoreGrows == refs \in [Refs -> MayShow] /\ Local \subseteq have
Prepared ==
    /\ DOMAIN attrs \subseteq DOMAIN proj /\ DOMAIN attrs \subseteq DOMAIN overlay /\ DOMAIN attrs \subseteq DOMAIN stamp
    /\ stage \in {"overlay", "index", "provider"} => turn \in DOMAIN proj
    /\ stage = "provider" => turn \in DOMAIN overlay
ProviderInv == MountInv /\ DotgitBuilt /\ StoreGrows /\ ProjectionsMade /\ Prepared

\* A provider that exists keeps what it was made of, and every snapshot it published.
Kept ==
    \A m \in DOMAIN attrs :
        /\ m \in DOMAIN attrs' /\ proj'[m] = proj[m] /\ overlay'[m] = overlay[m] /\ stamp'[m] = stamp[m]
        /\ \A i \in DOMAIN attrs[m] : i \in DOMAIN attrs'[m] /\ attrs'[m][i] = attrs[m][i]

(* What publish does to the tables.                                        *)
LEMMA PublishIs ==
    ASSUME NEW m, m \in DOMAIN attrs, NEW i, NEW snap, Publish(m, i, snap)
    PROVE  /\ DOMAIN attrs' = DOMAIN attrs
           /\ DOMAIN attrs'[m] = DOMAIN attrs[m] \cup {i}
           /\ \A j \in DOMAIN attrs'[m] : attrs'[m][j] = IF j \in DOMAIN attrs[m] THEN attrs[m][j] ELSE snap
           /\ \A k \in DOMAIN attrs : k # m => attrs'[k] = attrs[k]
    BY DEF Publish

(* The specs are records.                                                  *)
LEMMA SpecIs ==
    ASSUME plan \in Plans, NEW k \in DOMAIN Specs
    PROVE  Specs[k].base \in Refs \cup Commits /\ Specs[k].subtree \in Seq(Names)
<1> DEFINE R == [base : Refs \cup Commits, subtree : Seq(Names), dotgit : BOOLEAN, at : DOMAIN Canon]
<1>1. Specs \in Seq(R)
    BY MountCliAssumption DEF Specs
<1>2. Specs[k] \in R
    <2> HIDE DEF R
    <2> QED
        BY <1>1
<1> QED
    BY <1>2

(* build_projection makes a projection, and pins what should be pinned.    *)
LEMMA ProjectionIs ==
    ASSUME MountInv, StoreGrows, ~Unresolvable(Current)
    PROVE  /\ ProjectionFor(Current) \in Projections
           /\ Pinned(Current) => ProjectionFor(Current).kind # "Ref"
<1> DEFINE s == Current
           commit == IF s.base \in Refs THEN refs[s.base] ELSE s.base
<1>1. s.base \in Refs \cup Commits /\ s.subtree \in Seq(Names)
    BY SpecIs DEF MountInv, InOrder, Current
<1>2. s.subtree # <<>> => commit \in Commits
    BY <1>1 DEF StoreGrows, Unresolvable, MayShow
<1> HIDE DEF s
<1>3. CASE s.subtree # <<>>
    <2>1. ProjectionFor(s) = [kind |-> "Subtree", commit |-> commit, path |-> s.subtree]
        BY <1>3 DEF ProjectionFor
    <2> HIDE DEF commit
    <2>2. [kind |-> "Subtree", commit |-> commit, path |-> s.subtree] \in Projections
        BY <1>1, <1>2, <1>3 DEF Projections
    <2>3. [kind |-> "Subtree", commit |-> commit, path |-> s.subtree].kind # "Ref"
        OBVIOUS
    <2> QED
        BY <2>1, <2>2, <2>3 DEF s
<1>4. CASE s.subtree = <<>> /\ s.base \in Refs
    <2>1. ProjectionFor(s) = [kind |-> "Ref", ref |-> s.base]
        BY <1>4 DEF ProjectionFor
    <2>2. ~Pinned(s)
        BY <1>4, MountCliAssumption DEF Pinned
    <2>3. [kind |-> "Ref", ref |-> s.base] \in Projections
        BY <1>4 DEF Projections
    <2> QED
        BY <2>1, <2>2, <2>3 DEF s
<1>5. CASE s.subtree = <<>> /\ s.base \notin Refs
    <2>1. ProjectionFor(s) = [kind |-> "Commit", commit |-> s.base]
        BY <1>5 DEF ProjectionFor
    <2>2. [kind |-> "Commit", commit |-> s.base] \in Projections
        BY <1>1, <1>5 DEF Projections
    <2>3. [kind |-> "Commit", commit |-> s.base].kind # "Ref"
        OBVIOUS
    <2> QED
        BY <2>1, <2>2, <2>3 DEF s
<1> QED
    BY <1>3, <1>4, <1>5

(* At the start there are no providers.                                    *)
LEMMA InitProvider == Init => ProviderInv
<1> SUFFICES ASSUME Init PROVE ProviderInv
    OBVIOUS
<1>1. MountInv
    BY InitInv
<1>2. DOMAIN proj = {} /\ DOMAIN overlay = {} /\ DOMAIN attrs = {} /\ stage = "args" /\ refs = Tip /\ have = Local
    BY DEF Init
<1>3. StoreGrows
    BY <1>2, MountCliAssumption DEF StoreGrows, MayShow
<1> QED
    BY <1>1, <1>2, <1>3 DEF ProviderInv, DotgitBuilt, ProjectionsMade, Prepared

(* The steps of the client and of the rest of the world: tables and the    *)
(* store grow, refs move to commits or go.                                 *)
\* Nothing was built in this step, and the stage is no longer one that has prepared something.
NothingBuilt ==
    /\ UNCHANGED <<plan, proj, overlay, stamp>>
    /\ DOMAIN attrs' = DOMAIN attrs
    /\ \A m \in DOMAIN attrs : \A i \in DOMAIN attrs[m] : i \in DOMAIN attrs'[m] /\ attrs'[m][i] = attrs[m][i]
    /\ \/ UNCHANGED <<stage, turn>>
       \/ stage' \notin {"overlay", "index", "provider"}
       \/ stage = "overlay" /\ stage' = "index" /\ UNCHANGED turn

(* A step that builds nothing keeps what there is.                         *)
LEMMA NothingBuiltKeeps ==
    ASSUME ProviderInv, NothingBuilt
    PROVE  ProjectionsMade' /\ Prepared' /\ Kept
<1>1. ProjectionsMade'
    BY DEF ProviderInv, ProjectionsMade, NothingBuilt, Specs
<1>2. Prepared'
    BY DEF ProviderInv, Prepared, NothingBuilt
<1>3. Kept
    BY DEF NothingBuilt, Kept
<1> QED
    BY <1>1, <1>2, <1>3

(* The client builds nothing and takes no object away.                     *)
LEMMA ClientGrows ==
    ASSUME ProviderInv, Client
    PROVE  NothingBuilt /\ StoreGrows'
<1> USE DEF provider, client, store, cli
<1>1. UNCHANGED <<plan, stage, turn>> /\ mounted \subseteq DOMAIN attrs
    BY DEF Client, ProviderInv, MountInv, MountsAreBuilt
<1>2. ASSUME UNCHANGED <<proj, overlay, stamp, attrs, refs>>, have \subseteq have'
      PROVE  NothingBuilt /\ StoreGrows'
    BY <1>1, <1>2 DEF NothingBuilt, ProviderInv, StoreGrows
<1>3. ASSUME NEW m \in mounted, NEW n, NEW p, LookupAnswers(m, p, n) PROVE NothingBuilt /\ StoreGrows'
    <2>1. UNCHANGED <<proj, overlay, stamp, refs>> /\ have \subseteq have'
        BY <1>3 DEF LookupAnswers
    <2>2. PICK i, snap : Publish(m, i, snap)
        BY <1>3 DEF LookupAnswers
    <2>3. /\ DOMAIN attrs' = DOMAIN attrs
          /\ DOMAIN attrs'[m] = DOMAIN attrs[m] \cup {i}
          /\ \A j \in DOMAIN attrs'[m] : attrs'[m][j] = IF j \in DOMAIN attrs[m] THEN attrs[m][j] ELSE snap
          /\ \A k \in DOMAIN attrs : k # m => attrs'[k] = attrs[k]
        BY <1>1, <1>3, <2>2, PublishIs
    <2>4. \A k \in DOMAIN attrs : \A j \in DOMAIN attrs[k] : j \in DOMAIN attrs'[k] /\ attrs'[k][j] = attrs[k][j]
        BY <2>3
    <2> QED
        BY <1>1, <2>1, <2>3, <2>4 DEF NothingBuilt, ProviderInv, StoreGrows
<1>4. ASSUME NEW m, NEW n, NEW p, LookupFails(m, p, n) PROVE NothingBuilt /\ StoreGrows'
    BY <1>2, <1>4 DEF LookupFails
<1>5. ASSUME NEW r, Open(r) PROVE NothingBuilt /\ StoreGrows'
    BY <1>2, <1>5 DEF Open
<1>6. ASSUME NEW k, Read(k) PROVE NothingBuilt /\ StoreGrows'
    <2>1. UNCHANGED <<proj, overlay, stamp, attrs, refs>>
        BY <1>6 DEF Read
    <2>2. have \subseteq have'
        BY <1>6 DEF Read
    <2> QED
        BY <1>2, <2>1, <2>2
<1>7. ASSUME NEW m, NEW i, OpenDir(m, i) PROVE NothingBuilt /\ StoreGrows'
    BY <1>2, <1>7 DEF OpenDir
<1>8. ReadLink => NothingBuilt /\ StoreGrows'
    BY <1>2 DEF ReadLink
<1>9. ReadFails => NothingBuilt /\ StoreGrows'
    BY <1>2 DEF ReadFails
<1>10. ReadDirReplies => NothingBuilt /\ StoreGrows'
    BY <1>2 DEF ReadDirReplies
<1>11. ReadDirFails => NothingBuilt /\ StoreGrows'
    BY <1>2 DEF ReadDirFails
<1>12. \/ \E m \in mounted : \E n, p : LookupFails(m, p, n) \/ LookupAnswers(m, p, n)
       \/ \E r : Open(r)
       \/ \E k : Read(k)
       \/ \E m, i : OpenDir(m, i)
       \/ ReadLink \/ ReadFails \/ ReadDirReplies \/ ReadDirFails
    BY DEF Client
<1> QED
    BY <1>3, <1>4, <1>5, <1>6, <1>7, <1>8, <1>9, <1>10, <1>11, <1>12

(* The steps that build: each adds to what only the current spec has, and  *)
(* the current spec has no provider yet.                                   *)
LEMMA BuildKeeps ==
    ASSUME ProviderInv, BuildProjection \/ SkipOverlay \/ BuildOverlay \/ NewProvider
    PROVE  ProjectionsMade' /\ Prepared' /\ Kept
<1> USE DEF provider, client, store, Goes
<1>1. turn \notin DOMAIN attrs
    <2>1. stage \in Building
        BY DEF BuildProjection, SkipOverlay, BuildOverlay, NewProvider, Building
    <2> QED
        BY <2>1, SpecsAreSequence DEF ProviderInv, MountInv, InOrder
<1>2. UNCHANGED <<plan, turn>>
    BY DEF BuildProjection, SkipOverlay, BuildOverlay, NewProvider
<1>3. turn \in DOMAIN Specs
    BY DEF ProviderInv, MountInv, InOrder
<1>30. ASSUME stage' = "failing", UNCHANGED <<proj, overlay, stamp, attrs>>
       PROVE  ProjectionsMade' /\ Prepared' /\ Kept
    BY <1>2, <1>30, NothingBuiltKeeps DEF NothingBuilt
<1>4. CASE BuildProjection
    <2>0. CASE Unresolvable(Current)
        BY <1>4, <1>30, <2>0 DEF BuildProjection
    <2> SUFFICES ASSUME ~Unresolvable(Current) PROVE ProjectionsMade' /\ Prepared' /\ Kept
        BY <2>0
    <2>1. /\ stage' = "overlay" /\ UNCHANGED <<overlay, stamp, attrs>>
          /\ proj' = Extend(proj, turn, ProjectionFor(Current))
        BY <1>4 DEF BuildProjection
    <2>2. /\ DOMAIN proj' = DOMAIN proj \cup {turn}
          /\ proj'[turn] = ProjectionFor(Current)
          /\ \A k \in DOMAIN proj : k # turn => proj'[k] = proj[k]
        BY <2>1 DEF Extend
    <2>3. ProjectionsMade'
        BY <1>2, <1>3, <2>2, ProjectionIs DEF ProviderInv, ProjectionsMade, Specs, Current
    <2>4. Prepared'
        BY <1>2, <2>1, <2>2 DEF ProviderInv, Prepared
    <2>5. Kept
        BY <1>1, <2>1, <2>2 DEF ProviderInv, Prepared, Kept
    <2> QED
        BY <2>3, <2>4, <2>5
<1>5. CASE SkipOverlay \/ BuildOverlay
    <2>1. /\ stage' \in {"provider", "failing"} /\ UNCHANGED <<proj, stamp, attrs>>
          /\ stage \in {"overlay", "index"}
          /\ \/ \E v : overlay' = Extend(overlay, turn, v)
             \/ stage' = "failing" /\ overlay' = overlay
        BY <1>5 DEF SkipOverlay, BuildOverlay
    <2>2. /\ \/ DOMAIN overlay' = DOMAIN overlay \cup {turn}
             \/ stage' = "failing" /\ overlay' = overlay
          /\ \A k \in DOMAIN overlay : k # turn => overlay'[k] = overlay[k]
        <3>1. CASE overlay' = overlay /\ stage' = "failing"
            BY <3>1
        <3>2. CASE \E v : overlay' = Extend(overlay, turn, v)
            <4>1. PICK v : overlay' = Extend(overlay, turn, v)
                BY <3>2
            <4>2. DOMAIN overlay' = DOMAIN overlay \cup {turn}
                BY <4>1 DEF Extend
            <4>3. \A k \in DOMAIN overlay : k # turn => overlay'[k] = overlay[k]
                BY <4>1 DEF Extend
            <4> QED
                BY <4>2, <4>3
        <3> QED
            BY <2>1, <3>1, <3>2
    <2>3. ProjectionsMade'
        BY <1>2, <2>1 DEF ProviderInv, ProjectionsMade, Specs
    <2>4. Prepared'
        BY <1>2, <2>1, <2>2 DEF ProviderInv, Prepared
    <2>5. Kept
        BY <1>1, <2>1, <2>2 DEF ProviderInv, Prepared, Kept
    <2> QED
        BY <2>3, <2>4, <2>5
<1>6. CASE NewProvider
    <2>0. CASE ResolveCommit(proj[turn], refs) = None
        BY <1>6, <1>30, <2>0 DEF NewProvider
    <2> SUFFICES ASSUME ResolveCommit(proj[turn], refs) # None PROVE ProjectionsMade' /\ Prepared' /\ Kept
        BY <2>0
    <2>1. /\ stage = "provider" /\ stage' = "mount" /\ UNCHANGED <<proj, overlay>>
          /\ stamp' = Extend(stamp, turn, ResolveCommit(proj[turn], refs))
          /\ attrs' = Extend(attrs, turn, [i \in {RootInode} |-> RootSnapshot])
        BY <1>6 DEF NewProvider
    <2>2. /\ DOMAIN attrs' = DOMAIN attrs \cup {turn}
          /\ \A k \in DOMAIN attrs : k # turn => attrs'[k] = attrs[k]
        BY <2>1 DEF Extend
    <2>3. ProjectionsMade'
        BY <1>2, <2>1 DEF ProviderInv, ProjectionsMade, Specs
    <2>4. Prepared'
        <3>1. DOMAIN stamp' = DOMAIN stamp \cup {turn}
            BY <2>1 DEF Extend
        <3> QED
            BY <1>2, <2>1, <2>2, <3>1 DEF ProviderInv, Prepared
    <2>5. \A k \in DOMAIN stamp : k # turn => stamp'[k] = stamp[k]
        BY <2>1 DEF Extend
    <2>6. Kept
        BY <1>1, <2>1, <2>2, <2>5 DEF ProviderInv, Prepared, Kept
    <2> QED
        BY <2>3, <2>4, <2>6
<1> QED
    BY <1>4, <1>5, <1>6

(* Providers last, and so do their tables.                                 *)
LEMMA NextProvider ==
    ASSUME ProviderInv, [Next]_vars
    PROVE  ProviderInv' /\ Kept
<1> USE DEF provider, client, store, cli, Goes
<1>1. MountInv' /\ DotgitBuilt'
    BY NextInv, DotgitStep DEF ProviderInv
<1>2. ASSUME NothingBuilt, StoreGrows' PROVE ProviderInv' /\ Kept
    BY <1>1, <1>2, NothingBuiltKeeps DEF ProviderInv
<1>3. ASSUME UNCHANGED <<plan, proj, overlay, stamp, attrs, refs, have>>,
             \/ UNCHANGED <<stage, turn>>
             \/ stage' \notin {"overlay", "index", "provider"}
             \/ stage = "overlay" /\ stage' = "index" /\ UNCHANGED turn
      PROVE  ProviderInv' /\ Kept
    BY <1>2, <1>3 DEF NothingBuilt, ProviderInv, StoreGrows
<1>4. CASE UNCHANGED vars
    BY <1>3, <1>4 DEF vars
<1>5. CASE BuildProjection \/ SkipOverlay \/ BuildOverlay \/ NewProvider
    <2>1. UNCHANGED <<refs, have>>
        BY <1>5 DEF BuildProjection, SkipOverlay, BuildOverlay, NewProvider
    <2>2. StoreGrows'
        BY <2>1 DEF ProviderInv, StoreGrows
    <2> QED
        BY <1>1, <1>5, <2>2, BuildKeeps DEF ProviderInv
<1>6. CASE CheckArgs
    BY <1>3, <1>6 DEF CheckArgs
<1>7. CASE OpenSource \/ PinCommit \/ InstallHandler \/ Unpark \/ Exit \/ StepFails \/ CtrlC
    BY <1>3, <1>7 DEF OpenSource, PinCommit, InstallHandler, Unpark, Exit, StepFails, CtrlC
<1>8. CASE MountBackground
    BY <1>3, <1>8 DEF MountBackground
<1>9. CASE Killed
    BY <1>3, <1>9 DEF Killed
<1>10. ASSUME DropSession PROVE ProviderInv' /\ Kept
    BY <1>3, <1>10 DEF DropSession
<1>11. CASE Client
    BY <1>2, <1>11, ClientGrows
<1>12. ASSUME UNCHANGED cli, NEW r \in Refs, NEW c \in Commits, MoveRef(r, c) PROVE ProviderInv' /\ Kept
    <2>1. StoreGrows'
        BY <1>12 DEF MoveRef, ProviderInv, StoreGrows, MayShow
    <2>2. NothingBuilt
        BY <1>12 DEF MoveRef, NothingBuilt
    <2> QED
        BY <1>2, <2>1, <2>2
<1>120. ASSUME UNCHANGED cli, NEW r \in Refs, DeleteRef(r) PROVE ProviderInv' /\ Kept
    <2>1. StoreGrows'
        BY <1>120 DEF DeleteRef, ProviderInv, StoreGrows, MayShow
    <2>2. NothingBuilt
        BY <1>120 DEF DeleteRef, NothingBuilt
    <2> QED
        BY <1>2, <2>1, <2>2
<1>13. ASSUME UNCHANGED cli, NEW o, Arrives(o) PROVE ProviderInv' /\ Kept
    <2>1. StoreGrows'
        BY <1>13 DEF Arrives, ProviderInv, StoreGrows
    <2>2. NothingBuilt
        BY <1>13 DEF Arrives, NothingBuilt
    <2> QED
        BY <1>2, <2>1, <2>2
<1>14. CASE Main
    BY <1>5, <1>6, <1>7, <1>8, <1>10, <1>14 DEF Main
<1>15. CASE Environment
    BY <1>7, <1>9, <1>12, <1>120, <1>13, <1>15 DEF Environment
<1> QED
    BY <1>4, <1>11, <1>14, <1>15 DEF Next

(* What a provider is made of.                                             *)
LEMMA OverlayTidy ==
    ASSUME ProviderInv, NEW m \in DOMAIN attrs
    PROVE  Tidy(overlay[m]) /\ proj[m] \in Projections /\ refs \in [Refs -> MayShow] /\ Local \subseteq have
<1>1. IsDotgit(overlay[m])
    BY DEF ProviderInv, Prepared, DotgitBuilt
<1>2. Tidy(NoOverlay)
    BY DEF NoOverlay, Tidy
<1>3. \A c : Tidy(A1PlusOverlay(c))
    BY A1PlusIs, Zenon
<1>4. \A c : \A b \in DOMAIN BranchPath : Tidy(A2Overlay(A1PlusOverlay(c), b, c))
    BY A2Is, Zenon DEF Symbolic
<1> QED
    BY <1>1, <1>2, <1>3, <1>4 DEF IsDotgit, ProviderInv, Prepared, ProjectionsMade, StoreGrows

-----------------------------------------------------------------------------
(* Replies.  What a mount answers, as functions of what its provider was   *)
(* made of and of its inode table.                                         *)

AttrBy(st, i, s) ==
    LET A(type, size, perm) == [ok |-> TRUE, inode |-> i, type |-> type, size |-> size, perm |-> perm, mtime |-> st]
    IN CASE s.is \in {"Root", "TreeDir", "Gitlink", "SyntheticDir"} -> A("Directory", 0, "rwx")
         [] s.is = "TreeFile" -> A("RegularFile", s.size, s.perm)
         [] s.is = "TreeSymlink" -> A("Symlink", s.size, "rwx")
         [] s.is = "SyntheticFile" -> A("RegularFile", Len(s.content), s.perm)
PathBy(table, p) ==
    CASE p = RootInode -> [ok |-> TRUE, path |-> <<>>]
      [] p # RootInode /\ p \notin DOMAIN table -> Fails("NotFound")
      [] OTHER -> LET s == table[p] IN
                  CASE s.is \in {"TreeDir", "SyntheticDir"} -> [ok |-> TRUE, path |-> s.path]
                    [] s.is = "Gitlink" -> Fails("NotFound")
                    [] OTHER -> Fails("NotADirectory")

(* The attributes and the parent path, from what they depend on.           *)
LEMMA AttrIs == ASSUME NEW m, NEW i, NEW s PROVE AttrOf(m, i, s) = AttrBy(stamp[m], i, s)
    BY Zenon DEF AttrOf, AttrBy, DirAttr, Attr

LEMMA ParentIs == ASSUME NEW m, NEW p PROVE ParentPath(m, p) = PathBy(attrs[m], p)
    BY Zenon DEF ParentPath, PathBy

\* The answer for a path that names x.
Shows(ov, st, m, path, x) ==
    LET r == Resolves(ov, path, x) IN AttrBy(st, InodeFor(m, r, path), SnapshotFor(r, path))

\* What each answer a of a lookup of the path means.
Denotes(p, ov, st, m, c, path, a) ==
    \/ \E x \in NamedBy(p, ov, c, path) : a = Shows(ov, st, m, path, x)
    \/ a = Errno("NotFound") /\ NamedBy(p, ov, c, path) = {} /\ (Shadows(ov, path[1]) \/ c # None)
    \/ /\ a = Errno("NotADirectory") /\ NamedBy(p, ov, c, path) = {}
       /\ \/ c # None /\ ShownBy(p, c) = {}
          \/ \E k \in 1..Len(path) - 1 : \E x \in NamedBy(p, ov, c, SubSeq(path, 1, k)) : x.mode # "Directory"
    \/ /\ a = Errno("Store") /\ ~Shadows(ov, path[1])
       /\ c = None \/ \E o \in WayBy(p, c, path) : o \notin Local

\* What a published snapshot of a directory refers to.
SnapshotRight(ov, s) ==
    /\ s.is \in SnapshotKinds
    /\ s.is = "TreeDir" => /\ s.path \in Seq(Names) /\ s.path # <<>> /\ ~Shadows(ov, s.path[1])
                           /\ s.oid \in DOMAIN Trees
    /\ s.is = "SyntheticDir" => s.path \in DOMAIN ov

\* A reply of a mount with projection p, overlay ov, time stamp st and inode table table.
ReplyRight(r, p, ov, st, table) ==
    /\ r.parent = RootInode \/ r.parent \in DOMAIN table
    /\ r.name \in Names
    /\ r.commit \in MayShow /\ (p.kind # "Ref" => r.commit = p.commit)
    /\ r.answer.ok => r.answer.inode \in DOMAIN table
    /\ PathBy(table, r.parent).ok =>
         /\ PathBy(table, r.parent).path \in Seq(Names)
         /\ r.path = JoinPath(PathBy(table, r.parent).path, r.name)
         /\ Denotes(p, ov, st, r.mount, r.commit, r.path, r.answer)
    /\ ~PathBy(table, r.parent).ok => r.path = None /\ ~r.answer.ok

SnapshotsRight == \A m \in DOMAIN attrs : \A i \in DOMAIN attrs[m] : SnapshotRight(overlay[m], attrs[m][i])
RepliesRight ==
    \A r \in replies : /\ r.mount \in DOMAIN attrs
                       /\ ReplyRight(r, proj[r.mount], overlay[r.mount], stamp[r.mount], attrs[r.mount])
ReplyInv == ProviderInv /\ SnapshotsRight /\ RepliesRight

(* A reply stays right when the inode table grows.                         *)
LEMMA ReplyStays ==
    ASSUME NEW r, NEW p, NEW ov, NEW st, NEW f, NEW g, ReplyRight(r, p, ov, st, f),
           \A i \in DOMAIN f : i \in DOMAIN g /\ g[i] = f[i]
    PROVE  ReplyRight(r, p, ov, st, g)
<1>1. PathBy(g, r.parent) = PathBy(f, r.parent)
    <2>1. CASE r.parent = RootInode
        BY <2>1 DEF PathBy
    <2>2. CASE r.parent # RootInode
        <3>1. r.parent \in DOMAIN f /\ r.parent \in DOMAIN g /\ g[r.parent] = f[r.parent]
            BY <2>2 DEF ReplyRight
        <3> QED
            BY <2>2, <3>1 DEF PathBy
    <2> QED
        BY <2>1, <2>2
<1> QED
    BY <1>1 DEF ReplyRight

(* What a step has to show of the snapshots and the replies it adds.       *)
LEMMA ReplyFrame ==
    ASSUME SnapshotsRight, RepliesRight, Kept,
           \A m \in DOMAIN attrs' : \A i \in DOMAIN attrs'[m] :
              (m \in DOMAIN attrs /\ i \in DOMAIN attrs[m]) \/ SnapshotRight(overlay'[m], attrs'[m][i]),
           \A r \in replies' :
              r \in replies \/ /\ r.mount \in DOMAIN attrs'
                               /\ ReplyRight(r, proj'[r.mount], overlay'[r.mount], stamp'[r.mount], attrs'[r.mount])
    PROVE  SnapshotsRight' /\ RepliesRight'
<1>1. ASSUME NEW m \in DOMAIN attrs', NEW i \in DOMAIN attrs'[m]
      PROVE  SnapshotRight(overlay'[m], attrs'[m][i])
    <2>1. CASE m \in DOMAIN attrs /\ i \in DOMAIN attrs[m]
        <3>1. overlay'[m] = overlay[m] /\ attrs'[m][i] = attrs[m][i]
            BY <2>1 DEF Kept
        <3> QED
            BY <2>1, <3>1 DEF SnapshotsRight
    <2> QED
        BY <1>1, <2>1
<1>2. ASSUME NEW r \in replies'
      PROVE  /\ r.mount \in DOMAIN attrs'
             /\ ReplyRight(r, proj'[r.mount], overlay'[r.mount], stamp'[r.mount], attrs'[r.mount])
    <2>1. CASE r \in replies
        <3> DEFINE m == r.mount
        <3>1. m \in DOMAIN attrs /\ ReplyRight(r, proj[m], overlay[m], stamp[m], attrs[m])
            BY <2>1 DEF RepliesRight
        <3> HIDE DEF m
        <3>2. /\ m \in DOMAIN attrs' /\ proj'[m] = proj[m] /\ overlay'[m] = overlay[m] /\ stamp'[m] = stamp[m]
              /\ \A i \in DOMAIN attrs[m] : i \in DOMAIN attrs'[m] /\ attrs'[m][i] = attrs[m][i]
            BY <3>1 DEF Kept
        <3>3. ReplyRight(r, proj[m], overlay[m], stamp[m], attrs'[m])
            BY <3>1, <3>2, ReplyStays
        <3> QED
            BY <3>2, <3>3 DEF m
    <2> QED
        BY <1>2, <2>1
<1> QED
    BY <1>1, <1>2 DEF SnapshotsRight, RepliesRight

(* The inodes a client may name, and the path of their directories.        *)
LEMMA KnownParent ==
    ASSUME ReplyInv, NEW m \in DOMAIN attrs, NEW p \in KnownInodes(m)
    PROVE  /\ p = RootInode \/ p \in DOMAIN attrs[m]
           /\ PathBy(attrs[m], p).ok => PathBy(attrs[m], p).path \in Seq(Names)
<1>1. p = RootInode \/ p \in DOMAIN attrs[m]
    BY DEF KnownInodes, ReplyInv, RepliesRight, ReplyRight
<1>2. CASE p = RootInode
    <2>1. PathBy(attrs[m], p) = [ok |-> TRUE, path |-> <<>>]
        BY <1>2 DEF PathBy
    <2> QED
        BY <1>1, <2>1
<1>3. CASE p # RootInode /\ attrs[m][p].is \in {"TreeDir", "SyntheticDir"}
    <2>1. PathBy(attrs[m], p) = [ok |-> TRUE, path |-> attrs[m][p].path]
        BY <1>1, <1>3 DEF PathBy
    <2>2. SnapshotRight(overlay[m], attrs[m][p])
        BY <1>1, <1>3 DEF ReplyInv, SnapshotsRight
    <2>3. Tidy(overlay[m])
        BY OverlayTidy DEF ReplyInv
    <2>4. attrs[m][p].path \in Seq(Names)
        BY <1>3, <2>2, <2>3 DEF SnapshotRight, Tidy
    <2> QED
        BY <1>1, <2>1, <2>4
<1>4. CASE p # RootInode /\ attrs[m][p].is \notin {"TreeDir", "SyntheticDir"}
    <2>1. ~PathBy(attrs[m], p).ok
        BY <1>1, <1>4 DEF PathBy, Fails
    <2> QED
        BY <1>1, <2>1
<1> QED
    BY <1>2, <1>3, <1>4

(* The roots a mount shows are trees.                                      *)
LEMMA ShownAreTrees ==
    ASSUME NEW p \in Projections, NEW c \in MayShow, NEW t \in ShownBy(p, c)
    PROVE  t \in DOMAIN Trees /\ c \in Commits
<1>0. c # None /\ c \in Commits
    BY DEF ShownBy, MayShow
<1>1. RootOf[c] \in DOMAIN Trees
    BY <1>0, ProjectionFsAssumption
<1>2. CASE p.kind # "Subtree"
    BY <1>0, <1>1, <1>2 DEF ShownBy
<1>3. CASE p.kind = "Subtree"
    <2>1. PICK z \in AllPaths[RootOf[c]] : t = z[2].oid /\ z[2].mode = "Directory"
        BY <1>0, <1>3 DEF ShownBy
    <2> QED
        BY <1>0, <1>1, <2>1, PathsWellNamed DEF WellNamed
<1> QED
    BY <1>2, <1>3

(* A mount's entries are of the modes git and the overlay have.            *)
LEMMA NamedModes ==
    ASSUME NEW p \in Projections, NEW ov, Tidy(ov), NEW c \in MayShow, NEW path, NEW x \in NamedBy(p, ov, c, path)
    PROVE  /\ Shadows(ov, path[1]) => path \in DOMAIN ov /\ x = ov[path] /\ x.mode \in NodeModes
           /\ ~Shadows(ov, path[1]) =>
                /\ \E t \in ShownBy(p, c) : t \in DOMAIN Trees /\ \E y \in AllPaths[t] : y[1] = path /\ y[2] = x
                /\ x.mode \in Modes
                /\ x.mode = "Directory" <=> x.oid \in DOMAIN Trees
<1>1. CASE Shadows(ov, path[1])
    BY <1>1 DEF NamedBy, Tidy
<1>2. CASE ~Shadows(ov, path[1])
    <2>1. PICK t \in ShownBy(p, c) : \E y \in AllPaths[t] : y[1] = path /\ y[2] = x
        BY <1>2 DEF NamedBy, TreeBy
    <2>2. PICK y \in AllPaths[t] : y[1] = path /\ y[2] = x
        BY <2>1
    <2>3. t \in DOMAIN Trees
        BY ShownAreTrees
    <2>4. WellNamed(y)
        BY <2>3, PathsWellNamed
    <2> QED
        BY <1>2, <2>1, <2>2, <2>3, <2>4 DEF WellNamed
<1> QED
    BY <1>1, <1>2

(* The snapshot of what a path names.                                      *)
LEMMA ShownSnapshot ==
    ASSUME NEW p \in Projections, NEW ov, Tidy(ov), NEW c \in MayShow, NEW path \in Seq(Names), path # <<>>,
           NEW x \in NamedBy(p, ov, c, path)
    PROVE  SnapshotRight(ov, SnapshotFor(Resolves(ov, path, x), path))
<1> DEFINE r == Resolves(ov, path, x)
           s == SnapshotFor(r, path)
<1>1. s.is \in SnapshotKinds
    BY SnapshotSpace
<1>2. CASE Shadows(ov, path[1])
    <2>1. r.space # "Tree" /\ path \in DOMAIN ov
        BY <1>2, NamedModes DEF Resolves, IsSynthetic
    <2> HIDE DEF r
    <2>2. s.is \in SyntheticKinds
        BY <2>1, SnapshotSpace
    <2>3. s.is = "SyntheticDir" => s.path = path
        BY <2>1 DEF SnapshotFor
    <2> QED
        BY <1>1, <2>1, <2>2, <2>3 DEF SnapshotRight, SyntheticKinds, r
<1>3. CASE ~Shadows(ov, path[1])
    <2>1. r.space = "Tree" /\ r.mode = x.mode /\ r.oid = x.oid
        BY <1>3 DEF Resolves, IsTree
    <2>2. x.mode = "Directory" <=> x.oid \in DOMAIN Trees
        BY <1>3, NamedModes
    <2> HIDE DEF r
    <2>3. s.is \notin SyntheticKinds
        BY <2>1, SnapshotSpace
    <2>4. s.is = "TreeDir" => s.path = path /\ s.oid = x.oid /\ x.mode = "Directory"
        BY <2>1 DEF SnapshotFor
    <2> QED
        BY <1>1, <1>3, <2>2, <2>3, <2>4 DEF SnapshotRight, SyntheticKinds, r
<1> QED
    BY <1>2, <1>3

(* join_path: the path is one of names, though the name in it may not be   *)
(* the one that was asked for.                                             *)
LEMMA JoinPathIs ==
    ASSUME NEW dir \in Seq(Names), NEW n \in Names
    PROVE  /\ JoinPath(dir, n) \in Seq(Names) /\ JoinPath(dir, n) # <<>>
           /\ JoinPath(dir, n) = Append(dir, Lossy[n]) /\ Lossy[n] \in Names
           /\ JoinPath(dir, Lossy[n]) = JoinPath(dir, n)
    BY ProjectionFsAssumption DEF JoinPath

(* What a lookup resolves, before the answer is made of it.                *)
LEMMA ResolvedMeans ==
    ASSUME ReplyInv, NEW m \in DOMAIN attrs, NEW p \in KnownInodes(m), NEW n \in Names,
           NEW c, c = ResolveCommit(proj[m], refs), NEW path, path = JoinPath(PathBy(attrs[m], p).path, n),
           PathBy(attrs[m], p).ok
    PROVE  /\ path \in Seq(Names) /\ path # <<>> /\ c \in MayShow
           /\ Means(proj[m], overlay[m], c, path, have, Resolved(m, p, n))
<1>1. /\ Tidy(overlay[m]) /\ proj[m] \in Projections /\ refs \in [Refs -> MayShow]
    BY OverlayTidy DEF ReplyInv
<1>2. PathBy(attrs[m], p).path \in Seq(Names)
    BY KnownParent
<1>3. path \in Seq(Names) /\ path # <<>>
    BY <1>2, JoinPathIs
<1>4. Resolved(m, p, n) = Lookup(proj[m], overlay[m], path, refs, have)
    BY ParentIs DEF Resolved
<1>5. c \in MayShow
    BY <1>1 DEF Projections, ResolveCommit, MayShow
<1>6. Means(proj[m], overlay[m], c, path, have, Lookup(proj[m], overlay[m], path, refs, have))
    BY <1>1, <1>3, LookupRight
<1> QED
    BY <1>3, <1>4, <1>5, <1>6

(* The reply of a step, field by field.                                    *)
LEMMA ReplyIs ==
    ASSUME NEW m, NEW p, NEW n, NEW a, NEW q, q = Reply(m, p, n, a)
    PROVE  /\ q.mount = m /\ q.parent = p /\ q.name = n /\ q.answer = a
           /\ q.commit = ResolveCommit(proj[m], refs)
           /\ q.path = IF PathBy(attrs[m], p).ok THEN JoinPath(PathBy(attrs[m], p).path, n) ELSE None
    BY ParentIs DEF Reply

(* The commit a mount shows, which is fixed unless it is of a ref.         *)
LEMMA CommitShown ==
    ASSUME ProviderInv, NEW m \in DOMAIN attrs, NEW c, c = ResolveCommit(proj[m], refs)
    PROVE  c \in MayShow /\ (proj[m].kind # "Ref" => c = proj[m].commit)
<1>1. proj[m] \in Projections /\ refs \in [Refs -> MayShow]
    BY OverlayTidy
<1> QED
    BY <1>1 DEF Projections, ResolveCommit, MayShow

(* The error numbers are told apart, and from answers.                     *)
LEMMA Errors ==
    /\ \A e : ~Errno(e).ok
    /\ Errno("InvalidPath") = Errno("NotFound")
    /\ Errno("NotFound").errno = "ENOENT" /\ Errno("NotADirectory").errno = "ENOTDIR" /\ Errno("Store").errno = "EIO"
    /\ \A e : ~Fails(e).ok /\ Fails(e).error = e
    BY DEF Errno, Fails

(* What a lookup answers is right,                                         *)
LEMMA LookupAnswersRight ==
    ASSUME ReplyInv, Kept, NEW m, NEW p, NEW n \in Names, LookupAnswers(m, p, n)
    PROVE  SnapshotsRight' /\ RepliesRight'
<1> DEFINE r == Resolved(m, p, n)
           up == PathBy(attrs[m], p)
           path == JoinPath(up.path, n)
           i == InodeFor(m, r, path)
           snap == SnapshotFor(r, path)
           q == Reply(m, p, n, AttrOf(m, i, snap))
           c == ResolveCommit(proj[m], refs)
<1>1. m \in DOMAIN attrs /\ p \in KnownInodes(m)
    BY DEF LookupAnswers, ReplyInv, ProviderInv, MountInv, MountsAreBuilt
<1>2. r.ok /\ Publish(m, i, snap) /\ replies' = replies \cup {q} /\ UNCHANGED <<proj, overlay, stamp>>
    BY ParentIs DEF LookupAnswers
<1>3. up.ok
    <2>1. ~up.ok => r = up
        BY ParentIs DEF Resolved
    <2> QED
        BY <1>2, <2>1
<1>4. /\ path \in Seq(Names) /\ path # <<>> /\ c \in MayShow
      /\ Means(proj[m], overlay[m], c, path, have, r)
    BY <1>1, <1>3, ResolvedMeans
<1>5. /\ Tidy(overlay[m]) /\ proj[m] \in Projections
    BY <1>1, OverlayTidy DEF ReplyInv
<1>6. /\ q.mount = m /\ q.parent = p /\ q.name = n /\ q.answer = AttrBy(stamp[m], i, snap)
      /\ q.commit = c /\ q.path = path
    <2> DEFINE a == AttrOf(m, i, snap)
    <2>1. a = AttrBy(stamp[m], i, snap) /\ q = Reply(m, p, n, a)
        BY AttrIs, Zenon
    <2> HIDE DEF a, i, snap, q
    <2>2. /\ q.mount = m /\ q.parent = p /\ q.name = n /\ q.answer = a
          /\ q.commit = ResolveCommit(proj[m], refs)
          /\ q.path = IF PathBy(attrs[m], p).ok THEN JoinPath(PathBy(attrs[m], p).path, n) ELSE None
        BY <2>1, ReplyIs
    <2> QED
        BY <1>3, <2>1, <2>2
<1>7. q.commit \in MayShow /\ (proj[m].kind # "Ref" => q.commit = proj[m].commit)
    BY <1>1, <1>6, CommitShown DEF ReplyInv
<1>8. p = RootInode \/ p \in DOMAIN attrs[m]
    BY <1>1, KnownParent
<1>9. up.path \in Seq(Names)
    BY <1>1, <1>3, KnownParent
<1>10. q.answer.inode = i
    <2>1. snap.is \in SnapshotKinds
        BY SnapshotSpace
    <2>2. AttrOf(m, i, snap).inode = i
        BY <2>1, AttrOfInode
    <2> QED
        BY <1>6, <2>2, AttrIs
<1>11. q.path = JoinPath(up.path, n)
    BY <1>6
<1> HIDE DEF i, snap, q, c, path, r
<1>12. PICK x \in NamedBy(proj[m], overlay[m], c, path) : r = Resolves(overlay[m], path, x)
    BY <1>2, <1>4, Errors DEF Means
<1>13. SnapshotRight(overlay[m], snap)
    BY <1>4, <1>5, <1>12, ShownSnapshot DEF snap
<1>14. q.answer = Shows(overlay[m], stamp[m], m, path, x)
    BY <1>6, <1>12 DEF Shows, i, snap
<1>15. Denotes(proj[m], overlay[m], stamp[m], m, c, path, q.answer)
    BY <1>12, <1>14 DEF Denotes
<1> HIDE DEF up
<1>16. /\ DOMAIN attrs' = DOMAIN attrs
       /\ DOMAIN attrs'[m] = DOMAIN attrs[m] \cup {i}
       /\ \A j \in DOMAIN attrs'[m] : attrs'[m][j] = IF j \in DOMAIN attrs[m] THEN attrs[m][j] ELSE snap
       /\ \A k \in DOMAIN attrs : k # m => attrs'[k] = attrs[k]
    BY <1>1, <1>2, PublishIs
<1>17. PathBy(attrs'[m], p) = up
    <2>1. CASE p = RootInode
        BY <2>1 DEF PathBy, up
    <2>2. CASE p # RootInode
        <3>1. p \in DOMAIN attrs[m] /\ p \in DOMAIN attrs'[m] /\ attrs'[m][p] = attrs[m][p]
            BY <1>8, <1>16, <2>2
        <3> QED
            BY <2>2, <3>1 DEF PathBy, up
    <2> QED
        BY <2>1, <2>2
<1>18. ReplyRight(q, proj[m], overlay[m], stamp[m], attrs'[m])
    BY <1>3, <1>6, <1>7, <1>8, <1>9, <1>10, <1>11, <1>15, <1>16, <1>17 DEF ReplyRight
<1>19. \A k \in DOMAIN attrs' : \A j \in DOMAIN attrs'[k] :
          (k \in DOMAIN attrs /\ j \in DOMAIN attrs[k]) \/ SnapshotRight(overlay'[k], attrs'[k][j])
    BY <1>2, <1>13, <1>16
<1>20. \A s \in replies' :
          s \in replies \/ /\ s.mount \in DOMAIN attrs'
                           /\ ReplyRight(s, proj'[s.mount], overlay'[s.mount], stamp'[s.mount], attrs'[s.mount])
    BY <1>1, <1>2, <1>6, <1>16, <1>18
<1> QED
    BY <1>19, <1>20, ReplyFrame DEF ReplyInv

(* and so are its errors.                                                  *)
LEMMA LookupFailsRight ==
    ASSUME ReplyInv, Kept, NEW m, NEW p, NEW n \in Names, LookupFails(m, p, n)
    PROVE  SnapshotsRight' /\ RepliesRight'
<1> DEFINE r == Resolved(m, p, n)
           up == PathBy(attrs[m], p)
           path == JoinPath(up.path, n)
           c == ResolveCommit(proj[m], refs)
<1>1. m \in DOMAIN attrs /\ p \in KnownInodes(m)
    BY DEF LookupFails, ReplyInv, ProviderInv, MountInv, MountsAreBuilt
<1>2. UNCHANGED <<proj, overlay, stamp, attrs>>
    BY DEF LookupFails, provider
<1>3. PICK e : /\ replies' = replies \cup {Reply(m, p, n, Errno(e))}
               /\ \/ ~r.ok /\ e = r.error
                  \/ r.ok /\ NeedsHeader(r) /\ r.oid \notin have /\ e = "Store"
    BY DEF LookupFails
<1> DEFINE q == Reply(m, p, n, Errno(e))
<1>4. /\ q.mount = m /\ q.parent = p /\ q.name = n /\ q.answer = Errno(e)
      /\ q.commit = c /\ q.path = IF up.ok THEN path ELSE None
    BY ReplyIs
<1>5. q.commit \in MayShow /\ (proj[m].kind # "Ref" => q.commit = proj[m].commit)
    BY <1>1, <1>4, CommitShown DEF ReplyInv
<1>6. p = RootInode \/ p \in DOMAIN attrs[m]
    BY <1>1, KnownParent
<1>7. up.ok => up.path \in Seq(Names)
    BY <1>1, KnownParent
<1>8. up.ok => path \in Seq(Names) /\ path # <<>> /\ c \in MayShow /\ Means(proj[m], overlay[m], c, path, have, r)
    BY <1>1, ResolvedMeans
<1>9. Tidy(overlay[m]) /\ proj[m] \in Projections /\ Local \subseteq have
    BY <1>1, OverlayTidy DEF ReplyInv
<1>10. path = JoinPath(up.path, n) /\ up = PathBy(attrs[m], p)
    OBVIOUS
<1> HIDE DEF q, c, path, r, up
<1>11. ASSUME up.ok PROVE Denotes(proj[m], overlay[m], stamp[m], m, c, path, Errno(e))
    <2>1. CASE r.ok /\ NeedsHeader(r) /\ r.oid \notin have /\ e = "Store"
        <3>1. PICK x \in NamedBy(proj[m], overlay[m], c, path) : r = Resolves(overlay[m], path, x)
            BY <1>8, <1>11, <2>1, Errors DEF Means
        <3>2. ~Shadows(overlay[m], path[1]) /\ r.mode = x.mode /\ r.oid = x.oid
            BY <2>1, <3>1 DEF NeedsHeader, Resolves, IsSynthetic, IsTree
        <3>3. PICK t \in ShownBy(proj[m], c) : \E y \in AllPaths[t] : y[1] = path /\ y[2] = x
            BY <1>8, <1>9, <1>11, <3>1, <3>2, NamedModes
        <3>4. x.mode # "Gitlink"
            BY <2>1, <3>2 DEF NeedsHeader, TypeOf
        <3>5. IsPrefix(path, path)
            BY <1>8, <1>11, SubSeqFull DEF IsPrefix
        <3>6. x.oid \in WayTo(t, path)
            BY <3>3, <3>4, <3>5 DEF WayTo
        <3>7. x.oid \in WayBy(proj[m], c, path)
            BY <3>3, <3>6 DEF WayBy
        <3> QED
            BY <1>9, <2>1, <3>2, <3>7 DEF Denotes
    <2>2. CASE ~r.ok /\ e = r.error
        <3>1. \A x : Resolves(overlay[m], path, x).ok
            BY DEF Resolves, IsSynthetic, IsTree
        <3>2. CASE /\ r \in {Fails("InvalidPath"), Fails("NotFound")} /\ NamedBy(proj[m], overlay[m], c, path) = {}
                   /\ Shadows(overlay[m], path[1]) \/ c # None
            <4>1. Errno(e) = Errno("NotFound")
                BY <2>2, <3>2, Errors
            <4> QED
                BY <3>2, <4>1 DEF Denotes
        <3>3. CASE /\ r = Fails("NotADirectory") /\ NamedBy(proj[m], overlay[m], c, path) = {}
                   /\ \/ c # None /\ ShownBy(proj[m], c) = {}
                      \/ \E k \in 1..Len(path) - 1 : \E x \in NamedBy(proj[m], overlay[m], c, SubSeq(path, 1, k)) :
                            x.mode # "Directory"
            <4>1. e = "NotADirectory"
                BY <2>2, <3>3, Errors
            <4> QED
                BY <3>3, <4>1 DEF Denotes
        <3>4. CASE /\ r = Fails("Store") /\ ~Shadows(overlay[m], path[1])
                   /\ c = None \/ \E o \in WayBy(proj[m], c, path) : o \notin have
            <4>1. e = "Store"
                BY <2>2, <3>4, Errors
            <4>2. c = None \/ \E o \in WayBy(proj[m], c, path) : o \notin Local
                BY <1>9, <3>4
            <4> QED
                BY <3>4, <4>1, <4>2 DEF Denotes
        <3> QED
            BY <1>8, <1>11, <2>2, <3>1, <3>2, <3>3, <3>4 DEF Means
    <2> QED
        BY <1>3, <2>1, <2>2
<1>12. ~q.answer.ok
    BY <1>4, Errors
<1>13. ReplyRight(q, proj[m], overlay[m], stamp[m], attrs[m])
    BY <1>4, <1>5, <1>6, <1>7, <1>10, <1>11, <1>12 DEF ReplyRight
<1>14. \A s \in replies' :
          s \in replies \/ /\ s.mount \in DOMAIN attrs'
                           /\ ReplyRight(s, proj'[s.mount], overlay'[s.mount], stamp'[s.mount], attrs'[s.mount])
    BY <1>1, <1>2, <1>3, <1>4, <1>13 DEF q
<1>15. \A k \in DOMAIN attrs' : \A j \in DOMAIN attrs'[k] :
          (k \in DOMAIN attrs /\ j \in DOMAIN attrs[k]) \/ SnapshotRight(overlay'[k], attrs'[k][j])
    BY <1>2
<1> QED
    BY <1>14, <1>15, ReplyFrame DEF ReplyInv

(* A step that answers no lookup and builds no provider.                   *)
LEMMA RepliesStay ==
    ASSUME ReplyInv, Kept, UNCHANGED attrs, replies' \subseteq replies
    PROVE  SnapshotsRight' /\ RepliesRight'
    BY ReplyFrame DEF ReplyInv

(* What was answered stays right.                                          *)
LEMMA NextReply ==
    ASSUME ReplyInv, [Next]_vars
    PROVE  ReplyInv'
<1> USE DEF provider, client, store, cli, Forgets
<1>1. ProviderInv' /\ Kept
    BY NextProvider DEF ReplyInv
<1> SUFFICES SnapshotsRight' /\ RepliesRight'
    BY <1>1 DEF ReplyInv
<1>2. ASSUME UNCHANGED attrs, replies' \subseteq replies PROVE SnapshotsRight' /\ RepliesRight'
    BY <1>1, <1>2, RepliesStay
<1>3. CASE UNCHANGED vars
    BY <1>2, <1>3 DEF vars
<1>4. CASE NewProvider
    <2>0. CASE UNCHANGED <<stamp, attrs>>
        BY <1>2, <1>4, <2>0 DEF NewProvider
    <2> SUFFICES ASSUME attrs' = Extend(attrs, turn, [i \in {RootInode} |-> RootSnapshot])
                 PROVE  SnapshotsRight' /\ RepliesRight'
        BY <1>4, <2>0 DEF NewProvider
    <2>1. attrs' = Extend(attrs, turn, [i \in {RootInode} |-> RootSnapshot]) /\ UNCHANGED replies
        BY <1>4 DEF NewProvider
    <2>2. /\ DOMAIN attrs' = DOMAIN attrs \cup {turn}
          /\ attrs'[turn] = [i \in {RootInode} |-> RootSnapshot]
        BY <2>1 DEF Extend
    <2>3. \A k \in DOMAIN attrs : k # turn => attrs'[k] = attrs[k]
        BY <2>1 DEF Extend
    <2>4. \A ov : SnapshotRight(ov, RootSnapshot)
        BY DEF SnapshotRight, RootSnapshot, SnapshotKinds
    <2>5. \A k \in DOMAIN attrs' : \A j \in DOMAIN attrs'[k] :
             (k \in DOMAIN attrs /\ j \in DOMAIN attrs[k]) \/ SnapshotRight(overlay'[k], attrs'[k][j])
        BY <2>2, <2>3, <2>4
    <2> QED
        BY <1>1, <2>1, <2>5, ReplyFrame DEF ReplyInv
<1>5. CASE \/ CheckArgs \/ OpenSource \/ BuildProjection \/ SkipOverlay \/ PinCommit \/ BuildOverlay
           \/ MountBackground \/ InstallHandler \/ Unpark \/ Exit
    BY <1>2, <1>5
    DEF CheckArgs, OpenSource, BuildProjection, SkipOverlay, PinCommit, BuildOverlay,
        MountBackground, InstallHandler, Unpark, Exit
<1>6. ASSUME DropSession PROVE SnapshotsRight' /\ RepliesRight'
    BY <1>2, <1>6 DEF DropSession
<1>7. CASE Main
    BY <1>4, <1>5, <1>6, <1>7 DEF Main
<1>8. CASE Client
    <2>1. plan.asks \subseteq Names
        BY MountCliAssumption DEF ReplyInv, ProviderInv, MountInv, InOrder
    <2>2. ASSUME NEW m, NEW p, NEW n \in plan.asks, LookupFails(m, p, n) PROVE SnapshotsRight' /\ RepliesRight'
        BY <1>1, <2>1, <2>2, LookupFailsRight
    <2>3. ASSUME NEW m, NEW p, NEW n \in plan.asks, LookupAnswers(m, p, n) PROVE SnapshotsRight' /\ RepliesRight'
        BY <1>1, <2>1, <2>3, LookupAnswersRight
    <2>4. ASSUME NEW r, Open(r) PROVE SnapshotsRight' /\ RepliesRight'
        BY <1>2, <2>4 DEF Open
    <2>5. ASSUME NEW k, Read(k) PROVE SnapshotsRight' /\ RepliesRight'
        BY <1>2, <2>5 DEF Read
    <2>6. ASSUME NEW m, NEW i, OpenDir(m, i) PROVE SnapshotsRight' /\ RepliesRight'
        BY <1>2, <2>6 DEF OpenDir
    <2>7. ReadLink \/ ReadFails \/ ReadDirReplies \/ ReadDirFails => SnapshotsRight' /\ RepliesRight'
        BY <1>2 DEF ReadLink, ReadFails, ReadDirReplies, ReadDirFails
    <2>8. \/ \E m, p : \E n \in plan.asks : LookupFails(m, p, n) \/ LookupAnswers(m, p, n)
          \/ \E r : Open(r)
          \/ \E k : Read(k)
          \/ \E m, i : OpenDir(m, i)
          \/ ReadLink \/ ReadFails \/ ReadDirReplies \/ ReadDirFails
        BY <1>8 DEF Client
    <2> QED
        BY <2>2, <2>3, <2>4, <2>5, <2>6, <2>7, <2>8
<1>9. CASE Environment
    <2>1. StepFails \/ CtrlC \/ Killed => SnapshotsRight' /\ RepliesRight'
        BY <1>2 DEF StepFails, CtrlC, Killed
    <2>2. ASSUME NEW r, NEW c, MoveRef(r, c) \/ DeleteRef(r) PROVE SnapshotsRight' /\ RepliesRight'
        BY <1>2, <2>2 DEF MoveRef, DeleteRef
    <2>3. ASSUME NEW o, Arrives(o) PROVE SnapshotsRight' /\ RepliesRight'
        BY <1>2, <2>3 DEF Arrives
    <2> QED
        BY <1>9, <2>1, <2>2, <2>3 DEF Environment
<1> QED
    BY <1>3, <1>7, <1>8, <1>9 DEF Next

LEMMA InitReply == Init => ReplyInv
<1>1. Init => SnapshotsRight /\ RepliesRight
    BY DEF Init, SnapshotsRight, RepliesRight
<1> QED
    BY <1>1, InitProvider DEF ReplyInv

LEMMA SpecReply == Spec => []ReplyInv
<1>1. ReplyInv /\ [Next]_vars => ReplyInv'
    BY NextReply
<1> QED
    BY <1>1, InitReply, PTL DEF Spec

(* The properties' view of a mount is the one above.                       *)
LEMMA ViewIs ==
    ASSUME NEW m, NEW c, NEW path
    PROVE  /\ RootShown(m, c) = ShownBy(proj[m], c)
           /\ InTree(m, c, path) = TreeBy(proj[m], c, path)
           /\ WayDown(m, c) = DownBy(proj[m], c)
           /\ Synthetic(m, path) <=> Shadows(overlay[m], path[1])
<1>1. RootShown(m, c) = ShownBy(proj[m], c)
    BY DEF RootShown, ShownBy
<1> QED
    BY <1>1, Zenon DEF InTree, TreeBy, WayDown, DownBy, Synthetic

(* What a reply names, from the projection and the overlay.                *)
LEMMA NamedIs ==
    ASSUME NEW r
    PROVE  Named(r) = NamedBy(proj[r.mount], overlay[r.mount], r.commit, r.path)
<1>1. InDotgit(r.mount, r.path) = {overlay[r.mount][q] : q \in {r.path} \cap DOMAIN overlay[r.mount]}
    BY Zenon DEF InDotgit
<1> QED
    BY <1>1, ViewIs, Zenon DEF Named, NamedBy

(* The type in an answer is that of the mode.                              *)
LEMMA ShowsType ==
    ASSUME NEW p \in Projections, NEW ov, Tidy(ov), NEW c \in MayShow, NEW path,
           NEW x \in NamedBy(p, ov, c, path), NEW st, NEW m
    PROVE  Shows(ov, st, m, path, x).ok /\ Shows(ov, st, m, path, x).type = TypeOf(x.mode)
<1> DEFINE r == Resolves(ov, path, x)
           s == SnapshotFor(r, path)
           i == InodeFor(m, r, path)
<1>1. r.mode = x.mode /\ (r.space = "Tree" <=> ~Shadows(ov, path[1]))
    BY DEF Resolves, IsTree, IsSynthetic
<1>2. r.space = "Tree" => r.mode \in Modes
    BY <1>1, NamedModes
<1>3. r.space # "Tree" => r.mode \in NodeModes
    BY <1>1, NamedModes
<1>4. Shows(ov, st, m, path, x) = AttrBy(st, i, s)
    BY Zenon DEF Shows
<1> HIDE DEF r, i
<1>5. /\ r.mode \in {"RegularFile", "ExecutableFile"} => s.is \in {"TreeFile", "SyntheticFile"}
      /\ r.mode \in {"Directory", "Gitlink"} => s.is \in {"TreeDir", "Gitlink", "SyntheticDir"}
      /\ r.mode = "Symlink" => s.is = "TreeSymlink"
    BY <1>2, <1>3 DEF SnapshotFor, Modes, NodeModes
<1>6. r.mode \in Modes
    BY <1>2, <1>3 DEF Modes, NodeModes
<1> HIDE DEF s
<1>7. AttrBy(st, i, s).ok /\ AttrBy(st, i, s).type = TypeOf(r.mode)
    BY <1>5, <1>6 DEF AttrBy, TypeOf, Modes
<1> QED
    BY <1>1, <1>4, <1>7

(* A lookup finds exactly what git lists at the path join_path spells, for *)
(* every repository, command line, overlay and every lossy conversion,     *)
(* with refs moving and going and objects missing: an answer names an      *)
(* entry of that type at that path in the commit shown, and ENOENT,        *)
(* ENOTDIR and EIO mean what they say.                                     *)
THEOREM LookupsDenote == Spec => []PathsDenote
<1>1. ReplyInv => PathsDenote
    <2> SUFFICES ASSUME ReplyInv, NEW r \in replies, r.path # None
                 PROVE  LET a == r.answer
                            onTheWay == WayDown(r.mount, r.commit)
                                          \cup UNION {WayTo(t, r.path) : t \in RootShown(r.mount, r.commit)}
                        IN IF a.ok THEN \E x \in Named(r) : a.type = TypeOf(x.mode)
                           ELSE CASE a.errno = "ENOENT" ->
                                       Named(r) = {} /\ (Synthetic(r.mount, r.path) \/ r.commit # None)
                                  [] a.errno = "ENOTDIR" ->
                                       \/ r.commit # None /\ RootShown(r.mount, r.commit) = {}
                                       \/ \E q \in Above(r) : \E x \in Named(q) : x.mode # "Directory"
                                  [] a.errno = "EIO" -> /\ ~Synthetic(r.mount, r.path)
                                                        /\ r.commit = None \/ ~(onTheWay \subseteq Local)
        BY Zenon DEF PathsDenote
    <2> DEFINE m == r.mount
               c == r.commit
               path == r.path
               a == r.answer
    <2>1. m \in DOMAIN attrs /\ ReplyRight(r, proj[m], overlay[m], stamp[m], attrs[m])
        BY DEF ReplyInv, RepliesRight
    <2>2. Denotes(proj[m], overlay[m], stamp[m], m, c, path, a) /\ c \in MayShow
        BY <2>1 DEF ReplyRight
    <2>3. Tidy(overlay[m]) /\ proj[m] \in Projections
        BY <2>1, OverlayTidy DEF ReplyInv
    <2>4. Named(r) = NamedBy(proj[m], overlay[m], c, path)
        BY NamedIs
    <2>5. /\ RootShown(m, c) = ShownBy(proj[m], c) /\ WayDown(m, c) = DownBy(proj[m], c)
          /\ Synthetic(m, path) <=> Shadows(overlay[m], path[1])
        BY ViewIs
    <2>6. WayBy(proj[m], c, path) = WayDown(m, c) \cup UNION {WayTo(t, path) : t \in RootShown(m, c)}
        BY <2>5 DEF WayBy
    <2>7. \A k \in 1..Len(path) - 1 : \A x \in NamedBy(proj[m], overlay[m], c, SubSeq(path, 1, k)) :
             \E q \in Above(r) : x \in Named(q)
        <3> SUFFICES ASSUME NEW k \in 1..Len(path) - 1, NEW x \in NamedBy(proj[m], overlay[m], c, SubSeq(path, 1, k))
                     PROVE  \E q \in Above(r) : x \in Named(q)
            OBVIOUS
        <3> DEFINE q == [mount |-> r.mount, commit |-> r.commit, path |-> SubSeq(r.path, 1, k)]
        <3>1. q \in Above(r)
            BY DEF Above
        <3>2. q.mount = m /\ q.commit = c /\ q.path = SubSeq(path, 1, k)
            OBVIOUS
        <3> HIDE DEF q
        <3>3. Named(q) = NamedBy(proj[m], overlay[m], c, SubSeq(path, 1, k))
            BY <3>2, NamedIs
        <3> QED
            BY <3>1, <3>3
    <2> HIDE DEF m, c, path, a
    <2>8. CASE \E x \in NamedBy(proj[m], overlay[m], c, path) : a = Shows(overlay[m], stamp[m], m, path, x)
        <3>1. PICK x \in Named(r) : a = Shows(overlay[m], stamp[m], m, path, x)
            BY <2>4, <2>8
        <3>2. a.ok /\ a.type = TypeOf(x.mode)
            BY <2>2, <2>3, <2>4, <3>1, ShowsType
        <3> QED
            BY <3>1, <3>2 DEF a
    <2>9. CASE /\ a = Errno("NotFound") /\ NamedBy(proj[m], overlay[m], c, path) = {}
               /\ Shadows(overlay[m], path[1]) \/ c # None
        <3>1. /\ ~a.ok /\ a.errno = "ENOENT" /\ Named(r) = {}
              /\ Synthetic(m, path) \/ c # None
            BY <2>4, <2>5, <2>9, Errors
        <3> QED
            BY <3>1 DEF a, m, c, path
    <2>10. CASE /\ a = Errno("NotADirectory") /\ NamedBy(proj[m], overlay[m], c, path) = {}
                /\ \/ c # None /\ ShownBy(proj[m], c) = {}
                   \/ \E k \in 1..Len(path) - 1 : \E x \in NamedBy(proj[m], overlay[m], c, SubSeq(path, 1, k)) :
                         x.mode # "Directory"
        <3>1. ~a.ok /\ a.errno = "ENOTDIR"
            BY <2>10, Errors
        <3>2. (c # None /\ RootShown(m, c) = {}) \/ \E q \in Above(r) : \E x \in Named(q) : x.mode # "Directory"
            BY <2>5, <2>7, <2>10
        <3> QED
            BY <3>1, <3>2 DEF a, m, c
    <2>11. CASE /\ a = Errno("Store") /\ ~Shadows(overlay[m], path[1])
                /\ c = None \/ \E o \in WayBy(proj[m], c, path) : o \notin Local
        <3>1. ~a.ok /\ a.errno = "EIO"
            BY <2>11, Errors
        <3>2. ~Synthetic(m, path)
            BY <2>5, <2>11
        <3>3. c = None \/ ~(WayDown(m, c) \cup UNION {WayTo(t, path) : t \in RootShown(m, c)} \subseteq Local)
            BY <2>6, <2>11
        <3> QED
            BY <3>1, <3>2, <3>3 DEF a, m, c, path
    <2> QED
        BY <2>2, <2>8, <2>9, <2>10, <2>11 DEF Denotes
<1> QED
    BY <1>1, SpecReply, PTL

(* A path names at most one entry.                                         *)
LEMMA NamedOnce ==
    ASSUME NEW p \in Projections, NEW ov, Tidy(ov), NEW c \in MayShow, NEW path,
           NEW x \in NamedBy(p, ov, c, path), NEW y \in NamedBy(p, ov, c, path)
    PROVE  x = y
<1>1. CASE Shadows(ov, path[1])
    BY <1>1, NamedModes
<1>2. CASE ~Shadows(ov, path[1])
    <2>1. PICK t \in ShownBy(p, c) : t \in DOMAIN Trees /\ \E u \in AllPaths[t] : u[1] = path /\ u[2] = x
        BY <1>2, NamedModes
    <2>2. PICK s \in ShownBy(p, c) : s \in DOMAIN Trees /\ \E u \in AllPaths[s] : u[1] = path /\ u[2] = y
        BY <1>2, NamedModes
    <2>3. s = t
        <3>1. c \in Commits /\ c # None
            BY ShownAreTrees, ProjectionFsAssumption
        <3>2. RootOf[c] \in DOMAIN Trees
            BY <3>1, ProjectionFsAssumption
        <3> QED
            BY <3>1, <3>2, PathsUnique DEF ShownBy
    <2> QED
        BY <2>1, <2>2, <2>3, PathsUnique
<1> QED
    BY <1>1, <1>2

(* A mount of a commit or of a subtree shows one commit for ever: looking  *)
(* a name up again gives the answer it gave before, whatever the refs did. *)
THEOREM PinnedMountsStable == Spec => []PinnedViewsStable
<1>1. ReplyInv => PinnedViewsStable
    <2> SUFFICES ASSUME ReplyInv, NEW r \in replies, NEW s \in replies,
                        r.mount = s.mount, r.parent = s.parent, r.name = s.name, Pinned(Specs[r.mount]),
                        r.answer.ok
                 PROVE  /\ s.answer.ok => r.answer = s.answer
                        /\ ~s.answer.ok => s.answer.errno = "EIO"
        BY DEF PinnedViewsStable, Pinned
    <2> DEFINE m == r.mount
               p == proj[m]
               ov == overlay[m]
               st == stamp[m]
               table == attrs[m]
               c == p.commit
               path == r.path
    <2>1. m \in DOMAIN attrs /\ ReplyRight(r, p, ov, st, table) /\ ReplyRight(s, p, ov, st, table)
        BY DEF ReplyInv, RepliesRight
    <2>2. Tidy(ov) /\ p \in Projections /\ p.kind # "Ref"
        <3>1. m \in DOMAIN proj
            BY <2>1 DEF ReplyInv, ProviderInv, Prepared
        <3>2. p.kind # "Ref"
            BY <3>1 DEF ReplyInv, ProviderInv, ProjectionsMade
        <3> QED
            BY <2>1, <3>2, OverlayTidy DEF ReplyInv
    <2> HIDE DEF p, ov, st, table
    <2>3. r.commit = c /\ s.commit = c /\ c \in MayShow /\ PathBy(table, r.parent).ok /\ s.path = path
        BY <2>1, <2>2 DEF ReplyRight
    <2>4. Denotes(p, ov, st, m, c, path, r.answer) /\ Denotes(p, ov, st, m, c, path, s.answer)
        BY <2>1, <2>3 DEF ReplyRight
    <2> HIDE DEF m, c, path
    <2>5. PICK x \in NamedBy(p, ov, c, path) : r.answer = Shows(ov, st, m, path, x)
        BY <2>4, Errors DEF Denotes
    <2>6. CASE \E y \in NamedBy(p, ov, c, path) : s.answer = Shows(ov, st, m, path, y)
        <3>1. PICK y \in NamedBy(p, ov, c, path) : s.answer = Shows(ov, st, m, path, y)
            BY <2>6
        <3>2. x = y
            BY <2>2, <2>3, NamedOnce
        <3> QED
            BY <2>5, <3>1, <3>2
    <2>7. CASE s.answer = Errno("Store")
        BY <2>7, Errors
    <2> QED
        BY <2>4, <2>5, <2>6, <2>7 DEF Denotes
<1> QED
    BY <1>1, SpecReply, PTL

-----------------------------------------------------------------------------
(* Directory listings.                                                     *)

(* Filtering a sequence is a loop over it.                                 *)
LEMMA OnlyWalk ==
    ASSUME NEW s, NEW S, Len(s) \in Nat
    PROVE  \E w : IsWalk("only", <<s, S>>, 0, Len(s), w) /\ Only(s, S) = w[Len(s)]
<1> DEFINE G(w) == [i \in 0..Len(s) |->
                        IF i = 0 THEN <<>> ELSE IF s[i] \in S THEN Append(w[i - 1], s[i]) ELSE w[i - 1]]
           v == CHOOSE w : w = G(w)
<1>1. \A w : IsWalk("only", <<s, S>>, 0, Len(s), w) <=> w = G(w)
    BY DEF IsWalk, Turn, First, After
<1>2. \E w : w = G(w)
    BY <1>1, WalksExist
<1>3. v = G(v)
    BY <1>2
<1>4. Only(s, S) = v[Len(s)]
    BY Zenon DEF Only
<1> HIDE DEF G, v
<1> QED
    BY <1>1, <1>3, <1>4

(* What is kept of a sequence is in the set it is kept for.                *)
LEMMA OnlyIs ==
    ASSUME NEW X, NEW s \in Seq(X), NEW S
    PROVE  Only(s, S) \in Seq(X \cap S)
<1>0. Len(s) \in Nat /\ \A i \in 1..Len(s) : s[i] \in X
    OBVIOUS
<1>1. PICK w : IsWalk("only", <<s, S>>, 0, Len(s), w) /\ Only(s, S) = w[Len(s)]
    BY <1>0, OnlyWalk
<1>2. \A i \in 0..Len(s) : w[i] = Turn("only", <<s, S>>, w, 0, i)
    BY <1>1 DEF IsWalk
<1>3. First("only", <<s, S>>) = <<>>
    BY DEF First
<1>4. \A up, i : After("only", <<s, S>>, up, i) = IF s[i] \in S THEN Append(up, s[i]) ELSE up
    BY DEF After
<1> DEFINE T == {i \in 0..Len(s) : w[i] \notin Seq(X \cap S)}
<1>5. T = {}
    <2> SUFFICES ASSUME T # {} PROVE FALSE
        OBVIOUS
    <2>1. T \in SUBSET Nat
        BY <1>0
    <2>2. PICK k \in T : \A j \in T : k <= j
        BY <2>1, LeastOf
    <2>3. k \in 0..Len(s) /\ w[k] \notin Seq(X \cap S)
        OBVIOUS
    <2>4. k # 0
        <3>1. <<>> \in Seq(X \cap S)
            OBVIOUS
        <3> QED
            BY <1>2, <1>3, <2>3, <3>1 DEF Turn
    <2>5. k - 1 \in 0..Len(s) /\ ~(k <= k - 1) /\ k \in 1..Len(s)
        BY <1>0, <2>3, <2>4
    <2>6. w[k - 1] \in Seq(X \cap S)
        BY <2>2, <2>5
    <2>7. w[k] = IF s[k] \in S THEN Append(w[k - 1], s[k]) ELSE w[k - 1]
        BY <1>2, <1>4, <2>3, <2>4 DEF Turn
    <2>8. s[k] \in X
        BY <1>0, <2>5
    <2>9. s[k] \in S => Append(w[k - 1], s[k]) \in Seq(X \cap S)
        BY <2>6, <2>8
    <2> QED
        BY <2>3, <2>6, <2>7, <2>9
<1>6. Len(s) \in 0..Len(s)
    BY <1>0
<1> HIDE DEF T
<1> QED
    BY <1>1, <1>5, <1>6 DEF T

(* A path of a tidy overlay is below one of its names at the root.         *)
LEMMA TidyShadows ==
    ASSUME NEW ov, Tidy(ov), NEW q \in DOMAIN ov
    PROVE  Shadows(ov, q[1])
<1> DEFINE Bare(p) == p \in DOMAIN ov /\ ~Shadows(ov, p[1])
           T == {k \in Nat : \E p \in DOMAIN ov : Bare(p) /\ Len(p) = k}
<1>0. \A p \in DOMAIN ov : p \in Seq(Names) /\ p # <<>> /\ Len(p) \in Nat /\ Len(p) >= 1
    BY DEF Tidy
<1> SUFFICES ASSUME Bare(q) PROVE FALSE
    OBVIOUS
<1>1. T # {} /\ T \in SUBSET Nat
    BY <1>0
<1>2. PICK k \in T : \A j \in T : k <= j
    BY <1>1, LeastOf
<1>3. PICK p \in DOMAIN ov : Bare(p) /\ Len(p) = k
    OBVIOUS
<1>4. Len(p) # 1
    <2> SUFFICES ASSUME Len(p) = 1 PROVE FALSE
        OBVIOUS
    <2>1. p = <<p[1]>>
        <3>1. <<p[1]>> \in Seq(Names) /\ SubSeq(p, 2, 1) = <<>>
            BY <1>0
        <3>2. SubSeq(p, 1, 1) = <<p[1]>> \o SubSeq(p, 2, 1)
            BY <1>0, SubSeqRecursiveFirst
        <3>3. SubSeq(p, 1, Len(p)) = p
            BY <1>0, SubSeqFull
        <3> QED
            BY <3>1, <3>2, <3>3, ConcatEmptySeq
    <2> QED
        BY <1>3, <2>1 DEF Shadows
<1>5. PICK u \in DOMAIN ov, n \in Names : p = Append(u, n)
    BY <1>4 DEF Tidy, InDirectory
<1>6. u \in Seq(Names) /\ Len(p) = Len(u) + 1 /\ p[1] = u[1] /\ Len(u) \in Nat
    BY <1>0, <1>5
<1>7. Bare(u) /\ Len(u) \in T /\ ~(k <= Len(u))
    BY <1>3, <1>6
<1> QED
    BY <1>2, <1>7

\* The entries a listing of the directory dir may have, by the overlay and by the tree it was made from.
InTreeObject(tree) == IF tree \in DOMAIN Trees THEN ToSet(Trees[tree]) ELSE {}
SynEntries(m, ov, dir) ==
    {DirEntry(ForSynthetic(m, JoinPath(dir, n)), n, TypeOf(ov[Append(dir, n)].mode)) :
        n \in {k \in Names : Append(dir, k) \in DOMAIN ov}}
RealEntries(m, ov, dir, tree) ==
    {DirEntry(ForTreeEntry(m, e.oid, JoinPath(dir, e.name)), e.name, TypeOf(e.mode)) :
        e \in {f \in InTreeObject(tree) : ~Shadows(ov, Append(dir, f.name)[1])}}
Entries(m, ov, dir, tree) == SynEntries(m, ov, dir) \cup RealEntries(m, ov, dir, tree)

\* A listing l of a mount with overlay ov and inode table table.
ListingRight(l, ov, table) ==
    /\ l.inode = RootInode \/ l.inode \in DOMAIN table
    /\ l.offset \in Nat
    /\ l.offset = 0 => l.got = <<>>
    /\ l.got # <<>> => /\ PathBy(table, l.inode).ok
                       /\ l.got \in Seq(Entries(l.mount, ov, PathBy(table, l.inode).path, l.tree))
ListingInv ==
    /\ ReplyInv
    /\ listing # None => /\ listing.mount \in DOMAIN attrs
                         /\ ListingRight(listing, overlay[listing.mount], attrs[listing.mount])

(* A listing stays right when the inode table grows.                       *)
LEMMA ListingStays ==
    ASSUME NEW l, NEW ov, NEW f, NEW g, ListingRight(l, ov, f),
           \A i \in DOMAIN f : i \in DOMAIN g /\ g[i] = f[i]
    PROVE  ListingRight(l, ov, g)
<1>1. PathBy(g, l.inode) = PathBy(f, l.inode)
    <2>1. CASE l.inode = RootInode
        BY <2>1 DEF PathBy
    <2>2. CASE l.inode # RootInode
        <3>1. l.inode \in DOMAIN f /\ l.inode \in DOMAIN g /\ g[l.inode] = f[l.inode]
            BY <2>2 DEF ListingRight
        <3> QED
            BY <2>2, <3>1 DEF PathBy
    <2> QED
        BY <2>1, <2>2
<1> QED
    BY <1>1 DEF ListingRight

(* What the parts of a listing are made of.                                *)
LEMMA SyntheticPart ==
    ASSUME NEW m, NEW dir, NEW es, es = SyntheticEntries(m, Children(overlay[m], dir), dir)
    PROVE  es \in Seq(SynEntries(m, overlay[m], dir))
<1> DEFINE N == {n \in Names : Append(dir, n) \in DOMAIN overlay[m]}
           names == Children(overlay[m], dir)
<1>1. names \in Seq(Names \cap N)
    BY NamesAssumption, OnlyIs DEF Children
<1>2. es = [k \in DOMAIN names |-> DirEntry(ForSynthetic(m, JoinPath(dir, names[k])), names[k],
                                            TypeOf(overlay[m][Append(dir, names[k])].mode))]
    BY Zenon DEF SyntheticEntries
<1>3. \A n \in Names \cap N : DirEntry(ForSynthetic(m, JoinPath(dir, n)), n, TypeOf(overlay[m][Append(dir, n)].mode))
                                  \in SynEntries(m, overlay[m], dir)
    BY DEF SynEntries
<1> HIDE DEF names, N
<1>4. DOMAIN names = 1..Len(names) /\ Len(names) \in Nat /\ \A k \in 1..Len(names) : names[k] \in Names \cap N
    BY <1>1
<1>5. \A k \in 1..Len(names) :
         DirEntry(ForSynthetic(m, JoinPath(dir, names[k])), names[k], TypeOf(overlay[m][Append(dir, names[k])].mode))
             \in SynEntries(m, overlay[m], dir)
    BY <1>3, <1>4
<1> QED
    BY <1>2, <1>4, <1>5

(* The tree's part of a listing.                                           *)
LEMMA RealPart ==
    ASSUME NEW m, NEW ov, NEW dir, NEW tree \in DOMAIN Trees,
           NEW r \in Seq({f \in ToSet(Trees[tree]) : ~Shadows(ov, Append(dir, f.name)[1])}),
           NEW es, es = DirEntries(m, r, dir)
    PROVE  es \in Seq(RealEntries(m, ov, dir, tree))
<1> DEFINE E == {f \in ToSet(Trees[tree]) : ~Shadows(ov, Append(dir, f.name)[1])}
<1>1. \A e \in E : DirEntry(ForTreeEntry(m, e.oid, JoinPath(dir, e.name)), e.name, TypeOf(e.mode))
                      \in RealEntries(m, ov, dir, tree)
    BY DEF RealEntries, InTreeObject
<1>2. es = [k \in DOMAIN r |-> DirEntry(ForTreeEntry(m, r[k].oid, JoinPath(dir, r[k].name)),
                                        r[k].name, TypeOf(r[k].mode))]
    BY Zenon DEF DirEntries
<1>3. r \in Seq(E)
    OBVIOUS
<1> HIDE DEF E
<1>4. DOMAIN r = 1..Len(r) /\ Len(r) \in Nat /\ \A k \in 1..Len(r) : r[k] \in E
    BY <1>3
<1>5. \A k \in 1..Len(r) : DirEntry(ForTreeEntry(m, r[k].oid, JoinPath(dir, r[k].name)), r[k].name, TypeOf(r[k].mode))
                               \in RealEntries(m, ov, dir, tree)
    BY <1>1, <1>4
<1> QED
    BY <1>2, <1>4, <1>5

LEMMA MoreEntries ==
    ASSUME NEW A, NEW B, NEW s \in Seq(A), A \subseteq B
    PROVE  s \in Seq(B)
    OBVIOUS

(* Every listing the provider makes.                                       *)
LEMMA ListingIs ==
    ASSUME ReplyInv, NEW m \in DOMAIN attrs, NEW i, i = RootInode \/ i \in DOMAIN attrs[m],
           NEW l, l = Listing(m, i), l.ok
    PROVE  \/ l.entries = <<>>
           \/ /\ PathBy(attrs[m], i).ok
              /\ l.entries \in Seq(Entries(m, overlay[m], PathBy(attrs[m], i).path, l.tree))
<1> DEFINE s == attrs[m][i]
           ov == overlay[m]
<1>1. /\ Tidy(overlay[m]) /\ proj[m] \in Projections /\ refs \in [Refs -> MayShow]
    BY OverlayTidy DEF ReplyInv
<1>2. \A e : ~Fails(e).ok
    BY Errors
<1>3. \A t, es : Lists(t, es).ok /\ Lists(t, es).tree = t /\ Lists(t, es).entries = es
    BY DEF Lists
<1>4. CASE i = RootInode
    <2> DEFINE rt == RootTree(proj[m], refs, have)
               root == ReadRoot(proj[m], ov, refs, have)
    <2>1. l = IF ~root.ok THEN root ELSE Lists(root.tree, SyntheticEntries(m, root.synthetic, <<>>)
                                                           \o DirEntries(m, root.real, <<>>))
        BY <1>4, Zenon DEF Listing
    <2>2. root.ok
        BY <2>1
    <2>3. rt.ok /\ rt.oid \in have
        BY <2>2, <1>2 DEF ReadRoot
    <2>4. root = [ok |-> TRUE, tree |-> rt.oid, synthetic |-> Children(ov, <<>>),
                  real |-> Only(Trees[rt.oid], {e \in ToSet(Trees[rt.oid]) : ~Shadows(ov, e.name)})]
        BY <2>3 DEF ReadRoot
    <2>5. rt.oid \in DOMAIN Trees
        <3> DEFINE c == ResolveCommit(proj[m], refs)
        <3>1. \/ rt = Fails("Store") /\ c = None
              \/ \E e : rt = IsTree(e) /\ ShownBy(proj[m], c) = {e.oid} /\ e.oid \in DOMAIN Trees
              \/ /\ rt \in {Fails("InvalidPath"), Fails("NotFound"), Fails("NotADirectory")}
                 /\ c # None /\ ShownBy(proj[m], c) = {}
              \/ rt = Fails("Store") /\ proj[m].kind = "Subtree" /\ \E o \in WayTo(RootOf[c], proj[m].path) : o \notin have
            BY <1>1, RootRight
        <3> HIDE DEF rt, c
        <3>2. PICK e : rt = IsTree(e) /\ e.oid \in DOMAIN Trees
            BY <1>2, <2>3, <3>1
        <3> QED
            BY <3>2 DEF IsTree
    <2> DEFINE t == rt.oid
               real == root.real
               A == SyntheticEntries(m, root.synthetic, <<>>)
               B == DirEntries(m, root.real, <<>>)
               E == {f \in ToSet(Trees[t]) : ~Shadows(ov, Append(<<>>, f.name)[1])}
    <2>6. A = SyntheticEntries(m, Children(overlay[m], <<>>), <<>>) /\ root.tree = t
        BY <2>4
    <2>7. real = Only(Trees[t], {e \in ToSet(Trees[t]) : ~Shadows(ov, e.name)})
        BY <2>4
    <2>8. t \in DOMAIN Trees /\ B = DirEntries(m, real, <<>>)
        BY <2>5
    <2>9. l.tree = t /\ l.entries = A \o B
        <3> DEFINE ab == A \o B
        <3>1. l = Lists(root.tree, ab)
            BY <2>1, <2>2, Zenon
        <3> HIDE DEF A, B, root, t, ab
        <3>2. l.tree = root.tree /\ l.entries = ab
            BY <1>3, <3>1
        <3> QED
            BY <2>6, <3>2 DEF ab
    <2>10. \A f : Append(<<>>, f)[1] = f
        OBVIOUS
    <2> HIDE DEF rt, root, t, real, A, B
    <2>11. E = {e \in ToSet(Trees[t]) : ~Shadows(ov, e.name)}
        BY <2>10
    <2> HIDE DEF E
    <2>12. A \in Seq(SynEntries(m, ov, <<>>))
        BY <2>6, SyntheticPart
    <2>13. real \in Seq(ToSet(Trees[t]) \cap E)
        BY <2>7, <2>8, <2>11, TreesAssumption, OnlyIs
    <2>14. real \in Seq(E)
        BY <2>13, MoreEntries
    <2>15. B \in Seq(RealEntries(m, ov, <<>>, t))
        BY <2>8, <2>14, RealPart DEF E
    <2>16. A \in Seq(Entries(m, ov, <<>>, t)) /\ B \in Seq(Entries(m, ov, <<>>, t))
        BY <2>12, <2>15, MoreEntries DEF Entries
    <2>17. A \o B \in Seq(Entries(m, ov, <<>>, t))
        BY <2>16
    <2>18. PathBy(attrs[m], i) = [ok |-> TRUE, path |-> <<>>]
        BY <1>4 DEF PathBy
    <2> QED
        BY <2>9, <2>17, <2>18
<1>5. CASE i # RootInode /\ s.is = "TreeDir"
    <2>1. i \in DOMAIN attrs[m] /\ SnapshotRight(ov, s)
        BY <1>5 DEF ReplyInv, SnapshotsRight
    <2>2. l = Lists(s.oid, DirEntries(m, Trees[s.oid], s.path))
        BY <1>5, <2>1 DEF Listing
    <2>3. /\ s.path \in Seq(Names) /\ s.path # <<>> /\ ~Shadows(ov, s.path[1]) /\ s.oid \in DOMAIN Trees
        BY <1>5, <2>1 DEF SnapshotRight
    <2>4. PathBy(attrs[m], i) = [ok |-> TRUE, path |-> s.path]
        BY <1>5, <2>1 DEF PathBy
    <2> DEFINE t == s.oid
               dir == s.path
               E == {f \in ToSet(Trees[t]) : ~Shadows(ov, Append(dir, f.name)[1])}
               B == DirEntries(m, Trees[t], dir)
    <2>5. l.tree = t /\ l.entries = B
        BY <1>3, <2>2
    <2> HIDE DEF s, ov
    <2>6. \A f \in ToSet(Trees[t]) : f.name \in Names
        BY <2>3, TreesAssumption
    <2>7. \A n \in Names : Append(dir, n)[1] = dir[1]
        BY <2>3
    <2>8. ToSet(Trees[t]) \subseteq E
        BY <2>3, <2>6, <2>7
    <2>9. Trees[t] \in Seq(ToSet(Trees[t]))
        BY <2>3, TreesAssumption
    <2> HIDE DEF t, dir
    <2>10. Trees[t] \in Seq(E)
        <3> HIDE DEF E
        <3> QED
            BY <2>8, <2>9, MoreEntries
    <2>11. B \in Seq(RealEntries(m, ov, dir, t))
        <3>1. t \in DOMAIN Trees
            BY <2>3 DEF t
        <3> QED
            BY <2>10, <3>1, RealPart
    <2>12. B \in Seq(Entries(m, ov, dir, t))
        BY <2>11, MoreEntries DEF Entries
    <2> HIDE DEF B
    <2> QED
        BY <2>4, <2>5, <2>12 DEF dir, ov
<1>6. CASE i # RootInode /\ s.is = "SyntheticDir"
    <2>1. i \in DOMAIN attrs[m]
        BY <1>6
    <2>2. l = Lists(None, SyntheticEntries(m, Children(overlay[m], s.path), s.path))
        BY <1>6, <2>1 DEF Listing
    <2>3. PathBy(attrs[m], i) = [ok |-> TRUE, path |-> s.path]
        BY <1>6, <2>1 DEF PathBy
    <2> DEFINE dir == s.path
               A == SyntheticEntries(m, Children(overlay[m], dir), dir)
    <2>4. l.tree = None /\ l.entries = A
        BY <1>3, <2>2
    <2>5. A \in Seq(SynEntries(m, overlay[m], dir))
        BY SyntheticPart
    <2> HIDE DEF A
    <2>6. A \in Seq(Entries(m, overlay[m], dir, None))
        BY <2>5, MoreEntries DEF Entries
    <2> QED
        BY <2>3, <2>4, <2>6
<1>7. CASE i # RootInode /\ s.is = "Gitlink"
    <2>1. l = Lists(None, <<>>)
        BY <1>7 DEF Listing
    <2> QED
        BY <1>3, <2>1
<1>8. CASE i # RootInode /\ s.is \notin {"TreeDir", "SyntheticDir", "Gitlink"}
    <2>1. l = Fails("NotADirectory")
        BY <1>8 DEF Listing
    <2> QED
        BY <1>2, <2>1
<1> QED
    BY <1>4, <1>5, <1>6, <1>7, <1>8

(* The reply to a readdir.                                                 *)
LEMMA ReadDirRight ==
    ASSUME ListingInv, ReadDirReplies
    PROVE  listing' # None => /\ listing'.mount \in DOMAIN attrs
                              /\ ListingRight(listing', overlay[listing'.mount], attrs[listing'.mount])
<1> DEFINE m == listing.mount
           i == listing.inode
           l == listing'
           r == ReadDir(m, i, listing.offset)
           n == IF Len(r.entries) < Buffer THEN Len(r.entries) ELSE Buffer
           part == SubSeq(r.entries, 1, n)
           dir == PathBy(attrs[m], i).path
<1>1. listing # None /\ r.ok
    BY DEF ReadDirReplies, ListingOn
<1>2. /\ l.mount = m /\ l.inode = i /\ l.offset = listing.offset + n
      /\ l.tree = IF listing.offset = 0 THEN r.tree ELSE listing.tree
      /\ l.got = listing.got \o part
    BY DEF ReadDirReplies
<1>3. m \in DOMAIN attrs /\ ListingRight(listing, overlay[m], attrs[m])
    BY <1>1 DEF ListingInv
<1>4. /\ i = RootInode \/ i \in DOMAIN attrs[m]
      /\ listing.offset \in Nat /\ (listing.offset = 0 => listing.got = <<>>)
    BY <1>3 DEF ListingRight
<1>5. \A t, es : Lists(t, es).entries = es
    BY DEF Lists
<1>6. CASE listing.offset > 0 \/ r.entries = <<>>
    <2>1. r.entries = <<>>
        <3>1. listing.offset > 0 => r = Lists(None, <<>>)
            BY DEF ReadDir
        <3> QED
            BY <1>5, <1>6, <3>1
    <2>2. n = 0 /\ part = <<>>
        BY <2>1, ProjectionFsAssumption
    <2>3. CASE listing.got = <<>>
        <3>1. l.got = <<>> /\ l.offset \in Nat
            BY <1>2, <1>4, <2>2, <2>3
        <3> QED
            BY <1>2, <1>3, <1>4, <3>1 DEF ListingRight
    <2>4. CASE listing.got # <<>>
        <3>1. PathBy(attrs[m], i).ok /\ listing.got \in Seq(Entries(m, overlay[m], dir, listing.tree))
            BY <1>3, <2>4 DEF ListingRight
        <3>2. l.got = listing.got
            BY <1>2, <2>2, <3>1, ConcatEmptySeq
        <3>3. l.tree = listing.tree /\ l.offset = listing.offset /\ l.offset # 0
            <4>1. listing.offset # 0 /\ n = 0 /\ listing.offset \in Nat
                BY <1>4, <2>2, <2>4
            <4> HIDE DEF n, l
            <4> QED
                BY <1>2, <4>1
        <3> QED
            BY <1>2, <1>3, <1>4, <2>4, <3>1, <3>2, <3>3 DEF ListingRight
    <2> QED
        BY <2>3, <2>4
<1>7. CASE listing.offset = 0 /\ r.entries # <<>>
    <2>1. r = Listing(m, i)
        BY <1>7 DEF ReadDir
    <2>2. PathBy(attrs[m], i).ok /\ r.entries \in Seq(Entries(m, overlay[m], dir, r.tree))
        BY <1>1, <1>3, <1>4, <1>7, <2>1, ListingIs DEF ListingInv
    <2> DEFINE es == r.entries
               E == Entries(m, overlay[m], dir, r.tree)
    <2> HIDE DEF E, es, r
    <2>3. es \in Seq(E) /\ es # <<>>
        BY <1>7, <2>2 DEF E, es
    <2>4. n \in 1..Len(es)
        BY <2>3, ProjectionFsAssumption DEF es
    <2>5. part \in Seq(E)
        <3>1. part = SubSeq(es, 1, n)
            BY DEF es
        <3> HIDE DEF part, n
        <3> QED
            BY <2>3, <2>4, <3>1
    <2>6. l.got = part /\ l.tree = r.tree /\ l.offset = n /\ l.offset \in Nat /\ l.offset # 0
        <3>1. listing.got = <<>> /\ n \in Nat /\ n # 0 /\ listing.offset = 0
            BY <1>4, <1>7, <2>4
        <3> HIDE DEF part, n
        <3> QED
            BY <1>2, <2>5, <3>1, ConcatEmptySeq
    <2> HIDE DEF part, n, l, dir
    <2>7. l.got \in Seq(Entries(l.mount, overlay[l.mount], dir, l.tree))
        BY <1>2, <2>5, <2>6 DEF E
    <2> QED
        BY <1>2, <1>3, <1>4, <2>2, <2>6, <2>7 DEF ListingRight, l, dir
<1> QED
    BY <1>4, <1>6, <1>7

(* A listing under way stays right.                                        *)
LEMMA NextListing ==
    ASSUME ListingInv, [Next]_vars
    PROVE  ListingInv'
<1> USE DEF provider, client, store, cli, Forgets
<1>1. ReplyInv' /\ Kept
    BY NextReply, NextProvider DEF ListingInv, ReplyInv
<1> DEFINE Fine == listing' # None => /\ listing'.mount \in DOMAIN attrs
                                      /\ ListingRight(listing', overlay[listing'.mount], attrs[listing'.mount])
<1>2. ASSUME Fine PROVE ListingInv'
    <2> SUFFICES ASSUME listing' # None
                 PROVE  /\ listing'.mount \in DOMAIN attrs'
                        /\ ListingRight(listing', overlay'[listing'.mount], attrs'[listing'.mount])
        BY <1>1 DEF ListingInv
    <2> DEFINE m == listing'.mount
    <2>1. m \in DOMAIN attrs /\ ListingRight(listing', overlay[m], attrs[m])
        BY <1>2
    <2> HIDE DEF m
    <2>2. /\ m \in DOMAIN attrs' /\ overlay'[m] = overlay[m]
          /\ \A i \in DOMAIN attrs[m] : i \in DOMAIN attrs'[m] /\ attrs'[m][i] = attrs[m][i]
        BY <1>1, <2>1 DEF Kept
    <2>3. ListingRight(listing', overlay[m], attrs'[m])
        BY <2>1, <2>2, ListingStays
    <2> QED
        BY <2>2, <2>3 DEF m
<1>3. ASSUME listing' \in {listing, None} PROVE Fine
    BY <1>3 DEF ListingInv
<1>4. ReadDirReplies => Fine
    BY ReadDirRight
<1>5. ASSUME NEW m \in mounted, NEW i \in KnownInodes(m), OpenDir(m, i) PROVE Fine
    <2>1. m \in DOMAIN attrs
        BY DEF ListingInv, ReplyInv, ProviderInv, MountInv, MountsAreBuilt
    <2>2. i = RootInode \/ i \in DOMAIN attrs[m]
        BY <2>1, KnownParent DEF ListingInv
    <2>3. listing'.mount = m /\ listing'.inode = i /\ listing'.offset = 0 /\ listing'.got = <<>>
        BY <1>5 DEF OpenDir
    <2> QED
        BY <2>1, <2>2, <2>3 DEF ListingRight
<1> HIDE DEF Fine
<1>6. CASE UNCHANGED vars
    BY <1>2, <1>3, <1>6 DEF vars
<1>7. CASE \/ CheckArgs \/ OpenSource \/ BuildProjection \/ SkipOverlay \/ PinCommit \/ BuildOverlay
           \/ MountBackground \/ InstallHandler \/ Unpark \/ Exit \/ NewProvider
    BY <1>2, <1>3, <1>7
    DEF CheckArgs, OpenSource, BuildProjection, SkipOverlay, PinCommit, BuildOverlay, NewProvider,
        MountBackground, InstallHandler, Unpark, Exit
<1>8. ASSUME DropSession PROVE ListingInv'
    BY <1>2, <1>3, <1>8 DEF DropSession
<1>9. CASE Main
    BY <1>7, <1>8, <1>9 DEF Main
<1>10. CASE Client
    <2>1. ASSUME NEW m, NEW p, NEW n, LookupFails(m, p, n) \/ LookupAnswers(m, p, n) PROVE ListingInv'
        BY <1>2, <1>3, <2>1 DEF LookupFails, LookupAnswers
    <2>2. ASSUME NEW r, Open(r) PROVE ListingInv'
        BY <1>2, <1>3, <2>2 DEF Open
    <2>3. ASSUME NEW k, Read(k) PROVE ListingInv'
        BY <1>2, <1>3, <2>3 DEF Read
    <2>4. ReadLink \/ ReadFails \/ ReadDirFails => ListingInv'
        BY <1>2, <1>3 DEF ReadLink, ReadFails, ReadDirFails
    <2>5. \/ \E m, p, n : LookupFails(m, p, n) \/ LookupAnswers(m, p, n)
          \/ \E r : Open(r)
          \/ \E k : Read(k)
          \/ \E m \in mounted : \E i \in KnownInodes(m) : OpenDir(m, i)
          \/ ReadLink \/ ReadFails \/ ReadDirReplies \/ ReadDirFails
        BY <1>10 DEF Client
    <2> QED
        BY <1>2, <1>4, <1>5, <2>1, <2>2, <2>3, <2>4, <2>5
<1>11. CASE Environment
    <2>1. StepFails \/ CtrlC \/ Killed => ListingInv'
        BY <1>2, <1>3 DEF StepFails, CtrlC, Killed
    <2>2. ASSUME NEW r, NEW c, MoveRef(r, c) \/ DeleteRef(r) PROVE ListingInv'
        BY <1>2, <1>3, <2>2 DEF MoveRef, DeleteRef
    <2>3. ASSUME NEW o, Arrives(o) PROVE ListingInv'
        BY <1>2, <1>3, <2>3 DEF Arrives
    <2> QED
        BY <1>11, <2>1, <2>2, <2>3 DEF Environment
<1> QED
    BY <1>6, <1>9, <1>10, <1>11 DEF Next

LEMMA InitListing == Init => ListingInv
    BY InitReply DEF Init, ListingInv

LEMMA SpecListing == Spec => []ListingInv
<1>1. ListingInv /\ [Next]_vars => ListingInv'
    BY NextListing
<1> QED
    BY <1>1, InitListing, PTL DEF Spec

(* The inode in an answer.                                                 *)
LEMMA ShowsInode ==
    ASSUME NEW ov, NEW path, NEW x, NEW st, NEW m
    PROVE  Shows(ov, st, m, path, x).inode =
              IF Shadows(ov, path[1]) THEN ForSynthetic(m, path) ELSE ForTreeEntry(m, x.oid, path)
<1> DEFINE r == Resolves(ov, path, x)
           s == SnapshotFor(r, path)
           i == InodeFor(m, r, path)
<1>1. s.is \in SnapshotKinds
    BY SnapshotSpace
<1>2. Shows(ov, st, m, path, x) = AttrBy(st, i, s)
    BY Zenon DEF Shows
<1>3. i = IF Shadows(ov, path[1]) THEN ForSynthetic(m, path) ELSE ForTreeEntry(m, x.oid, path)
    BY DEF InodeFor, Resolves, IsTree, IsSynthetic
<1> HIDE DEF s, i
<1>4. AttrBy(st, i, s).inode = i
    BY <1>1 DEF AttrBy, SnapshotKinds
<1> QED
    BY <1>2, <1>3, <1>4

(* What readdir lists is what lookup finds in the same directory, up to    *)
(* the lossy spelling of names: the same inode and type for a name that is *)
(* UTF-8, and no such name listed that lookup does not find.               *)
THEOREM ListingsAgree == Spec => []ListingAgrees
<1>1. ListingInv => ListingAgrees
    <2> SUFFICES ASSUME ListingInv, listing # None, NEW r \in replies,
                        r.mount = listing.mount, r.parent = listing.inode, r.path # None,
                        \/ Synthetic(r.mount, r.path)
                        \/ listing.tree \in {x.oid : x \in InTree(r.mount, r.commit, SubSeq(r.path, 1, Len(r.path) - 1))},
                        NEW x \in ToSet(listing.got), x.name = Lossy[r.name]
                 PROVE  /\ r.answer.ok => x.inode = r.answer.inode /\ x.type = r.answer.type
                        /\ ~r.answer.ok => r.answer.errno = "EIO"
        BY Zenon DEF ListingAgrees
    <2> DEFINE m == r.mount
               p == proj[m]
               ov == overlay[m]
               st == stamp[m]
               table == attrs[m]
               c == r.commit
               path == r.path
               dir == PathBy(table, r.parent).path
               tree == listing.tree
    <2>1. m \in DOMAIN attrs /\ ReplyRight(r, p, ov, st, table) /\ ListingRight(listing, ov, table)
        BY DEF ListingInv, ReplyInv, RepliesRight
    <2>2. Tidy(ov) /\ p \in Projections
        BY <2>1, OverlayTidy DEF ListingInv, ReplyInv
    <2>3. /\ c \in MayShow /\ r.name \in Names /\ dir \in Seq(Names) /\ path = JoinPath(dir, r.name)
          /\ Denotes(p, ov, st, m, c, path, r.answer)
        BY <2>1 DEF ReplyRight
    <2>30. /\ path = Append(dir, Lossy[r.name]) /\ Lossy[r.name] \in Names
           /\ JoinPath(dir, Lossy[r.name]) = path
        BY <2>3, JoinPathIs
    <2>4. x \in Entries(m, ov, dir, tree)
        <3> DEFINE E == Entries(m, ov, dir, tree)
        <3>1. listing.got # <<>>
            BY DEF ToSet
        <3>2. listing.got \in Seq(E)
            BY <2>1, <3>1 DEF ListingRight
        <3> HIDE DEF E
        <3>3. x \in E
            BY <3>2 DEF ToSet
        <3> QED
            BY <3>3 DEF E
    <2>5. SubSeq(path, 1, Len(path) - 1) = dir
        BY <2>3, <2>30
    <2>6. \/ Shadows(ov, path[1])
          \/ tree \in {y.oid : y \in TreeBy(p, c, dir)}
        <3> DEFINE up == SubSeq(path, 1, Len(path) - 1)
        <3>1. Synthetic(m, path) \/ tree \in {y.oid : y \in InTree(m, c, up)}
            BY Zenon
        <3>2. (Synthetic(m, path) <=> Shadows(ov, path[1])) /\ InTree(m, c, up) = TreeBy(p, c, up)
            <4> HIDE DEF up, m, path, c
            <4> QED
                BY ViewIs
        <3>3. up = dir
            BY <2>5
        <3> HIDE DEF up, m, p, ov, path, c, tree, dir
        <3> QED
            BY <3>1, <3>2, <3>3
    <2> HIDE DEF m, p, ov, st, table, c, path, dir, tree
    <2>7. ASSUME NEW y \in NamedBy(p, ov, c, path), x.type = TypeOf(y.mode),
                 x.inode = IF Shadows(ov, path[1]) THEN ForSynthetic(m, path) ELSE ForTreeEntry(m, y.oid, path)
          PROVE  /\ r.answer.ok => x.inode = r.answer.inode /\ x.type = r.answer.type
                 /\ ~r.answer.ok => r.answer.errno = "EIO"
        <3>1. CASE \E z \in NamedBy(p, ov, c, path) : r.answer = Shows(ov, st, m, path, z)
            <4>1. r.answer = Shows(ov, st, m, path, y)
                BY <2>2, <2>3, <3>1, NamedOnce
            <4>2. r.answer.ok /\ r.answer.type = TypeOf(y.mode)
                BY <2>2, <2>3, <4>1, ShowsType
            <4>3. r.answer.inode = x.inode
                BY <2>7, <4>1, ShowsInode
            <4> QED
                BY <2>7, <4>2, <4>3
        <3>2. CASE r.answer = Errno("Store")
            BY <3>2, Errors
        <3> QED
            BY <2>3, <3>1, <3>2 DEF Denotes
    <2>8. CASE x \in SynEntries(m, ov, dir)
        <3>1. PICK n \in Names : /\ Append(dir, n) \in DOMAIN ov
                                 /\ x = DirEntry(ForSynthetic(m, JoinPath(dir, n)), n, TypeOf(ov[Append(dir, n)].mode))
            BY <2>8 DEF SynEntries
        <3>2. n = Lossy[r.name] /\ Append(dir, n) = path /\ JoinPath(dir, n) = path
            BY <2>30, <3>1 DEF DirEntry
        <3>3. path \in DOMAIN ov /\ x.inode = ForSynthetic(m, path) /\ x.type = TypeOf(ov[path].mode)
            BY <3>1, <3>2 DEF DirEntry
        <3>4. Shadows(ov, path[1])
            BY <2>2, <3>3, TidyShadows
        <3>5. ov[path] \in NamedBy(p, ov, c, path)
            BY <3>3, <3>4 DEF NamedBy
        <3> QED
            BY <2>7, <3>3, <3>4, <3>5
    <2>9. CASE x \in RealEntries(m, ov, dir, tree)
        <3>1. PICK e \in InTreeObject(tree) :
                 /\ ~Shadows(ov, Append(dir, e.name)[1])
                 /\ x = DirEntry(ForTreeEntry(m, e.oid, JoinPath(dir, e.name)), e.name, TypeOf(e.mode))
            BY <2>9 DEF RealEntries
        <3>2. e.name = Lossy[r.name] /\ Append(dir, e.name) = path /\ JoinPath(dir, e.name) = path
            BY <2>30, <3>1 DEF DirEntry
        <3>3. tree \in DOMAIN Trees /\ e \in ToSet(Trees[tree])
            BY <3>1 DEF InTreeObject
        <3>4. ~Shadows(ov, path[1]) /\ x.inode = ForTreeEntry(m, e.oid, path) /\ x.type = TypeOf(e.mode)
            BY <3>1, <3>2 DEF DirEntry
        <3>5. PICK t \in ShownBy(p, c) : \E y \in AllPaths[t] : y[1] = dir /\ y[2].oid = tree
            BY <2>6, <3>4 DEF TreeBy
        <3>6. PICK y \in AllPaths[t] : y[1] = dir /\ y[2].oid = tree
            BY <3>5
        <3>7. t \in DOMAIN Trees
            BY <2>2, <2>3, ShownAreTrees
        <3>8. y[2].mode = "Directory"
            BY <3>3, <3>6, <3>7, PathsWellNamed DEF WellNamed
        <3>9. Under(<<path, e>>, y, e)
            BY <3>2, <3>3, <3>6, <3>8 DEF Under
        <3>10. <<path, e>> \in AllPaths[t]
            BY <3>6, <3>7, <3>9, PathsClosed
        <3>11. e \in TreeBy(p, c, path)
            BY <3>5, <3>10 DEF TreeBy
        <3>12. e \in NamedBy(p, ov, c, path)
            BY <3>4, <3>11 DEF NamedBy
        <3> QED
            BY <2>7, <3>4, <3>12
    <2> QED
        BY <2>4, <2>8, <2>9 DEF Entries
<1> QED
    BY <1>1, SpecListing, PTL

-----------------------------------------------------------------------------
(* Reading.  The bytes of a file are a sequence, in the store and in an    *)
(* overlay.                                                                *)

Chain(s) == \E S : s \in Seq(S)
Contents(ov) == \A q \in DOMAIN ov : Chain(ov[q].content)

(* Adding a file keeps the contents sequences,                             *)
LEMMA WithContents ==
    ASSUME NEW ov, Contents(ov), NEW q, NEW bytes, Chain(bytes)
    PROVE  Contents(With(ov, q, SynFile(bytes)))
<1>1. SynFile(bytes).content = bytes
    BY DEF SynFile
<1> QED
    BY <1>1 DEF Contents, With

(* as those of the files of .git are.                                      *)
LEMMA SmallChains ==
    /\ Chain(<<>>)
    /\ \A a : Chain(<<a>>)
    /\ \A a, b : Chain(<<a, b>>)
<1>1. <<>> \in Seq({})
    OBVIOUS
<1>2. \A a : <<a>> \in Seq({a})
    OBVIOUS
<1>3. \A a, b : <<a, b>> \in Seq({a, b})
    OBVIOUS
<1> QED
    BY <1>1, <1>2, <1>3 DEF Chain

(* Directories have none.                                                  *)
LEMMA DirContents ==
    ASSUME NEW S, NEW ov, Contents(ov)
    PROVE  /\ Contents([p \in S |-> SynDir])
           /\ Contents([p \in DOMAIN ov \cup S |-> IF p \in DOMAIN ov THEN ov[p] ELSE SynDir])
<1>1. Chain(SynDir.content)
    BY SmallChains DEF SynDir
<1> QED
    BY <1>1 DEF Contents

(* So every overlay has sequences for contents.                            *)
LEMMA A1Contents == ASSUME NEW c PROVE Contents(A1PlusOverlay(c))
<1> DEFINE dirs == {<<".git">>, <<".git", "refs">>, <<".git", "refs", "heads">>, <<".git", "refs", "tags">>,
                    <<".git", "objects">>, <<".git", "objects", "info">>}
           base == [p \in dirs |-> SynDir]
           head == With(base, <<".git", "HEAD">>, SynFile(<<c>>))
           config == With(head, <<".git", "config">>, SynFile(<<"config">>))
           packed == With(config, <<".git", "packed-refs">>, SynFile(<<>>))
           a1 == With(packed, <<".git", "objects", "info", "alternates">>, SynFile(<<"objects">>))
<1>1. A1PlusOverlay(c) = With(a1, <<".git", "index">>, SynFile(<<"index", RootOf[c]>>))
    BY Zenon DEF A1PlusOverlay, A1Overlay
<1>2. Contents(NoOverlay)
    BY DEF NoOverlay, Contents
<1>3. Contents(base)
    <2> HIDE DEF dirs
    <2> QED
        BY <1>2, DirContents
<1> HIDE DEF base
<1>4. Contents(head)
    BY <1>3, SmallChains, WithContents
<1> HIDE DEF head
<1>5. Contents(config)
    BY <1>4, SmallChains, WithContents
<1> HIDE DEF config
<1>6. Contents(packed)
    BY <1>5, SmallChains, WithContents
<1> HIDE DEF packed
<1>7. Contents(a1)
    BY <1>6, SmallChains, WithContents
<1> HIDE DEF a1
<1> QED
    BY <1>1, <1>7, SmallChains, WithContents

LEMMA DotgitContents == ASSUME NEW ov, IsDotgit(ov) PROVE Contents(ov)
<1>1. CASE ov = NoOverlay
    BY <1>1 DEF NoOverlay, Contents
<1>2. CASE \E c : ov = A1PlusOverlay(c)
    BY <1>2, A1Contents
<1>3. ASSUME NEW c, NEW b \in DOMAIN BranchPath, ov = A2Overlay(A1PlusOverlay(c), b, c) PROVE Contents(ov)
    <2> DEFINE path == <<".git">> \o BranchPath[b]
               above == {SubSeq(path, 1, i) : i \in 1..Len(path) - 1}
               head == With(A1PlusOverlay(c), <<".git", "HEAD">>, SynFile(<<"ref", b>>))
               dirs == [p \in DOMAIN head \cup above |-> IF p \in DOMAIN head THEN head[p] ELSE SynDir]
    <2>1. ov = With(dirs, path, SynFile(<<c>>))
        BY <1>3, Zenon DEF A2Overlay, SpliceNested
    <2>2. Contents(head)
        BY A1Contents, SmallChains, WithContents
    <2> HIDE DEF head, above, path
    <2>3. Contents(dirs)
        BY <2>2, DirContents
    <2> HIDE DEF dirs
    <2> QED
        BY <2>1, <2>3, SmallChains, WithContents
<1> QED
    BY <1>1, <1>2, <1>3 DEF IsDotgit

\* What a published snapshot was made of, in a mount m with projection p and overlay ov.
Made(m, p, ov, i, s) ==
    \E c \in MayShow, path \in Seq(Names) : \E x \in NamedBy(p, ov, c, path) :
        /\ path # <<>> /\ (p.kind # "Ref" => c = p.commit)
        /\ i = InodeFor(m, Resolves(ov, path, x), path)
        /\ s = SnapshotFor(Resolves(ov, path, x), path)

ReadKinds == {"TreeFile", "TreeSymlink", "SyntheticFile"}
BytesOf(s) == IF s.is = "SyntheticFile" THEN s.content ELSE Bytes[s.oid]

(* A file or a symlink has a sequence of bytes.                            *)
LEMMA MadeBytes ==
    ASSUME NEW m, NEW p \in Projections, NEW ov, Tidy(ov), IsDotgit(ov), NEW i, NEW s, Made(m, p, ov, i, s),
           s.is \in ReadKinds
    PROVE  Chain(BytesOf(s))
<1>1. PICK c \in MayShow, path \in Seq(Names) : \E x \in NamedBy(p, ov, c, path) : s = SnapshotFor(Resolves(ov, path, x), path)
    BY DEF Made
<1>2. PICK x \in NamedBy(p, ov, c, path) : s = SnapshotFor(Resolves(ov, path, x), path)
    BY <1>1
<1>3. CASE Shadows(ov, path[1])
    <2> DEFINE r == Resolves(ov, path, x)
    <2>1. r.space # "Tree" /\ r.content = x.content
        BY <1>3 DEF Resolves, IsSynthetic
    <2>2. path \in DOMAIN ov /\ x = ov[path]
        BY <1>2, <1>3, NamedModes
    <2> HIDE DEF r
    <2>3. s.is = "SyntheticFile" /\ s.content = x.content
        BY <1>2, <2>1 DEF SnapshotFor, ReadKinds, r
    <2> QED
        BY <2>2, <2>3, DotgitContents DEF Contents, BytesOf
<1>4. CASE ~Shadows(ov, path[1])
    <2> DEFINE r == Resolves(ov, path, x)
    <2>1. r.space = "Tree" /\ r.mode = x.mode /\ r.oid = x.oid
        BY <1>4 DEF Resolves, IsTree
    <2>2. PICK t \in DOMAIN Trees : \E y \in AllPaths[t] : y[2] = x
        BY <1>2, <1>4, NamedModes
    <2> HIDE DEF r
    <2>3. s.is \in {"TreeFile", "TreeSymlink"} /\ s.oid = x.oid /\ x.mode \in {"RegularFile", "ExecutableFile", "Symlink"}
        BY <1>2, <2>1 DEF SnapshotFor, ReadKinds, r
    <2>4. x.oid \in DOMAIN Bytes
        BY <2>2, <2>3, PathsWellNamed DEF WellNamed
    <2>5. Bytes[x.oid] \in Seq(ToSet(Bytes[x.oid]))
        BY <2>4, TreesAssumption
    <2> QED
        BY <2>3, <2>5 DEF BytesOf, Chain
<1> QED
    BY <1>3, <1>4

(* The bytes read so far, and the next slice of them.                      *)
Text(got, eof, bytes) == \E k \in 0..Len(bytes) : got = SubSeq(bytes, 1, k) /\ (eof => k = Len(bytes))

(* The next slice goes on where the last one ended, and is short at the    *)
(* end.                                                                    *)
LEMMA SliceIs ==
    ASSUME NEW bytes, Chain(bytes), NEW got, Text(got, FALSE, bytes), NEW size \in Nat \ {0},
           NEW b, b = Slice(bytes, Len(got), size)
    PROVE  Text(got \o b, Len(b) < size, bytes)
<1>1. PICK S : bytes \in Seq(S)
    BY DEF Chain
<1>2. PICK k \in 0..Len(bytes) : got = SubSeq(bytes, 1, k)
    BY DEF Text
<1> DEFINE L == Len(bytes)
           end == IF k + size < L THEN k + size ELSE L
<1>3. L \in Nat /\ k \in 0..L
    BY <1>1
<1>4. got \in Seq(S) /\ Len(got) = k
    BY <1>1, <1>2, <1>3
<1>5. b = SubSeq(bytes, k + 1, end)
    <2>1. k < L \/ k = L
        BY <1>3
    <2> QED
        BY <1>3, <1>4, <2>1 DEF Slice
<1>6. end \in k..L
    BY <1>3
<1>7. Len(b) = end - k
    BY <1>1, <1>3, <1>5, <1>6
<1> HIDE DEF L, end
<1>8. got \o b = SubSeq(bytes, 1, end)
    <2>1. 1 \in 1..Len(bytes) + 1 /\ k \in 1 - 1..Len(bytes) /\ end \in k..Len(bytes)
        BY <1>3, <1>6 DEF L
    <2> QED
        BY <1>1, <1>2, <1>5, <2>1, ConcatAdjacentSubSeq
<1>9. Len(b) < size => end = L
    BY <1>3, <1>7 DEF end
<1>10. end \in 0..Len(bytes)
    BY <1>3, <1>6 DEF L
<1> QED
    BY <1>8, <1>9, <1>10 DEF Text, L

(* Nothing read yet, and everything read at once.                          *)
LEMMA TextBegins ==
    ASSUME NEW bytes, Chain(bytes)
    PROVE  Text(<<>>, FALSE, bytes) /\ Text(<<>> \o bytes, TRUE, bytes)
<1>1. PICK S : bytes \in Seq(S)
    BY DEF Chain
<1>2. SubSeq(bytes, 1, 0) = <<>> /\ SubSeq(bytes, 1, Len(bytes)) = bytes /\ Len(bytes) \in Nat
    BY <1>1, SubSeqFull
<1>3. <<>> \o bytes = bytes
    BY <1>1, ConcatEmptySeq
<1>4. 0 \in 0..Len(bytes) /\ Len(bytes) \in 0..Len(bytes)
    BY <1>2
<1>5. Text(<<>>, FALSE, bytes)
    BY <1>2, <1>4 DEF Text
<1>6. Text(bytes, TRUE, bytes)
    BY <1>2, <1>4 DEF Text
<1> QED
    BY <1>3, <1>5, <1>6

TablesMade ==
    \A m \in DOMAIN attrs : \A i \in DOMAIN attrs[m] :
        attrs[m][i] = RootSnapshot \/ Made(m, proj[m], overlay[m], i, attrs[m][i])

\* The file rd being read, of a mount with projection p, overlay ov, time stamp st and inode table table.
ReadRight(rd, p, ov, st, table) ==
    LET s == table[rd.reply.answer.inode] IN
    /\ ReplyRight(rd.reply, p, ov, st, table)
    /\ rd.reply.answer.ok
    /\ s.is \in ReadKinds => Text(rd.got, rd.eof, BytesOf(s))
    /\ s.is = "TreeSymlink" /\ ~rd.eof => rd.got = <<>>
ReadsRight(rd) ==
    LET m == rd.reply.mount IN m \in DOMAIN attrs /\ ReadRight(rd, proj[m], overlay[m], stamp[m], attrs[m])
HandleInv == ReplyInv /\ TablesMade /\ (reading # None => ReadsRight(reading))

(* A read stays right when the inode table grows.                          *)
LEMMA ReadStays ==
    ASSUME NEW rd, NEW p, NEW ov, NEW st, NEW f, NEW g, ReadRight(rd, p, ov, st, f),
           \A i \in DOMAIN f : i \in DOMAIN g /\ g[i] = f[i]
    PROVE  ReadRight(rd, p, ov, st, g)
<1>1. ReplyRight(rd.reply, p, ov, st, g)
    BY ReplyStays DEF ReadRight
<1>2. g[rd.reply.answer.inode] = f[rd.reply.answer.inode]
    BY DEF ReadRight, ReplyRight
<1> QED
    BY <1>1, <1>2 DEF ReadRight

(* A snapshot with bytes to read has a sequence of them.                   *)
LEMMA TableBytes ==
    ASSUME ReplyInv, TablesMade, NEW m \in DOMAIN attrs, NEW i \in DOMAIN attrs[m], attrs[m][i].is \in ReadKinds
    PROVE  Chain(BytesOf(attrs[m][i]))
<1>1. attrs[m][i] # RootSnapshot
    BY DEF RootSnapshot, ReadKinds
<1>2. Made(m, proj[m], overlay[m], i, attrs[m][i])
    BY <1>1 DEF TablesMade
<1>3. Tidy(overlay[m]) /\ proj[m] \in Projections
    BY OverlayTidy DEF ReplyInv
<1>4. IsDotgit(overlay[m])
    BY DEF ReplyInv, ProviderInv, Prepared, DotgitBuilt
<1> QED
    BY <1>2, <1>3, <1>4, MadeBytes

(* What a lookup publishes.                                                *)
LEMMA LookupMade ==
    ASSUME ReplyInv, NEW m, NEW p, NEW n \in Names, LookupAnswers(m, p, n)
    PROVE  m \in DOMAIN attrs /\ \E i, snap : Publish(m, i, snap) /\ Made(m, proj[m], overlay[m], i, snap)
<1> DEFINE r == Resolved(m, p, n)
           up == PathBy(attrs[m], p)
           path == JoinPath(up.path, n)
           i == InodeFor(m, r, path)
           snap == SnapshotFor(r, path)
           c == ResolveCommit(proj[m], refs)
<1>1. m \in DOMAIN attrs /\ p \in KnownInodes(m)
    BY DEF LookupAnswers, ReplyInv, ProviderInv, MountInv, MountsAreBuilt
<1>2. r.ok /\ Publish(m, i, snap)
    BY ParentIs DEF LookupAnswers
<1>3. up.ok
    <2>1. ~up.ok => r = up
        BY ParentIs DEF Resolved
    <2> QED
        BY <1>2, <2>1
<1>4. /\ path \in Seq(Names) /\ path # <<>> /\ c \in MayShow
      /\ Means(proj[m], overlay[m], c, path, have, r)
    BY <1>1, <1>3, ResolvedMeans
<1>5. proj[m].kind # "Ref" => c = proj[m].commit
    BY <1>1, CommitShown DEF ReplyInv
<1> HIDE DEF i, snap, c, path, r
<1>6. PICK x \in NamedBy(proj[m], overlay[m], c, path) : r = Resolves(overlay[m], path, x)
    BY <1>2, <1>4, Errors DEF Means
<1>7. Made(m, proj[m], overlay[m], i, snap)
    BY <1>4, <1>5, <1>6 DEF Made, i, snap
<1> QED
    BY <1>1, <1>2, <1>7

(* The reads, from the state they are made in.                             *)
LEMMA ReadsStep ==
    ASSUME HandleInv, reading # None, NEW s, s = Snapshot(reading.reply)
    PROVE  /\ \A k \in Nat \ {0} : \A b : /\ ~reading.eof /\ s.is \in {"TreeFile", "SyntheticFile"}
                                          /\ b = Slice(BytesOf(s), Len(reading.got), k)
                                          /\ Got(b, Len(b) < k)
                                          => ReadsRight(reading')
           /\ ~reading.eof /\ s.is = "TreeSymlink" /\ Got(BytesOf(s), TRUE) => ReadsRight(reading')
<1> DEFINE m == reading.reply.mount
           p == proj[m]
           ov == overlay[m]
           st == stamp[m]
           table == attrs[m]
           i == reading.reply.answer.inode
<1>1. m \in DOMAIN attrs /\ ReadRight(reading, p, ov, st, table)
    BY DEF HandleInv, ReadsRight
<1>2. s = table[i]
    BY DEF Snapshot
<1>3. /\ ReplyRight(reading.reply, p, ov, st, table) /\ reading.reply.answer.ok
      /\ s.is \in ReadKinds => Text(reading.got, reading.eof, BytesOf(s))
      /\ s.is = "TreeSymlink" /\ ~reading.eof => reading.got = <<>>
    BY <1>1, <1>2 DEF ReadRight
<1>4. i \in DOMAIN attrs[m]
    BY <1>3 DEF ReplyRight
<1>5. s.is \in ReadKinds => Chain(BytesOf(s))
    BY <1>1, <1>2, <1>4, TableBytes DEF HandleInv
<1>6. ASSUME NEW b, NEW e, Got(b, e)
      PROVE  reading'.reply = reading.reply /\ reading'.got = reading.got \o b /\ reading'.eof = e
    BY <1>6 DEF Got
<1>7. ASSUME NEW b, NEW e, Got(b, e), s.is \in ReadKinds, Text(reading.got \o b, e, BytesOf(s)),
             s.is = "TreeSymlink" => e
      PROVE  ReadsRight(reading')
    <2> DEFINE rd == reading'
    <2>1. rd.reply = reading.reply /\ rd.got = reading.got \o b /\ rd.eof = e
        BY <1>6, <1>7
    <2> HIDE DEF rd
    <2>2. ReadRight(rd, p, ov, st, table)
        BY <1>2, <1>3, <1>7, <2>1 DEF ReadRight
    <2> QED
        BY <1>1, <2>1, <2>2 DEF ReadsRight, rd
<1>8. ASSUME NEW k \in Nat \ {0}, NEW b, ~reading.eof, s.is \in {"TreeFile", "SyntheticFile"},
             b = Slice(BytesOf(s), Len(reading.got), k), Got(b, Len(b) < k)
      PROVE  ReadsRight(reading')
    <2>1. s.is \in ReadKinds /\ s.is # "TreeSymlink"
        BY <1>8 DEF ReadKinds
    <2>2. Text(reading.got, FALSE, BytesOf(s))
        BY <1>3, <1>8, <2>1 DEF Text
    <2>3. Text(reading.got \o b, Len(b) < k, BytesOf(s))
        BY <1>5, <1>8, <2>1, <2>2, SliceIs
    <2> QED
        BY <1>7, <1>8, <2>1, <2>3
<1>9. ASSUME ~reading.eof, s.is = "TreeSymlink", Got(BytesOf(s), TRUE)
      PROVE  ReadsRight(reading')
    <2>1. s.is \in ReadKinds /\ reading.got = <<>>
        BY <1>3, <1>9 DEF ReadKinds
    <2>2. Text(reading.got \o BytesOf(s), TRUE, BytesOf(s))
        BY <1>5, <2>1, TextBegins
    <2> QED
        BY <1>7, <1>9, <2>1, <2>2
<1> QED
    BY <1>8, <1>9

(* A file that was just opened.                                            *)
LEMMA OpenRight ==
    ASSUME HandleInv, NEW r \in replies, Open(r)
    PROVE  ReadsRight(reading')
<1> DEFINE m == r.mount
           s == attrs[m][r.answer.inode]
           rd == reading'
<1>1. rd.reply = r /\ rd.got = <<>> /\ rd.eof = FALSE /\ r.answer.ok
    BY DEF Open
<1>2. m \in DOMAIN attrs /\ ReplyRight(r, proj[m], overlay[m], stamp[m], attrs[m])
    BY DEF HandleInv, ReplyInv, RepliesRight
<1>3. r.answer.inode \in DOMAIN attrs[m]
    BY <1>1, <1>2 DEF ReplyRight
<1>4. s.is \in ReadKinds => Chain(BytesOf(s))
    BY <1>2, <1>3, TableBytes DEF HandleInv
<1>5. s.is \in ReadKinds => Text(<<>>, FALSE, BytesOf(s))
    BY <1>4, TextBegins
<1> HIDE DEF rd
<1>6. ReadRight(rd, proj[m], overlay[m], stamp[m], attrs[m])
    BY <1>1, <1>2, <1>5 DEF ReadRight
<1> QED
    BY <1>1, <1>2, <1>6 DEF ReadsRight, rd

(* Reads and tables stay right.                                            *)
LEMMA NextHandle ==
    ASSUME HandleInv, [Next]_vars
    PROVE  HandleInv'
<1> USE DEF provider, client, store, cli, Forgets
<1>1. ReplyInv' /\ Kept
    BY NextReply, NextProvider DEF HandleInv, ReplyInv
<1> DEFINE Reads == reading' # None => ReadsRight(reading')
           Tables == \A m \in DOMAIN attrs' : \A i \in DOMAIN attrs'[m] :
                        \/ m \in DOMAIN attrs /\ i \in DOMAIN attrs[m]
                        \/ attrs'[m][i] = RootSnapshot
                        \/ m \in DOMAIN attrs /\ Made(m, proj[m], overlay[m], i, attrs'[m][i])
<1>2. ASSUME Reads, Tables PROVE HandleInv'
    <2>1. ASSUME NEW m \in DOMAIN attrs', NEW i \in DOMAIN attrs'[m]
          PROVE  attrs'[m][i] = RootSnapshot \/ Made(m, proj'[m], overlay'[m], i, attrs'[m][i])
        <3>1. CASE m \in DOMAIN attrs /\ i \in DOMAIN attrs[m]
            <4>1. attrs'[m][i] = attrs[m][i] /\ proj'[m] = proj[m] /\ overlay'[m] = overlay[m]
                BY <1>1, <3>1 DEF Kept
            <4> QED
                BY <3>1, <4>1 DEF HandleInv, TablesMade
        <3>2. CASE m \in DOMAIN attrs /\ Made(m, proj[m], overlay[m], i, attrs'[m][i])
            <4>1. proj'[m] = proj[m] /\ overlay'[m] = overlay[m]
                BY <1>1, <3>2 DEF Kept
            <4> QED
                BY <3>2, <4>1
        <3> QED
            BY <1>2, <2>1, <3>1, <3>2
    <2>2. ASSUME reading' # None
          PROVE  LET m == reading'.reply.mount
                 IN m \in DOMAIN attrs' /\ ReadRight(reading', proj'[m], overlay'[m], stamp'[m], attrs'[m])
        <3> DEFINE m == reading'.reply.mount
        <3>1. m \in DOMAIN attrs /\ ReadRight(reading', proj[m], overlay[m], stamp[m], attrs[m])
            BY <1>2, <2>2 DEF ReadsRight
        <3> HIDE DEF m
        <3>2. /\ m \in DOMAIN attrs' /\ proj'[m] = proj[m] /\ overlay'[m] = overlay[m] /\ stamp'[m] = stamp[m]
              /\ \A i \in DOMAIN attrs[m] : i \in DOMAIN attrs'[m] /\ attrs'[m][i] = attrs[m][i]
            BY <1>1, <3>1 DEF Kept
        <3>3. ReadRight(reading', proj[m], overlay[m], stamp[m], attrs'[m])
            BY <3>1, <3>2, ReadStays
        <3> QED
            BY <3>2, <3>3 DEF m
    <2> QED
        BY <1>1, <2>1, <2>2 DEF HandleInv, TablesMade, ReadsRight
<1>3. ASSUME reading' \in {reading, None} PROVE Reads
    BY <1>3 DEF HandleInv
<1>4. ASSUME UNCHANGED attrs PROVE Tables
    BY <1>4
<1>5. ASSUME NEW r \in replies, Open(r) PROVE Reads /\ Tables
    BY <1>4, <1>5, OpenRight DEF Open
<1>6. ASSUME NEW k \in Chunks, Read(k) PROVE Reads /\ Tables
    <2> DEFINE s == Snapshot(reading.reply)
    <2>1. reading # None /\ ~reading.eof /\ UNCHANGED attrs /\ k \in Nat \ {0}
        BY <1>6, ProjectionFsAssumption DEF Read, Reading
    <2>2. s.is \in {"TreeFile", "SyntheticFile"} /\ \E b : b = Slice(BytesOf(s), Len(reading.got), k) /\ Got(b, Len(b) < k)
        BY <1>6 DEF Read, BytesOf
    <2> HIDE DEF s
    <2>3. ReadsRight(reading')
        BY <2>1, <2>2, ReadsStep DEF s
    <2> QED
        BY <1>4, <2>1, <2>3
<1>7. ASSUME ReadLink PROVE Reads /\ Tables
    <2> DEFINE s == Snapshot(reading.reply)
    <2>1. reading # None /\ ~reading.eof /\ UNCHANGED attrs
        BY <1>7 DEF ReadLink, Reading
    <2>2. s.is = "TreeSymlink" /\ Got(BytesOf(s), TRUE)
        BY <1>7 DEF ReadLink, BytesOf
    <2> HIDE DEF s
    <2>3. ReadsRight(reading')
        BY <2>1, <2>2, ReadsStep DEF s
    <2> QED
        BY <1>4, <2>1, <2>3
<1>8. ASSUME NEW m, NEW p, NEW n \in Names, LookupAnswers(m, p, n) PROVE Reads /\ Tables
    <2>1. UNCHANGED reading
        BY <1>8 DEF LookupAnswers
    <2>2. PICK i, snap : Publish(m, i, snap) /\ Made(m, proj[m], overlay[m], i, snap)
        BY <1>8, LookupMade DEF HandleInv
    <2>3. m \in DOMAIN attrs
        BY <1>8, LookupMade DEF HandleInv
    <2>4. /\ DOMAIN attrs' = DOMAIN attrs
          /\ DOMAIN attrs'[m] = DOMAIN attrs[m] \cup {i}
          /\ \A j \in DOMAIN attrs'[m] : attrs'[m][j] = IF j \in DOMAIN attrs[m] THEN attrs[m][j] ELSE snap
          /\ \A k \in DOMAIN attrs : k # m => attrs'[k] = attrs[k]
        BY <2>2, <2>3, PublishIs
    <2>5. Tables
        BY <2>2, <2>3, <2>4
    <2> QED
        BY <1>3, <2>1, <2>5
<1>9. ASSUME NewProvider PROVE Reads /\ Tables
    <2>0. CASE UNCHANGED <<stamp, attrs>>
        BY <1>3, <1>4, <1>9, <2>0 DEF NewProvider
    <2> SUFFICES ASSUME attrs' = Extend(attrs, turn, [i \in {RootInode} |-> RootSnapshot])
                 PROVE  Reads /\ Tables
        BY <1>9, <2>0 DEF NewProvider
    <2>1. attrs' = Extend(attrs, turn, [i \in {RootInode} |-> RootSnapshot]) /\ UNCHANGED reading
        BY <1>9 DEF NewProvider
    <2>2. DOMAIN attrs' = DOMAIN attrs \cup {turn} /\ attrs'[turn] = [i \in {RootInode} |-> RootSnapshot]
        BY <2>1 DEF Extend
    <2>3. \A k \in DOMAIN attrs : k # turn => attrs'[k] = attrs[k]
        BY <2>1 DEF Extend
    <2>4. Tables
        BY <2>2, <2>3
    <2> QED
        BY <1>3, <2>1, <2>4
<1> HIDE DEF Reads, Tables
<1>10. ASSUME UNCHANGED attrs, reading' \in {reading, None} PROVE HandleInv'
    BY <1>2, <1>3, <1>4, <1>10
<1>11. CASE UNCHANGED vars
    BY <1>10, <1>11 DEF vars
<1>12. CASE \/ CheckArgs \/ OpenSource \/ BuildProjection \/ SkipOverlay \/ PinCommit \/ BuildOverlay
            \/ MountBackground \/ InstallHandler \/ Unpark \/ Exit
    BY <1>10, <1>12
    DEF CheckArgs, OpenSource, BuildProjection, SkipOverlay, PinCommit, BuildOverlay,
        MountBackground, InstallHandler, Unpark, Exit
<1>13. ASSUME DropSession PROVE HandleInv'
    BY <1>10, <1>13 DEF DropSession
<1>14. CASE Main
    BY <1>2, <1>9, <1>12, <1>13, <1>14 DEF Main
<1>15. CASE Client
    <2>1. plan.asks \subseteq Names
        BY MountCliAssumption DEF HandleInv, ReplyInv, ProviderInv, MountInv, InOrder
    <2>2. ASSUME NEW m, NEW p, NEW n, LookupFails(m, p, n) PROVE HandleInv'
        BY <1>10, <2>2 DEF LookupFails
    <2>3. ASSUME NEW m, NEW i, OpenDir(m, i) PROVE HandleInv'
        BY <1>10, <2>3 DEF OpenDir
    <2>4. ReadFails \/ ReadDirReplies \/ ReadDirFails => HandleInv'
        BY <1>10 DEF ReadFails, ReadDirReplies, ReadDirFails
    <2>5. \/ \E m, p : \E n \in plan.asks : LookupFails(m, p, n) \/ LookupAnswers(m, p, n)
          \/ \E r \in replies : Open(r)
          \/ \E k \in Chunks : Read(k)
          \/ \E m, i : OpenDir(m, i)
          \/ ReadLink \/ ReadFails \/ ReadDirReplies \/ ReadDirFails
        BY <1>15 DEF Client
    <2> QED
        BY <1>2, <1>5, <1>6, <1>7, <1>8, <2>1, <2>2, <2>3, <2>4, <2>5
<1>16. CASE Environment
    <2>1. StepFails \/ CtrlC \/ Killed => HandleInv'
        BY <1>10 DEF StepFails, CtrlC, Killed
    <2>2. ASSUME NEW r, NEW c, MoveRef(r, c) \/ DeleteRef(r) PROVE HandleInv'
        BY <1>10, <2>2 DEF MoveRef, DeleteRef
    <2>3. ASSUME NEW o, Arrives(o) PROVE HandleInv'
        BY <1>10, <2>3 DEF Arrives
    <2> QED
        BY <1>16, <2>1, <2>2, <2>3 DEF Environment
<1> QED
    BY <1>11, <1>14, <1>15, <1>16 DEF Next

-----------------------------------------------------------------------------
(* One inode, one entry: what a handle rests on.                           *)
LEMMA SomeCommit == Commits # {}
    BY MountCliAssumption, ProjectionFsAssumption

LEMMA DotgitPathsApart ==
    ASSUME HashIsNumber, NoCollisions, NEW m \in Mounts, NEW ov, IsDotgit(ov), Commits # {},
           NEW p \in DOMAIN ov, NEW q \in DOMAIN ov, ForSynthetic(m, p) = ForSynthetic(m, q)
    PROVE  p = q
<1>0. Reserved(Hash(<<"synth", m, p>>)) = Reserved(Hash(<<"synth", m, q>>))
    <2> DEFINE i == Reserved(Hash(<<"synth", m, p>>))
               j == Reserved(Hash(<<"synth", m, q>>))
    <2>1. i \in 2..(HighBit - 1) /\ j \in 2..(HighBit - 1)
        BY ReservedRange DEF HashIsNumber
    <2>2. HighBit + (i % HighBit) = HighBit + (j % HighBit)
        BY DEF ForSynthetic
    <2> HIDE DEF i, j
    <2>3. i % HighBit = i /\ j % HighBit = j
        BY <2>1, ProjectionFsAssumption
    <2>4. i = j
        BY <2>1, <2>2, <2>3, ProjectionFsAssumption
    <2> QED
        BY <2>4 DEF i, j
<1>1. PICK k \in Commits : TRUE
    OBVIOUS
<1>2. ASSUME NEW c PROVE DOMAIN A1PlusOverlay(c) = DOMAIN A1PlusOverlay(k)
    BY Zenon DEF A1PlusOverlay, A1Overlay, With
<1>3. ASSUME NEW c, NEW b
      PROVE  DOMAIN A2Overlay(A1PlusOverlay(c), b, c) = DOMAIN A2Overlay(A1PlusOverlay(k), b, k)
    BY <1>2 DEF A2Overlay, SpliceNested, With
<1>4. CASE \E c : ov = A1PlusOverlay(c)
    <2>1. A1PlusOverlay(k) \in DotgitOverlays
        BY DEF DotgitOverlays
    <2> QED
        BY <1>0, <1>2, <1>4, <2>1 DEF NoCollisions
<1>5. ASSUME NEW c, NEW b \in DOMAIN BranchPath, ov = A2Overlay(A1PlusOverlay(c), b, c) PROVE p = q
    <2>1. A2Overlay(A1PlusOverlay(k), b, k) \in DotgitOverlays
        BY <1>5 DEF DotgitOverlays
    <2> QED
        BY <1>0, <1>3, <1>5, <2>1 DEF NoCollisions
<1> QED
    BY <1>4, <1>5 DEF IsDotgit, NoOverlay

(* The roots one mount shows: one tree, or the roots of two commits.       *)
LEMMA ShownTogether ==
    ASSUME NEW p \in Projections, NEW c \in MayShow, NEW d \in MayShow, p.kind # "Ref" => c = d,
           NEW t \in ShownBy(p, c), NEW u \in ShownBy(p, d)
    PROVE  t = u \/ (t = RootOf[c] /\ u = RootOf[d])
<1>0. c # None /\ d # None /\ c \in Commits
    BY ShownAreTrees, ProjectionFsAssumption DEF ShownBy
<1>1. CASE p.kind # "Subtree"
    BY <1>0, <1>1 DEF ShownBy
<1>2. CASE p.kind = "Subtree"
    <2>1. RootOf[c] \in DOMAIN Trees /\ c = d
        BY <1>0, <1>2, ProjectionFsAssumption
    <2>2. PICK e \in AllPaths[RootOf[c]] : e[1] = p.path /\ e[2].oid = t
        BY <1>0, <1>2 DEF ShownBy
    <2>3. PICK f \in AllPaths[RootOf[c]] : f[1] = p.path /\ f[2].oid = u
        BY <1>0, <1>2, <2>1 DEF ShownBy
    <2>4. e[2] = f[2]
        BY <2>1, <2>2, <2>3, PathsUnique
    <2> QED
        BY <2>2, <2>3, <2>4
<1> QED
    BY <1>1, <1>2

(* Two lookups of one mount that gave the same inode found the same thing. *)
LEMMA OneInodeOneEntry ==
    ASSUME HashIsNumber, NoCollisions,
           NEW m \in Mounts, NEW p \in Projections, NEW ov, Tidy(ov), IsDotgit(ov),
           NEW c \in MayShow, NEW d \in MayShow, p.kind # "Ref" => c = d,
           NEW path, path # <<>>, NEW x \in NamedBy(p, ov, c, path),
           NEW q, q # <<>>, NEW y \in NamedBy(p, ov, d, q),
           InodeFor(m, Resolves(ov, path, x), path) = InodeFor(m, Resolves(ov, q, y), q)
    PROVE  /\ path = q
           /\ Shadows(ov, path[1]) => x = y
           /\ ~Shadows(ov, path[1]) => x.oid = y.oid /\ (TypesKept => TypeOf(x.mode) = TypeOf(y.mode))
<1> DEFINE r == Resolves(ov, path, x)
           s == Resolves(ov, q, y)
<1>1. /\ r.space = "Tree" <=> ~Shadows(ov, path[1])
      /\ s.space = "Tree" <=> ~Shadows(ov, q[1])
      /\ ~Shadows(ov, path[1]) => r.oid = x.oid
      /\ ~Shadows(ov, q[1]) => s.oid = y.oid
    BY DEF Resolves, IsTree, IsSynthetic
<1> HIDE DEF r, s
<1>2. Shadows(ov, path[1]) <=> Shadows(ov, q[1])
    BY <1>1, InodeSpace DEF r, s
<1>3. CASE Shadows(ov, path[1])
    <2>1. path \in DOMAIN ov /\ x = ov[path] /\ q \in DOMAIN ov /\ y = ov[q]
        BY <1>2, <1>3, NamedModes
    <2>2. ForSynthetic(m, path) = ForSynthetic(m, q)
        BY <1>1, <1>2, <1>3 DEF InodeFor, r, s
    <2> QED
        BY <1>3, <2>1, <2>2, SomeCommit, DotgitPathsApart
<1>4. CASE ~Shadows(ov, path[1])
    <2>1. PICK t \in ShownBy(p, c) : t \in DOMAIN Trees /\ \E e \in AllPaths[t] : e[1] = path /\ e[2] = x
        BY <1>4, NamedModes
    <2>2. PICK u \in ShownBy(p, d) : u \in DOMAIN Trees /\ \E f \in AllPaths[u] : f[1] = q /\ f[2] = y
        BY <1>2, <1>4, NamedModes
    <2>3. PICK e \in EntriesOf(t) : e[1] = path /\ e[2] = x
        BY <2>1 DEF EntriesOf
    <2>4. PICK f \in EntriesOf(u) : f[1] = q /\ f[2] = y
        BY <2>2 DEF EntriesOf
    <2>5. t = u \/ (t = RootOf[c] /\ u = RootOf[d])
        BY ShownTogether
    <2>6. Reserved(Hash(<<"tree", m, e[2].oid, e[1]>>)) = Reserved(Hash(<<"tree", m, f[2].oid, f[1]>>))
        BY <1>1, <1>2, <1>4, <2>3, <2>4 DEF InodeFor, ForTreeEntry, r, s
    <2>7. path = q /\ x.oid = y.oid
        <3>1. Together(t, u)
            BY <2>5, ShownAreTrees DEF Together
        <3> QED
            BY <2>1, <2>2, <2>3, <2>4, <2>6, <3>1 DEF NoCollisions
    <2>8. TypesKept => TypeOf(x.mode) = TypeOf(y.mode)
        <3>1. CASE t = u
            BY <2>1, <2>3, <2>4, <2>7, <3>1, PathsUnique DEF EntriesOf
        <3>2. CASE t = RootOf[c] /\ u = RootOf[d]
            BY <2>3, <2>4, <2>7, <3>2, ShownAreTrees DEF TypesKept
        <3> QED
            BY <2>5, <3>1, <3>2
    <2> QED
        BY <1>4, <2>7, <2>8
<1> QED
    BY <1>3, <1>4

\* What a snapshot s of an inode i must be for an answer a about x at the path.
Stands(ov, st, path, x, a, i, s) ==
    /\ AttrBy(st, i, s).type = a.type /\ AttrBy(st, i, s).size = a.size
    /\ a.type # "Directory" =>
         /\ s.is \in ReadKinds
         /\ BytesOf(s) = IF Shadows(ov, path[1]) THEN x.content ELSE Bytes[x.oid]
         /\ a.size = Len(BytesOf(s))
         /\ s.is = "TreeFile" => s.oid = x.oid
         /\ s.is = "SyntheticFile" => s.content = x.content

(* A snapshot of the same entry, of any commit, stands for the answer.     *)
LEMMA SameStands ==
    ASSUME NEW p \in Projections, NEW ov, Tidy(ov), NEW c \in MayShow, NEW d \in MayShow, NEW path,
           NEW x \in NamedBy(p, ov, c, path), NEW y \in NamedBy(p, ov, d, path),
           Shadows(ov, path[1]) => x = y,
           ~Shadows(ov, path[1]) => x.oid = y.oid /\ TypeOf(x.mode) = TypeOf(y.mode),
           NEW st, NEW m, NEW i
    PROVE  Stands(ov, st, path, x, Shows(ov, st, m, path, x), i, SnapshotFor(Resolves(ov, path, y), path))
<1> DEFINE r == Resolves(ov, path, x)
           s == Resolves(ov, path, y)
           rs == SnapshotFor(r, path)
           ss == SnapshotFor(s, path)
           a == AttrBy(st, InodeFor(m, r, path), rs)
           j == InodeFor(m, r, path)
<1>1. Shows(ov, st, m, path, x) = a
    BY Zenon DEF Shows
<1>2. /\ r.mode = x.mode /\ s.mode = y.mode
      /\ r.space = "Tree" <=> ~Shadows(ov, path[1])
      /\ s.space = "Tree" <=> ~Shadows(ov, path[1])
      /\ ~Shadows(ov, path[1]) => r.oid = x.oid /\ s.oid = y.oid
      /\ Shadows(ov, path[1]) => r.content = x.content /\ s.content = y.content
    BY DEF Resolves, IsTree, IsSynthetic
<1>3. CASE Shadows(ov, path[1])
    <2>1. x.mode \in {"RegularFile", "Directory"} /\ rs = ss
        BY <1>3, NamedModes DEF NodeModes
    <2> HIDE DEF r, s, j
    <2>2. /\ x.mode = "RegularFile" => ss.is = "SyntheticFile" /\ ss.content = x.content
          /\ x.mode = "Directory" => ss.is = "SyntheticDir"
        BY <1>2, <1>3 DEF SnapshotFor
    <2> HIDE DEF rs, ss
    <2>3. Stands(ov, st, path, x, a, i, ss)
        BY <1>3, <2>1, <2>2 DEF Stands, AttrBy, ReadKinds, BytesOf
    <2> QED
        BY <1>1, <2>3 DEF ss, s
<1>4. CASE ~Shadows(ov, path[1])
    <2>1. x.mode \in Modes /\ y.mode \in Modes /\ x.oid = y.oid /\ TypeOf(x.mode) = TypeOf(y.mode)
        BY <1>4, NamedModes
    <2> HIDE DEF r, s, j
    <2>2. /\ x.mode \in {"RegularFile", "ExecutableFile"} =>
                rs.is = "TreeFile" /\ rs.oid = x.oid /\ rs.size = Len(Bytes[x.oid])
          /\ x.mode \in {"Directory", "Gitlink"} => rs.is \in {"TreeDir", "Gitlink"}
          /\ x.mode = "Symlink" => rs.is = "TreeSymlink" /\ rs.oid = x.oid /\ rs.size = Len(Bytes[x.oid])
        BY <1>2, <1>4, <2>1 DEF SnapshotFor, Modes
    <2>3. /\ y.mode \in {"RegularFile", "ExecutableFile"} =>
                ss.is = "TreeFile" /\ ss.oid = x.oid /\ ss.size = Len(Bytes[x.oid])
          /\ y.mode \in {"Directory", "Gitlink"} => ss.is \in {"TreeDir", "Gitlink"}
          /\ y.mode = "Symlink" => ss.is = "TreeSymlink" /\ ss.oid = x.oid /\ ss.size = Len(Bytes[x.oid])
        BY <1>2, <1>4, <2>1 DEF SnapshotFor, Modes
    <2>4. \/ {x.mode, y.mode} \subseteq {"RegularFile", "ExecutableFile"}
          \/ {x.mode, y.mode} \subseteq {"Directory", "Gitlink"}
          \/ x.mode = "Symlink" /\ y.mode = "Symlink"
        BY <2>1 DEF TypeOf, Modes
    <2> HIDE DEF rs, ss
    <2>5. Stands(ov, st, path, x, a, i, ss)
        BY <1>4, <2>2, <2>3, <2>4 DEF Stands, AttrBy, ReadKinds, BytesOf
    <2> QED
        BY <1>1, <2>5 DEF ss, s
<1> QED
    BY <1>3, <1>4

(* The snapshot behind an answer was made of an entry at the answer's      *)
(* path, in a commit that the mount showed.                                *)
LEMMA AnswerMade ==
    ASSUME HashIsNumber, NoCollisions, ReplyInv, TablesMade, SpacesApart,
           NEW m \in DOMAIN attrs, NEW p, p = proj[m], NEW ov, ov = overlay[m], NEW st, st = stamp[m],
           NEW r, r.mount = m, r.answer.ok, ReplyRight(r, p, ov, st, attrs[m])
    PROVE  /\ Tidy(ov) /\ p \in Projections /\ r.commit \in MayShow
           /\ \E x \in NamedBy(p, ov, r.commit, r.path) : r.answer = Shows(ov, st, m, r.path, x)
           /\ \A x \in NamedBy(p, ov, r.commit, r.path) :
                \E d \in MayShow : \E y \in NamedBy(p, ov, d, r.path) :
                    /\ p.kind # "Ref" => d = r.commit
                    /\ Shadows(ov, r.path[1]) => x = y
                    /\ ~Shadows(ov, r.path[1]) => x.oid = y.oid /\ (TypesKept => TypeOf(x.mode) = TypeOf(y.mode))
                    /\ Snapshot(r) = SnapshotFor(Resolves(ov, r.path, y), r.path)
<1> DEFINE table == attrs[m]
           c == r.commit
           path == r.path
           i == r.answer.inode
           s == table[i]
<1>1. Tidy(ov) /\ p \in Projections /\ IsDotgit(ov) /\ m \in Mounts
    <2>1. Tidy(ov) /\ p \in Projections
        BY OverlayTidy DEF ReplyInv
    <2>2. IsDotgit(ov)
        BY DEF ReplyInv, ProviderInv, Prepared, DotgitBuilt
    <2>3. m \in DOMAIN Specs /\ plan \in Plans
        BY DEF ReplyInv, ProviderInv, MountInv, InOrder
    <2> QED
        BY <2>1, <2>2, <2>3 DEF Mounts, Specs
<1>2. s = Snapshot(r)
    BY Zenon DEF Snapshot
<1>3. i \in DOMAIN table /\ (s = RootSnapshot \/ Made(m, p, ov, i, s)) /\ (s.is = "Root" => i = RootInode)
    BY DEF TablesMade, ReplyRight, SpacesApart
<1> HIDE DEF table, s
<1>4. c \in MayShow /\ (p.kind # "Ref" => c = p.commit) /\ PathBy(table, r.parent).ok
    BY DEF ReplyRight, table
<1>5. path # <<>> /\ Denotes(p, ov, st, m, c, path, r.answer)
    BY <1>4, JoinPathIs DEF ReplyRight, table
<1> HIDE DEF c, path, i
<1>6. PICK x \in NamedBy(p, ov, c, path) : r.answer = Shows(ov, st, m, path, x)
    BY <1>5, Errors DEF Denotes
<1>7. i = InodeFor(m, Resolves(ov, path, x), path)
    BY <1>6, ShowsInode DEF InodeFor, Resolves, IsTree, IsSynthetic, i
<1>8. i # RootInode
    BY <1>7, InodeSpace
<1>9. Made(m, p, ov, i, s)
    BY <1>3, <1>8 DEF RootSnapshot
<1>10. PICK d \in MayShow, q \in Seq(Names) : \E y \in NamedBy(p, ov, d, q) :
          /\ q # <<>> /\ (p.kind # "Ref" => d = p.commit)
          /\ i = InodeFor(m, Resolves(ov, q, y), q)
          /\ s = SnapshotFor(Resolves(ov, q, y), q)
    BY <1>9 DEF Made
<1>11. PICK y \in NamedBy(p, ov, d, q) :
          /\ q # <<>> /\ (p.kind # "Ref" => d = p.commit)
          /\ i = InodeFor(m, Resolves(ov, q, y), q)
          /\ s = SnapshotFor(Resolves(ov, q, y), q)
    BY <1>10
<1>12. /\ path = q
       /\ Shadows(ov, path[1]) => x = y
       /\ ~Shadows(ov, path[1]) => x.oid = y.oid /\ (TypesKept => TypeOf(x.mode) = TypeOf(y.mode))
    <2>1. /\ p.kind # "Ref" => c = d
          /\ InodeFor(m, Resolves(ov, path, x), path) = InodeFor(m, Resolves(ov, q, y), q)
        BY <1>4, <1>7, <1>11
    <2> QED
        BY <1>1, <1>4, <1>5, <1>11, <2>1, OneInodeOneEntry
<1>13. \A z \in NamedBy(p, ov, c, path) : z = x
    BY <1>1, <1>4, NamedOnce
<1>14. /\ y \in NamedBy(p, ov, d, path)
       /\ p.kind # "Ref" => d = c
       /\ Shadows(ov, path[1]) => x = y
       /\ ~Shadows(ov, path[1]) => x.oid = y.oid /\ (TypesKept => TypeOf(x.mode) = TypeOf(y.mode))
       /\ Snapshot(r) = SnapshotFor(Resolves(ov, path, y), path)
    BY <1>2, <1>4, <1>11, <1>12
<1> QED
    BY <1>1, <1>4, <1>6, <1>13, <1>14 DEF c, path

(* So it stands for what the answer named.                                 *)
LEMMA AnswerStands ==
    ASSUME HashIsNumber, NoCollisions, TypesKept, ReplyInv, TablesMade, SpacesApart,
           NEW r, r.mount \in DOMAIN attrs, r.answer.ok,
           ReplyRight(r, proj[r.mount], overlay[r.mount], stamp[r.mount], attrs[r.mount])
    PROVE  \A x \in Named(r) : Stands(overlay[r.mount], stamp[r.mount], r.path, x, r.answer, r.answer.inode, Snapshot(r))
<1> DEFINE m == r.mount
           p == proj[m]
           ov == overlay[m]
           st == stamp[m]
           c == r.commit
           path == r.path
<1>1. Named(r) = NamedBy(p, ov, c, path)
    BY NamedIs, Zenon
<1>2. /\ Tidy(ov) /\ p \in Projections /\ c \in MayShow
      /\ \E x \in NamedBy(p, ov, c, path) : r.answer = Shows(ov, st, m, path, x)
      /\ \A x \in NamedBy(p, ov, c, path) :
           \E d \in MayShow : \E y \in NamedBy(p, ov, d, path) :
               /\ p.kind # "Ref" => d = c
               /\ Shadows(ov, path[1]) => x = y
               /\ ~Shadows(ov, path[1]) => x.oid = y.oid /\ (TypesKept => TypeOf(x.mode) = TypeOf(y.mode))
               /\ Snapshot(r) = SnapshotFor(Resolves(ov, path, y), path)
    <2>1. /\ m \in DOMAIN attrs /\ p = proj[m] /\ ov = overlay[m] /\ st = stamp[m] /\ r.mount = m
          /\ c = r.commit /\ path = r.path
          /\ ReplyRight(r, p, ov, st, attrs[m])
        OBVIOUS
    <2> HIDE DEF m, p, ov, st, c, path
    <2> QED
        BY <2>1, AnswerMade
<1> HIDE DEF m, p, ov, st, c, path
<1>3. ASSUME NEW x \in NamedBy(p, ov, c, path)
      PROVE  Stands(ov, st, path, x, r.answer, r.answer.inode, Snapshot(r))
    <2>1. r.answer = Shows(ov, st, m, path, x)
        BY <1>2, <1>3, NamedOnce
    <2>2. PICK d \in MayShow : \E y \in NamedBy(p, ov, d, path) :
               /\ Shadows(ov, path[1]) => x = y
               /\ ~Shadows(ov, path[1]) => x.oid = y.oid /\ TypeOf(x.mode) = TypeOf(y.mode)
               /\ Snapshot(r) = SnapshotFor(Resolves(ov, path, y), path)
        BY <1>2, <1>3
    <2> QED
        BY <1>2, <2>1, <2>2, SameStands
<1> QED
    BY <1>1, <1>3 DEF m, p, ov, st, c, path

LEMMA InitHandle == Init => HandleInv
<1>1. Init => TablesMade /\ reading = None
    BY DEF Init, TablesMade
<1> QED
    BY <1>1, InitReply DEF HandleInv

LEMMA SpecHandle == Spec => []HandleInv
<1>1. HandleInv /\ [Next]_vars => HandleInv'
    BY NextHandle
<1> QED
    BY <1>1, InitHandle, PTL DEF Spec

(* What was read is a prefix, and at the end it is everything.             *)
LEMMA TextReads ==
    ASSUME NEW bytes, Chain(bytes), NEW got, NEW eof, Text(got, eof, bytes)
    PROVE  IsPrefix(got, bytes) /\ (eof => got = bytes)
<1>1. PICK S : bytes \in Seq(S)
    BY DEF Chain
<1>2. PICK k \in 0..Len(bytes) : got = SubSeq(bytes, 1, k) /\ (eof => k = Len(bytes))
    BY DEF Text
<1>3. Len(got) = k /\ SubSeq(bytes, 1, Len(bytes)) = bytes
    BY <1>1, <1>2, SubSeqFull
<1>4. SubSeq(got, 1, Len(got)) = got /\ Len(got) <= Len(bytes)
    <2>1. got \in Seq(S) /\ Len(bytes) \in Nat
        BY <1>1, <1>2
    <2>2. SubSeq(got, 1, Len(got)) = got
        BY <2>1, SubSeqFull
    <2>3. k <= Len(bytes)
        BY <2>1
    <2> QED
        BY <1>3, <2>2, <2>3
<1>5. got = SubSeq(bytes, 1, Len(got)) /\ (eof => got = bytes)
    BY <1>2, <1>3
<1> QED
    BY <1>4, <1>5 DEF IsPrefix

(* An inode keeps standing for what the lookup found, and reading it in    *)
(* chunks of any size gives exactly its bytes, however refs move: for      *)
(* every repository whose entries the 64-bit hash tells apart and where no *)
(* file becomes a symlink of the same content.                             *)
THEOREM HandlesStayFaithful ==
    ASSUME HashIsNumber, NoCollisions, TypesKept
    PROVE  Spec => []HandlesFaithful
<1>1. HandleInv /\ SpacesApart => HandlesFaithful
    <2> SUFFICES ASSUME HandleInv, SpacesApart PROVE HandlesFaithful
        OBVIOUS
    <2>1. ASSUME NEW r \in replies, r.answer.ok
          PROVE  LET a == GetAttr(r.mount, r.answer.inode) IN
                 /\ a.type = r.answer.type /\ a.size = r.answer.size
                 /\ a.type # "Directory" =>
                      \A x \in Named(r) : /\ a.size = Len(ContentOf(r, x))
                                          /\ Snapshot(r).is = "TreeFile" => Snapshot(r).oid = x.oid
                                          /\ Snapshot(r).is = "SyntheticFile" => Snapshot(r).content = x.content
        <3> DEFINE m == r.mount
                   i == r.answer.inode
                   a == GetAttr(m, i)
                   s == Snapshot(r)
        <3>1. m \in DOMAIN attrs /\ ReplyRight(r, proj[m], overlay[m], stamp[m], attrs[m])
            BY DEF HandleInv, ReplyInv, RepliesRight
        <3>2. \A x \in Named(r) : Stands(overlay[m], stamp[m], r.path, x, r.answer, i, s)
            BY <2>1, <3>1, AnswerStands DEF HandleInv
        <3>3. \E x \in Named(r) : TRUE
            <4>1. Denotes(proj[m], overlay[m], stamp[m], m, r.commit, r.path, r.answer)
                BY <2>1, <3>1 DEF ReplyRight
            <4>2. NamedBy(proj[m], overlay[m], r.commit, r.path) # {}
                BY <2>1, <4>1, Errors DEF Denotes
            <4> QED
                BY <4>2, NamedIs
        <3>4. a = AttrBy(stamp[m], i, s)
            BY AttrIs DEF GetAttr, Snapshot
        <3>5. \A x \in Named(r) : ContentOf(r, x) = IF Shadows(overlay[m], r.path[1]) THEN x.content ELSE Bytes[x.oid]
            BY Zenon DEF ContentOf, Synthetic
        <3> HIDE DEF a, s, m, i
        <3>6. a.type = r.answer.type /\ a.size = r.answer.size
            BY <3>2, <3>3, <3>4 DEF Stands
        <3>7. ASSUME a.type # "Directory", NEW x \in Named(r)
              PROVE  /\ a.size = Len(ContentOf(r, x))
                     /\ s.is = "TreeFile" => s.oid = x.oid
                     /\ s.is = "SyntheticFile" => s.content = x.content
            BY <3>2, <3>5, <3>6, <3>7 DEF Stands
        <3> QED
            BY <3>6, <3>7 DEF a, s, m, i
    <2>2. ASSUME reading # None, reading.reply.answer.type # "Directory", NEW x \in Named(reading.reply)
          PROVE  LET bytes == ContentOf(reading.reply, x) IN
                 /\ IsPrefix(reading.got, bytes)
                 /\ reading.eof => reading.got = bytes
        <3> DEFINE r == reading.reply
                   m == r.mount
                   s == Snapshot(r)
                   i == r.answer.inode
                   bytes == ContentOf(r, x)
        <3>1. m \in DOMAIN attrs /\ ReadRight(reading, proj[m], overlay[m], stamp[m], attrs[m])
            BY <2>2 DEF HandleInv, ReadsRight
        <3>2. ReplyRight(r, proj[m], overlay[m], stamp[m], attrs[m]) /\ r.answer.ok
            BY <3>1 DEF ReadRight
        <3>3. Stands(overlay[m], stamp[m], r.path, x, r.answer, i, s)
            BY <2>2, <3>1, <3>2, AnswerStands DEF HandleInv
        <3>4. bytes = IF Shadows(overlay[m], r.path[1]) THEN x.content ELSE Bytes[x.oid]
            BY Zenon DEF ContentOf, Synthetic
        <3>5. s.is \in ReadKinds /\ BytesOf(s) = bytes
            BY <2>2, <3>3, <3>4 DEF Stands
        <3>6. s = attrs[m][i] /\ i \in DOMAIN attrs[m]
            BY <3>2 DEF Snapshot, ReplyRight
        <3>7. Text(reading.got, reading.eof, BytesOf(s))
            BY <3>1, <3>5, <3>6 DEF ReadRight
        <3>8. Chain(BytesOf(s))
            BY <3>1, <3>5, <3>6, TableBytes DEF HandleInv
        <3> QED
            BY <3>5, <3>7, <3>8, TextReads
    <2> QED
        BY <2>1, <2>2 DEF HandlesFaithful
<1> QED
    BY <1>1, SpecHandle, InodeSpacesApart, PTL

(* In a mount of a commit or of a subtree getattr says, in every field,    *)
(* what lookup said.  In a mount of a ref it may not: a file that turned   *)
(* executable keeps the permissions it was first published with.           *)
THEOREM PinnedAttrsTransparent ==
    ASSUME HashIsNumber, NoCollisions
    PROVE  Spec => []PinnedAttrsTrue
<1>1. HandleInv /\ SpacesApart => PinnedAttrsTrue
    <2> SUFFICES ASSUME HandleInv, SpacesApart, NEW r \in replies, r.answer.ok, Pinned(Specs[r.mount])
                 PROVE  GetAttr(r.mount, r.answer.inode) = r.answer
        BY DEF PinnedAttrsTrue, Pinned
    <2> DEFINE m == r.mount
               p == proj[m]
               ov == overlay[m]
               st == stamp[m]
               c == r.commit
               path == r.path
               i == r.answer.inode
    <2>1. m \in DOMAIN attrs /\ ReplyRight(r, p, ov, st, attrs[m])
        BY DEF HandleInv, ReplyInv, RepliesRight
    <2>2. p.kind # "Ref"
        BY <2>1 DEF HandleInv, ReplyInv, ProviderInv, Prepared, ProjectionsMade
    <2>3. GetAttr(m, i) = AttrBy(st, i, Snapshot(r))
        BY AttrIs DEF GetAttr, Snapshot
    <2>4. /\ Tidy(ov) /\ p \in Projections /\ c \in MayShow
          /\ \E x \in NamedBy(p, ov, c, path) : r.answer = Shows(ov, st, m, path, x)
          /\ \A x \in NamedBy(p, ov, c, path) :
               \E d \in MayShow : \E y \in NamedBy(p, ov, d, path) :
                   /\ p.kind # "Ref" => d = c
                   /\ Snapshot(r) = SnapshotFor(Resolves(ov, path, y), path)
        <3>0. ReplyInv /\ TablesMade
            BY DEF HandleInv
        <3>1. /\ m \in DOMAIN attrs /\ p = proj[m] /\ ov = overlay[m] /\ st = stamp[m] /\ r.mount = m
              /\ c = r.commit /\ path = r.path
              /\ ReplyRight(r, p, ov, st, attrs[m])
            BY <2>1
        <3> HIDE DEF m, p, ov, st, c, path
        <3>2. /\ Tidy(ov) /\ p \in Projections /\ c \in MayShow
              /\ \E x \in NamedBy(p, ov, c, path) : r.answer = Shows(ov, st, m, path, x)
              /\ \A x \in NamedBy(p, ov, c, path) :
                   \E d \in MayShow : \E y \in NamedBy(p, ov, d, path) :
                       /\ p.kind # "Ref" => d = c
                       /\ Shadows(ov, path[1]) => x = y
                       /\ ~Shadows(ov, path[1]) => x.oid = y.oid /\ (TypesKept => TypeOf(x.mode) = TypeOf(y.mode))
                       /\ Snapshot(r) = SnapshotFor(Resolves(ov, path, y), path)
            BY <3>0, <3>1, AnswerMade
        <3> QED
            BY <3>2
    <2> HIDE DEF m, p, ov, st, c, path, i
    <2>5. PICK x \in NamedBy(p, ov, c, path) : r.answer = Shows(ov, st, m, path, x)
        BY <2>4
    <2>6. PICK y \in NamedBy(p, ov, c, path) : Snapshot(r) = SnapshotFor(Resolves(ov, path, y), path)
        BY <2>2, <2>4, <2>5
    <2>7. x = y
        BY <2>4, <2>5, <2>6, NamedOnce
    <2>8. i = InodeFor(m, Resolves(ov, path, x), path)
        BY <2>5, ShowsInode DEF InodeFor, Resolves, IsTree, IsSynthetic, i
    <2>9. AttrBy(st, i, Snapshot(r)) = r.answer
        BY <2>5, <2>6, <2>7, <2>8 DEF Shows
    <2> QED
        BY <2>3, <2>9 DEF m, i
<1> QED
    BY <1>1, SpecHandle, InodeSpacesApart, PTL

=============================================================================
