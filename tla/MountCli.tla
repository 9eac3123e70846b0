------------------------------- MODULE MountCli -------------------------------
(***************************************************************************)
(* `projgit mount` and `projgit mount-multi` (projgit-cli/src/main.rs):    *)
(* from the arguments to mounted providers, and back on Ctrl-C or on an    *)
(* error.  Each mount is served by ProjectionFs.                           *)
(***************************************************************************)
EXTENDS ProjectionFs

CONSTANTS Plans,     \* command lines: [multi, specs, asks, lists]; a spec is [base, subtree, dotgit, at],
                     \* base a ref or a commit, and the client asks for the names of asks and lists
                     \* directories if lists is TRUE
          Canon,     \* spelling of a mountpoint -> directory
          Tip,       \* ref -> the commit it has at the start
          Local      \* the objects in the store at the start

ASSUME MountCliAssumption ==
    /\ Tip \in [Refs -> Commits]
    /\ Local \subseteq DOMAIN Trees \cup DOMAIN Bytes
    /\ Refs \cap Commits = {}
    /\ \A p \in Plans :
         /\ p.specs \in Seq([base : Refs \cup Commits, subtree : Seq(Names),
                              dotgit : BOOLEAN, at : DOMAIN Canon])
         /\ p.specs # <<>>
         /\ p.asks \subseteq Names
         /\ ~p.multi => Len(p.specs) = 1

VARIABLES plan, stage,
          turn,      \* the spec being mounted
          pin,       \* the commit build_root_overlay resolved
          signalled, \* Ctrl-C was sent
          sessions   \* the vector of sessions: the mounts this process has to drop, in order

cli == <<plan, stage, turn, pin, signalled, sessions>>
vars == <<store, provider, mounted, client, cli>>

Specs == plan.specs
Current == Specs[turn]
Stages == {"args", "source", "projection", "overlay", "index", "provider", "mount",
           "handler", "parked", "unmounting", "failing", "exited", "killed"}

Init ==
    /\ plan \in Plans
    /\ stage = "args" /\ turn = 1 /\ pin = None /\ signalled = FALSE /\ sessions = <<>>
    /\ refs = Tip
    /\ have = Local
    /\ proj = [m \in {} |-> None] /\ overlay = [m \in {} |-> None]
    /\ stamp = [m \in {} |-> None] /\ attrs = [m \in {} |-> None]
    /\ mounted = {}
    /\ replies = {} /\ reading = None /\ listing = None
    /\ moves = 0 /\ ops = 0

Goes(from, to) == stage = from /\ stage' = to
Extend(f, m, v) == [k \in DOMAIN f \cup {m} |-> IF k = m THEN v ELSE f[k]]

\* mount-multi compares mountpoints as directories, not as they are spelled.
Distinct == \A i, j \in DOMAIN Specs : Canon[Specs[i].at] = Canon[Specs[j].at] => i = j

CheckArgs ==
    /\ IF plan.multi => Distinct THEN Goes("args", "source") ELSE Goes("args", "failing")
    /\ UNCHANGED <<plan, turn, pin, signalled, sessions, store, provider, mounted, client>>

\* Any step that can fail for a reason outside the program, up to the Ctrl-C handler.
Failing == {"args", "source", "projection", "overlay", "index", "provider", "mount", "handler"}
StepFails ==
    /\ stage \in Failing /\ stage' = "failing"
    /\ UNCHANGED <<plan, turn, pin, signalled, sessions, store, provider, mounted, client>>

\* Clone or reuse the clone, open the store, choose the fetcher.
OpenSource ==
    /\ Goes("source", "projection")
    /\ UNCHANGED <<plan, turn, pin, signalled, sessions, store, provider, mounted, client>>

\* build_projection: --subtree pins the commit a ref has now; mount-multi mounts refs.
ProjectionForMutantUnpinned(s) ==
    IF s.base \in Refs THEN [kind |-> "Ref", ref |-> s.base]
    ELSE [kind |-> "Commit", commit |-> s.base]
ProjectionFor(s) ==
    LET commit == IF s.base \in Refs THEN refs[s.base] ELSE s.base IN
    CASE s.subtree # <<>> -> [kind |-> "Subtree", commit |-> commit, path |-> s.subtree]
      [] s.subtree = <<>> /\ s.base \in Refs -> [kind |-> "Ref", ref |-> s.base]
      [] OTHER -> [kind |-> "Commit", commit |-> s.base]

\* A subtree of a ref that is gone.
Unresolvable(s) == s.subtree # <<>> /\ s.base \in Refs /\ refs[s.base] = None

BuildProjection ==
    /\ stage = "projection"
    /\ IF Unresolvable(Current) THEN Goes("projection", "failing") /\ proj' = proj
       ELSE Goes("projection", "overlay") /\ proj' = Extend(proj, turn, ProjectionFor(Current))
    /\ UNCHANGED <<plan, turn, pin, signalled, sessions, store, overlay, stamp, attrs, mounted, client>>

\* build_root_overlay: nothing for --no-dotgit and for a subtree, else .git of the commit now shown.
NoDotgit == ~Current.dotgit \/ proj[turn].kind = "Subtree"
SkipOverlay ==
    /\ Goes("overlay", "provider") /\ NoDotgit
    /\ overlay' = Extend(overlay, turn, NoOverlay)
    /\ UNCHANGED <<plan, turn, pin, signalled, sessions, store, proj, stamp, attrs, mounted, client>>

PinCommit ==
    /\ stage = "overlay" /\ ~NoDotgit
    /\ IF ResolveCommit(proj[turn], refs) = None THEN Goes("overlay", "failing") /\ pin' = pin
       ELSE Goes("overlay", "index") /\ pin' = ResolveCommit(proj[turn], refs)
    /\ UNCHANGED <<plan, turn, signalled, sessions, store, provider, mounted, client>>

\* a1_plus_overlay, then apply_a2_if_branch with the commit resolved before, if the branch is there.
IsBranch(p) == p.kind = "Ref" /\ p.ref \in DOMAIN BranchPath /\ refs[p.ref] # None
DotgitMutantResolvesAgain(p) ==
    IF IsBranch(p)
    THEN A2Overlay(A1PlusOverlay(pin), p.ref, refs[p.ref]) ELSE A1PlusOverlay(pin)
Dotgit(p) ==
    IF IsBranch(p)
    THEN A2Overlay(A1PlusOverlay(pin), p.ref, pin) ELSE A1PlusOverlay(pin)

BuildOverlay ==
    /\ stage = "index"
    /\ IF IndexBuilds(pin, have)
       THEN Goes("index", "provider") /\ overlay' = Extend(overlay, turn, Dotgit(proj[turn]))
       ELSE Goes("index", "failing") /\ overlay' = overlay
    /\ UNCHANGED <<plan, turn, pin, signalled, sessions, store, proj, stamp, attrs, mounted, client>>

\* ProjectionFsProvider::new resolves the commit again for the time stamp.
NewProvider ==
    /\ stage = "provider"
    /\ IF ResolveCommit(proj[turn], refs) = None
       THEN Goes("provider", "failing") /\ UNCHANGED <<stamp, attrs>>
       ELSE /\ Goes("provider", "mount")
            /\ stamp' = Extend(stamp, turn, ResolveCommit(proj[turn], refs))
            /\ attrs' = Extend(attrs, turn, [i \in {RootInode} |-> RootSnapshot])
    /\ UNCHANGED <<plan, turn, pin, signalled, sessions, store, proj, overlay, mounted, client>>

MountBackground ==
    /\ stage = "mount"
    /\ mounted' = mounted \cup {turn} /\ sessions' = Append(sessions, turn)
    /\ IF turn < Len(Specs) THEN stage' = "projection" /\ turn' = turn + 1
       ELSE stage' = "handler" /\ turn' = turn
    /\ UNCHANGED <<plan, pin, signalled, store, provider, client>>

InstallHandler ==
    /\ Goes("handler", "parked")
    /\ UNCHANGED <<plan, turn, pin, signalled, sessions, store, provider, mounted, client>>

\* What the client held in these mounts is of no more use: they are gone, or nobody answers.
Forgets(S) ==
    /\ replies' = {r \in replies : r.mount \notin S}
    /\ reading' = IF reading # None /\ reading.reply.mount \in S THEN None ELSE reading
    /\ listing' = IF listing # None /\ listing.mount \in S THEN None ELSE listing
    /\ ops' = ops

\* Ctrl-C wakes the parked main thread; before the handler is in place it ends the process.
CtrlC ==
    /\ stage \in {"parked", "unmounting"} /\ ~signalled /\ signalled' = TRUE
    /\ UNCHANGED <<plan, stage, turn, pin, sessions, store, provider, mounted, client>>
Killed ==
    /\ stage \in Failing \cup {"failing"} /\ stage' = "killed"
    /\ Forgets(mounted)
    /\ UNCHANGED <<plan, turn, pin, signalled, sessions, store, provider, mounted>>
Unpark ==
    /\ signalled /\ Goes("parked", "unmounting")
    /\ UNCHANGED <<plan, turn, pin, signalled, sessions, store, provider, mounted, client>>

\* Dropping a session unmounts it.  The vector is dropped front to back when the function is done,
\* and just so when a ? leaves it early.
Dropping == stage \in {"unmounting", "failing"} /\ sessions # <<>> /\ sessions' = Tail(sessions)
DropSessionMutantWaits ==
    /\ Dropping /\ reading = None
    /\ mounted' = mounted \ {Head(sessions)}
    /\ Forgets({Head(sessions)})
    /\ UNCHANGED <<plan, stage, turn, pin, signalled, store, provider>>
DropSessionMutantDetaches ==
    /\ Dropping
    /\ Forgets({Head(sessions)})
    /\ UNCHANGED <<plan, stage, turn, pin, signalled, store, provider, mounted>>
DropSession ==
    /\ Dropping
    /\ mounted' = mounted \ {Head(sessions)}
    /\ Forgets({Head(sessions)})
    /\ UNCHANGED <<plan, stage, turn, pin, signalled, store, provider>>
Exit ==
    /\ stage \in {"unmounting", "failing"} /\ sessions = <<>> /\ stage' = "exited"
    /\ UNCHANGED <<plan, turn, pin, signalled, sessions, store, provider, mounted, client>>

Main ==
    \/ CheckArgs \/ OpenSource \/ BuildProjection \/ SkipOverlay \/ PinCommit \/ BuildOverlay
    \/ NewProvider \/ MountBackground \/ InstallHandler \/ Unpark \/ DropSession \/ Exit

Running == stage \notin {"exited", "killed"}

Client ==
    /\ Running /\ UNCHANGED cli
    /\ \/ \E m \in mounted, n \in plan.asks : \E p \in KnownInodes(m) :
             LookupFails(m, p, n) \/ LookupAnswers(m, p, n)
       \/ \E r \in replies : Open(r)
       \/ \E k \in Chunks : Read(k)
       \/ ReadLink
       \/ ReadFails
       \/ \E m \in mounted : \E i \in KnownInodes(m) : plan.lists /\ OpenDir(m, i)
       \/ ReadDirReplies
       \/ ReadDirFails

Environment ==
    \/ StepFails \/ CtrlC \/ Killed
    \/ /\ Running /\ UNCHANGED cli
       /\ \/ \E r \in Refs, c \in Commits : MoveRef(r, c)
          \/ \E r \in Refs : DeleteRef(r)
          \/ \E o \in DOMAIN Trees \cup DOMAIN Bytes : Arrives(o)

Next == Main \/ Client \/ Environment
Spec == Init /\ [][Next]_vars /\ WF_vars(Main)

----------------------------------------------------------------------------
(* What the checks and the proofs are about. *)

\* What a mount shows as its root when its projection resolves to commit c (nothing, if it does not
\* resolve), and the object a reply's path names there by the reference listing: a set with at most
\* one member.
RootShown(m, c) ==
    IF c = None THEN {}
    ELSE IF proj[m].kind # "Subtree" THEN {RootOf[c]}
    ELSE {x[2].oid : x \in {y \in AllPaths[RootOf[c]] : y[1] = proj[m].path /\ y[2].mode = "Directory"}}
InTree(m, c, path) == UNION {{x[2] : x \in {y \in AllPaths[t] : y[1] = path}} : t \in RootShown(m, c)}
InDotgit(m, path) == {overlay[m][p] : p \in {path} \cap DOMAIN overlay[m]}
Synthetic(m, path) == Shadows(overlay[m], path[1])
Named(r) == IF Synthetic(r.mount, r.path) THEN InDotgit(r.mount, r.path)
            ELSE InTree(r.mount, r.commit, r.path)
\* The objects that resolving path below tree t reads.
WayTo(t, path) == {x[2].oid : x \in {y \in AllPaths[t] : y[2].mode # "Gitlink" /\ IsPrefix(y[1], path)}}
WayDown(m, c) == IF proj[m].kind = "Subtree" THEN WayTo(RootOf[c], proj[m].path) ELSE {}
Above(r) == {[mount |-> r.mount, commit |-> r.commit, path |-> SubSeq(r.path, 1, k)] : k \in 1..Len(r.path) - 1}
ContentOf(r, x) == IF Synthetic(r.mount, r.path) THEN x.content ELSE Bytes[x.oid]

\* A lookup finds exactly what git lists at the path that join_path spells (projection_fs.rs:199):
\* an answer names an entry of that type at that path in the commit shown, ENOENT means there is
\* none, ENOTDIR that the path goes through something that is not a directory, and EIO that the ref
\* was gone or an object on the way was not in the store when the mount began.  While the ref is
\* gone, nothing outside .git gets another answer than EIO.  The path of a name that is not UTF-8 is
\* not the name's: such an entry is never found.
PathsDenote ==
    \A r \in replies : r.path # None =>
        LET a == r.answer
            onTheWay == WayDown(r.mount, r.commit)
                          \cup UNION {WayTo(t, r.path) : t \in RootShown(r.mount, r.commit)}
        IN IF a.ok THEN \E x \in Named(r) : a.type = TypeOf(x.mode)
           ELSE CASE a.errno = "ENOENT" -> Named(r) = {} /\ (Synthetic(r.mount, r.path) \/ r.commit # None)
                  [] a.errno = "ENOTDIR" ->
                       \/ r.commit # None /\ RootShown(r.mount, r.commit) = {}
                       \/ \E q \in Above(r) : \E x \in Named(q) : x.mode # "Directory"
                  [] a.errno = "EIO" -> /\ ~Synthetic(r.mount, r.path)
                                        /\ r.commit = None \/ ~(onTheWay \subseteq Local)

\* An inode the kernel was given keeps standing for what the lookup found, however refs move and
\* whatever is looked up after it: getattr has its type and size, and reading it in chunks of any
\* size gives its bytes in order, none lost or repeated, the first short read exactly at the end.
HandlesFaithful ==
    /\ reading # None /\ reading.reply.answer.type # "Directory" =>
         \A x \in Named(reading.reply) :
            LET bytes == ContentOf(reading.reply, x) IN
            /\ IsPrefix(reading.got, bytes)
            /\ reading.eof => reading.got = bytes
    /\ \A r \in replies : r.answer.ok =>
        LET a == GetAttr(r.mount, r.answer.inode) IN
        /\ a.type = r.answer.type /\ a.size = r.answer.size
        /\ a.type # "Directory" =>
             \A x \in Named(r) : /\ a.size = Len(ContentOf(r, x))
                                 /\ Snapshot(r).is = "TreeFile" => Snapshot(r).oid = x.oid
                                 /\ Snapshot(r).is = "SyntheticFile" => Snapshot(r).content = x.content

\* What HandlesFaithful rests on.  The 63-bit hash tells apart the entries that one mount can
\* show, in any of the commits a ref may move to, and the paths of one .git; and no commit has a
\* symlink where another has a file of the same content, since an inode keeps the first snapshot published for it.
Mounts == UNION {DOMAIN p.specs : p \in Plans}
EntriesOf(t) == {x \in AllPaths[t] : x[1] # <<>>}
Together(t, u) == t = u \/ {t, u} \subseteq {RootOf[c] : c \in Commits}
DotgitOverlays == {A1PlusOverlay(c) : c \in Commits}
                    \cup {A2Overlay(A1PlusOverlay(c), b, c) : c \in Commits, b \in DOMAIN BranchPath}
NoCollisions ==
    \A m \in Mounts :
        /\ \A t, u \in DOMAIN Trees : Together(t, u) =>
             \A x \in EntriesOf(t), y \in EntriesOf(u) :
                Reserved(Hash(<<"tree", m, x[2].oid, x[1]>>)) = Reserved(Hash(<<"tree", m, y[2].oid, y[1]>>))
                    => x[1] = y[1] /\ x[2].oid = y[2].oid
        /\ \A ov \in DotgitOverlays : \A p, q \in DOMAIN ov :
             Reserved(Hash(<<"synth", m, p>>)) = Reserved(Hash(<<"synth", m, q>>)) => p = q
TypesKept ==
    \A c, d \in Commits : \A x \in EntriesOf(RootOf[c]), y \in EntriesOf(RootOf[d]) :
        x[1] = y[1] /\ x[2].oid = y[2].oid => TypeOf(x[2].mode) = TypeOf(y[2].mode)

\* A mount of a commit, or of a subtree (whose ref is pinned when the mount is made), shows one
\* commit for ever: looking a name up again in a directory gives the inode it gave before.
PinnedViewsStable ==
    \A r, s \in replies :
        /\ r.mount = s.mount /\ r.parent = s.parent /\ r.name = s.name
        /\ Specs[r.mount].subtree # <<>> \/ Specs[r.mount].base \in Commits
        => /\ r.answer.ok /\ s.answer.ok => r.answer = s.answer
           /\ r.answer.ok /\ ~s.answer.ok => s.answer.errno = "EIO"

\* In such a mount the snapshots never go stale: getattr says, in every field, what lookup said.
PinnedAttrsTrue ==
    \A r \in replies :
        /\ r.answer.ok
        /\ Specs[r.mount].subtree # <<>> \/ Specs[r.mount].base \in Commits
        => GetAttr(r.mount, r.answer.inode) = r.answer

\* What readdir lists is what lookup finds in the same directory: a lookup answers with the inode and
\* the type of the entry that is listed under the name as from_utf8_lossy spells it, and does not fail
\* (but for EIO) while there is one.  So the listing and the lookups agree on every name that is
\* UTF-8; an entry listed under another name (fs_provider.rs:147-150) is nobody's answer.
ListingAgrees ==
    listing # None =>
        \A r \in replies :
            LET e == {x \in ToSet(listing.got) : x.name = Lossy[r.name]}
                dir == SubSeq(r.path, 1, Len(r.path) - 1)
                same == \/ Synthetic(r.mount, r.path)
                        \/ listing.tree \in {x.oid : x \in InTree(r.mount, r.commit, dir)}
            IN r.mount = listing.mount /\ r.parent = listing.inode /\ r.path # None /\ same =>
               \A x \in e : /\ r.answer.ok => x.inode = r.answer.inode /\ x.type = r.answer.type
                            /\ ~r.answer.ok => r.answer.errno = "EIO"

\* Whatever the hash gives: no entry takes the root's inode, synthetic and tree entries never share
\* one, and every inode handed out can be resolved again.
SpacesApart ==
    /\ \A m \in DOMAIN attrs : \A i \in DOMAIN attrs[m] :
         /\ attrs[m][i].is = "Root" <=> i = RootInode
         /\ attrs[m][i].is \in SyntheticKinds <=> i >= HighBit
    /\ \A r \in replies : r.answer.ok =>
         /\ r.mount \in DOMAIN attrs
         /\ r.answer.inode \in DOMAIN attrs[r.mount] \ {RootInode}

\* The .git of a mount is readable as git reads it: HEAD leads, directly or through the branch it
\* names, to a commit, and the index is that commit's tree, also when the ref moved while the mount
\* was being made.
DotgitCoherent ==
    \A m \in DOMAIN overlay : overlay[m] # NoOverlay =>
        LET At(path) == ResolveInSynthetic(overlay[m], <<".git">> \o path)
            head == At(<<"HEAD">>).content
            leaf == IF Len(head) = 2 THEN At(BranchPath[head[2]]) ELSE At(<<"HEAD">>)
        IN /\ leaf.ok
           /\ At(<<"index">>).content = <<"index", RootOf[leaf.content[1]]>>

\* A process that ends on its own, after Ctrl-C or because a step failed half way through several
\* mounts, leaves no mount behind: dropping the vector of sessions has unmounted every mount that was
\* made (main.rs:800-832, 843-880).  And while it waits for Ctrl-C, all that were asked for are there.
LeavesNoMount ==
    /\ stage = "exited" => mounted = {}
    /\ stage = "parked" => mounted = DOMAIN Specs

\* mount-multi never stacks two of its mounts on one directory.
OneMountPerDirectory ==
    \A j, k \in mounted : Canon[Specs[j].at] = Canon[Specs[k].at] => j = k

\* Once the mounts are up, Ctrl-C unmounts them all and ends the process.
SignalUnmounts == signalled ~> stage = "exited"

\* A listing that ended has every entry of the directory, however small the reply buffer.
ListingsResume ==
    /\ listing # None /\ listing.done
    /\ listing.commit = ResolveCommit(proj[listing.mount], refs) /\ listing.commit # None
    => listing.got = Listing(listing.mount, listing.inode).entries
=============================================================================
