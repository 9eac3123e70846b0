----------------------------- MODULE ProjectionFs -----------------------------
(***************************************************************************)
(* ProjectionFsProvider and InodeAllocator (projgit-core) behind the FUSE  *)
(* adapter (projgit-fuse): several mounts of one store, served to one      *)
(* client.  The FUSE loop of a mount answers one request at a time, so an  *)
(* operation is one step.  Refs move under the mounts, and objects arrive  *)
(* in the store through the hydrating store's other threads (Hydrate).     *)
(*                                                                         *)
(* Mounting and unmounting are in MountCli, which extends this module.     *)
(***************************************************************************)
EXTENDS GitTree

CONSTANTS Hash(_),     \* DefaultHasher over the key of an inode, 64 bits
          HighBit,     \* SYNTHETIC_INODE_BIT
          Buffer,      \* how many entries a readdir reply holds
          Chunks,      \* sizes of read requests
          MaxOps,      \* bound on the client's operations
          MaxMoves,    \* bound on how often refs move
          Lossy        \* String::from_utf8_lossy: a name's bytes -> a name that is UTF-8

ASSUME ProjectionFsAssumption ==
    /\ HighBit \in Nat /\ HighBit > 3
    /\ Buffer \in Nat \ {0}
    /\ Chunks \subseteq Nat \ {0}
    /\ MaxOps \in Nat
    /\ MaxMoves \in Nat
    /\ Refs # {}
    /\ RootOf \in [Commits -> DOMAIN Trees]
    /\ None \notin Commits
    /\ Lossy \in [Names -> Names]
    /\ \A n \in Names : Lossy[Lossy[n]] = Lossy[n]

VARIABLES refs,     \* ref -> commit, or None if there is no such ref any more
          have,     \* the objects in the local store
          proj,     \* mount -> Projection
          overlay,  \* mount -> RootOverlay
          stamp,    \* mount -> the commit whose time is every entry's mtime
          attrs,    \* mount -> (inode -> AttrSnapshot), the mounts that have a provider
          mounted,  \* the mounts the kernel has
          replies,  \* what lookups answered: mount, parent inode, path, commit shown, answer
          reading,  \* the file being read, and the bytes so far
          listing,  \* the directory being listed, and the entries so far
          moves, ops

store == <<refs, have, moves>>
provider == <<proj, overlay, stamp, attrs>>
client == <<replies, reading, listing, ops>>

RootInode == 1

----------------------------------------------------------------------------
(* InodeAllocator *)

\* Clears the high bit and steps over 0 and the root.
ReservedMutantKept(h) == h % HighBit
Reserved(h) == LET raw == h % HighBit IN IF raw <= RootInode THEN raw + 2 ELSE raw

ForTreeEntryMutantByPath(m, o, path) == Reserved(Hash(<<"tree", m, None, path>>))
ForTreeEntry(m, o, path) == Reserved(Hash(<<"tree", m, o, path>>))
ForSynthetic(m, path) == HighBit + (Reserved(Hash(<<"synth", m, path>>)) % HighBit)

----------------------------------------------------------------------------
(* AttrSnapshot, and the Attr it stands for *)

RootSnapshot == [is |-> "Root"]
SnapshotKinds == {"Root", "TreeFile", "TreeDir", "TreeSymlink", "Gitlink",
                  "SyntheticFile", "SyntheticDir"}
SyntheticKinds == {"SyntheticFile", "SyntheticDir"}
Perm(mode) == IF mode = "ExecutableFile" THEN "rwx" ELSE "rw"

\* snapshot_for_tree and snapshot_for_synthetic.
SnapshotFor(r, path) ==
    CASE r.space = "Tree" /\ r.mode \in {"RegularFile", "ExecutableFile"} ->
             [is |-> "TreeFile", oid |-> r.oid, size |-> Len(Bytes[r.oid]), perm |-> Perm(r.mode)]
      [] r.space = "Tree" /\ r.mode = "Directory" -> [is |-> "TreeDir", oid |-> r.oid, path |-> path]
      [] r.space = "Tree" /\ r.mode = "Symlink" ->
             [is |-> "TreeSymlink", oid |-> r.oid, size |-> Len(Bytes[r.oid])]
      [] r.space = "Tree" /\ r.mode \notin {"RegularFile", "ExecutableFile", "Directory", "Symlink"} ->
             [is |-> "Gitlink"]
      [] r.space # "Tree" /\ r.mode = "RegularFile" ->
             [is |-> "SyntheticFile", content |-> r.content, perm |-> "rw"]
      [] r.space # "Tree" /\ r.mode # "RegularFile" -> [is |-> "SyntheticDir", path |-> path]

InodeFor(m, r, path) ==
    IF r.space = "Tree" THEN ForTreeEntry(m, r.oid, path) ELSE ForSynthetic(m, path)

\* FileType, by the mode of a resolved entry.
TypeOf(mode) ==
    CASE mode \in {"RegularFile", "ExecutableFile"} -> "RegularFile"
      [] mode \in {"Directory", "Gitlink"} -> "Directory"
      [] mode = "Symlink" -> "Symlink"

Attr(m, inode, type, size, perm) ==
    [ok |-> TRUE, inode |-> inode, type |-> type, size |-> size, perm |-> perm, mtime |-> stamp[m]]
DirAttr(m, inode) == Attr(m, inode, "Directory", 0, "rwx")

\* The Attr of an entry as it is resolved, and of an inode from its snapshot (getattr).
AttrOf(m, i, s) ==
    CASE s.is \in {"Root", "TreeDir", "Gitlink", "SyntheticDir"} -> DirAttr(m, i)
      [] s.is = "TreeFile" -> Attr(m, i, "RegularFile", s.size, s.perm)
      [] s.is = "TreeSymlink" -> Attr(m, i, "Symlink", s.size, "rwx")
      [] s.is = "SyntheticFile" -> Attr(m, i, "RegularFile", Len(s.content), s.perm)
GetAttr(m, i) == AttrOf(m, i, attrs[m][i])

\* projection_to_fs and hydrate_to_fs, then errno_for.
Errno(e) ==
    [ok |-> FALSE,
     errno |-> CASE e \in {"NotFound", "InvalidPath"} -> "ENOENT"
                 [] e = "NotADirectory" -> "ENOTDIR"
                 [] e = "NotAFile" -> "EISDIR"
                 [] e = "NotASymlink" -> "EINVAL"
                 [] e = "Store" -> "EIO"]

----------------------------------------------------------------------------
(* The client, and what it knows: inodes come from lookups. *)

Asks == ops < MaxOps /\ ops' = ops + 1
KnownInodes(m) ==
    {RootInode} \cup {r.answer.inode : r \in {x \in replies : x.mount = m /\ x.answer.ok}}

\* Objects the fetchers bring into the store while an operation waits, or on other threads.
Arrives(o) ==
    /\ o \in (DOMAIN Trees \cup DOMAIN Bytes) \ have
    /\ have' = have \cup {o}
    /\ UNCHANGED <<refs, moves, provider, mounted, client>>

\* A fetch or a commit in the shared repository.
MoveRef(r, c) ==
    /\ moves < MaxMoves /\ refs[r] # c
    /\ refs' = [refs EXCEPT ![r] = c]
    /\ moves' = moves + 1
    /\ UNCHANGED <<have, provider, mounted, client>>

\* git branch -d, or a fetch that prunes.
DeleteRef(r) ==
    /\ moves < MaxMoves /\ refs[r] # None
    /\ refs' = [refs EXCEPT ![r] = None]
    /\ moves' = moves + 1
    /\ UNCHANGED <<have, provider, mounted, client>>

----------------------------------------------------------------------------
(* lookup *)

\* A path is a String: each name in it is what from_utf8_lossy makes of the bytes.
JoinPath(path, n) == Append(path, Lossy[n])

ParentPath(m, p) ==
    CASE p = RootInode -> [ok |-> TRUE, path |-> <<>>]
      [] p # RootInode /\ p \notin DOMAIN attrs[m] -> Fails("NotFound")
      [] OTHER -> LET s == attrs[m][p] IN
                  CASE s.is \in {"TreeDir", "SyntheticDir"} -> [ok |-> TRUE, path |-> s.path]
                    [] s.is = "Gitlink" -> Fails("NotFound")
                    [] OTHER -> Fails("NotADirectory")

Resolved(m, p, n) ==
    LET up == ParentPath(m, p)
    IN IF up.ok THEN Lookup(proj[m], overlay[m], JoinPath(up.path, n), refs, have) ELSE up

Reply(m, p, n, answer) ==
    LET up == ParentPath(m, p) IN
    [mount |-> m, parent |-> p, name |-> n, path |-> IF up.ok THEN JoinPath(up.path, n) ELSE None,
     commit |-> ResolveCommit(proj[m], refs), answer |-> answer]

NeedsHeader(r) == r.space = "Tree" /\ TypeOf(r.mode) # "Directory"

\* The first snapshot of an inode stays.
Publish(m, i, snap) ==
    attrs' = [attrs EXCEPT ![m] = [j \in DOMAIN @ \cup {i} |-> IF j \in DOMAIN @ THEN @[j] ELSE snap]]

LookupFails(m, p, n) ==
    /\ Asks /\ m \in mounted /\ p \in KnownInodes(m)
    /\ LET r == Resolved(m, p, n) IN
         \/ ~r.ok /\ replies' = replies \cup {Reply(m, p, n, Errno(r.error))}
         \/ /\ r.ok /\ NeedsHeader(r) /\ r.oid \notin have
            /\ replies' = replies \cup {Reply(m, p, n, Errno("Store"))}
    /\ UNCHANGED <<store, provider, mounted, reading, listing>>

\* A header may come without its object.
LookupAnswers(m, p, n) ==
    /\ Asks /\ m \in mounted /\ p \in KnownInodes(m)
    /\ LET r == Resolved(m, p, n)
           path == JoinPath(ParentPath(m, p).path, n)
           i == InodeFor(m, r, path)
           snap == SnapshotFor(r, path)
       IN /\ r.ok
          /\ have' \in {have} \cup (IF NeedsHeader(r) THEN {have \cup {r.oid}} ELSE {})
          /\ Publish(m, i, snap)
          /\ replies' = replies \cup {Reply(m, p, n, AttrOf(m, i, snap))}
    /\ UNCHANGED <<refs, moves, proj, overlay, stamp, mounted, reading, listing>>

----------------------------------------------------------------------------
(* read and readlink: the client works through one file, a chunk at a time *)

Slice(bytes, offset, size) ==
    LET Least(a, b) == IF a < b THEN a ELSE b
        start == Least(offset, Len(bytes))
        end == Least(start + size, Len(bytes))
    IN SubSeq(bytes, start + 1, end)

Open(r) ==
    /\ Asks /\ r.mount \in mounted /\ r.answer.ok
    /\ reading' = [reply |-> r, got |-> <<>>, eof |-> FALSE]
    /\ UNCHANGED <<store, provider, mounted, replies, listing>>

Reading == reading # None /\ ~reading.eof /\ reading.reply.mount \in mounted
Snapshot(r) == attrs[r.mount][r.answer.inode]
Got(bytes, eof) == reading' = [reply |-> reading.reply, got |-> reading.got \o bytes, eof |-> eof]

Read(size) ==
    LET s == Snapshot(reading.reply) IN
    /\ Reading
    /\ \/ /\ s.is = "TreeFile" /\ have' = have \cup {s.oid}
          /\ LET b == Slice(Bytes[s.oid], Len(reading.got), size) IN Got(b, Len(b) < size)
       \/ /\ s.is = "SyntheticFile" /\ have' = have
          /\ LET b == Slice(s.content, Len(reading.got), size) IN Got(b, Len(b) < size)
    /\ UNCHANGED <<refs, moves, provider, mounted, replies, listing, ops>>

ReadLink ==
    LET s == Snapshot(reading.reply) IN
    /\ Reading
    /\ s.is = "TreeSymlink" /\ have' = have \cup {s.oid}
    /\ Got(Bytes[s.oid], TRUE)
    /\ UNCHANGED <<refs, moves, provider, mounted, replies, listing, ops>>

\* The blob cannot be fetched, or the inode is of another kind: the client gives up.
ReadFails ==
    LET s == Snapshot(reading.reply) IN
    /\ Reading
    /\ \/ s.is \in {"TreeFile", "TreeSymlink"} /\ s.oid \notin have
       \/ s.is \notin {"TreeFile", "TreeSymlink", "SyntheticFile"}
    /\ reading' = None
    /\ UNCHANGED <<store, provider, mounted, replies, listing, ops>>

----------------------------------------------------------------------------
(* readdir *)

DirEntry(i, n, type) == [inode |-> i, name |-> n, type |-> type]

\* dir_entry_for: the inode comes from the full path, as lookup spells it; the name keeps its bytes.
DirEntriesMutantByName(m, r, path) ==
    [k \in DOMAIN r |-> DirEntry(ForTreeEntry(m, r[k].oid, <<r[k].name>>), r[k].name, TypeOf(r[k].mode))]
DirEntries(m, r, path) ==
    [k \in DOMAIN r |-> DirEntry(ForTreeEntry(m, r[k].oid, JoinPath(path, r[k].name)),
                                 r[k].name, TypeOf(r[k].mode))]
SyntheticEntries(m, names, path) ==
    [k \in DOMAIN names |-> DirEntry(ForSynthetic(m, JoinPath(path, names[k])), names[k],
                                     TypeOf(overlay[m][Append(path, names[k])].mode))]

Lists(tree, entries) == [ok |-> TRUE, tree |-> tree, entries |-> entries]

\* The listing the provider makes, once a TreeDir's tree is in the store.
Listing(m, i) ==
    LET root == ReadRoot(proj[m], overlay[m], refs, have)
        s == attrs[m][i]
    IN CASE i = RootInode ->
              IF ~root.ok THEN root
              ELSE Lists(root.tree, SyntheticEntries(m, root.synthetic, <<>>)
                                      \o DirEntries(m, root.real, <<>>))
         [] i # RootInode /\ i \notin DOMAIN attrs[m] -> Fails("NotFound")
         [] i # RootInode /\ i \in DOMAIN attrs[m] /\ s.is = "TreeDir" ->
              Lists(s.oid, DirEntries(m, Trees[s.oid], s.path))
         [] i # RootInode /\ i \in DOMAIN attrs[m] /\ s.is = "SyntheticDir" ->
              Lists(None, SyntheticEntries(m, Children(overlay[m], s.path), s.path))
         [] i # RootInode /\ i \in DOMAIN attrs[m] /\ s.is = "Gitlink" -> Lists(None, <<>>)
         [] OTHER -> Fails("NotADirectory")

ReadDir(m, i, offset) == IF offset > 0 THEN Lists(None, <<>>) ELSE Listing(m, i)
TreeNeeded(m, i) == IF i # RootInode /\ i \in DOMAIN attrs[m] /\ attrs[m][i].is = "TreeDir"
                    THEN {attrs[m][i].oid} ELSE {}

OpenDir(m, i) ==
    /\ Asks /\ m \in mounted /\ i \in KnownInodes(m)
    /\ listing' = [mount |-> m, inode |-> i, offset |-> 0, tree |-> None, got |-> <<>>,
                   done |-> FALSE, commit |-> ResolveCommit(proj[m], refs)]
    /\ UNCHANGED <<store, provider, mounted, replies, reading>>

ListingOn == listing # None /\ ~listing.done /\ listing.mount \in mounted

\* The adapter fills the reply buffer, and the kernel calls again until nothing comes back.
ReadDirReplies ==
    LET r == ReadDir(listing.mount, listing.inode, listing.offset)
        n == IF Len(r.entries) < Buffer THEN Len(r.entries) ELSE Buffer
    IN /\ ListingOn
       /\ r.ok
       /\ have' = have \cup (IF listing.offset = 0 THEN TreeNeeded(listing.mount, listing.inode) ELSE {})
       /\ listing' = [mount |-> listing.mount, inode |-> listing.inode, offset |-> listing.offset + n,
                      tree |-> IF listing.offset = 0 THEN r.tree ELSE listing.tree,
                      got |-> listing.got \o SubSeq(r.entries, 1, n),
                      done |-> n = 0,
                      commit |-> IF listing.offset = 0
                                 THEN ResolveCommit(proj[listing.mount], refs) ELSE listing.commit]
       /\ UNCHANGED <<refs, moves, provider, mounted, replies, reading, ops>>

ReadDirFails ==
    /\ ListingOn
    /\ \/ ~ReadDir(listing.mount, listing.inode, listing.offset).ok
       \/ listing.offset = 0 /\ ~(TreeNeeded(listing.mount, listing.inode) \subseteq have)
    /\ listing' = None
    /\ UNCHANGED <<store, provider, mounted, replies, reading, ops>>
=============================================================================
