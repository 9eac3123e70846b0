------------------------------- MODULE GitTree -------------------------------
(***************************************************************************)
(* What a projection shows: path resolution in git trees (tree.rs), the    *)
(* synthetic .git directory spliced onto the root (overlay.rs, dotgit.rs)  *)
(* and the three kinds of projection (projection.rs).                      *)
(*                                                                         *)
(* A path is the sequence of its components, a tree object the sequence of *)
(* its entries, and the bytes of a blob a sequence.  Operators that read   *)
(* the local store take it as `have`, the set of objects in it, and        *)
(* operators that resolve a ref take the refs as they are, `refs`: a ref   *)
(* that was deleted has None.                                              *)
(***************************************************************************)
EXTENDS Naturals, Sequences, SequencesExt

CONSTANTS Commits,
          RootOf,      \* commit -> its tree
          Trees,       \* tree object -> sequence of entries
          Bytes,       \* blob -> content
          Refs,
          BranchPath,  \* local branch -> components of its full name under .git
          Alphabet,    \* the names in use, in the order of their bytes
          Depth,       \* how deep the trees nest
          None

Names == ToSet(Alphabet)

\* The names of the synthetic .git are among them, and try_resolve_branch_full_name gives a name
\* under refs/heads/, which apply_a2_ref_visibility asserts.
ASSUME NamesAssumption ==
    /\ Alphabet \in Seq(Names)
    /\ {".git", "HEAD", "config", "packed-refs", "index", "refs", "heads", "tags", "objects", "info",
        "alternates"} \subseteq Names
    /\ \A b \in DOMAIN BranchPath :
         /\ BranchPath[b] \in Seq(Names) /\ Len(BranchPath[b]) > 2
         /\ BranchPath[b][1] = "refs" /\ BranchPath[b][2] = "heads"

Modes == {"RegularFile", "ExecutableFile", "Symlink", "Directory", "Gitlink"}
Entry(n, mode, o) == [name |-> n, mode |-> mode, oid |-> o]
EntryAt(t, n) == CHOOSE e \in ToSet(Trees[t]) : e.name = n
Listed(t, n) == \E e \in ToSet(Trees[t]) : e.name = n

\* Results: ProjectionError by variant, or what a path resolves to.
Fails(e) == [ok |-> FALSE, error |-> e]
IsTree(e) == [ok |-> TRUE, space |-> "Tree", mode |-> e.mode, oid |-> e.oid]
IsSynthetic(node) == [ok |-> TRUE, space |-> "Synthetic", mode |-> node.mode,
                      content |-> node.content]

----------------------------------------------------------------------------
(* TreeNavigator::lookup: components are checked first, then resolved one by one. *)

ValidPath(path) == \A i \in DOMAIN path : path[i] \notin {".", ".."}

DescendsMutantGitlink(mode) == mode \in {"Directory", "Gitlink"}
Descends(mode) == mode = "Directory"

NavLookup(t, path, have) ==
    LET Walk[i \in 0..Len(path)] ==
            IF i = 0 THEN IsTree(Entry("", "Directory", t))
            ELSE LET up == Walk[i - 1] IN
                 CASE ~up.ok -> up
                   [] up.ok /\ ~Descends(up.mode) -> Fails("NotADirectory")
                   [] up.ok /\ Descends(up.mode) /\ up.oid \notin have -> Fails("Store")
                   [] OTHER -> IF Listed(up.oid, path[i]) THEN IsTree(EntryAt(up.oid, path[i]))
                               ELSE Fails("NotFound")
    IN IF ValidPath(path) THEN Walk[Len(path)] ELSE Fails("InvalidPath")

----------------------------------------------------------------------------
(* RootOverlay: synthetic path -> node.  A directory's children are the paths one longer. *)

SynDir == [mode |-> "Directory", content |-> <<>>]
SynFile(content) == [mode |-> "RegularFile", content |-> content]
NoOverlay == [p \in {} |-> SynDir]
With(overlay, path, node) ==
    [p \in DOMAIN overlay \cup {path} |-> IF p = path THEN node ELSE overlay[p]]

Shadows(overlay, n) == <<n>> \in DOMAIN overlay

\* The members of s that are in S, in their order: SelectSeq, spelled out for the proofs.
Only(s, S) ==
    LET Upto[i \in 0..Len(s)] ==
            IF i = 0 THEN <<>> ELSE IF s[i] \in S THEN Append(Upto[i - 1], s[i]) ELSE Upto[i - 1]
    IN Upto[Len(s)]

\* BTreeMap iteration: children in byte order.
Children(overlay, path) == Only(Alphabet, {n \in Names : Append(path, n) \in DOMAIN overlay})

ResolveInSynthetic(overlay, path) ==
    LET Walk[i \in 1..Len(path)] ==
            IF i = 1 THEN IsSynthetic(overlay[<<path[1]>>])
            ELSE LET up == Walk[i - 1] IN
                 CASE ~up.ok -> up
                   [] up.ok /\ up.mode # "Directory" -> Fails("NotADirectory")
                   [] OTHER -> IF SubSeq(path, 1, i) \in DOMAIN overlay
                               THEN IsSynthetic(overlay[SubSeq(path, 1, i)])
                               ELSE Fails("NotFound")
    IN Walk[Len(path)]

\* a1_overlay: a detached HEAD, no refs, and the objects of the shared store.
A1Overlay(c) ==
    LET dirs == {<<".git">>, <<".git", "refs">>, <<".git", "refs", "heads">>, <<".git", "refs", "tags">>,
                 <<".git", "objects">>, <<".git", "objects", "info">>}
        base == [p \in dirs |-> SynDir]
        head == With(base, <<".git", "HEAD">>, SynFile(<<c>>))
        config == With(head, <<".git", "config">>, SynFile(<<"config">>))
        packed == With(config, <<".git", "packed-refs">>, SynFile(<<>>))
    IN With(packed, <<".git", "objects", "info", "alternates">>, SynFile(<<"objects">>))

\* build_index_bytes reads every tree of the commit from the local store, with no fetcher.
TreesBelow(t) ==
    LET Sub(S) == {e.oid : e \in {x \in UNION {ToSet(Trees[u]) : u \in S} : x.mode = "Directory"}}
        Level[i \in 0..Depth] == IF i = 0 THEN {t} ELSE Level[i - 1] \cup Sub(Level[i - 1])
    IN Level[Depth]
IndexBuilds(c, have) == TreesBelow(RootOf[c]) \subseteq have
A1PlusOverlay(c) == With(A1Overlay(c), <<".git", "index">>, SynFile(<<"index", RootOf[c]>>))

\* splice_nested_dotgit_file creates the directories on the way.
SpliceNested(overlay, path, content) ==
    LET above == {SubSeq(path, 1, i) : i \in 1..Len(path) - 1}
        dirs == [p \in DOMAIN overlay \cup above |->
                     IF p \in DOMAIN overlay THEN overlay[p] ELSE SynDir]
    IN With(dirs, path, SynFile(content))

\* apply_a2_ref_visibility: a symbolic HEAD and the loose ref it names.
A2Overlay(overlay, b, c) ==
    SpliceNested(With(overlay, <<".git", "HEAD">>, SynFile(<<"ref", b>>)),
                 <<".git">> \o BranchPath[b], <<c>>)

----------------------------------------------------------------------------
(* Projection *)

Projections == [kind : {"Ref"}, ref : Refs]
                 \cup [kind : {"Commit"}, commit : Commits]
                 \cup [kind : {"Subtree"}, commit : Commits, path : Seq(Names)]

\* The commit the projection shows now, or None: resolve_ref does not find the ref.
ResolveCommit(p, refs) == IF p.kind = "Ref" THEN refs[p.ref] ELSE p.commit

RootTree(p, refs, have) ==
    LET c == ResolveCommit(p, refs) IN
    IF c = None THEN Fails("Store")
    ELSE IF p.kind # "Subtree" THEN IsTree(Entry("", "Directory", RootOf[c]))
    ELSE LET r == NavLookup(RootOf[c], p.path, have)
         IN IF r.ok /\ ~Descends(r.mode) THEN Fails("NotADirectory") ELSE r

\* Projection::lookup: a first component that the overlay has never reaches the tree.
Lookup(p, overlay, path, refs, have) ==
    IF path # <<>> /\ Shadows(overlay, path[1]) THEN ResolveInSynthetic(overlay, path)
    ELSE LET root == RootTree(p, refs, have)
         IN IF root.ok THEN NavLookup(root.oid, path, have) ELSE root

\* Projection::read_root: the overlay's names, then the tree's that it does not shadow.
ReadRoot(p, overlay, refs, have) ==
    LET root == RootTree(p, refs, have) IN
    CASE ~root.ok -> root
      [] root.ok /\ root.oid \notin have -> Fails("Store")
      [] OTHER -> [ok |-> TRUE, tree |-> root.oid,
                   synthetic |-> Children(overlay, <<>>),
                   real |-> Only(Trees[root.oid],
                                 {e \in ToSet(Trees[root.oid]) : ~Shadows(overlay, e.name)})]

----------------------------------------------------------------------------
(* The reference for path resolution: every path below a tree, as `git ls-tree -r -t` lists them, *)
(* found by descending from the top rather than by following one path.                           *)
AllPaths == [t \in DOMAIN Trees |->
    LET Deeper(S) == UNION {{<<Append(x[1], e.name), e>> : e \in ToSet(Trees[x[2].oid])} :
                            x \in {y \in S : y[2].mode = "Directory"}}
        Upto[i \in 0..Depth] ==
            IF i = 0 THEN {<<<<>>, Entry("", "Directory", t)>>} ELSE Upto[i - 1] \cup Deeper(Upto[i - 1])
    IN Upto[Depth]]

\* What git guarantees of the trees of a repository, and what Depth is.
ASSUME TreesAssumption ==
    /\ Depth \in Nat
    /\ \A b \in DOMAIN Bytes : Bytes[b] \in Seq(ToSet(Bytes[b]))
    /\ \A t \in DOMAIN Trees :
         /\ Trees[t] \in Seq(ToSet(Trees[t]))
         /\ \A e \in ToSet(Trees[t]) :
              /\ e.name \in Names \ {".", ".."} /\ e.mode \in Modes
              /\ e.mode = "Directory" <=> e.oid \in DOMAIN Trees
              /\ e.mode \in {"RegularFile", "ExecutableFile", "Symlink"} => e.oid \in DOMAIN Bytes
         /\ \A e, f \in ToSet(Trees[t]) : e.name = f.name => e = f
         /\ \A x \in AllPaths[t] : Len(x[1]) = Depth => x[2].mode # "Directory"
=============================================================================
