----------------------------- MODULE MCMountCli -----------------------------
(* Two commits: a file that turns executable, a directory whose content changes, one that becomes *)
(* a submodule, a symlink; a tree and a blob that are not in the store; and a name that is not    *)
(* UTF-8 ("n~"), alone in one directory and next to its lossy spelling ("n?") in another.         *)
EXTENDS MountCli

CONSTANTS c1, c2, t1, t2, d1, d2, e1, hi, lo, to, sub, main, tag

MCRootOf == [c \in Commits |-> IF c = c1 THEN t1 ELSE t2]
MCTrees == [t \in {t1, t2, d1, d2, e1} |->
    CASE t = t1 -> <<Entry("a", "RegularFile", hi), Entry("d", "Directory", d1),
                     Entry("l", "Symlink", to), Entry("m", "Gitlink", sub)>>
      [] t = t2 -> <<Entry("a", "ExecutableFile", hi), Entry("d", "Directory", d2)>>
      [] t = d1 -> <<Entry("a", "RegularFile", hi), Entry("e", "Directory", e1),
                     Entry("n?", "RegularFile", lo), Entry("n~", "ExecutableFile", hi)>>
      [] t = d2 -> <<Entry("a", "RegularFile", lo), Entry("e", "Gitlink", sub)>>
      [] t = e1 -> <<Entry("a", "RegularFile", lo), Entry("n~", "RegularFile", lo)>>]
MCBytes == [b \in {hi, lo, to} |->
    CASE b = hi -> <<"h", "i">> [] b = lo -> <<"l", "o", "w">> [] b = to -> <<"a">>]
MCBranchPath == [b \in {main} |-> <<"refs", "heads", "team", "main">>]
MCAlphabet == <<"..", ".git", "HEAD", "a", "alternates", "config", "d", "e", "heads", "index",
                "info", "l", "m", "main", "n?", "n~", "objects", "packed-refs", "refs", "tags", "team">>
MCLossy == [n \in ToSet(MCAlphabet) |-> IF n = "n~" THEN "n?" ELSE n]
MCTip == [r \in Refs |-> c1]
MCCanon == [s \in {"x", "./x", "y"} |-> IF s = "./x" THEN "x" ELSE s]

Place(seq, x) == IF x \in ToSet(seq) THEN CHOOSE i \in DOMAIN seq : seq[i] = x ELSE 0
PathNumber(p) == FoldLeft(LAMBDA acc, n : acc * (Len(MCAlphabet) + 1) + Place(MCAlphabet, n), 0, p)
OidSeq == <<hi, d1, d2, lo, to, sub, e1>>
\* Injective, with the high bit set for every other key, and 1 for the file "a" of the first mount.
MCHash(k) ==
    LET n == IF k[1] = "tree" THEN (PathNumber(k[4]) * 8 + Place(OidSeq, k[3])) * 2 + k[2] - 1
             ELSE PathNumber(k[3]) * 2 + k[2] - 1
        first == (PathNumber(<<"a">>) * 8 + 1) * 2
    IN (IF n = first /\ k[1] = "tree" THEN 1 ELSE n + 4) + (n % 2) * HighBit

Spec1(base, subtree, dotgit, at) == [base |-> base, subtree |-> subtree, dotgit |-> dotgit, at |-> at]
MCPlans == {
    [multi |-> FALSE, specs |-> <<Spec1(main, <<>>, TRUE, "x")>>,
     asks |-> {"a", "d", ".git"}, lists |-> TRUE],
    [multi |-> FALSE, specs |-> <<Spec1(main, <<>>, FALSE, "x")>>,
     asks |-> {"d", "e", ".."}, lists |-> FALSE],
    [multi |-> FALSE, specs |-> <<Spec1(tag, <<"d">>, TRUE, "x")>>,
     asks |-> {"a", "n~"}, lists |-> TRUE],
    [multi |-> FALSE, specs |-> <<Spec1(c1, <<"d", "e">>, FALSE, "x")>>,
     asks |-> {"a", "n~"}, lists |-> TRUE],
    [multi |-> FALSE, specs |-> <<Spec1(c1, <<>>, TRUE, "x")>>,
     asks |-> {"l", ".git", "HEAD"}, lists |-> TRUE],
    [multi |-> TRUE, specs |-> <<Spec1(main, <<>>, TRUE, "x"), Spec1(tag, <<>>, FALSE, "y")>>,
     asks |-> {"a"}, lists |-> FALSE],
    [multi |-> TRUE, specs |-> <<Spec1(main, <<>>, FALSE, "x"), Spec1(tag, <<>>, FALSE, "./x")>>,
     asks |-> {}, lists |-> FALSE]}

\* The hypotheses of the theorem on file handles hold here.
ASSUME HandlesAssumption == NoCollisions /\ TypesKept

\* One mount, one directory to list.
PagingPlan == {[multi |-> FALSE, specs |-> <<Spec1(c1, <<>>, TRUE, "x")>>, asks |-> {"d"}, lists |-> TRUE]}
=============================================================================
