----------------------------- MODULE MCHydrate -----------------------------
(* A small mount: trees whose subtrees are shared, a small blob, a blob over the cap, and an *)
(* object the remote does not have.                                                          *)
EXTENDS Hydrate

CONSTANTS r1, r2, root, left, right, leaf, small, big, gone

MCKind == [o \in Oids |-> IF o \in {root, left, right, leaf} THEN "tree" ELSE "blob"]
MCSize == [o \in Oids |-> CASE o = small -> 1 [] o = big -> 3 [] OTHER -> 2]
MCSubtrees == [o \in Oids |->
    CASE o = root -> <<left, right>>
      [] o = left -> <<leaf, leaf>>
      [] o = right -> <<leaf>>
      [] OTHER -> <<>>]

\* Two readers; a reader that lists directories, and the worker; a reader and the warmer; a lone
\* reader that takes a blob for a tree.
MCCasts == {
    [threads |-> {r1, r2}, dirs |-> {},
     reads |-> {<<"blob", small>>, <<"blob", gone>>}],
    [threads |-> {r1, Worker}, dirs |-> {<<small, big, small, gone>>, <<gone>>},
     reads |-> {<<"blob", big>>, <<"header", small>>}],
    [threads |-> {r1, Warmer}, dirs |-> {}, reads |-> {<<"tree", left>>}],
    [threads |-> {r1}, dirs |-> {}, reads |-> {<<"tree", small>>, <<"header", gone>>}]}
=============================================================================
