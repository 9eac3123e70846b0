------------------------------- MODULE Picks -------------------------------
(***************************************************************************)
(* Filters on sequences: a `Vec` built by `.filter(..).collect()`, and one *)
(* built behind a `HashSet` that lets each element through once.           *)
(***************************************************************************)
EXTENDS Naturals, Sequences

\* The elements of s at the places in I, in order.
Picked(s, I) ==
    LET upTo[n \in 0..Len(s)] ==
            IF n = 0 THEN <<>>
            ELSE IF n \in I THEN Append(upTo[n - 1], s[n]) ELSE upTo[n - 1]
    IN  upTo[Len(s)]

\* Is i the first place of its element in s?
FirstAt(s, i) == \A j \in 1..(i - 1) : s[j] # s[i]

\* The elements of s that are in S.
Keep(s, S) == Picked(s, {i \in DOMAIN s : s[i] \in S})

\* The elements of s that are in S, each once, in order of first occurrence.
FirstOccurrences(s, S) == Picked(s, {i \in DOMAIN s : s[i] \in S /\ FirstAt(s, i)})
=============================================================================
