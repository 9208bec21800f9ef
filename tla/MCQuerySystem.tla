---------------------------- MODULE MCQuerySystem ----------------------------
(***************************************************************************)
(* QuerySystem on a small dataset: GREEN's worker holds the keys 0 to 2,   *)
(* PINK's 3 to 5, and a chunk has two pairs (500 keys at C, 250 at F and   *)
(* 100 pairs in the code).  Ranges are <<key_min, key_max>>.               *)
(***************************************************************************)
EXTENDS QuerySystem, TLC

MCKeys == 0 .. 5
Part   == [t \in Teams |-> IF t = "GREEN" THEN 0 .. 2 ELSE 3 .. 5]

\* The two lowest keys of the part that the range asks for.
MCFirstChunk ==
    [t \in Teams |-> [q \in Ranges |->
        LET hit == Part[t] \cap (q[1] .. q[2])
        IN  {k \in hit : Cardinality({j \in hit : j < k}) < 2}]]

\* One range, held by both teams; two ranges with the same key_min, the first
\* of them without keys of PINK.
WholeRange == {<<0, 5>>}
TwoRanges  == {<<0, 1>>, <<0, 5>>}

Green == {"GREEN"}
Pink  == {"PINK"}

\* Values of Targets.
AtMostOne  == {{}, Green, Pink}
OneTeam    == {Green, Pink}
OnlyGreen  == {Green}
OnlyPink   == {Pink}

Symmetry == Permutations(Requests)
=============================================================================
