----------------------------- MODULE MCRangeQuery -----------------------------
(***************************************************************************)
(* RangeQuery with the nodes of the shipped topology files and small       *)
(* partitions: C 0-5, D 6-8, F 9-11 (0-499, 500-749, 750-999 in the code), *)
(* chunks of two pairs (100) and ints of five bits.                        *)
(***************************************************************************)
EXTENDS RangeQuery

MCByName    == <<"A", "B", "C", "D", "E", "F">>
MCNeighbors == [A |-> <<"B", "E">>, B |-> <<"A", "C", "D">>, C |-> <<"B">>,
                D |-> <<"B", "E">>, E |-> <<"A", "F", "D">>, F |-> <<"E">>]
MCTeamOf    == [A |-> "", B |-> "GREEN", C |-> "GREEN", D |-> "PINK",
                E |-> "PINK", F |-> "PINK"]
MCLeader    == [GREEN |-> "B", PINK |-> "E"]
MCPartition == [C |-> <<0, 5>>, D |-> <<6, 8>>, F |-> <<9, 11>>]

\* Every range of ints: empty, reversed, across partitions, up to MaxInt.
AllRanges == Int32 \X Int32
=============================================================================
