---------------------------- MODULE MCHandleSystem ----------------------------
(***************************************************************************)
(* HandleSystem with GREEN served by the C++ nodes and PINK by the Python  *)
(* ones, as the topology has it.                                           *)
(***************************************************************************)
EXTENDS HandleSystem

Pink == {"PINK"}

\* Values of Asks: any set of teams, PINK with a payload too.
AskFor(T, payload) == [target |-> T, payload |-> payload]
AnyAsk  == {AskFor(T, FALSE) : T \in SUBSET Teams}
             \cup {AskFor(T, TRUE) : T \in {Pink, Teams}}
AskPink == {AskFor(Pink, TRUE)}

\* A value of MaxRetries.
OnceA == [n \in {"A", "B"} |-> IF n = "A" THEN 1 ELSE 0]
=============================================================================
