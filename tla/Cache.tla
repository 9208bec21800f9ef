-------------------------------- MODULE Cache --------------------------------
(***************************************************************************)
(* What the handlers rely on when they use a cache: a lookup gives the     *)
(* value last put under its key, or nothing; entries may be lost at any    *)
(* time, and a lost one comes back only by another Put.  This is the cache *)
(* of QuerySystem, there with the losses as steps of their own.            *)
(***************************************************************************)
CONSTANTS
    Keys,        \* cache keys
    Values,      \* cached values
    NoValue      \* nullopt, None

VARIABLES
    content,     \* key -> value a lookup gives
    ret          \* what the last lookup gave

vars == <<content, ret>>

Init == content = [k \in Keys |-> NoValue] /\ ret = NoValue

\* The content without the keys of L.
Losing(L) == [k \in Keys |-> IF k \in L THEN NoValue ELSE content[k]]

Get(k) == ret' = content[k] /\ UNCHANGED content

Put(k, v) ==
    /\ \E L \in SUBSET Keys : content' = [Losing(L) EXCEPT ![k] = v]
    /\ UNCHANGED ret

Lose ==
    /\ \E L \in SUBSET Keys : content' = Losing(L)
    /\ UNCHANGED ret

Next == \/ \E k \in Keys : Get(k)
        \/ \E k \in Keys, v \in Values : Put(k, v)
        \/ Lose

Spec == Init /\ [][Next]_vars
=============================================================================
