------------------------------ MODULE LRUCache ------------------------------
(***************************************************************************)
(* The cache of every node: the LRUCache template of cache.h (results, and *)
(* the idempotency cache of the workers) and the class of the same name in *)
(* server_e.py and server_f.py.  Every method runs under the mutex, so one *)
(* call is one step.                                                       *)
(*                                                                         *)
(* cache.h keeps a map whose entries point into a list of keys, the most   *)
(* recently used one first; an OrderedDict is both in one, in the reverse  *)
(* order.                                                                  *)
(***************************************************************************)
EXTENDS Integers, FiniteSets, SequencesExt

CONSTANTS
    Keys,        \* cache keys
    Values,      \* cached values
    NoValue,     \* nullopt, None
    Capacity,    \* 1000 entries, 500 in the idempotency cache
    TTL,         \* 300 s, 60 s in the idempotency cache
    SECOND,      \* clock ticks in a second
    Kinds,       \* the classes modelled, a subset of AllKinds
    MaxTime      \* bound of the model: when the clock stops

AllKinds == {"cache.h", "OrderedDict"}

ASSUME CapacityAssumption == Capacity \in Nat \ {0}
ASSUME TimeAssumption     == /\ TTL \in Nat \ {0} /\ SECOND \in Nat \ {0}
                             /\ MaxTime \in Nat
ASSUME KindsAssumption    == Kinds \subseteq AllKinds
ASSUME NoValueAssumption  == NoValue \notin Values

VARIABLES
    kind,        \* which of the two classes this cache is
    cache,       \* cache_: key -> value and timestamp, of the keys held
    lru,         \* lru_list_: the keys held, most recently used first
    now,         \* the clock
    ret,         \* what the last Get returned
    born,        \* history: key -> when it was last put
    since        \* history: key used since Clear -> the keys used after it was

vars == <<kind, cache, lru, now, ret, born, since>>

Held == DOMAIN cache

Init ==
    /\ kind \in Kinds
    /\ cache  = [k \in {} |-> NoValue]
    /\ lru    = <<>>
    /\ now    = 0
    /\ ret    = NoValue
    /\ born   = [k \in Keys |-> 0]
    /\ since  = [k \in {} |-> {}]

-----------------------------------------------------------------------------
(***************************************************************************)
(* The methods                                                             *)
(***************************************************************************)
\* The node of the list an entry points to.
lru_it(k) == CHOOSE i \in DOMAIN lru : lru[i] = k

Erased(k) == RemoveAt(lru, lru_it(k))

\* splice: k is now the most recently used.
Spliced(k) == <<k>> \o Erased(k)

\* The history after a use of k.
Used(k) == [j \in DOMAIN since \cup {k} |->
              IF j = k THEN {} ELSE since[j] \cup {k}]

\* How long an entry lives.  cache.h counts whole seconds and compares with >,
\* which gives it a second more than its TTL.
Life == (IF kind = "OrderedDict" THEN TTL ELSE TTL + 1) * SECOND

TooOld(ts) == now - ts >= Life

Miss(k) ==
    /\ k \notin Held
    /\ ret' = NoValue
    /\ UNCHANGED <<kind, cache, lru, now, born, since>>

\* Fault: the node of the list stays.
ExpireMapOnly(k) ==
    /\ k \in Held /\ TooOld(cache[k].ts)
    /\ cache' = [j \in Held \ {k} |-> cache[j]]
    /\ ret' = NoValue
    /\ UNCHANGED <<kind, lru, now, born, since>>

\* An entry that is too old is removed on the way.
Expire(k) ==
    /\ k \in Held /\ TooOld(cache[k].ts)
    /\ cache' = [j \in Held \ {k} |-> cache[j]]
    /\ lru' = Erased(k)
    /\ ret' = NoValue
    /\ UNCHANGED <<kind, now, born, since>>

\* Fault: a hit renews the entry.
HitRenewing(k) ==
    /\ k \in Held /\ ~TooOld(cache[k].ts)
    /\ cache' = [cache EXCEPT ![k].ts = now]
    /\ lru' = Spliced(k) /\ since' = Used(k)
    /\ ret' = cache[k].value
    /\ UNCHANGED <<kind, now, born>>

\* Fault: a hit leaves the order alone.
HitUnordered(k) ==
    /\ k \in Held /\ ~TooOld(cache[k].ts)
    /\ since' = Used(k)
    /\ ret' = cache[k].value
    /\ UNCHANGED <<kind, cache, lru, now, born>>

Hit(k) ==
    /\ k \in Held /\ ~TooOld(cache[k].ts)
    /\ lru' = Spliced(k) /\ since' = Used(k)
    /\ ret' = cache[k].value
    /\ UNCHANGED <<kind, cache, now, born>>

Get(k) == Miss(k) \/ Expire(k) \/ Hit(k)

\* Put of a key that is held.
Update(k, v) ==
    /\ k \in Held
    /\ cache' = [cache EXCEPT ![k] = [value |-> v, ts |-> now]]
    /\ lru' = Spliced(k)

\* Fault: nothing is evicted.
VictimsNone == {}

\* Evict: the back of the list makes room, if the cache is full.
Victims == IF Cardinality(Held) >= Capacity THEN {Last(lru)} ELSE {}

\* Put of a new key.
Insert(k, v) ==
    /\ k \notin Held
    /\ cache' = [j \in (Held \ Victims) \cup {k} |->
                   IF j = k THEN [value |-> v, ts |-> now] ELSE cache[j]]
    /\ lru' = <<k>> \o (IF Victims = {} THEN lru ELSE Front(lru))

Put(k, v) ==
    /\ Update(k, v) \/ Insert(k, v)
    /\ since' = Used(k)
    /\ born' = [born EXCEPT ![k] = now]
    /\ UNCHANGED <<kind, now, ret>>

\* The keys of S in the order of the list.
InOrder(S) == {s \in SetToSeqs(S) :
                 \A i, j \in DOMAIN s : i < j => lru_it(s[i]) < lru_it(s[j])}

\* EvictExpired, of cache.h only: the nodes erased leave the others in order.
EvictExpired ==
    /\ kind = "cache.h"
    /\ LET young == {k \in Held : ~TooOld(cache[k].ts)}
       IN  /\ cache' = [k \in young |-> cache[k]]
           /\ lru' \in InOrder(young)
    /\ UNCHANGED <<kind, now, ret, born, since>>

\* Clear, of cache.h only.
Clear ==
    /\ kind = "cache.h"
    /\ cache' = [k \in {} |-> NoValue]
    /\ lru' = <<>>
    /\ since' = [k \in {} |-> {}]
    /\ UNCHANGED <<kind, now, ret, born>>

Tick ==
    /\ now < MaxTime
    /\ now' = now + 1
    /\ UNCHANGED <<kind, cache, lru, ret, born, since>>

Next ==
    \/ \E k \in Keys : Get(k)
    \/ \E k \in Keys, v \in Values : Put(k, v)
    \/ EvictExpired \/ Clear \/ Tick

Spec == Init /\ [][Next]_vars

-----------------------------------------------------------------------------
(***************************************************************************)
(* Properties                                                              *)
(***************************************************************************)
\* The bound on the entries is part of it.
TypeOK ==
    /\ kind \in Kinds
    /\ Held \subseteq Keys /\ Cardinality(Held) <= Capacity
    /\ cache \in [Held -> [value : Values, ts : 0 .. now]]
    /\ lru \in Seq(Keys)
    /\ DOMAIN since \subseteq Keys
    /\ since \in [DOMAIN since -> SUBSET DOMAIN since]
    /\ now \in 0 .. MaxTime
    /\ ret \in Values \cup {NoValue}
    /\ born \in [Keys -> 0 .. now]

\* The list holds the keys of the map, each once, in the order of their last
\* use, whatever mixture of lookups, evictions and expiries came before: no
\* entry points to a node of the list that is gone.
RecencyOrder ==
    /\ ToSet(lru) = Held /\ IsInjective(lru)
    /\ \A i, j \in DOMAIN lru : i < j => lru[i] \in since[lru[j]]

\* A workload that fits the capacity is not evicted: a key that is missing
\* has expired, unless Capacity others were used after it.
WorkingSetKept ==
    \A k \in DOMAIN since :
        Cardinality(since[k]) < Capacity => k \in Held \/ TooOld(born[k])

\* The cache does what its users rely on: a lookup gives the last value put
\* under the key, never after its life counted from that Put, or nothing.
Abstract == INSTANCE Cache WITH
    content <- [k \in Keys |-> IF k \in Held /\ ~TooOld(born[k])
                                 THEN cache[k].value ELSE NoValue]

CacheImplemented == Abstract!Spec
=============================================================================
