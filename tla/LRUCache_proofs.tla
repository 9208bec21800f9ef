--------------------------- MODULE LRUCache_proofs ---------------------------
(***************************************************************************)
(* Theorems about LRUCache: its types and its bound on the entries, the    *)
(* order of the list, what is evicted, and that it implements Cache.  For  *)
(* the last the order of the list does not matter, only that an entry      *)
(* carries the time of its last Put.                                       *)
(***************************************************************************)
EXTENDS LRUCache, FiniteSetTheorems, SequenceTheorems,
        TLAPS

content == [k \in Keys |-> IF k \in Held /\ ~TooOld(born[k])
                             THEN cache[k].value ELSE NoValue]

\* The inductive invariant: entries are of the right type, and stamped with
\* the time of the last Put of their key.
IInv ==
    /\ kind \in Kinds
    /\ now \in Nat
    /\ born \in [Keys -> Nat]
    /\ Held \subseteq Keys
    /\ \A k \in Held : cache[k] \in [value : Values, ts : Nat]
    /\ \A k \in Held : cache[k].ts = born[k]

\* An entry just put is not too old.
LEMMA LifePositive == IInv => Life \in Nat \ {0}
<1>1. \A m, n \in Nat \ {0} : m * n \in Nat \ {0}
    OBVIOUS
<1> QED BY <1>1, TimeAssumption DEF Life

\* The invariant holds of the empty cache.
LEMMA InitIInv == Init => IInv
    BY DEF Init, IInv, Held

\* Every method preserves it: only Put sets a timestamp.
LEMMA NextIInv == IInv /\ [Next]_vars => IInv'
<1> SUFFICES ASSUME IInv, [Next]_vars PROVE IInv'
    OBVIOUS
<1>1. ASSUME NEW k \in Keys, Get(k) PROVE IInv'
    BY <1>1 DEF IInv, Get, Miss, Expire, Hit, Held
<1>2. ASSUME NEW k \in Keys, NEW v \in Values, Put(k, v) PROVE IInv'
    BY <1>2 DEF IInv, Put, Update, Insert, Held
<1>3. ASSUME EvictExpired PROVE IInv'
    BY <1>3 DEF IInv, EvictExpired, Held
<1>4. ASSUME Clear PROVE IInv'
    BY <1>4 DEF IInv, Clear, Held
<1>5. ASSUME Tick PROVE IInv'
    BY <1>5 DEF IInv, Tick, Held
<1>6. ASSUME UNCHANGED vars PROVE IInv'
    BY <1>6 DEF IInv, vars, Held
<1> QED BY <1>1, <1>2, <1>3, <1>4, <1>5, <1>6 DEF Next

\* The empty cache gives nothing.
LEMMA InitImplements == Init => Abstract!Init
    BY DEF Init, Held, Abstract!Init

\* A step that changes no entry, but drops some or lets some grow too old,
\* loses content and does nothing else to it.
LEMMA DroppingLoses ==
    ASSUME IInv, IInv', UNCHANGED <<kind, born>>, now' >= now, Held' \subseteq Held,
           \A k \in Held' : cache'[k] = cache[k]
    PROVE  \E L \in SUBSET Keys : content' = Abstract!Losing(L)
<1> DEFINE L == {k \in Keys : content'[k] # content[k]}
<1>1. \A k \in Keys : TooOld(born[k]) => TooOld(born[k])'
    BY LifePositive DEF TooOld, Life, IInv
<1>2. ASSUME NEW k \in Keys PROVE content'[k] = IF k \in L THEN NoValue ELSE content[k]
    BY <1>1 DEF content
<1>3. content' = Abstract!Losing(L)
    BY <1>2 DEF Abstract!Losing, content
<1> QED BY <1>3

\* Every method is an action of Cache, or leaves its content alone; the clock
\* loses the entries that grow too old.
LEMMA StepImplements ==
    IInv /\ IInv' /\ [Next]_vars => [Abstract!Next]_(Abstract!vars)
<1> SUFFICES ASSUME IInv, IInv', [Next]_vars
             PROVE  Abstract!Next \/ UNCHANGED <<content, ret>>
    BY DEF Abstract!vars, content
<1>1. ASSUME NEW k \in Keys, Get(k) PROVE Abstract!Get(k)
  <2>1. CASE Miss(k) \/ Expire(k)
    <3>1. /\ k \notin Held \/ TooOld(cache[k].ts)
          /\ Held' = Held \ {k} /\ \A j \in Held' : cache'[j] = cache[j]
          /\ ret' = NoValue /\ UNCHANGED <<kind, now, born>>
      BY <2>1 DEF Miss, Expire, Held
    <3>2. content[k] = NoValue
      BY <3>1 DEF content, IInv
    <3>3. ASSUME NEW j \in Keys PROVE content'[j] = content[j]
      BY <3>1 DEF content, IInv, TooOld, Life
    <3>4. content' = content
      BY <3>3 DEF content
    <3> QED BY <3>1, <3>2, <3>4 DEF Abstract!Get, content
  <2>2. CASE Hit(k)
    <3>1. /\ k \in Held /\ ~TooOld(cache[k].ts)
          /\ ret' = cache[k].value /\ UNCHANGED <<kind, cache, now, born>>
      BY <2>2 DEF Hit
    <3>2. content[k] = cache[k].value
      BY <3>1 DEF content, IInv
    <3>3. content' = content
      BY <3>1 DEF content, Held, TooOld, Life
    <3> QED BY <3>1, <3>2, <3>3 DEF Abstract!Get, content
  <2> QED BY <1>1, <2>1, <2>2 DEF Get
<1>2. ASSUME NEW k \in Keys, NEW v \in Values, Put(k, v)
      PROVE  Abstract!Put(k, v)
  <2> DEFINE L == Keys \ Held'
  <2>1. /\ k \in Held' /\ cache'[k] = [value |-> v, ts |-> now]
        /\ Held' \subseteq Held \cup {k}
        /\ \A j \in Held' \ {k} : cache'[j] = cache[j]
        /\ born' = [born EXCEPT ![k] = now]
        /\ UNCHANGED <<kind, now, ret>>
    BY <1>2 DEF Put, Update, Insert, Held
  <2>2. ~TooOld(born[k])'
    <3>1. Life \in Nat \ {0} /\ Life' = Life
      BY <2>1, LifePositive DEF Life
    <3>2. born'[k] = now /\ now' = now /\ now \in Nat
      BY <2>1 DEF IInv
    <3> QED BY <3>1, <3>2 DEF TooOld
  <2>3. content'[k] = v
    BY <2>1, <2>2 DEF content
  <2>4. ASSUME NEW j \in Keys, j # k
        PROVE  content'[j] = IF j \in L THEN NoValue ELSE content[j]
    BY <2>1, <2>4 DEF content, TooOld, Life, IInv
  <2>5. content' = [Abstract!Losing(L) EXCEPT ![k] = v]
    BY <2>3, <2>4 DEF Abstract!Losing, content
  <2> QED BY <2>1, <2>5 DEF Abstract!Put, content
<1>3. ASSUME UNCHANGED <<kind, ret, born>>, now' >= now, Held' \subseteq Held,
             \A k \in Held' : cache'[k] = cache[k]
      PROVE  Abstract!Lose
    BY <1>3, DroppingLoses DEF Abstract!Lose, content
<1>4. ASSUME EvictExpired PROVE Abstract!Lose
    BY <1>3, <1>4 DEF EvictExpired, Held, IInv
<1>5. ASSUME Clear PROVE Abstract!Lose
    BY <1>3, <1>5 DEF Clear, Held, IInv
<1>6. ASSUME Tick PROVE Abstract!Lose
    BY <1>3, <1>6 DEF Tick, Held, IInv
<1>7. ASSUME UNCHANGED vars PROVE UNCHANGED <<content, ret>>
    BY <1>7 DEF vars, content, Held, TooOld, Life
<1> QED BY <1>1, <1>2, <1>4, <1>5, <1>6, <1>7 DEF Next, Abstract!Next

\* For every capacity, TTL and clock, and for both implementations: a lookup
\* gives the value last put under its key, within its life, or nothing.
THEOREM CacheSound == Spec => CacheImplemented
    BY InitIInv, NextIInv, InitImplements, StepImplements, PTL
       DEF Spec, CacheImplemented, Abstract!Spec
-----------------------------------------------------------------------------
(***************************************************************************)
(* The order of the list                                                   *)
(***************************************************************************)
\* s lists the keys of H, each once, a key of s after those used after it.
Ordered(s, H, u) ==
    /\ ToSet(s) = H /\ IsInjective(s)
    /\ \A i, j \in DOMAIN s : i < j => s[i] \in u[s[j]]

\* What an erased node leaves.
LEMMA RemoveAtElements ==
    ASSUME NEW S, NEW s \in Seq(S), NEW n \in DOMAIN s
    PROVE  /\ RemoveAt(s, n) \in Seq(S)
           /\ Len(RemoveAt(s, n)) = Len(s) - 1
           /\ \A i \in 1 .. Len(s) - 1 :
                 RemoveAt(s, n)[i] = IF i < n THEN s[i] ELSE s[i + 1]
<1> DEFINE left == SubSeq(s, 1, n - 1)
           right == SubSeq(s, n + 1, Len(s))
<1>1. n \in 1 .. Len(s) /\ Len(s) \in Nat /\ \A i \in 1 .. Len(s) : s[i] \in S
    BY LenProperties, ElementOfSeq
<1>2. /\ left \in Seq(S) /\ Len(left) = n - 1
      /\ \A i \in 1 .. n - 1 : left[i] = s[i]
  <2>1. \A i \in 1 .. n - 1 : s[i] \in S
    BY <1>1
  <2> QED BY <1>1, <2>1, SubSeqProperties
<1>3. /\ right \in Seq(S) /\ Len(right) = Len(s) - n
      /\ \A i \in 1 .. Len(s) - n : right[i] = s[i + n]
  <2>1. \A i \in n + 1 .. Len(s) : s[i] \in S
    BY <1>1
  <2>2. /\ right \in Seq(S) /\ Len(right) = Len(s) - n
        /\ \A i \in 1 .. Len(s) - n : right[i] = s[n + 1 + i - 1]
    BY <1>1, <2>1, SubSeqProperties
  <2> QED BY <1>1, <2>2
<1> HIDE DEF left, right
<1>4. /\ left \o right \in Seq(S) /\ Len(left \o right) = Len(s) - 1
      /\ \A i \in 1 .. Len(s) - 1 :
           (left \o right)[i] = IF i <= n - 1 THEN left[i] ELSE right[i - (n - 1)]
  <2>1. Len(left) + Len(right) = Len(s) - 1
    BY <1>1, <1>2, <1>3
  <2>2. /\ left \o right \in Seq(S) /\ Len(left \o right) = Len(left) + Len(right)
        /\ \A i \in 1 .. Len(left) + Len(right) :
             (left \o right)[i] =
               IF i <= Len(left) THEN left[i] ELSE right[i - Len(left)]
    BY <1>2, <1>3, ConcatProperties
  <2> QED BY <1>2, <2>1, <2>2
<1>5. ASSUME NEW i \in 1 .. Len(s) - 1
      PROVE  (left \o right)[i] = IF i < n THEN s[i] ELSE s[i + 1]
  <2>1. CASE i < n
    BY <1>1, <1>2, <1>4, <2>1
  <2>2. CASE ~(i < n)
    <3>1. i - (n - 1) \in 1 .. Len(s) - n /\ i - (n - 1) + n = i + 1
      BY <1>1, <2>2
    <3>2. (left \o right)[i] = right[i - (n - 1)]
      BY <1>1, <1>4, <2>2
    <3> QED BY <1>3, <2>2, <3>1, <3>2
  <2> QED BY <2>1, <2>2
<1> QED BY <1>4, <1>5 DEF RemoveAt, left, right

\* A list with a key more at its front.
LEMMA PushElements ==
    ASSUME NEW S, NEW s \in Seq(S), NEW k \in S
    PROVE  /\ <<k>> \o s \in Seq(S)
           /\ Len(<<k>> \o s) = Len(s) + 1
           /\ \A i \in 1 .. Len(s) + 1 :
                 (<<k>> \o s)[i] = IF i = 1 THEN k ELSE s[i - 1]
    OBVIOUS

\* A list without its back.
LEMMA FrontElements ==
    ASSUME NEW S, NEW s \in Seq(S), s # <<>>
    PROVE  /\ Front(s) \in Seq(S)
           /\ Len(s) \in Nat \ {0} /\ Len(Front(s)) = Len(s) - 1
           /\ \A i \in 1 .. Len(s) - 1 : Front(s)[i] = s[i]
<1>1. Len(s) \in Nat \ {0} /\ \A i \in 1 .. Len(s) - 1 : s[i] \in S
    BY EmptySeq, LenProperties, ElementOfSeq
<1> DEFINE n == Len(s) - 1
<1>2. n \in Nat /\ 1 \in Int /\ n \in Int /\ \A i \in 1 .. n : s[i] \in S
    BY <1>1
<1> HIDE DEF n
<1>3. /\ SubSeq(s, 1, n) \in Seq(S)
      /\ Len(SubSeq(s, 1, n)) = n
      /\ \A i \in 1 .. n : SubSeq(s, 1, n)[i] = s[i]
    BY <1>2, SubSeqProperties
<1> QED BY <1>1, <1>3 DEF Front, n

\* Erasing the node of a key takes that key out and keeps the order.
LEMMA RemoveAtOrdered ==
    ASSUME NEW S, NEW s \in Seq(S), NEW H, NEW u, Ordered(s, H, u),
           NEW n \in DOMAIN s
    PROVE  Ordered(RemoveAt(s, n), H \ {s[n]}, u)
<1> DEFINE t == RemoveAt(s, n)
<1>1. /\ DOMAIN s = 1 .. Len(s) /\ Len(s) \in Nat
      /\ DOMAIN t = 1 .. Len(s) - 1
      /\ \A i \in DOMAIN t : t[i] = IF i < n THEN s[i] ELSE s[i + 1]
  <2>1. DOMAIN s = 1 .. Len(s) /\ Len(s) \in Nat
    OBVIOUS
  <2>2. /\ t \in Seq(S) /\ Len(t) = Len(s) - 1
        /\ \A i \in 1 .. Len(s) - 1 : t[i] = IF i < n THEN s[i] ELSE s[i + 1]
    BY RemoveAtElements
  <2>3. DOMAIN t = 1 .. Len(t)
    BY <2>2
  <2> QED BY <2>1, <2>2, <2>3
<1>2. /\ ToSet(s) = H
      /\ \A i, j \in DOMAIN s : s[i] = s[j] => i = j
      /\ \A i, j \in DOMAIN s : i < j => s[i] \in u[s[j]]
    BY DEF Ordered, IsInjective
<1> HIDE DEF t
<1>3. ASSUME NEW i \in DOMAIN t PROVE t[i] \in H \ {s[n]}
    BY <1>1, <1>2 DEF ToSet
<1>4. ASSUME NEW k \in H \ {s[n]} PROVE \E i \in DOMAIN t : t[i] = k
  <2>1. PICK i \in DOMAIN s : s[i] = k
    BY <1>2 DEF ToSet
  <2>2. CASE i < n
    BY <1>1, <2>1, <2>2
  <2>3. CASE ~(i < n)
    <3>1. i - 1 \in DOMAIN t /\ ~(i - 1 < n)
      BY <1>1, <2>1, <2>3
    <3> QED BY <1>1, <2>1, <3>1
  <2> QED BY <2>2, <2>3
<1>5. ToSet(t) = H \ {s[n]}
    BY <1>3, <1>4 DEF ToSet
<1>6. IsInjective(t)
    BY <1>1, <1>2 DEF IsInjective
<1>7. ASSUME NEW i \in DOMAIN t, NEW j \in DOMAIN t, i < j
      PROVE  t[i] \in u[t[j]]
    BY <1>1, <1>2, <1>7
<1> QED BY <1>5, <1>6, <1>7 DEF Ordered, t

\* So does erasing the back.
LEMMA FrontOrdered ==
    ASSUME NEW S, NEW s \in Seq(S), NEW H, NEW u, Ordered(s, H, u), s # <<>>
    PROVE  Ordered(Front(s), H \ {Last(s)}, u)
<1> DEFINE t == Front(s)
<1>1. /\ DOMAIN s = 1 .. Len(s) /\ Len(s) \in Nat \ {0}
      /\ DOMAIN t = 1 .. Len(s) - 1
      /\ \A i \in DOMAIN t : t[i] = s[i]
    BY FrontElements
<1>2. /\ ToSet(s) = H
      /\ \A i, j \in DOMAIN s : s[i] = s[j] => i = j
      /\ \A i, j \in DOMAIN s : i < j => s[i] \in u[s[j]]
    BY DEF Ordered, IsInjective
<1> HIDE DEF t
<1>3. ASSUME NEW i \in DOMAIN t PROVE t[i] \in H \ {Last(s)}
    BY <1>1, <1>2 DEF ToSet, Last
<1>4. ASSUME NEW k \in H \ {Last(s)} PROVE \E i \in DOMAIN t : t[i] = k
    BY <1>1, <1>2 DEF ToSet, Last
<1>5. ToSet(t) = H \ {Last(s)}
    BY <1>3, <1>4 DEF ToSet
<1> QED BY <1>1, <1>2, <1>5 DEF Ordered, IsInjective, t

\* A new key goes to the front when it is used.
LEMMA PushOrdered ==
    ASSUME NEW S, NEW s \in Seq(S), NEW H, NEW u, Ordered(s, H, u),
           NEW k \in S, k \notin H, NEW w, \A j \in H : w[j] = u[j] \cup {k}
    PROVE  Ordered(<<k>> \o s, H \cup {k}, w)
<1> DEFINE t == <<k>> \o s
<1>1. /\ DOMAIN s = 1 .. Len(s) /\ Len(s) \in Nat
      /\ DOMAIN t = 1 .. Len(s) + 1
      /\ \A i \in DOMAIN t : t[i] = IF i = 1 THEN k ELSE s[i - 1]
    BY PushElements
<1>2. /\ \A i \in DOMAIN s : s[i] \in H /\ s[i] # k
      /\ \A j \in H : \E i \in DOMAIN s : s[i] = j
      /\ \A i, j \in DOMAIN s : s[i] = s[j] => i = j
      /\ \A i, j \in DOMAIN s : i < j => s[i] \in u[s[j]]
    BY DEF Ordered, IsInjective, ToSet
<1> HIDE DEF t
<1>3. \A i \in DOMAIN t : i # 1 => i - 1 \in DOMAIN s
    BY <1>1
<1>4. 1 \in DOMAIN t /\ \A i \in DOMAIN s : i + 1 \in DOMAIN t /\ t[i + 1] = s[i]
    BY <1>1
<1>5. ASSUME NEW i \in DOMAIN t PROVE t[i] \in H \cup {k}
    BY <1>1, <1>2, <1>3
<1>6. ASSUME NEW j \in H \cup {k} PROVE \E i \in DOMAIN t : t[i] = j
    BY <1>1, <1>2, <1>4
<1>7. ToSet(t) = H \cup {k}
    BY <1>5, <1>6 DEF ToSet
<1>8. ASSUME NEW i \in DOMAIN t, NEW j \in DOMAIN t, t[i] = t[j] PROVE i = j
    BY <1>1, <1>2, <1>3, <1>8
<1>9. ASSUME NEW i \in DOMAIN t, NEW j \in DOMAIN t, i < j
      PROVE  t[i] \in w[t[j]]
  <2>1. j # 1 /\ j - 1 \in DOMAIN s /\ t[j] = s[j - 1] /\ t[j] \in H
    BY <1>1, <1>2, <1>3, <1>9
  <2>2. w[t[j]] = u[t[j]] \cup {k}
    BY <2>1
  <2>3. CASE i = 1
    BY <1>1, <2>2, <2>3
  <2>4. CASE i # 1
    <3>1. i - 1 \in DOMAIN s /\ t[i] = s[i - 1] /\ i - 1 < j - 1
      BY <1>1, <1>3, <1>9, <2>4
    <3> QED BY <1>2, <2>1, <2>2, <3>1
  <2> QED BY <2>3, <2>4
<1> QED BY <1>7, <1>8, <1>9 DEF Ordered, IsInjective, t
-----------------------------------------------------------------------------
(***************************************************************************)
(* What is evicted                                                         *)
(***************************************************************************)
\* Keys used and keys held are finite in number, and histories of used keys.
HistoryInv ==
    /\ lru \in Seq(Keys) /\ IsFiniteSet(Held)
    /\ DOMAIN since \subseteq Keys /\ IsFiniteSet(DOMAIN since)
    /\ since \in [DOMAIN since -> SUBSET DOMAIN since]
    /\ Held \subseteq DOMAIN since

\* The inductive invariant: an eviction finds the least recently used key at
\* the back of the list, and evicts it only when the cache is full.
ListInv ==
    /\ HistoryInv
    /\ RecencyOrder
    /\ Cardinality(Held) <= Capacity
    /\ WorkingSetKept

\* Every entry points to the node of its key.
LEMMA NodeOfEntry ==
    ASSUME RecencyOrder, NEW k \in Held
    PROVE  lru_it(k) \in DOMAIN lru /\ lru[lru_it(k)] = k
    BY DEF RecencyOrder, ToSet, lru_it

\* Erasing the node of an entry.
LEMMA ErasedOrdered ==
    ASSUME HistoryInv, RecencyOrder, NEW k \in Held
    PROVE  Erased(k) \in Seq(Keys) /\ Ordered(Erased(k), Held \ {k}, since)
<1>1. lru_it(k) \in DOMAIN lru /\ lru[lru_it(k)] = k
    BY NodeOfEntry
<1>2. lru \in Seq(Keys) /\ Ordered(lru, Held, since)
    BY DEF HistoryInv, RecencyOrder, Ordered
<1>3. Erased(k) \in Seq(Keys)
    BY <1>1, <1>2, RemoveAtElements DEF Erased
<1>4. Ordered(Erased(k), Held \ {lru[lru_it(k)]}, since)
    BY <1>1, <1>2, RemoveAtOrdered DEF Erased
<1> QED BY <1>1, <1>3, <1>4

\* A use of a key is the only change of the history, and appends to it.
LEMMA UsedHistory ==
    ASSUME HistoryInv, NEW k \in Keys
    PROVE  /\ DOMAIN Used(k) = DOMAIN since \cup {k}
           /\ DOMAIN Used(k) \subseteq Keys /\ IsFiniteSet(DOMAIN Used(k))
           /\ Used(k) \in [DOMAIN Used(k) -> SUBSET DOMAIN Used(k)]
           /\ \A j \in DOMAIN since \ {k} : Used(k)[j] = since[j] \cup {k}
<1>1. DOMAIN Used(k) = DOMAIN since \cup {k}
    BY DEF Used
<1>2. IsFiniteSet(DOMAIN since \cup {k})
    BY FS_AddElement DEF HistoryInv
<1>3. \A j \in DOMAIN since \ {k} : Used(k)[j] = since[j] \cup {k}
    BY DEF Used
<1>4. Used(k) \in [DOMAIN Used(k) -> SUBSET DOMAIN Used(k)]
    BY DEF Used, HistoryInv
<1> QED BY <1>1, <1>2, <1>3, <1>4 DEF HistoryInv

\* A key whose entry is spliced to the front was used last.
LEMMA SplicedOrdered ==
    ASSUME HistoryInv, RecencyOrder, NEW k \in Held
    PROVE  Spliced(k) \in Seq(Keys) /\ Ordered(Spliced(k), Held, Used(k))
<1>1. k \in Keys
    BY DEF HistoryInv
<1>2. Erased(k) \in Seq(Keys) /\ Ordered(Erased(k), Held \ {k}, since)
    BY ErasedOrdered
<1>3. \A j \in Held \ {k} : Used(k)[j] = since[j] \cup {k}
    BY <1>1, UsedHistory DEF HistoryInv
<1>4. Spliced(k) \in Seq(Keys)
    BY <1>1, <1>2, PushElements DEF Spliced
<1>5. Ordered(<<k>> \o Erased(k), (Held \ {k}) \cup {k}, Used(k))
    BY <1>1, <1>2, <1>3, PushOrdered
<1>6. (Held \ {k}) \cup {k} = Held
    OBVIOUS
<1> QED BY <1>4, <1>5, <1>6 DEF Spliced

\* Histories only grow, so a key that Capacity others have followed stays so.
LEMMA FollowedStays ==
    ASSUME HistoryInv, NEW k \in Keys, NEW j \in DOMAIN since, j # k,
           Cardinality(Used(k)[j]) < Capacity
    PROVE  Cardinality(since[j]) < Capacity
<1>1. since[j] \subseteq Used(k)[j] /\ IsFiniteSet(Used(k)[j])
  <2>1. Used(k)[j] = since[j] \cup {k} /\ since[j] \subseteq DOMAIN since
    BY UsedHistory DEF HistoryInv
  <2>2. IsFiniteSet(since[j])
    BY <2>1, FS_Subset DEF HistoryInv
  <2> QED BY <2>1, <2>2, FS_AddElement
<1>2. /\ Cardinality(since[j]) <= Cardinality(Used(k)[j])
      /\ Cardinality(since[j]) \in Nat /\ Cardinality(Used(k)[j]) \in Nat
    BY <1>1, FS_Subset, FS_CardinalityType
<1> QED BY <1>2, CapacityAssumption

\* RecencyOrder in the words of Ordered.
LEMMA RecencyOrdered ==
    /\ RecencyOrder <=> Ordered(lru, Held, since)
    /\ RecencyOrder' <=> Ordered(lru', Held', since')
    BY DEF RecencyOrder, Ordered

\* The empty cache.
LEMMA InitList == Init => ListInv
<1> SUFFICES ASSUME Init PROVE ListInv
    OBVIOUS
<1>1. lru = <<>> /\ Held = {} /\ DOMAIN since = {}
    BY DEF Init, Held
<1>2. HistoryInv
    BY <1>1, FS_EmptySet DEF HistoryInv
<1>3. RecencyOrder
    BY <1>1 DEF RecencyOrder, ToSet, IsInjective
<1>4. Cardinality(Held) <= Capacity
    BY <1>1, FS_EmptySet, CapacityAssumption
<1>5. WorkingSetKept
    BY <1>1 DEF WorkingSetKept
<1> QED BY <1>2, <1>3, <1>4, <1>5 DEF ListInv

\* A key that is too old stays too old until it is put again.
LEMMA OldStays ==
    ASSUME IInv, IInv', UNCHANGED kind, now' >= now,
           NEW k \in Keys, born'[k] = born[k], TooOld(born[k])
    PROVE  TooOld(born[k])'
    BY LifePositive DEF TooOld, Life, IInv

\* A lookup: an entry too old is erased, the key of a hit used.
LEMMA GetList ==
    ASSUME IInv, IInv', ListInv, NEW k \in Keys, Get(k) PROVE ListInv'
<1>1. UNCHANGED <<kind, now, born>>
    BY DEF Get, Miss, Expire, Hit
<1>2. \A j \in Keys : TooOld(born[j]) => TooOld(born[j])'
    BY <1>1, OldStays DEF IInv
<1>3. CASE Miss(k)
    BY <1>2, <1>3 DEF Miss, ListInv, HistoryInv, RecencyOrder, WorkingSetKept, Held
<1>4. CASE Expire(k)
  <2>1. /\ k \in Held /\ TooOld(born[k])
        /\ Held' = Held \ {k} /\ lru' = Erased(k) /\ since' = since
    BY <1>4 DEF Expire, Held, IInv
  <2>2. IsFiniteSet(Held') /\ Cardinality(Held') = Cardinality(Held) - 1
    BY <2>1, FS_RemoveElement DEF ListInv, HistoryInv
  <2>3. Cardinality(Held') <= Capacity
    BY <2>2, FS_CardinalityType, CapacityAssumption DEF ListInv, HistoryInv
  <2>4. lru' \in Seq(Keys) /\ RecencyOrder'
    BY <2>1, ErasedOrdered, RecencyOrdered DEF ListInv
  <2>5. HistoryInv'
    BY <2>1, <2>2, <2>4 DEF ListInv, HistoryInv
  <2>6. WorkingSetKept'
    BY <1>2, <2>1 DEF ListInv, HistoryInv, WorkingSetKept
  <2> QED BY <2>3, <2>4, <2>5, <2>6 DEF ListInv
<1>5. CASE Hit(k)
  <2>1. k \in Held /\ Held' = Held /\ lru' = Spliced(k) /\ since' = Used(k)
    BY <1>5 DEF Hit, Held
  <2>2. lru' \in Seq(Keys) /\ RecencyOrder'
    BY <2>1, SplicedOrdered, RecencyOrdered DEF ListInv
  <2>3. HistoryInv'
    BY <2>1, <2>2, UsedHistory DEF ListInv, HistoryInv
  <2>4. ASSUME NEW j \in DOMAIN since', Cardinality(since'[j]) < Capacity
        PROVE  j \in Held' \/ TooOld(born[j])'
    <3>1. CASE j = k
      BY <2>1, <3>1
    <3>2. CASE j # k
      <4>1. j \in DOMAIN since /\ j \in Keys
        BY <2>1, <3>2, UsedHistory DEF ListInv, HistoryInv
      <4>2. Cardinality(since[j]) < Capacity
        BY <2>1, <2>4, <3>2, <4>1, FollowedStays DEF ListInv
      <4> QED BY <1>2, <2>1, <4>1, <4>2 DEF ListInv, WorkingSetKept
    <3> QED BY <3>1, <3>2
  <2>5. WorkingSetKept'
    BY <2>4 DEF WorkingSetKept
  <2> QED BY <2>1, <2>2, <2>3, <2>5 DEF ListInv
<1> QED BY <1>3, <1>4, <1>5 DEF Get
\* The key at the back of a full list was followed by Capacity - 1 others held,
\* and the new one makes Capacity.
LEMMA VictimFollowed ==
    ASSUME ListInv, NEW k \in Keys, k \notin Held, Cardinality(Held) >= Capacity
    PROVE  /\ lru # <<>> /\ Last(lru) \in Held
           /\ Cardinality(Used(k)[Last(lru)]) >= Capacity
<1> DEFINE x == Last(lru)
<1>1. lru \in Seq(Keys) /\ IsFiniteSet(Held) /\ Ordered(lru, Held, since)
    BY RecencyOrdered DEF ListInv, HistoryInv
<1>2. Cardinality(Held) = Capacity
    BY <1>1, FS_CardinalityType, CapacityAssumption DEF ListInv
<1>3. lru # <<>>
  <2>1. ASSUME lru = <<>> PROVE Held = {}
    BY <1>1, <2>1 DEF Ordered, ToSet
  <2> QED BY <1>2, <2>1, FS_EmptySet, CapacityAssumption
<1>4. DOMAIN lru = 1 .. Len(lru) /\ Len(lru) \in DOMAIN lru /\ Len(lru) \in Nat
    BY <1>1, <1>3, EmptySeq, LenProperties
<1>5. x \in Held
    BY <1>1, <1>4 DEF Ordered, ToSet, Last
<1>6. ASSUME NEW j \in Held, j # x PROVE j \in since[x]
  <2>1. PICK i \in DOMAIN lru : lru[i] = j
    BY <1>1 DEF Ordered, ToSet
  <2>2. i < Len(lru)
    BY <1>4, <1>6, <2>1 DEF Last
  <2> QED BY <1>1, <1>4, <2>1, <2>2 DEF Ordered, Last
<1> HIDE DEF x
<1>7. /\ Used(k)[x] = since[x] \cup {k} /\ IsFiniteSet(Used(k)[x])
      /\ x \in DOMAIN since
  <2>1. x \in DOMAIN since /\ x # k
    BY <1>5 DEF ListInv, HistoryInv
  <2>2. Used(k)[x] = since[x] \cup {k} /\ since[x] \subseteq DOMAIN since
    BY <2>1, UsedHistory DEF ListInv, HistoryInv
  <2>3. IsFiniteSet(since[x])
    BY <2>2, FS_Subset DEF ListInv, HistoryInv
  <2> QED BY <2>1, <2>2, <2>3, FS_AddElement
<1>8. (Held \ {x}) \cup {k} \subseteq Used(k)[x]
    BY <1>6, <1>7
<1>9. /\ IsFiniteSet((Held \ {x}) \cup {k})
      /\ Cardinality((Held \ {x}) \cup {k}) = Capacity
  <2>1. IsFiniteSet(Held \ {x}) /\ Cardinality(Held \ {x}) = Capacity - 1
    BY <1>1, <1>2, <1>5, FS_RemoveElement
  <2>2. k \notin Held \ {x}
    OBVIOUS
  <2> QED BY <2>1, <2>2, FS_AddElement, CapacityAssumption
<1>10. Cardinality((Held \ {x}) \cup {k}) <= Cardinality(Used(k)[x])
    BY <1>7, <1>8, FS_Subset
<1>11. Cardinality(Used(k)[x]) \in Nat
    BY <1>7, FS_CardinalityType
<1>12. Cardinality(Used(k)[x]) >= Capacity
    BY <1>9, <1>10, <1>11, CapacityAssumption
<1> QED BY <1>3, <1>5, <1>12 DEF x

\* A Put: the key is used, and a new one takes the place of the last.
LEMMA PutList ==
    ASSUME IInv, IInv', ListInv, NEW k \in Keys, NEW v \in Values, Put(k, v)
    PROVE  ListInv'
<1>1. UNCHANGED <<kind, now>> /\ born' = [born EXCEPT ![k] = now] /\ since' = Used(k)
    BY DEF Put
<1>2. \A j \in Keys \ {k} : TooOld(born[j]) => TooOld(born[j])'
    BY <1>1, OldStays DEF IInv
<1>3. /\ DOMAIN since' = DOMAIN since \cup {k}
      /\ DOMAIN since' \subseteq Keys /\ IsFiniteSet(DOMAIN since')
      /\ since' \in [DOMAIN since' -> SUBSET DOMAIN since']
      /\ \A j \in Held \ {k} : since'[j] = since[j] \cup {k}
    BY <1>1, UsedHistory DEF ListInv, HistoryInv
<1>4. ASSUME NEW j \in DOMAIN since', j # k, Cardinality(since'[j]) < Capacity
      PROVE  j \in Held \/ TooOld(born[j])'
  <2>1. j \in DOMAIN since /\ j \in Keys
    BY <1>3, <1>4
  <2>2. Cardinality(since[j]) < Capacity
    BY <1>1, <1>4, <2>1, FollowedStays DEF ListInv
  <2> QED BY <1>2, <1>4, <2>1, <2>2 DEF ListInv, WorkingSetKept
<1>5. CASE Update(k, v)
  <2>1. k \in Held /\ Held' = Held /\ lru' = Spliced(k)
    BY <1>5 DEF Update, Held
  <2>2. lru' \in Seq(Keys) /\ RecencyOrder'
    BY <1>1, <2>1, SplicedOrdered, RecencyOrdered DEF ListInv
  <2>3. HistoryInv'
    BY <1>3, <2>1, <2>2 DEF ListInv, HistoryInv
  <2>4. WorkingSetKept'
    BY <1>4, <2>1 DEF WorkingSetKept
  <2> QED BY <2>1, <2>2, <2>3, <2>4 DEF ListInv
<1>6. CASE Insert(k, v)
  <2> DEFINE rest == IF Victims = {} THEN lru ELSE Front(lru)
  <2>1. /\ k \notin Held /\ Held' = (Held \ Victims) \cup {k}
        /\ lru' = <<k>> \o rest
    BY <1>6 DEF Insert, Held
  <2>2. /\ rest \in Seq(Keys) /\ Ordered(rest, Held \ Victims, since)
        /\ IsFiniteSet(Held \ Victims) /\ Cardinality(Held \ Victims) < Capacity
        /\ \A j \in Victims : Cardinality(since'[j]) >= Capacity
    <3>1. lru \in Seq(Keys) /\ IsFiniteSet(Held) /\ Ordered(lru, Held, since)
      BY RecencyOrdered DEF ListInv, HistoryInv
    <3>2. CASE Cardinality(Held) >= Capacity
      <4>1. Victims = {Last(lru)}
        BY <3>2 DEF Victims
      <4>2. /\ lru # <<>> /\ Last(lru) \in Held
            /\ Cardinality(since'[Last(lru)]) >= Capacity
        BY <1>1, <2>1, <3>2, VictimFollowed
      <4>3. rest = Front(lru)
        BY <4>1
      <4>4. Front(lru) \in Seq(Keys) /\ Ordered(Front(lru), Held \ {Last(lru)}, since)
        BY <3>1, <4>2, FrontElements, FrontOrdered
      <4>5. /\ IsFiniteSet(Held \ {Last(lru)})
            /\ Cardinality(Held \ {Last(lru)}) = Cardinality(Held) - 1
            /\ Cardinality(Held) \in Nat
        BY <3>1, <4>2, FS_RemoveElement, FS_CardinalityType
      <4>6. Cardinality(Held \ {Last(lru)}) < Capacity
        BY <4>5, CapacityAssumption DEF ListInv
      <4> QED BY <4>1, <4>2, <4>3, <4>4, <4>5, <4>6
    <3>3. CASE ~(Cardinality(Held) >= Capacity)
      <4>1. Victims = {} /\ rest = lru /\ Held \ Victims = Held
        BY <3>3 DEF Victims
      <4>2. Cardinality(Held) < Capacity
        BY <3>1, <3>3, FS_CardinalityType, CapacityAssumption
      <4> QED BY <3>1, <4>1, <4>2
    <3> QED BY <3>2, <3>3
  <2> HIDE DEF rest
  <2>3. lru' \in Seq(Keys)
    BY <2>1, <2>2, PushElements
  <2>4. Ordered(lru', Held', since')
    <3>1. k \notin Held \ Victims
      BY <2>1
    <3>2. \A j \in Held \ Victims : since'[j] = since[j] \cup {k}
      BY <1>3, <2>1
    <3> QED BY <2>1, <2>2, <3>1, <3>2, PushOrdered
  <2>5. IsFiniteSet(Held') /\ Cardinality(Held') <= Capacity
    <3>1. /\ IsFiniteSet((Held \ Victims) \cup {k})
          /\ Cardinality((Held \ Victims) \cup {k}) = Cardinality(Held \ Victims) + 1
      BY <2>1, <2>2, FS_AddElement
    <3>2. Cardinality(Held \ Victims) \in Nat
      BY <2>2, FS_CardinalityType
    <3> QED BY <2>1, <2>2, <3>1, <3>2, CapacityAssumption
  <2>6. HistoryInv'
    BY <1>3, <2>1, <2>3, <2>5 DEF ListInv, HistoryInv
  <2>7. ASSUME NEW j \in DOMAIN since', Cardinality(since'[j]) < Capacity
        PROVE  j \in Held' \/ TooOld(born[j])'
    <3>1. CASE j = k
      BY <2>1, <3>1
    <3>2. CASE j # k
      <4>1. j \in Held \/ TooOld(born[j])'
        BY <1>4, <2>7, <3>2
      <4>2. Cardinality(since'[j]) \in Nat
        BY <1>3, FS_Subset, FS_CardinalityType
      <4>3. j \notin Victims
        BY <2>2, <2>7, <4>2, CapacityAssumption
      <4> QED BY <2>1, <4>1, <4>3
    <3> QED BY <3>1, <3>2
  <2>8. WorkingSetKept'
    BY <2>7 DEF WorkingSetKept
  <2> QED BY <2>4, <2>5, <2>6, <2>8, RecencyOrdered DEF ListInv
<1> QED BY <1>5, <1>6 DEF Put

\* The entries that stay keep their nodes in order.
LEMMA InOrderOrdered ==
    ASSUME HistoryInv, RecencyOrder, NEW Y \in SUBSET Held, NEW s \in InOrder(Y)
    PROVE  s \in Seq(Keys) /\ Ordered(s, Y, since)
<1> DEFINE n == Cardinality(Y)
<1>1. IsFiniteSet(Y) /\ n \in Nat
    BY FS_Subset, FS_CardinalityType DEF HistoryInv
<1>2. /\ s \in [1 .. n -> Y]
      /\ \A i, j \in 1 .. n : i # j => s[i] # s[j]
      /\ \A i, j \in DOMAIN s : i < j => lru_it(s[i]) < lru_it(s[j])
    BY DEF InOrder, SetToSeqs
<1> HIDE DEF n
<1>3. s \in Injection(1 .. n, Y)
    BY <1>2 DEF Injection, IsInjective
<1>4. IsFiniteSet(1 .. n) /\ Cardinality(1 .. n) = n
    BY <1>1, FS_Interval
<1>5. s \in Surjection(1 .. n, Y)
    BY <1>1, <1>3, <1>4, FS_Injection DEF n
<1>6. ToSet(s) = Y
  <2>1. DOMAIN s = 1 .. n /\ \A i \in 1 .. n : s[i] \in Y
    BY <1>2
  <2>2. \A y \in Y : \E i \in 1 .. n : s[i] = y
    BY <1>5 DEF Surjection
  <2> QED BY <2>1, <2>2 DEF ToSet
<1>7. IsInjective(s)
    BY <1>3 DEF Injection
<1>8. ASSUME NEW i \in DOMAIN s, NEW j \in DOMAIN s, i < j
      PROVE  s[i] \in since[s[j]]
  <2>1. s[i] \in Held /\ s[j] \in Held
    BY <1>2
  <2>2. /\ lru_it(s[i]) \in DOMAIN lru /\ lru[lru_it(s[i])] = s[i]
        /\ lru_it(s[j]) \in DOMAIN lru /\ lru[lru_it(s[j])] = s[j]
    BY <2>1, NodeOfEntry
  <2>3. lru_it(s[i]) < lru_it(s[j])
    BY <1>2, <1>8
  <2> QED BY <2>2, <2>3 DEF RecencyOrder
<1>9. s \in Seq(Keys)
  <2>1. s \in [1 .. n -> Keys]
    BY <1>2 DEF HistoryInv
  <2> QED BY <1>1, <2>1
<1> QED BY <1>6, <1>7, <1>8, <1>9 DEF Ordered

\* Dropping the entries that are too old.
LEMMA EvictExpiredList ==
    ASSUME IInv, IInv', ListInv, EvictExpired PROVE ListInv'
<1> DEFINE young == {k \in Held : ~TooOld(cache[k].ts)}
<1>1. /\ Held' = young /\ lru' \in InOrder(young)
      /\ UNCHANGED <<kind, now, born, since>>
    BY DEF EvictExpired, Held
<1>2. young \in SUBSET Held /\ \A k \in Held \ young : TooOld(born[k])
    BY DEF IInv
<1> HIDE DEF young
<1>3. lru' \in Seq(Keys) /\ Ordered(lru', young, since)
    BY <1>1, <1>2, InOrderOrdered DEF ListInv
<1>4. /\ IsFiniteSet(young) /\ Cardinality(young) <= Cardinality(Held)
      /\ Cardinality(young) \in Nat /\ Cardinality(Held) \in Nat
    BY <1>2, FS_Subset, FS_CardinalityType DEF ListInv, HistoryInv
<1>5. Cardinality(Held') <= Capacity
    BY <1>1, <1>4, CapacityAssumption DEF ListInv
<1>6. HistoryInv'
    BY <1>1, <1>2, <1>3, <1>4 DEF ListInv, HistoryInv
<1>7. WorkingSetKept'
    BY <1>1, <1>2, OldStays DEF ListInv, HistoryInv, WorkingSetKept, IInv
<1> QED BY <1>1, <1>3, <1>5, <1>6, <1>7, RecencyOrdered DEF ListInv

\* The empty cache again: its history is empty too.
LEMMA ClearList == ASSUME Clear PROVE ListInv'
<1>1. lru' = <<>> /\ Held' = {} /\ DOMAIN since' = {}
    BY DEF Clear, Held
<1>2. HistoryInv'
    BY <1>1, FS_EmptySet DEF HistoryInv
<1>3. RecencyOrder'
    BY <1>1 DEF RecencyOrder, ToSet, IsInjective
<1>4. Cardinality(Held') <= Capacity
    BY <1>1, FS_EmptySet, CapacityAssumption
<1>5. WorkingSetKept'
    BY <1>1 DEF WorkingSetKept
<1> QED BY <1>2, <1>3, <1>4, <1>5 DEF ListInv

\* Every step keeps the list.
LEMMA NextList == IInv /\ IInv' /\ ListInv /\ [Next]_vars => ListInv'
<1> SUFFICES ASSUME IInv, IInv', ListInv, [Next]_vars PROVE ListInv'
    OBVIOUS
<1>1. ASSUME UNCHANGED <<kind, cache, lru, born, since>>, now' >= now PROVE ListInv'
  <2>1. \A k \in Keys : TooOld(born[k]) => TooOld(born[k])'
    BY <1>1, OldStays
  <2> QED BY <1>1, <2>1 DEF ListInv, HistoryInv, RecencyOrder, WorkingSetKept, Held
<1>2. CASE Tick
    BY <1>1, <1>2 DEF Tick, IInv
<1>3. CASE UNCHANGED vars
    BY <1>1, <1>3 DEF vars, IInv
<1> QED BY <1>2, <1>3, GetList, PutList, EvictExpiredList, ClearList DEF Next

\* For every capacity, set of keys and clock: the list holds the keys of the
\* map, each once, in the order of their last use.
THEOREM RecencyOrderAlways == Spec => []RecencyOrder
<1>1. IInv /\ ListInv => RecencyOrder
    BY DEF ListInv
<1> QED BY <1>1, InitIInv, NextIInv, InitList, NextList, PTL DEF Spec

\* A key that is missing has expired or was followed by Capacity others: what
\* the cache evicts is the key least recently used, and only when it is full.
THEOREM WorkingSetAlwaysKept == Spec => []WorkingSetKept
<1>1. IInv /\ ListInv => WorkingSetKept
    BY DEF ListInv
<1> QED BY <1>1, InitIInv, NextIInv, InitList, NextList, PTL DEF Spec

-----------------------------------------------------------------------------
\* No timestamp lies in the future, and a lookup gives a value or nothing.
ClockInv ==
    /\ cache = [k \in Held |-> cache[k]]
    /\ now \in 0 .. MaxTime
    /\ born \in [Keys -> 0 .. now]
    /\ ret \in Values \cup {NoValue}

LEMMA NextClock == IInv /\ ClockInv /\ [Next]_vars => ClockInv'
<1> SUFFICES ASSUME IInv, ClockInv, [Next]_vars PROVE ClockInv'
    OBVIOUS
<1>1. ASSUME NEW k \in Keys, Get(k) PROVE ClockInv'
    BY <1>1 DEF ClockInv, IInv, Get, Miss, Expire, Hit, Held
<1>2. ASSUME NEW k \in Keys, NEW v \in Values, Put(k, v) PROVE ClockInv'
    BY <1>2 DEF ClockInv, Put, Update, Insert, Held
<1>3. ASSUME EvictExpired \/ Clear \/ UNCHANGED vars PROVE ClockInv'
    BY <1>3 DEF ClockInv, EvictExpired, Clear, vars, Held
<1>4. ASSUME Tick PROVE ClockInv'
    BY <1>4, TimeAssumption DEF ClockInv, Tick, Held
<1> QED BY <1>1, <1>2, <1>3, <1>4 DEF Next

\* Type correctness; the bound on the entries is part of it.
THEOREM TypeCorrect == Spec => []TypeOK
<1>1. Init => ClockInv
    BY TimeAssumption DEF Init, ClockInv, Held
<1>2. IInv /\ ListInv /\ ClockInv => TypeOK
  <2> SUFFICES ASSUME IInv, ListInv, ClockInv PROVE TypeOK
    OBVIOUS
  <2>1. cache \in [Held -> [value : Values, ts : 0 .. now]]
    <3>1. \A k \in Held : cache[k] \in [value : Values, ts : 0 .. now]
      BY DEF IInv, ClockInv
    <3>2. cache = [k \in Held |-> cache[k]]
      BY DEF ClockInv
    <3> QED BY <3>1, <3>2
  <2> QED BY <2>1 DEF IInv, ListInv, HistoryInv, ClockInv, TypeOK
<1> QED BY <1>1, <1>2, InitIInv, NextIInv, InitList, NextList, NextClock, PTL DEF Spec
=============================================================================
