--------------------------- MODULE RangeQuery_proofs ---------------------------
(***************************************************************************)
(* The loop of QueryRange for every partition, range and chunk size: the   *)
(* chunks tile the range, an answer is what is due and has the sum of its  *)
(* keys, and the loop ends.                                                *)
(***************************************************************************)
EXTENDS RangeQuery, Induction

Count(n) == n * CHUNK_SIZE

\* The loop: the worker is the one of the team that is next, and the key is
\* the first one plus those in the chunks made and in the current one.
LoopInv ==
    pc = "loop" =>
      LET s == Start(at) n == Len(results) IN
      /\ query.target \ asked # {}
      /\ at = WorkerOf(TeamLeader[NextTeam])
      /\ at \in DOMAIN Partition
      /\ k = s + Count(n) + Len(chunk)
      /\ Len(chunk) < CHUNK_SIZE
      /\ chunk = Run(s + Count(n), k - 1)
      /\ \A i \in 1 .. n : results[i].keys = Run(s + Count(i - 1), s + Count(i) - 1)
      /\ k <= IF End(at) < s THEN s ELSE End(at) + 1

\* Types without the bounds of the sums.
Typed ==
    /\ query \in [range : Int32 \X Int32, target : SUBSET Teams]
    /\ asked \subseteq query.target
    /\ pc = "idle" => asked = {}
    /\ k \in Int32
    /\ chunk \in Seq(Int32)
    /\ sum \in Int
    /\ results \in Seq([keys : Seq(Int32), sum : Int])

IInv == Typed /\ LoopInv

\* Int32 consists of integers.
LEMMA IntsAreInts == Int32 \subseteq Int
    BY SizeAssumption DEF Int32

\* A sequence of 32-bit integers is one of integers.
LEMMA SeqOfInts == ASSUME NEW q \in Seq(Int32) PROVE q \in Seq(Int)
<1>1. /\ Len(q) \in Nat /\ q = [i \in 1 .. Len(q) |-> q[i]]
      /\ \A i \in 1 .. Len(q) : q[i] \in Int
    BY IntsAreInts
<1>2. [i \in 1 .. Len(q) |-> q[i]] \in Seq(Int)
    BY <1>1
<1> QED BY <1>1, <1>2

\* A sequence that is not empty has a first element.
LEMMA FirstOfSeq == ASSUME NEW S, NEW q \in Seq(S), q # <<>> PROVE q[1] \in S
    OBVIOUS

\* A run is a sequence of its keys.
LEMMA RunIsSeq ==
    ASSUME NEW a \in Int, NEW b \in Int
    PROVE  /\ Run(a, b) \in Seq(Int)
           /\ Len(Run(a, b)) = IF b < a THEN 0 ELSE b - a + 1
           /\ \A i \in 1 .. Len(Run(a, b)) : Run(a, b)[i] = a + i - 1
           /\ b < a => Run(a, b) = <<>>
    BY DEF Run

\* One more key makes a run longer.
LEMMA RunGrows ==
    ASSUME NEW a \in Int, NEW b \in Int, a <= b + 1
    PROVE  Append(Run(a, b), b + 1) = Run(a, b + 1)
    BY DEF Run

\* Counting one chunk more.
LEMMA CountGrows ==
    ASSUME NEW n \in Nat
    PROVE  /\ Count(n) \in Nat
           /\ Count(n + 1) = Count(n) + CHUNK_SIZE
           /\ Count(0) = 0 /\ Count(1) = CHUNK_SIZE
    BY SizeAssumption DEF Count

\* The bounds of the loop are ints, the lower one within the partition.
LEMMA BoundsTyped ==
    ASSUME Typed, NEW n \in DOMAIN Partition
    PROVE  /\ Start(n) \in Int32 /\ End(n) \in Int32
           /\ Partition[n] \in Int32 \X Int32
           /\ Partition[n][1] <= Start(n)
           /\ End(n) <= Partition[n][2]
           /\ End(n) < MaxInt
    BY PartitionAssumption, IntsAreInts, SizeAssumption
    DEF Typed, Start, End, Int32

\* A hash value is below the modulus.
LEMMA HashTyped ==
    ASSUME NEW key \in Int
    PROVE  HashKey(key) \in 0 .. Modulus - 1
<1>1. key * Prime1 + Prime2 \in Int
    BY SizeAssumption
<1> QED BY <1>1, SizeAssumption DEF HashKey

\* So are the values of a dataset.
LEMMA DataTyped ==
    ASSUME NEW n \in DOMAIN Partition, NEW i \in DOMAIN Data(n),
           Partition[n] \in Int32 \X Int32
    PROVE  Data(n)[i] = HashKey(i) /\ Data(n)[i] \in Int
    BY IntsAreInts, HashTyped, SizeAssumption DEF Data

-----------------------------------------------------------------------------
\* The invariant holds before the query.
LEMMA InitIInv == Init => IInv
<1> SUFFICES ASSUME Init PROVE IInv
    OBVIOUS
<1>1. 0 \in Int32
    BY SizeAssumption DEF Int32
<1>2. query \in [range : Int32 \X Int32, target : SUBSET Teams]
    BY <1>1 DEF Init
<1>3. /\ pc = "idle" /\ asked = {} /\ k = 0 /\ chunk = <<>> /\ sum = 0
      /\ results = <<>>
    BY DEF Init
<1>4. chunk \in Seq(Int32) /\ results \in Seq([keys : Seq(Int32), sum : Int])
    BY <1>3
<1> QED BY <1>1, <1>2, <1>3, <1>4 DEF IInv, Typed, LoopInv

\* The query keeps to the types.
LEMMA AskIInv == IInv /\ Ask => IInv'
<1> SUFFICES ASSUME IInv, Ask PROVE IInv'
    OBVIOUS
<1>1. PICK q \in Queries, T \in SUBSET Teams : query' = [range |-> q, target |-> T]
    BY DEF Ask
<1>3. q \in Int32 \X Int32 /\ asked = {}
    BY QueriesAssumption DEF Ask, IInv, Typed
<1>2. pc' = "next" /\ UNCHANGED <<asked, at, k, chunk, sum, results>>
    BY DEF Ask, loop
<1> QED BY <1>1, <1>2, <1>3 DEF IInv, Typed, LoopInv

\* A failed call changes nothing of the loop; a worker starts at the first key.
LEMMA CallTeamIInv == IInv /\ CallTeam => IInv'
<1> SUFFICES ASSUME IInv, CallTeam PROVE IInv'
    OBVIOUS
<1> DEFINE w == WorkerOf(TeamLeader[NextTeam])
<1>1. pc = "next" /\ query.target \ asked # {} /\ UNCHANGED query
    BY DEF CallTeam
<1>2. NextTeam \in query.target
    BY <1>1 DEF NextTeam, IInv, Typed, Teams
<1>3. CASE asked' = asked \cup {NextTeam} /\ UNCHANGED <<pc, at, loop>>
    BY <1>1, <1>2, <1>3 DEF IInv, Typed, LoopInv, loop
<1>4. CASE /\ w \in DOMAIN Partition
           /\ at' = w /\ pc' = "loop" /\ k' = Start(w)
           /\ chunk' = <<>> /\ sum' = 0 /\ results' = <<>>
           /\ UNCHANGED asked
  <2>1. Typed'
      BY <1>1, <1>4, BoundsTyped DEF IInv, Typed
  <2>2. Start(at)' = Start(w) /\ End(at)' = End(w) /\ NextTeam' = NextTeam
      BY <1>1, <1>4 DEF Start, End, NextTeam
  <2>3. /\ Start(w) \in Int /\ End(w) \in Int
      BY <1>4, BoundsTyped, IntsAreInts DEF IInv
  <2>4. Count(0) = 0 /\ Run(Start(w), Start(w) - 1) = <<>>
    <3> HIDE DEF w
    <3>1. Start(w) - 1 \in Int /\ Start(w) - 1 < Start(w)
        BY <2>3
    <3>2. Run(Start(w), Start(w) - 1) = <<>>
        BY <2>3, <3>1, RunIsSeq
    <3> QED BY <3>2, CountGrows
  <2>5. LoopInv'
      BY <1>1, <1>4, <2>2, <2>3, <2>4, SizeAssumption DEF LoopInv
  <2> QED BY <2>1, <2>5 DEF IInv
<1> QED BY <1>3, <1>4 DEF CallTeam

\* An iteration adds one key; the key is always in the dataset.
LEMMA IterateIInv == IInv /\ Iterate => IInv'
<1> SUFFICES ASSUME IInv, Iterate PROVE IInv'
    OBVIOUS
<1> DEFINE s == Start(at)
           n == Len(results)
           c == Append(chunk, k)
<1>1. /\ pc = "loop" /\ k <= End(at) /\ k' = k + 1
      /\ UNCHANGED <<pc, query, asked, at>>
    BY DEF Iterate
<1>2. at \in DOMAIN Partition
    BY <1>1 DEF IInv, LoopInv
<1>3. /\ s \in Int /\ End(at) \in Int /\ End(at) < MaxInt /\ k \in Int
      /\ n \in Nat /\ Len(chunk) \in Nat /\ Count(n) \in Nat
      /\ CHUNK_SIZE \in Nat /\ CHUNK_SIZE >= 1
  <2>1. s \in Int /\ End(at) \in Int /\ End(at) < MaxInt
      BY <1>2, BoundsTyped, IntsAreInts DEF IInv
  <2>2. k \in Int /\ n \in Nat /\ Len(chunk) \in Nat
      BY IntsAreInts DEF IInv, Typed
  <2>3. Count(n) \in Nat
      BY <2>2, CountGrows
  <2> QED BY <2>1, <2>2, <2>3, SizeAssumption
<1>4. /\ k = s + Count(n) + Len(chunk)
      /\ Len(chunk) < CHUNK_SIZE
      /\ chunk = Run(s + Count(n), k - 1)
      /\ \A i \in 1 .. n : results[i].keys = Run(s + Count(i - 1), s + Count(i) - 1)
    BY <1>1 DEF IInv, LoopInv
<1>5. k \in DOMAIN Data(at)
  <2>1. /\ Partition[at][1] \in Int /\ Partition[at][2] \in Int
        /\ Partition[at][1] <= s /\ End(at) <= Partition[at][2]
      BY <1>2, BoundsTyped, IntsAreInts DEF IInv
  <2>2. s <= k
      BY <1>3, <1>4
  <2> QED BY <1>1, <1>3, <2>1, <2>2 DEF Data
<1>6. AddPair(Data(at)[k]) /\ Data(at)[k] \in Int
    BY <1>2, <1>5, BoundsTyped, DataTyped DEF Iterate, IInv
<1>7. c = Run(s + Count(n), k) /\ c \in Seq(Int32) /\ Len(c) = Len(chunk) + 1
  <2> HIDE DEF s, n
  <2>1. /\ s + Count(n) \in Int /\ k - 1 \in Int /\ k - 1 + 1 = k
        /\ s + Count(n) <= k - 1 + 1
      BY <1>3, <1>4
  <2>2. Append(Run(s + Count(n), k - 1), k - 1 + 1) = Run(s + Count(n), k - 1 + 1)
      BY <2>1, RunGrows
  <2>3. c = Run(s + Count(n), k)
      BY <1>4, <2>1, <2>2
  <2>4. c \in Seq(Int32) /\ Len(c) = Len(chunk) + 1
      BY DEF IInv, Typed
  <2> QED BY <2>3, <2>4
<1>8. k + 1 \in Int32
    BY <1>1, <1>3, SizeAssumption DEF IInv, Typed, Int32
<1> HIDE DEF s, n, c
<1>9. Start(at)' = s /\ End(at)' = End(at) /\ NextTeam' = NextTeam
    BY <1>1 DEF Start, End, NextTeam, s
<1>10. CASE Len(c) >= CHUNK_SIZE
  <2> DEFINE r == [keys |-> c, sum |-> sum + Data(at)[k]]
  <2>1. results' = Append(results, r) /\ chunk' = <<>> /\ sum' = 0
      BY <1>6, <1>10 DEF AddPair, Push, c
  <2>2. r \in [keys : Seq(Int32), sum : Int]
      BY <1>6, <1>7 DEF IInv, Typed
  <2>3. /\ results' \in Seq([keys : Seq(Int32), sum : Int])
        /\ Len(results') = n + 1
        /\ results'[n + 1] = r
        /\ \A i \in 1 .. n : results'[i] = results[i]
    <3>1. results \in Seq([keys : Seq(Int32), sum : Int])
        BY DEF IInv, Typed
    <3> HIDE DEF r
    <3> QED BY <2>1, <2>2, <3>1 DEF n
  <2>4. Typed'
      BY <1>1, <1>8, <2>1, <2>3 DEF IInv, Typed
  <2>5. Count(n + 1) = Count(n) + CHUNK_SIZE /\ Len(chunk) + 1 = CHUNK_SIZE
    <3>1. Count(n + 1) = Count(n) + CHUNK_SIZE
        BY <1>3, CountGrows
    <3>2. Len(c) = Len(chunk) + 1 /\ Len(chunk) < CHUNK_SIZE
        BY <1>4, <1>7
    <3>3. Len(chunk) + 1 = CHUNK_SIZE
        BY <1>3, <1>10, <3>2
    <3> QED BY <3>1, <3>3
  <2>6. k + 1 = s + Count(n + 1) + 0
    <3>1. k = s + Count(n) + Len(chunk)
        BY <1>4
    <3> QED BY <1>3, <2>5, <3>1
  <2>7. chunk' = Run(s + Count(n + 1), k)
    <3>1. s + Count(n + 1) \in Int /\ k < s + Count(n + 1)
        BY <1>3, <2>5, <2>6
    <3>2. Run(s + Count(n + 1), k) = <<>>
        BY <1>3, <3>1, RunIsSeq
    <3> QED BY <2>1, <3>2
  <2>8. \A i \in 1 .. n + 1 :
          results'[i].keys = Run(s + Count(i - 1), s + Count(i) - 1)
    <3>1. s + Count(n + 1) - 1 = k /\ n + 1 - 1 = n
        BY <1>3, <2>5, <2>6
    <3>2. results'[n + 1].keys = Run(s + Count(n), s + Count(n + 1) - 1)
        BY <1>7, <2>3, <3>1
    <3>3. ASSUME NEW i \in 1 .. n + 1
          PROVE  i = n + 1 \/ i \in 1 .. n
        BY <1>3
    <3>4. \A i \in 1 .. n : results'[i].keys = Run(s + Count(i - 1), s + Count(i) - 1)
        BY <1>4, <2>3
    <3> HIDE DEF r
    <3> QED
      <4> SUFFICES ASSUME NEW i \in 1 .. n + 1
                   PROVE  results'[i].keys = Run(s + Count(i - 1), s + Count(i) - 1)
          OBVIOUS
      <4>1. CASE i = n + 1
        <5>1. i - 1 = n
            BY <4>1, <1>3
        <5> QED BY <4>1, <5>1, <3>2, Zenon
      <4>2. CASE i \in 1 .. n
          BY <4>2, <3>4
      <4> QED BY <3>3, <4>1, <4>2
  <2>9. k + 1 - 1 = k
      BY <1>3
  <2>10. k + 1 <= IF End(at) < s THEN s ELSE End(at) + 1
      BY <1>1, <1>3, <1>4
  <2>11. LoopInv'
    <3>1. /\ query'.target \ asked' # {} /\ at' \in DOMAIN Partition
          /\ at' = WorkerOf(TeamLeader[NextTeam'])
        BY <1>1, <1>9 DEF IInv, LoopInv
    <3>2. Len(chunk') = 0 /\ 0 < CHUNK_SIZE
        BY <1>3, <2>1
    <3>3. k' = Start(at)' + Count(Len(results')) + Len(chunk')
        BY <1>1, <1>9, <2>3, <2>6, <3>2
    <3>4. chunk' = Run(Start(at)' + Count(Len(results')), k' - 1)
      <4>1. k' - 1 = k
          BY <1>1, <1>3
      <4>2. Start(at)' + Count(Len(results')) = s + Count(n + 1)
          BY <1>9, <2>3
      <4> QED BY <4>1, <4>2, <2>7
    <3>5. \A i \in 1 .. Len(results') : results'[i].keys =
            Run(Start(at)' + Count(i - 1), Start(at)' + Count(i) - 1)
        BY <1>9, <2>3, <2>8
    <3>6. k' <= IF End(at)' < Start(at)' THEN Start(at)' ELSE End(at)' + 1
        BY <1>1, <1>9, <2>10
    <3> QED BY <3>1, <3>2, <3>3, <3>4, <3>5, <3>6 DEF LoopInv
  <2> QED BY <2>4, <2>11 DEF IInv
<1>11. CASE ~(Len(c) >= CHUNK_SIZE)
  <2>1. chunk' = c /\ sum' = sum + Data(at)[k] /\ UNCHANGED results
      BY <1>6, <1>11 DEF AddPair, c
  <2>2. Typed'
      BY <1>1, <1>6, <1>7, <1>8, <2>1 DEF IInv, Typed
  <2>3. Len(c) < CHUNK_SIZE /\ k + 1 = s + Count(n) + Len(c) /\ k + 1 - 1 = k
    <3>1. k = s + Count(n) + Len(chunk) /\ Len(c) = Len(chunk) + 1
        BY <1>4, <1>7
    <3>2. Len(c) < CHUNK_SIZE
        BY <1>3, <1>11, <3>1
    <3> QED BY <1>3, <3>1, <3>2
  <2>4. k + 1 <= IF End(at) < s THEN s ELSE End(at) + 1
      BY <1>1, <1>3, <1>4
  <2>5. LoopInv'
    <3>1. /\ query'.target \ asked' # {} /\ at' \in DOMAIN Partition
          /\ at' = WorkerOf(TeamLeader[NextTeam'])
        BY <1>1, <1>9 DEF IInv, LoopInv
    <3>2. Len(results') = n /\ Len(chunk') < CHUNK_SIZE
        BY <2>1, <2>3 DEF n
    <3>3. k' = Start(at)' + Count(Len(results')) + Len(chunk')
        BY <1>1, <1>9, <2>1, <2>3, <3>2
    <3>4. chunk' = Run(Start(at)' + Count(Len(results')), k' - 1)
      <4>1. k' - 1 = k
          BY <1>1, <1>3
      <4>2. Start(at)' + Count(Len(results')) = s + Count(n)
          BY <1>9, <3>2
      <4> QED BY <4>1, <4>2, <1>7, <2>1
    <3>5. \A i \in 1 .. Len(results') : results'[i].keys =
            Run(Start(at)' + Count(i - 1), Start(at)' + Count(i) - 1)
        BY <1>4, <1>9, <2>1, <3>2
    <3>6. k' <= IF End(at)' < Start(at)' THEN Start(at)' ELSE End(at)' + 1
        BY <1>1, <1>9, <2>4
    <3> QED BY <3>1, <3>2, <3>3, <3>4, <3>5, <3>6 DEF LoopInv
  <2> QED BY <2>2, <2>5 DEF IInv
<1> QED BY <1>10, <1>11, <1>7, SizeAssumption

\* The last chunk is pushed, and there is no loop afterwards.
LEMMA ReturnIInv == IInv /\ Return => IInv'
<1> SUFFICES ASSUME IInv, Return PROVE IInv'
    OBVIOUS
<1>1. /\ pc = "loop" /\ pc' = "next" /\ UNCHANGED <<query, k>>
      /\ asked' = asked \cup {NextTeam}
    BY DEF Return
<1>2. query.target \ asked # {}
    BY <1>1 DEF IInv, LoopInv
<1>3. NextTeam \in query.target
    BY <1>2 DEF NextTeam, IInv, Typed, Teams
<1>4. [keys |-> chunk, sum |-> sum] \in [keys : Seq(Int32), sum : Int]
    BY DEF IInv, Typed
<1>5. /\ chunk' \in Seq(Int32) /\ sum' \in Int
      /\ results' \in Seq([keys : Seq(Int32), sum : Int])
  <2>1. CASE chunk # <<>>
    <3>1. /\ chunk' = <<>> /\ sum' = 0
          /\ results' = Append(results, [keys |-> chunk, sum |-> sum])
        BY <2>1 DEF Return, Push
    <3>2. results \in Seq([keys : Seq(Int32), sum : Int])
        BY DEF IInv, Typed
    <3> QED BY <1>4, <3>1, <3>2
  <2>2. CASE chunk = <<>>
      BY <2>2 DEF Return, IInv, Typed
  <2> QED BY <2>1, <2>2
<1> QED BY <1>1, <1>3, <1>5 DEF IInv, Typed, LoopInv

\* The merge does not touch the loop.
LEMMA MergeIInv == IInv /\ Merge => IInv'
    BY DEF Merge, IInv, Typed, LoopInv, loop

\* Every step preserves the invariant.
LEMMA NextIInv == IInv /\ [Next]_vars => IInv'
<1> SUFFICES ASSUME IInv, [Next]_vars PROVE IInv'
    OBVIOUS
<1>1. CASE UNCHANGED vars
  <2>1. UNCHANGED <<pc, query, asked, at, k, chunk, sum, results>>
      BY <1>1 DEF vars
  <2>2. NextTeam' = NextTeam
      BY <2>1 DEF NextTeam
  <2>3. Start(at)' = Start(at) /\ End(at)' = End(at)
      BY <2>1 DEF Start, End
  <2> QED BY <2>1, <2>2, <2>3 DEF IInv, Typed, LoopInv
<1> QED BY <1>1, AskIInv, CallTeamIInv, IterateIInv, ReturnIInv, MergeIInv
        DEF Next, Serve

\* The invariant implies the tiling.
LEMMA IInvTiles == IInv => ChunksTile
<1> SUFFICES ASSUME IInv, pc = "loop" PROVE ChunksTile
    BY DEF ChunksTile
<1> QED BY DEF IInv, LoopInv, ChunksTile, Count

\* For every partition, range and chunk size: the chunks made by QueryRange are
\* full and follow each other without a gap or an overlap from the first key
\* of the range in the partition.
THEOREM ChunksTileAlways == Spec => []ChunksTile
<1> QED BY InitIInv, NextIInv, IInvTiles, PTL DEF Spec

-----------------------------------------------------------------------------
\* What the topology files give: each leader's worker is the holder of the
\* team's keys, and GREEN's keys are below PINK's.
ShippedTopology ==
    /\ \A t \in Teams : WorkerOf(TeamLeader[t]) = Holder[t]
    /\ \A t \in Teams : Holder[t] \in DOMAIN Partition
    /\ Partition["C"][2] < Partition["F"][1]

\* A reply is what is due, a failure is empty, and A's answer is made of the
\* replies.
AnswerInv ==
    /\ got \in [Teams -> [ok : BOOLEAN, keys : Seq(Int), sum : Int]]
    /\ \A t \in Teams : got[t].ok => t \in asked /\ got[t].keys = Due(t)
    /\ \A t \in Teams : ~got[t].ok => got[t].keys = <<>>
    /\ answer.ok => pc = "done" /\ answer.keys = got["GREEN"].keys \o got["PINK"].keys
    /\ ~answer.ok => answer.keys = <<>>

\* The chunk that the worker returns is the one due.
LEMMA ReturnsDue ==
    ASSUME ShippedTopology, IInv, AnswerInv, Return
    PROVE  got'[NextTeam].keys = Due(NextTeam) /\ got'[NextTeam].ok
<1> DEFINE s == Start(at)
           e == End(at)
           n == Len(results)
<1>1. /\ pc = "loop" /\ k > e
      /\ at = WorkerOf(TeamLeader[NextTeam]) /\ at \in DOMAIN Partition
      /\ k = s + Count(n) + Len(chunk)
      /\ Len(chunk) < CHUNK_SIZE
      /\ chunk = Run(s + Count(n), k - 1)
      /\ \A i \in 1 .. n : results[i].keys = Run(s + Count(i - 1), s + Count(i) - 1)
      /\ k <= IF e < s THEN s ELSE e + 1
    BY DEF Return, IInv, LoopInv
<1>2. NextTeam \in Teams /\ at = Holder[NextTeam]
    BY <1>1 DEF ShippedTopology, NextTeam, Teams
<1>3. /\ s \in Int /\ e \in Int /\ k \in Int /\ n \in Nat /\ Len(chunk) \in Nat
      /\ CHUNK_SIZE \in Nat /\ CHUNK_SIZE >= 1
      /\ results \in Seq([keys : Seq(Int32), sum : Int])
  <2>1. s \in Int /\ e \in Int
      BY <1>1, BoundsTyped, IntsAreInts DEF IInv
  <2>2. k \in Int /\ n \in Nat /\ Len(chunk) \in Nat
      BY IntsAreInts DEF IInv, Typed
  <2> QED BY <2>1, <2>2, SizeAssumption DEF IInv, Typed
<1>4. Due(NextTeam) = IF e < s + CHUNK_SIZE - 1 THEN Run(s, e)
                      ELSE Run(s, s + CHUNK_SIZE - 1)
    BY <1>2 DEF Due
<1>5. /\ got' = [got EXCEPT ![NextTeam] = IF results' = <<>> THEN Result(<<>>, 0)
                      ELSE Result(results'[1].keys, results'[1].sum)]
      /\ DOMAIN got = Teams
    BY DEF Return, AnswerInv
<1>6. Count(0) = 0 /\ Count(1) = CHUNK_SIZE /\ Count(n) \in Nat
    BY <1>3, CountGrows
<1> HIDE DEF s, e, n
<1>7. CASE n >= 1
  <2>1. results'[1] = results[1] /\ results' # <<>>
    <3>1. CASE chunk # <<>>
      <4>1. results' = Append(results, [keys |-> chunk, sum |-> sum])
          BY <3>1 DEF Return, Push
      <4> QED BY <1>3, <1>7, <4>1 DEF n
    <3>2. CASE chunk = <<>>
      <4>1. results' = results
          BY <3>2 DEF Return
      <4> QED BY <1>3, <1>7, <4>1 DEF n
    <3> QED BY <3>1, <3>2
  <2>2. results[1].keys = Run(s, s + CHUNK_SIZE - 1)
    <3>1. 1 \in 1 .. n /\ 1 - 1 = 0
        BY <1>3, <1>7
    <3>2. s + 0 = s
        BY <1>3
    <3> QED BY <1>1, <1>6, <3>1, <3>2
  <2>3. Count(n) >= CHUNK_SIZE
    <3>1. n - 1 \in Nat /\ n - 1 + 1 = n
        BY <1>3, <1>7
    <3>2. Count(n - 1) \in Nat /\ Count(n - 1 + 1) = Count(n - 1) + CHUNK_SIZE
        BY <3>1, CountGrows
    <3> QED BY <1>3, <3>1, <3>2
  <2>4. ~(e < s + CHUNK_SIZE - 1)
      BY <1>1, <1>3, <1>6, <2>3
  <2> QED BY <1>2, <1>4, <1>5, <2>1, <2>2, <2>4 DEF Result
<1>8. CASE n = 0
  <2>1. results = <<>>
      BY <1>3, <1>8 DEF n
  <2>2. chunk = Run(s, k - 1) /\ k = s + Len(chunk)
    <3>1. s + Count(n) = s
        BY <1>3, <1>6, <1>8
    <3> QED BY <1>1, <3>1
  <2>3. Due(NextTeam) = Run(s, e)
      BY <1>1, <1>3, <1>4, <2>2
  <2>4. CASE chunk # <<>>
    <3>1. results' = Append(results, [keys |-> chunk, sum |-> sum])
        BY <2>4 DEF Return, Push
    <3>2. results' # <<>> /\ results'[1].keys = chunk
        BY <2>1, <3>1
    <3>3. Len(chunk) > 0
        BY <2>4 DEF IInv, Typed
    <3>4. k - 1 = e
        BY <1>1, <1>3, <2>2, <3>3
    <3> QED BY <1>2, <1>5, <2>2, <2>3, <3>2, <3>4 DEF Result
  <2>5. CASE chunk = <<>>
    <3>1. results' = <<>>
        BY <2>1, <2>5 DEF Return
    <3>2. Len(chunk) = 0
        BY <2>5
    <3>3. e < s
        BY <1>1, <1>3, <2>2, <3>2
    <3>4. Run(s, e) = <<>>
        BY <1>3, <3>3, RunIsSeq
    <3> QED BY <1>2, <1>5, <2>3, <3>1, <3>4 DEF Result
  <2> QED BY <2>4, <2>5
<1> QED BY <1>3, <1>7, <1>8

\* No reply before the query.
LEMMA InitAnswer == Init => AnswerInv
<1>1. Failed \in [ok : BOOLEAN, keys : Seq(Int), sum : Int]
    BY DEF Failed
<1>2. ~Failed.ok /\ Failed.keys = <<>>
    BY DEF Failed
<1> QED BY <1>1, <1>2 DEF Init, AnswerInv

\* What a reply must be does not change while the query does not.
LEMMA DueStays == ASSUME UNCHANGED query, NEW t \in Teams PROVE Due(t)' = Due(t)
    BY DEF Due, Start, End

\* The replies stay, or the one due is added, or A merges them.
LEMMA NextAnswer ==
    ASSUME ShippedTopology, IInv, AnswerInv, [Next]_vars
    PROVE  AnswerInv'
<1>1. CASE Ask
  <2>1. pc = "idle" /\ asked = {} /\ UNCHANGED <<asked, got, answer>>
      BY <1>1 DEF Ask, IInv, Typed
  <2> QED BY <2>1 DEF AnswerInv
<1>2. CASE CallTeam
  <2>1. /\ pc = "next" /\ UNCHANGED <<query, got, answer>>
        /\ asked \subseteq asked'
      BY <1>2 DEF CallTeam, loop
  <2>2. \A t \in Teams : Due(t)' = Due(t)
      BY <2>1, DueStays
  <2> QED BY <2>1, <2>2 DEF AnswerInv
<1>3. CASE Iterate
  <2>1. UNCHANGED <<pc, query, asked, got, answer>>
      BY <1>3 DEF Iterate
  <2>2. \A t \in Teams : Due(t)' = Due(t)
      BY <2>1, DueStays
  <2> QED BY <2>1, <2>2 DEF AnswerInv
<1>4. CASE Return
  <2>1. /\ pc = "loop" /\ UNCHANGED <<query, answer>>
        /\ asked' = asked \cup {NextTeam}
      BY <1>4 DEF Return
  <2>2. \A t \in Teams : Due(t)' = Due(t)
      BY <2>1, DueStays
  <2>3. /\ NextTeam \in Teams
        /\ got'[NextTeam].keys = Due(NextTeam) /\ got'[NextTeam].ok
      BY <1>4, ReturnsDue DEF NextTeam, Teams
  <2>4. \A t \in Teams : t # NextTeam => got'[t] = got[t]
      BY <1>4 DEF Return, AnswerInv
  <2>5. got' \in [Teams -> [ok : BOOLEAN, keys : Seq(Int), sum : Int]]
    <3>1. results' \in Seq([keys : Seq(Int32), sum : Int])
      <4>1. IInv'
          BY <1>4, ReturnIInv
      <4> QED BY <4>1 DEF IInv, Typed
    <3> DEFINE x == IF results' = <<>> THEN Result(<<>>, 0)
                    ELSE Result(results'[1].keys, results'[1].sum)
    <3>2. x \in [ok : BOOLEAN, keys : Seq(Int), sum : Int]
      <4>1. CASE results' = <<>>
          BY <4>1 DEF Result
      <4>2. CASE results' # <<>>
        <5>1. results'[1] \in [keys : Seq(Int32), sum : Int]
            BY <3>1, <4>2, FirstOfSeq
        <5>2. results'[1].keys \in Seq(Int)
            BY <5>1, SeqOfInts
        <5> QED BY <4>2, <5>1, <5>2 DEF Result
      <4> QED BY <4>1, <4>2
    <3>3. got' = [got EXCEPT ![NextTeam] = x]
        BY <1>4 DEF Return
    <3> HIDE DEF x
    <3> QED BY <3>2, <3>3 DEF AnswerInv
  <2>6. ~answer.ok
      BY <2>1 DEF AnswerInv
  <2> QED BY <2>1, <2>2, <2>3, <2>4, <2>5, <2>6 DEF AnswerInv
<1>5. CASE Merge
  <2>1. /\ pc' = "done" /\ UNCHANGED <<query, asked, got>>
        /\ answer' = IF \E t \in Teams : got[t].ok
                       THEN Merged(got["GREEN"], got["PINK"]) ELSE Failed
      BY <1>5 DEF Merge
  <2>2. \A t \in Teams : Due(t)' = Due(t)
      BY <2>1, DueStays
  <2> QED BY <2>1, <2>2 DEF AnswerInv, Merged, Result, Failed
<1>6. CASE UNCHANGED vars
  <2>1. UNCHANGED <<pc, query, asked, got, answer>>
      BY <1>6 DEF vars
  <2>2. \A t \in Teams : Due(t)' = Due(t)
      BY <2>1, DueStays
  <2> QED BY <2>1, <2>2 DEF AnswerInv
<1> QED BY <1>1, <1>2, <1>3, <1>4, <1>5, <1>6 DEF Next, Serve

\* What a team owes is ascending and within its partition.
LEMMA DueAscends ==
    ASSUME ShippedTopology, IInv, NEW t \in Teams
    PROVE  /\ Due(t) \in Seq(Int)
           /\ \A i, j \in 1 .. Len(Due(t)) : i < j => Due(t)[i] < Due(t)[j]
           /\ \A i \in 1 .. Len(Due(t)) :
                Partition[Holder[t]][1] <= Due(t)[i] /\ Due(t)[i] <= Partition[Holder[t]][2]
<1> DEFINE p == Holder[t]
           s == Start(p)
           e == IF End(p) < s + CHUNK_SIZE - 1 THEN End(p) ELSE s + CHUNK_SIZE - 1
<1>1. /\ s \in Int /\ e \in Int /\ Partition[p][1] \in Int /\ Partition[p][2] \in Int
      /\ Partition[p][1] <= s /\ e <= Partition[p][2]
  <2>1. /\ s \in Int /\ End(p) \in Int /\ Partition[p][1] \in Int
        /\ Partition[p][2] \in Int
        /\ Partition[p][1] <= s /\ End(p) <= Partition[p][2]
      BY BoundsTyped, IntsAreInts DEF ShippedTopology, IInv
  <2> QED BY <2>1, SizeAssumption
<1>2. Due(t) = Run(s, e)
    BY DEF Due
<1> HIDE DEF p, s, e
<1>3. /\ Run(s, e) \in Seq(Int)
      /\ Len(Run(s, e)) = IF e < s THEN 0 ELSE e - s + 1
      /\ \A i \in 1 .. Len(Run(s, e)) : Run(s, e)[i] = s + i - 1
    BY <1>1, RunIsSeq
<1>4. \A i, j \in 1 .. Len(Run(s, e)) : i < j => Run(s, e)[i] < Run(s, e)[j]
  <2> SUFFICES ASSUME NEW i \in 1 .. Len(Run(s, e)), NEW j \in 1 .. Len(Run(s, e)), i < j
               PROVE  Run(s, e)[i] < Run(s, e)[j]
      OBVIOUS
  <2>1. i \in Int /\ j \in Int
      BY <1>1, <1>3
  <2>2. Run(s, e)[i] = s + i - 1 /\ Run(s, e)[j] = s + j - 1
      BY <1>3
  <2> QED BY <1>1, <2>1, <2>2
<1>5. \A i \in 1 .. Len(Run(s, e)) : s <= Run(s, e)[i] /\ Run(s, e)[i] <= e
  <2> SUFFICES ASSUME NEW i \in 1 .. Len(Run(s, e))
               PROVE  s <= Run(s, e)[i] /\ Run(s, e)[i] <= e
      OBVIOUS
  <2>1. ~(e < s) /\ i \in Int /\ 1 <= i /\ i <= e - s + 1
      BY <1>1, <1>3
  <2> QED BY <1>1, <1>3, <2>1
<1>6. \A i \in 1 .. Len(Run(s, e)) :
        Partition[p][1] <= Run(s, e)[i] /\ Run(s, e)[i] <= Partition[p][2]
  <2> SUFFICES ASSUME NEW i \in 1 .. Len(Run(s, e))
               PROVE  Partition[p][1] <= Run(s, e)[i] /\ Run(s, e)[i] <= Partition[p][2]
      OBVIOUS
  <2>1. Run(s, e)[i] \in Int
      BY <1>1, <1>3
  <2> QED BY <1>1, <1>5, <2>1
<1> QED BY <1>2, <1>3, <1>4, <1>6 DEF p

\* The invariants imply the property.
LEMMA AnswerInvImplies ==
    ASSUME ShippedTopology, IInv, AnswerInv PROVE AnswerIsFirstChunks
<1>1. \A t \in Teams : got[t].ok => t \in query.target /\ got[t].keys = Due(t)
    BY DEF AnswerInv, IInv, Typed
<1>2. answer.ok => answer.keys = got["GREEN"].keys \o got["PINK"].keys
    BY DEF AnswerInv
<1>3. \A i, j \in DOMAIN answer.keys : i < j => answer.keys[i] < answer.keys[j]
  <2>1. CASE ~answer.ok
      BY <2>1 DEF AnswerInv
  <2>2. CASE answer.ok
    <3> DEFINE g == got["GREEN"].keys
               p == got["PINK"].keys
               u == Partition["C"][2]
               v == Partition["F"][1]
    <3>1. /\ g \in Seq(Int) /\ p \in Seq(Int)
        BY DEF AnswerInv, Teams
    <3>2. u \in Int /\ v \in Int /\ u < v
      <4>1. "C" \in DOMAIN Partition /\ "F" \in DOMAIN Partition
          BY DEF ShippedTopology, Holder, Teams
      <4> QED BY <4>1, BoundsTyped, IntsAreInts DEF ShippedTopology, IInv
    <3>3. /\ \A i, j \in 1 .. Len(g) : i < j => g[i] < g[j]
          /\ \A i \in 1 .. Len(g) : g[i] <= u
      <4>1. "GREEN" \in Teams /\ Holder["GREEN"] = "C"
          BY DEF Teams, Holder
      <4>2. g = <<>> \/ g = Due("GREEN")
          BY <1>1, <4>1 DEF AnswerInv
      <4> QED BY <4>1, <4>2, DueAscends
    <3>4. /\ \A i, j \in 1 .. Len(p) : i < j => p[i] < p[j]
          /\ \A i \in 1 .. Len(p) : v <= p[i]
      <4>1. "PINK" \in Teams /\ Holder["PINK"] = "F"
          BY DEF Teams, Holder
      <4>2. p = <<>> \/ p = Due("PINK")
          BY <1>1, <4>1 DEF AnswerInv
      <4> QED BY <4>1, <4>2, DueAscends
    <3>5. answer.keys = g \o p
        BY <1>2, <2>2
    <3> HIDE DEF g, p, u, v
    <3>6. /\ DOMAIN (g \o p) = 1 .. Len(g) + Len(p)
          /\ \A i \in 1 .. Len(g) + Len(p) :
               (g \o p)[i] = IF i <= Len(g) THEN g[i] ELSE p[i - Len(g)]
        BY <3>1
    <3>7. ASSUME NEW i \in 1 .. Len(g) + Len(p), NEW j \in 1 .. Len(g) + Len(p), i < j
          PROVE  (g \o p)[i] < (g \o p)[j]
      <4>1. CASE j <= Len(g)
          BY <3>1, <3>3, <3>6, <3>7, <4>1
      <4>2. CASE i <= Len(g) /\ j > Len(g)
        <5>1. j - Len(g) \in 1 .. Len(p) /\ i \in 1 .. Len(g)
            BY <3>1, <4>2
        <5>2. g[i] \in Int /\ p[j - Len(g)] \in Int
            BY <3>1, <5>1
        <5>3. g[i] <= u /\ v <= p[j - Len(g)]
            BY <3>3, <3>4, <5>1
        <5>4. (g \o p)[i] = g[i] /\ (g \o p)[j] = p[j - Len(g)]
            BY <3>1, <3>6, <4>2
        <5> QED BY <3>2, <5>2, <5>3, <5>4
      <4>3. CASE i > Len(g)
        <5>1. /\ j - Len(g) \in 1 .. Len(p) /\ i - Len(g) \in 1 .. Len(p)
              /\ i - Len(g) < j - Len(g) /\ ~(i <= Len(g)) /\ ~(j <= Len(g))
            BY <3>1, <3>7, <4>3
        <5> QED BY <3>4, <3>6, <5>1
      <4> QED BY <3>1, <4>1, <4>2, <4>3
    <3> QED BY <3>5, <3>6, <3>7
  <2> QED BY <2>1, <2>2
<1> QED BY <1>1, <1>2, <1>3 DEF AnswerIsFirstChunks

\* For every range, chunk size and partitions, if the topology is as shipped:
\* A's answer has, of each team that answered, the lowest keys of that team's
\* partition in the range, each once and in ascending order.
THEOREM AnswerIsFirstChunksAlways ==
    ASSUME ShippedTopology PROVE Spec => []AnswerIsFirstChunks
<1>1. Init => IInv /\ AnswerInv
    BY InitIInv, InitAnswer
<1>2. IInv /\ AnswerInv /\ [Next]_vars => IInv' /\ AnswerInv'
    BY NextIInv, NextAnswer
<1>3. IInv /\ AnswerInv => AnswerIsFirstChunks
    BY AnswerInvImplies
<1> QED BY <1>1, <1>2, <1>3, PTL DEF Spec

-----------------------------------------------------------------------------
(***************************************************************************)
(* Types, with the bounds of the sums                                      *)
(***************************************************************************)
Replies == [ok : BOOLEAN, keys : Seq(Int32), sum : Sums]
Answers == [ok : BOOLEAN, keys : Seq(Int32), sum : 0 .. 2 * CHUNK_SIZE * (Modulus - 1)]

\* The largest sum of n hashed values.
SumOf(n) == n * (Modulus - 1)

\* The current chunk is never full, and its sum is one of its pairs.
SumInv ==
    /\ pc \in {"idle", "next", "loop", "done"}
    /\ at \in DOMAIN Partition \cup {""}
    /\ Len(chunk) < CHUNK_SIZE /\ sum \in 0 .. SumOf(Len(chunk))
    /\ results \in Seq(ChunkRecs)
    /\ got \in [Teams -> Replies]
    /\ answer \in Answers

\* One pair more, and the bounds of a chunk and of two of them.
LEMMA SumFacts ==
    /\ \A n \in Nat : SumOf(n) \in Nat /\ SumOf(n + 1) = SumOf(n) + (Modulus - 1)
    /\ \A n \in 0 .. CHUNK_SIZE : SumOf(n) <= SumOf(CHUNK_SIZE)
    /\ SumOf(0) = 0 /\ SumOf(CHUNK_SIZE) \in Nat
    /\ Sums = 0 .. SumOf(CHUNK_SIZE)
    /\ 2 * CHUNK_SIZE * (Modulus - 1) = SumOf(CHUNK_SIZE) + SumOf(CHUNK_SIZE)
<1> DEFINE m == Modulus - 1
<1>1. m \in Nat /\ CHUNK_SIZE \in Nat
    BY SizeAssumption
<1>2. \A n : SumOf(n) = n * m
    BY DEF SumOf
<1>3. Sums = 0 .. CHUNK_SIZE * m /\ 2 * CHUNK_SIZE * (Modulus - 1) = 2 * CHUNK_SIZE * m
    BY DEF Sums
<1> HIDE DEF m
<1>4. \A n \in Nat : n * m \in Nat /\ (n + 1) * m = n * m + m
    BY <1>1
<1>5. ASSUME NEW n \in 0 .. CHUNK_SIZE PROVE n * m <= CHUNK_SIZE * m
    <2>1. CHUNK_SIZE - n \in Nat
        BY <1>1, <1>5
    <2>2. (CHUNK_SIZE - n) * m \in Nat
        BY <1>1, <2>1, <1>4
    <2>3. CHUNK_SIZE * m = n * m + (CHUNK_SIZE - n) * m
        BY <1>1, <2>1
    <2>4. n * m \in Nat
        BY <1>1, <1>4
    <2> QED BY <2>2, <2>3, <2>4
<1>6. 0 * m = 0 /\ 2 * CHUNK_SIZE * m = CHUNK_SIZE * m + CHUNK_SIZE * m
    BY <1>1
<1> QED BY <1>1, <1>2, <1>3, <1>4, <1>5, <1>6 DEF m

\* Sequences, built from nothing one element at a time.
LEMMA SeqFacts ==
    ASSUME NEW S
    PROVE  /\ <<>> \in Seq(S) /\ Len(<<>>) = 0
           /\ \A q \in Seq(S), e \in S : Append(q, e) \in Seq(S)
    OBVIOUS

\* What is known of the current chunk.
LEMMA CurrentChunk ==
    ASSUME IInv, SumInv
    PROVE  /\ chunk \in Seq(Int32) /\ Len(chunk) \in Nat
           /\ Len(chunk) \in 0 .. CHUNK_SIZE /\ Len(chunk) < CHUNK_SIZE
           /\ sum \in 0 .. SumOf(Len(chunk))
<1>1. chunk \in Seq(Int32)
    BY DEF IInv, Typed
<1>2. Len(chunk) < CHUNK_SIZE /\ sum \in 0 .. SumOf(Len(chunk))
    BY DEF SumInv
<1>3. Len(chunk) \in Nat
    BY <1>1
<1> QED BY <1>1, <1>2, <1>3, SizeAssumption

\* A chunk just begun has no sum.
LEMMA NewChunk ==
    ASSUME NEW c, c = <<>>
    PROVE  Len(c) < CHUNK_SIZE /\ 0 \in 0 .. SumOf(Len(c))
<1>1. Len(c) = 0 /\ SumOf(0) = 0 /\ 0 < CHUNK_SIZE
    BY SumFacts, SizeAssumption
<1> QED BY <1>1

\* A failed call has a reply of the type, an empty one.
LEMMA EmptyReply == /\ Failed \in Replies /\ Failed \in Answers
                    /\ Result(<<>>, 0) \in Replies
<1>1. <<>> \in Seq(Int32) /\ 0 \in Sums /\ 0 \in 0 .. 2 * CHUNK_SIZE * (Modulus - 1)
    BY SumFacts
<1> QED BY <1>1 DEF Failed, Result, Replies, Answers

\* Nothing has been summed.
LEMMA InitSum == Init => SumInv
<1> SUFFICES ASSUME Init PROVE SumInv
    OBVIOUS
<1>1. chunk = <<>> /\ sum = 0 /\ results = <<>> /\ pc = "idle" /\ at = ""
    BY DEF Init
<1>2. Len(chunk) < CHUNK_SIZE /\ sum \in 0 .. SumOf(Len(chunk))
    BY <1>1, NewChunk
<1>3. got \in [Teams -> Replies] /\ answer \in Answers
    BY EmptyReply DEF Init
<1>4. results \in Seq(ChunkRecs)
    BY <1>1, SeqFacts
<1> QED BY <1>1, <1>2, <1>3, <1>4 DEF SumInv

\* The current chunk, once finished, is a chunk.
LEMMA ChunkTyped ==
    ASSUME NEW c \in Seq(Int32), Len(c) <= CHUNK_SIZE, NEW v \in 0 .. SumOf(Len(c))
    PROVE  [keys |-> c, sum |-> v] \in ChunkRecs
<1>1. Len(c) \in 0 .. CHUNK_SIZE
    BY SizeAssumption
<1>2. v \in Sums
    BY <1>1, SumFacts
<1> QED BY <1>2 DEF ChunkRecs

\* One pair more, or a full chunk that is finished.
LEMMA IterateSum == IInv /\ SumInv /\ Iterate => SumInv'
<1> SUFFICES ASSUME IInv, SumInv, Iterate PROVE SumInv'
    OBVIOUS
<1> DEFINE c == Append(chunk, k)
           v == sum + Data(at)[k]
<1>1. /\ pc = "loop" /\ UNCHANGED <<pc, at, got, answer>>
      /\ at \in DOMAIN Partition
    BY DEF Iterate, IInv, LoopInv
<1>2. CASE k \notin DOMAIN Data(at)
    BY <1>1, <1>2 DEF Iterate, SumInv
<1>3. CASE k \in DOMAIN Data(at)
    <2>1. Data(at)[k] \in 0 .. Modulus - 1
        <3>1. Data(at)[k] = HashKey(k) /\ k \in Int
            BY <1>1, <1>3, BoundsTyped, DataTyped, IntsAreInts DEF IInv, Typed
        <3> QED BY <3>1, HashTyped
    <2>2. /\ c \in Seq(Int32) /\ Len(c) = Len(chunk) + 1 /\ Len(chunk) \in Nat
          /\ Len(chunk) < CHUNK_SIZE
        <3>1. k \in Int32
            BY DEF IInv, Typed
        <3> QED BY <3>1, CurrentChunk
    <2>3. v \in 0 .. SumOf(Len(c))
        <3>1. SumOf(Len(c)) = SumOf(Len(chunk)) + (Modulus - 1) /\ SumOf(Len(chunk)) \in Nat
            BY <2>2, SumFacts
        <3>2. sum \in 0 .. SumOf(Len(chunk))
            BY CurrentChunk
        <3> QED BY <3>1, <3>2, <2>1, SizeAssumption
    <2>4. AddPair(Data(at)[k])
        BY <1>3 DEF Iterate
    <2>5. CASE Len(c) >= CHUNK_SIZE
        <3>1. /\ results' = Append(results, [keys |-> c, sum |-> v])
              /\ chunk' = <<>> /\ sum' = 0
            BY <2>4, <2>5 DEF AddPair, Push
        <3> HIDE DEF c, v
        <3>2. [keys |-> c, sum |-> v] \in ChunkRecs
            BY <2>2, <2>3, ChunkTyped, SizeAssumption
        <3>3. results' \in Seq(ChunkRecs)
            <4>1. results \in Seq(ChunkRecs)
                BY DEF SumInv
            <4> QED BY <3>1, <3>2, <4>1, SeqFacts
        <3>4. Len(chunk') < CHUNK_SIZE /\ sum' \in 0 .. SumOf(Len(chunk'))
            BY <3>1, NewChunk
        <3> QED BY <1>1, <3>3, <3>4 DEF SumInv
    <2>6. CASE ~(Len(c) >= CHUNK_SIZE)
        <3>1. chunk' = c /\ sum' = v /\ UNCHANGED results
            BY <2>4, <2>6 DEF AddPair
        <3> HIDE DEF c, v
        <3>2. Len(chunk') < CHUNK_SIZE /\ sum' \in 0 .. SumOf(Len(chunk'))
            BY <3>1, <2>2, <2>3, <2>6, SizeAssumption
        <3> QED BY <1>1, <3>1, <3>2 DEF SumInv
    <2> QED BY <2>5, <2>6
<1> QED BY <1>2, <1>3

\* The last chunk is finished, and the first one is the reply.
LEMMA ReturnSum == IInv /\ SumInv /\ Return => SumInv'
<1> SUFFICES ASSUME IInv, SumInv, Return PROVE SumInv'
    OBVIOUS
<1>1. pc' = "next" /\ UNCHANGED <<at, answer>>
    BY DEF Return
<1>2. /\ results' \in Seq(ChunkRecs)
      /\ Len(chunk') < CHUNK_SIZE /\ sum' \in 0 .. SumOf(Len(chunk'))
    <2>1. CASE chunk # <<>>
        <3>1. /\ results' = Append(results, [keys |-> chunk, sum |-> sum])
              /\ chunk' = <<>> /\ sum' = 0
            BY <2>1 DEF Return, Push
        <3>2. [keys |-> chunk, sum |-> sum] \in ChunkRecs
            <4>1. Len(chunk) <= CHUNK_SIZE
                BY CurrentChunk, SizeAssumption
            <4> QED BY <4>1, CurrentChunk, ChunkTyped
        <3>3. results' \in Seq(ChunkRecs)
            <4>1. results \in Seq(ChunkRecs)
                BY DEF SumInv
            <4> QED BY <3>1, <3>2, <4>1, SeqFacts
        <3>4. Len(chunk') < CHUNK_SIZE /\ sum' \in 0 .. SumOf(Len(chunk'))
            BY <3>1, NewChunk
        <3> QED BY <3>3, <3>4
    <2>2. CASE chunk = <<>>
        BY <2>2 DEF Return, SumInv
    <2> QED BY <2>1, <2>2
<1>3. got' \in [Teams -> Replies]
    <2> DEFINE a == IF results' = <<>> THEN Result(<<>>, 0)
                    ELSE Result(results'[1].keys, results'[1].sum)
    <2>1. a \in Replies
        <3>1. CASE results' = <<>>
            BY <3>1, EmptyReply
        <3>2. CASE results' # <<>>
            <4>1. results'[1] \in ChunkRecs
                BY <1>2, <3>2, FirstOfSeq
            <4>2. results'[1].keys \in Seq(Int32) /\ results'[1].sum \in Sums
                BY <4>1 DEF ChunkRecs
            <4> QED BY <3>2, <4>2 DEF Result, Replies
        <3> QED BY <3>1, <3>2
    <2>2. got' = [got EXCEPT ![NextTeam] = a]
        BY DEF Return
    <2> HIDE DEF a
    <2> QED BY <2>1, <2>2 DEF SumInv
<1> QED BY <1>1, <1>2, <1>3 DEF SumInv

\* The sum of two replies is that of at most two chunks.
LEMMA MergeSum == SumInv /\ Merge => SumInv'
<1> SUFFICES ASSUME SumInv, Merge PROVE SumInv'
    OBVIOUS
<1> DEFINE g == got["GREEN"]
           p == got["PINK"]
<1>1. g \in Replies /\ p \in Replies
    BY DEF SumInv, Teams
<1>2. pc' = "done" /\ UNCHANGED <<at, chunk, sum, results, got>>
    BY DEF Merge, loop
<1>3. Merged(g, p) \in Answers
    <2>1. /\ g.keys \in Seq(Int32) /\ p.keys \in Seq(Int32)
          /\ g.sum \in 0 .. SumOf(CHUNK_SIZE) /\ p.sum \in 0 .. SumOf(CHUNK_SIZE)
        BY <1>1, SumFacts DEF Replies
    <2> HIDE DEF g, p
    <2>2. g.keys \o p.keys \in Seq(Int32)
        BY <2>1
    <2>3. g.sum + p.sum \in 0 .. 2 * CHUNK_SIZE * (Modulus - 1)
        <3>1. 2 * CHUNK_SIZE * (Modulus - 1) = SumOf(CHUNK_SIZE) + SumOf(CHUNK_SIZE)
            BY SumFacts
        <3>2. SumOf(CHUNK_SIZE) \in Nat
            BY SumFacts
        <3> QED BY <2>1, <3>1, <3>2
    <2> QED BY <2>2, <2>3 DEF Merged, Result, Answers
<1>4. answer' \in Answers
    BY <1>3, EmptyReply DEF Merge
<1> QED BY <1>2, <1>4 DEF SumInv

\* The sums keep their bounds; the other steps leave them alone, or start at 0.
LEMMA NextSum == IInv /\ SumInv /\ [Next]_vars => SumInv'
<1> SUFFICES ASSUME IInv, SumInv, [Next]_vars PROVE SumInv'
    OBVIOUS
<1>1. CASE Ask
    BY <1>1 DEF Ask, SumInv, loop
<1>2. CASE CallTeam
    <2>1. UNCHANGED <<got, answer>>
        BY <1>2 DEF CallTeam
    <2>2. CASE UNCHANGED <<pc, at, loop>>
        BY <2>1, <2>2 DEF SumInv, loop
    <2>3. CASE /\ at' \in DOMAIN Partition /\ pc' = "loop"
               /\ chunk' = <<>> /\ sum' = 0 /\ results' = <<>>
        <3>1. Len(chunk') < CHUNK_SIZE /\ sum' \in 0 .. SumOf(Len(chunk'))
            BY <2>3, NewChunk
        <3>2. results' \in Seq(ChunkRecs)
            BY <2>3, SeqFacts
        <3> QED BY <2>1, <2>3, <3>1, <3>2 DEF SumInv
    <2> QED BY <1>2, <2>2, <2>3 DEF CallTeam
<1>3. CASE UNCHANGED vars
    BY <1>3 DEF vars, SumInv
<1> QED BY <1>1, <1>2, <1>3, IterateSum, ReturnSum, MergeSum DEF Next, Serve

\* For every partition, range and chunk size the loop's key stays an int, and
\* every partial sum is one of as many hashed values as its chunk may have.
THEOREM TypeCorrect == Spec => []TypeOK
<1>1. ASSUME IInv, SumInv PROVE TypeOK
    <2>1. sum \in Sums
        <3>1. /\ Len(chunk) \in 0 .. CHUNK_SIZE /\ Len(chunk) \in Nat
              /\ sum \in 0 .. SumOf(Len(chunk))
            BY <1>1, CurrentChunk
        <3>2. /\ SumOf(Len(chunk)) <= SumOf(CHUNK_SIZE) /\ SumOf(Len(chunk)) \in Nat
              /\ SumOf(CHUNK_SIZE) \in Nat /\ Sums = 0 .. SumOf(CHUNK_SIZE)
            BY <3>1, SumFacts
        <3> QED BY <3>1, <3>2
    <2> QED BY <1>1, <2>1 DEF IInv, Typed, SumInv, TypeOK, Replies, Answers
<1>2. Init => IInv /\ SumInv
    BY InitIInv, InitSum
<1>3. IInv /\ SumInv /\ [Next]_vars => IInv' /\ SumInv'
    BY NextIInv, NextSum
<1> QED BY <1>1, <1>2, <1>3, PTL DEF Spec

-----------------------------------------------------------------------------
(***************************************************************************)
(* Sums.  Total adds up a sequence key by key, while the code adds up one  *)
(* chunk at a time and A two replies: the totals of two sequences are      *)
(* those of the two put together.                                          *)
(***************************************************************************)
\* A hash value is an integer.
LEMMA HashIsInt == \A key \in Int : HashKey(key) \in Int
    BY HashTyped, SizeAssumption

\* One step of Total: the value of a key and the sum before it.
TotalStep == [x \in Int \X Int |-> x[2] + HashKey(x[1])]

\* f is the recursion of Total along q.
TotalsOf(f, q) == SolvesAlong(f, q, Int, 0, TotalStep)

\* Total is the last value of that recursion.
LEMMA TotalSolved ==
    ASSUME NEW q \in Seq(Int)
    PROVE  \E f : TotalsOf(f, q) /\ Total(q) = f[Len(q)]
<1> DEFINE n == Len(q)
           body(f) == [i \in 0 .. n |-> IF i = 0 THEN 0 ELSE f[i - 1] + HashKey(q[i])]
           u == CHOOSE f : f = body(f)
<1>1. n \in Nat /\ \A i \in 1 .. n : q[i] \in Int
    BY LenProperties, ElementOfSeq
<1>2. \A i \in Int, s \in Int : TotalStep[<<i, s>>] = s + HashKey(i) /\ s + HashKey(i) \in Int
  <2> SUFFICES ASSUME NEW i \in Int, NEW s \in Int
               PROVE  TotalStep[<<i, s>>] = s + HashKey(i) /\ s + HashKey(i) \in Int
    OBVIOUS
  <2>1. HashKey(i) \in Int /\ <<i, s>> \in Int \X Int
    BY HashIsInt
  <2>2. TotalStep[<<i, s>>] = s + HashKey(i)
    BY <2>1 DEF TotalStep
  <2> QED BY <2>1, <2>2
<1>3. StepsOver(TotalStep, Int, Int)
    BY <1>2 DEF StepsOver
<1>4. PICK g : SolvesAlong(g, q, Int, 0, TotalStep)
    BY <1>3, AlongExists
<1>5. g = body(g)
  <2>1. g \in [0 .. n -> Int] /\ g[0] = 0
    BY <1>4 DEF SolvesAlong
  <2>2. ASSUME NEW i \in 0 .. n PROVE g[i] = body(g)[i]
    <3>1. CASE i = 0
      BY <2>1, <3>1, <1>1
    <3>2. CASE i # 0
      <4>1. i \in 1 .. n /\ i - 1 \in 0 .. n
        BY <1>1, <3>2
      <4>2. g[i] = TotalStep[<<q[i], g[i - 1]>>] /\ g[i - 1] \in Int /\ q[i] \in Int
        BY <1>1, <1>4, <2>1, <4>1 DEF SolvesAlong
      <4> HIDE DEF n
      <4> QED BY <1>2, <3>2, <4>2
    <3> QED BY <3>1, <3>2
  <2> HIDE DEF n
  <2> QED BY <2>1, <2>2
<1>6. u = body(u)
    BY <1>5
<1>7. Total(q) = u[n]
    BY DEF Total
<1> HIDE DEF u
<1>8. SolvesAlong(u, q, Int, 0, TotalStep)
  <2>1. u[0] = 0 /\ \A i \in 1 .. n : u[i] = u[i - 1] + HashKey(q[i])
    <3>1. u[0] = 0
      BY <1>1, <1>6
    <3>2. ASSUME NEW i \in 1 .. n PROVE u[i] = u[i - 1] + HashKey(q[i])
      <4>1. i \in 0 .. n /\ i # 0
        BY <1>1
      <4> HIDE DEF n
      <4> QED BY <1>6, <4>1
    <3> QED BY <3>1, <3>2
  <2> HIDE DEF n
  <2>2. \A i \in 0 .. n : u[i] \in Int
    <3>1. \A i \in 1 .. n : u[i - 1] \in Int => u[i] \in Int
      BY <1>1, <1>2, <2>1
    <3>2. u[0] \in Int
      BY <2>1
    <3> QED BY <1>1, <3>1, <3>2, RecursionTyped
  <2>3. u = [i \in 0 .. n |-> u[i]]
    BY <1>6
  <2>4. u \in [0 .. n -> Int]
    BY <2>2, <2>3
  <2>5. ASSUME NEW i \in 1 .. n PROVE u[i] = TotalStep[<<q[i], u[i - 1]>>]
    <3>1. i - 1 \in 0 .. n /\ q[i] \in Int
      BY <1>1
    <3>2. u[i - 1] \in Int
      BY <2>2, <3>1
    <3> QED BY <1>2, <2>1, <3>1, <3>2
  <2> QED BY <2>1, <2>4, <2>5 DEF SolvesAlong, n
<1> QED BY <1>7, <1>8 DEF TotalsOf

\* No keys add up to 0, and one key more adds its value.
LEMMA TotalOfKeys ==
    /\ Total(<<>>) = 0
    /\ \A q \in Seq(Int) : Total(q) \in Int
    /\ \A q \in Seq(Int), e \in Int : Total(Append(q, e)) = Total(q) + HashKey(e)
<1>1. Total(<<>>) = 0
  <2>1. <<>> \in Seq(Int) /\ Len(<<>>) = 0
    BY EmptySeq
  <2> QED BY <2>1, TotalSolved DEF TotalsOf, SolvesAlong
<1>2. ASSUME NEW q \in Seq(Int) PROVE Total(q) \in Int
  <2>1. PICK f : TotalsOf(f, q) /\ Total(q) = f[Len(q)]
    BY TotalSolved
  <2>2. Len(q) \in 0 .. Len(q)
    BY LenProperties
  <2> QED BY <2>1, <2>2 DEF TotalsOf, SolvesAlong
<1>3. ASSUME NEW q \in Seq(Int), NEW e \in Int
      PROVE  Total(Append(q, e)) = Total(q) + HashKey(e)
  <2>1. PICK f : TotalsOf(f, q) /\ Total(q) = f[Len(q)]
    BY TotalSolved
  <2>2. Append(q, e) \in Seq(Int) /\ Len(Append(q, e)) = Len(q) + 1
    BY AppendProperties
  <2>3. PICK g : TotalsOf(g, Append(q, e)) /\ Total(Append(q, e)) = g[Len(q) + 1]
    BY <2>2, TotalSolved
  <2>4. g[Len(q) + 1] = TotalStep[<<e, f[Len(q)]>>]
    <3>1. /\ SolvesAlong(f, q, Int, 0, TotalStep)
          /\ SolvesAlong(g, Append(q, e), Int, 0, TotalStep)
      BY <2>1, <2>3 DEF TotalsOf
    <3> HIDE DEF TotalStep
    <3>2. ASSUME NEW Z, q \in Seq(Z), e \in Z,
                 SolvesAlong(f, q, Z, 0, TotalStep),
                 SolvesAlong(g, Append(q, e), Z, 0, TotalStep)
          PROVE  g[Len(q) + 1] = TotalStep[<<e, f[Len(q)]>>]
      BY <3>2, AlongAppend
    <3> QED BY <3>1, <3>2
  <2>5. <<e, Total(q)>> \in Int \X Int
    BY <1>2
  <2> QED BY <2>1, <2>3, <2>4, <2>5 DEF TotalStep
<1> QED BY <1>1, <1>2, <1>3

\* The totals of two sequences are added when they are put together.
LEMMA TotalOfConcat ==
    ASSUME NEW p \in Seq(Int), NEW r \in Seq(Int)
    PROVE  Total(p \o r) = Total(p) + Total(r)
<1> DEFINE Q == {q \in Seq(Int) : Total(p \o q) = Total(p) + Total(q)}
<1>1. <<>> \in Q
  <2>1. p \o <<>> = p /\ <<>> \in Seq(Int)
    BY ConcatEmptySeq, EmptySeq
  <2> QED BY <2>1, TotalOfKeys
<1>2. ASSUME NEW q \in Seq(Int), NEW e \in Int, q \in Q PROVE Append(q, e) \in Q
  <2>1. Append(q, e) \in Seq(Int) /\ Append(q, e) = q \o <<e>> /\ <<e>> \in Seq(Int)
    BY AppendProperties, AppendIsConcat
  <2>2. p \o q \in Seq(Int)
    BY ConcatProperties
  <2>3. p \o Append(q, e) = Append(p \o q, e)
    <3>1. (p \o q) \o <<e>> = p \o (q \o <<e>>)
      BY <2>1, ConcatAssociative
    <3>2. Append(p \o q, e) = (p \o q) \o <<e>>
      BY <2>2, AppendIsConcat
    <3> QED BY <2>1, <3>1, <3>2
  <2>4. /\ Total(Append(p \o q, e)) = Total(p \o q) + HashKey(e)
        /\ Total(Append(q, e)) = Total(q) + HashKey(e)
        /\ Total(p \o q) = Total(p) + Total(q)
        /\ Total(p) \in Int /\ Total(q) \in Int /\ HashKey(e) \in Int
    <3>1. Total(p \o q) = Total(p) + Total(q)
      BY <1>2
    <3> QED BY <2>2, <3>1, TotalOfKeys, HashIsInt
  <2>5. Total(p \o Append(q, e)) = Total(p) + Total(Append(q, e))
    <3> DEFINE a == Total(p)
               b == Total(q)
               h == HashKey(e)
    <3>1. /\ Total(Append(p \o q, e)) = (a + b) + h
          /\ Total(Append(q, e)) = b + h
          /\ a \in Int /\ b \in Int /\ h \in Int
      BY <2>4
    <3> HIDE DEF a, b, h
    <3>2. (a + b) + h = a + (b + h)
      BY <3>1
    <3> QED BY <2>3, <3>1, <3>2 DEF a
  <2> QED BY <2>1, <2>5
<1> HIDE DEF Q
<1>3. Seq(Int) \subseteq Q
    BY <1>1, <1>2, SeqSetInduction
<1> QED BY <1>3 DEF Q

\* The chunks made, the current one, the replies and the answer have the sums
\* of their keys.
Summed ==
    /\ \A i \in 1 .. Len(results) : results[i].sum = Total(results[i].keys)
    /\ sum = Total(chunk)
    /\ \A t \in Teams : got[t].sum = Total(got[t].keys)
    /\ answer.sum = Total(answer.keys)

\* A chunk that is finished has the sum that was kept for it.
LEMMA PushSummed ==
    ASSUME NEW c, NEW v, v = Total(c), Push(c, v), SumInv,
           [keys |-> c, sum |-> v] \in ChunkRecs,
           \A i \in 1 .. Len(results) : results[i].sum = Total(results[i].keys)
    PROVE  /\ \A i \in 1 .. Len(results') : results'[i].sum = Total(results'[i].keys)
           /\ sum' = Total(chunk')
<1> DEFINE r == [keys |-> c, sum |-> v]
           n == Len(results)
<1>1. results \in Seq(ChunkRecs) /\ n \in Nat
    BY LenProperties DEF SumInv
<1>2. results' = Append(results, r) /\ chunk' = <<>> /\ sum' = 0
    BY DEF Push
<1>3. r.sum = Total(r.keys) /\ r \in ChunkRecs
    OBVIOUS
<1> HIDE DEF r
<1>4. /\ Len(results') = n + 1 /\ results'[n + 1] = r
      /\ \A i \in 1 .. n : results'[i] = results[i]
    BY <1>1, <1>2, <1>3, AppendProperties
<1>5. ASSUME NEW i \in 1 .. n + 1 PROVE results'[i].sum = Total(results'[i].keys)
    <2>1. i \in 1 .. n \/ i = n + 1
        BY <1>1
    <2> QED BY <1>3, <1>4, <2>1
<1>6. sum' = Total(chunk')
    BY <1>2, TotalOfKeys
<1> QED BY <1>4, <1>5, <1>6

\* An iteration adds the value of its key to the sum, and the key to the chunk.
LEMMA IterateSummed == IInv /\ SumInv /\ Summed /\ Iterate => Summed'
<1> SUFFICES ASSUME IInv, SumInv, Summed, Iterate PROVE Summed'
    OBVIOUS
<1> DEFINE c == Append(chunk, k)
           v == sum + Data(at)[k]
<1>1. UNCHANGED <<got, answer>> /\ pc = "loop"
    BY DEF Iterate
<1>2. CASE k \notin DOMAIN Data(at)
    BY <1>1, <1>2 DEF Iterate, Summed
<1>3. CASE k \in DOMAIN Data(at)
    <2>1. at \in DOMAIN Partition /\ k \in Int /\ k \in Int32
        BY <1>1, IntsAreInts DEF IInv, LoopInv, Typed
    <2>2. Data(at)[k] = HashKey(k)
        BY <1>3, <2>1, BoundsTyped, DataTyped DEF IInv
    <2>3. v = Total(c)
        <3>1. chunk \in Seq(Int)
            BY SeqOfInts DEF IInv, Typed
        <3> QED BY <2>1, <2>2, <3>1, TotalOfKeys DEF Summed
    <2>4. AddPair(Data(at)[k])
        BY <1>3 DEF Iterate
    <2>5. CASE Len(c) >= CHUNK_SIZE
        <3>1. Push(c, v)
            BY <2>4, <2>5 DEF AddPair
        <3>2. [keys |-> c, sum |-> v] \in ChunkRecs
            <4>1. /\ chunk \in Seq(Int32) /\ Len(chunk) \in Nat
                  /\ Len(chunk) < CHUNK_SIZE /\ sum \in 0 .. SumOf(Len(chunk))
                BY CurrentChunk
            <4>2. /\ c \in Seq(Int32) /\ Len(c) = Len(chunk) + 1
                BY <2>1, <4>1, AppendProperties
            <4>3. v \in 0 .. SumOf(Len(c))
                <5>1. SumOf(Len(c)) = SumOf(Len(chunk)) + (Modulus - 1)
                      /\ SumOf(Len(chunk)) \in Nat
                    BY <4>1, <4>2, SumFacts
                <5>2. HashKey(k) \in 0 .. Modulus - 1
                    BY <2>1, HashTyped
                <5> QED BY <2>2, <4>1, <5>1, <5>2, SizeAssumption
            <4>4. Len(c) <= CHUNK_SIZE
                BY <4>1, <4>2, SizeAssumption
            <4> HIDE DEF c, v
            <4> QED BY <4>2, <4>3, <4>4, ChunkTyped
        <3> HIDE DEF c, v
        <3>3. /\ \A i \in 1 .. Len(results') : results'[i].sum = Total(results'[i].keys)
              /\ sum' = Total(chunk')
            BY <2>3, <3>1, <3>2, PushSummed DEF Summed
        <3> QED BY <1>1, <3>3 DEF Summed
    <2>6. CASE ~(Len(c) >= CHUNK_SIZE)
        <3>1. chunk' = c /\ sum' = v /\ UNCHANGED results
            BY <2>4, <2>6 DEF AddPair
        <3> HIDE DEF c, v
        <3> QED BY <1>1, <2>3, <3>1 DEF Summed
    <2> QED BY <2>5, <2>6
<1> QED BY <1>2, <1>3

\* The first chunk is the reply, with its sum.
LEMMA ReturnSummed == IInv /\ SumInv /\ Summed /\ Return => Summed'
<1> SUFFICES ASSUME IInv, SumInv, Summed, Return PROVE Summed'
    OBVIOUS
<1> DEFINE a == IF results' = <<>> THEN Result(<<>>, 0)
                ELSE Result(results'[1].keys, results'[1].sum)
<1>1. UNCHANGED answer /\ got' = [got EXCEPT ![NextTeam] = a]
    BY DEF Return
<1>2. /\ \A i \in 1 .. Len(results') : results'[i].sum = Total(results'[i].keys)
      /\ sum' = Total(chunk')
    <2>1. CASE chunk # <<>>
        <3>1. Push(chunk, sum)
            BY <2>1 DEF Return
        <3>2. [keys |-> chunk, sum |-> sum] \in ChunkRecs
            <4>1. Len(chunk) <= CHUNK_SIZE
                BY CurrentChunk, SizeAssumption
            <4> QED BY <4>1, CurrentChunk, ChunkTyped
        <3> QED BY <3>1, <3>2, PushSummed DEF Summed
    <2>2. CASE chunk = <<>>
        BY <2>2 DEF Return, Summed
    <2> QED BY <2>1, <2>2
<1>3. a.sum = Total(a.keys)
    <2>1. CASE results' = <<>>
        BY <2>1, TotalOfKeys DEF Result
    <2>2. CASE results' # <<>>
        <3>1. results' \in Seq(ChunkRecs)
            <4>1. SumInv'
                BY ReturnSum
            <4> QED BY <4>1 DEF SumInv
        <3>2. 1 \in 1 .. Len(results')
            <4>1. Len(results') \in Nat /\ Len(results') # 0
                BY <2>2, <3>1, LenProperties, EmptySeq
            <4> QED BY <4>1
        <3> QED BY <1>2, <2>2, <3>2 DEF Result
    <2> QED BY <2>1, <2>2
<1> HIDE DEF a
<1>4. \A t \in Teams : got'[t].sum = Total(got'[t].keys)
    BY <1>1, <1>3 DEF Summed, SumInv
<1> QED BY <1>1, <1>2, <1>4 DEF Summed

\* The sums of the replies are added, as their keys are put together.
LEMMA MergeSummed == SumInv /\ Summed /\ Merge => Summed'
<1> SUFFICES ASSUME SumInv, Summed, Merge PROVE Summed'
    OBVIOUS
<1> DEFINE g == got["GREEN"]
           p == got["PINK"]
<1>1. UNCHANGED <<chunk, sum, results, got>>
    BY DEF Merge, loop
<1>2. /\ g.keys \in Seq(Int) /\ p.keys \in Seq(Int)
      /\ g.sum = Total(g.keys) /\ p.sum = Total(p.keys)
    <2>1. got["GREEN"] \in Replies /\ got["PINK"] \in Replies
        BY DEF SumInv, Teams
    <2>2. g.keys \in Seq(Int32) /\ p.keys \in Seq(Int32)
        BY <2>1 DEF Replies
    <2>3. g.sum = Total(g.keys) /\ p.sum = Total(p.keys)
        BY DEF Summed, Teams
    <2> QED BY <2>2, <2>3, SeqOfInts
<1> HIDE DEF g, p
<1>3. Merged(g, p).sum = Total(Merged(g, p).keys)
    BY <1>2, TotalOfConcat DEF Merged, Result
<1>4. Failed.sum = Total(Failed.keys)
    BY TotalOfKeys DEF Failed
<1>5. answer' = Merged(g, p) \/ answer' = Failed
    BY DEF Merge, g, p
<1> QED BY <1>1, <1>3, <1>4, <1>5 DEF Summed

\* Every step keeps sums and keys together.
LEMMA NextSummed == IInv /\ SumInv /\ Summed /\ [Next]_vars => Summed'
<1> SUFFICES ASSUME IInv, SumInv, Summed, [Next]_vars PROVE Summed'
    OBVIOUS
<1>1. CASE Ask
    BY <1>1 DEF Ask, Summed, loop
<1>2. CASE CallTeam
    <2>1. UNCHANGED <<got, answer>>
        BY <1>2 DEF CallTeam
    <2>2. CASE UNCHANGED <<pc, at, loop>>
        BY <2>1, <2>2 DEF Summed, loop
    <2>3. CASE chunk' = <<>> /\ sum' = 0 /\ results' = <<>>
        <3>1. Len(results') = 0 /\ sum' = Total(chunk')
            BY <2>3, TotalOfKeys
        <3> QED BY <2>1, <3>1 DEF Summed
    <2> QED BY <1>2, <2>2, <2>3 DEF CallTeam
<1>3. CASE UNCHANGED vars
    BY <1>3 DEF vars, Summed
<1> QED BY <1>1, <1>2, <1>3, IterateSummed, ReturnSummed, MergeSummed DEF Next, Serve

\* For every partition, range and chunk size: whoever adds up the values of the
\* pairs gets the partial_sum that comes with them, in every chunk that a
\* worker makes and in A's merge of what the two teams returned.
THEOREM SumsAgreeAlways == Spec => []SumsAgree
<1>1. Init => Summed
    <2> SUFFICES ASSUME Init PROVE Summed
        OBVIOUS
    <2>1. /\ results = <<>> /\ chunk = <<>> /\ sum = 0
          /\ got = [t \in Teams |-> Failed] /\ answer = Failed
        BY DEF Init
    <2>2. Len(results) = 0 /\ Failed.sum = Total(Failed.keys) /\ sum = Total(chunk)
        BY <2>1, TotalOfKeys DEF Failed
    <2> QED BY <2>1, <2>2 DEF Summed
<1>2. SumInv /\ Summed => SumsAgree
    <2> SUFFICES ASSUME SumInv, Summed PROVE SumsAgree
        OBVIOUS
    <2>1. DOMAIN results = 1 .. Len(results)
        <3>1. results \in Seq(ChunkRecs)
            BY DEF SumInv
        <3> QED BY <3>1, LenProperties
    <2> QED BY <2>1 DEF Summed, SumsAgree
<1>3. Init => IInv /\ SumInv
    BY InitIInv, InitSum
<1>4. IInv /\ SumInv /\ Summed /\ [Next]_vars => IInv' /\ SumInv' /\ Summed'
    BY NextIInv, NextSum, NextSummed
<1> QED BY <1>1, <1>2, <1>3, <1>4, PTL DEF Spec

-----------------------------------------------------------------------------
(***************************************************************************)
(* The loop ends                                                           *)
(***************************************************************************)
\* More than the steps of one team's call: no worker has more keys than there
\* are ints.
Span    == 2 * MaxInt + 5
Owed(T) == (IF "GREEN" \in T THEN Span ELSE 0) + (IF "PINK" \in T THEN Span ELSE 0)

\* How many steps the query takes at most from here.
StepsLeft ==
    CASE pc = "idle" -> 2 * Span + 2
      [] pc = "next" -> Owed(query.target \ asked) + 1
      [] pc = "loop" -> Owed(query.target \ (asked \cup {NextTeam})) + 2
                          + (IF k <= End(at) THEN End(at) - k + 1 ELSE 0)
      [] OTHER       -> 0

StepsBounded == StepsLeft \in 0 .. 2 * Span + 2

\* The safety half of Answered: every step is one towards the answer, those of
\* the loop, whose int comes near its limit, among them.
LoopEnds == [][StepsLeft' < StepsLeft]_vars

\* What is owed for a set of teams, and for one team less.
LEMMA OwedFacts ==
    /\ Span \in Nat /\ Span >= 5
    /\ \A T : Owed(T) \in {0, Span, 2 * Span}
    /\ Typed /\ query.target \ asked # {} =>
         Owed(query.target \ asked) = Owed(query.target \ (asked \cup {NextTeam})) + Span
<1>1. Span \in Nat /\ Span >= 5
    BY SizeAssumption DEF Span
<1>2. \A T : Owed(T) \in {0, Span, 2 * Span}
  <2> HIDE DEF Span
  <2> QED BY <1>1 DEF Owed
<1>3. ASSUME Typed, query.target \ asked # {}
      PROVE  Owed(query.target \ asked) = Owed(query.target \ (asked \cup {NextTeam})) + Span
  <2>1. query.target \subseteq {"GREEN", "PINK"}
    BY <1>3 DEF Typed, Teams
  <2>2. CASE "GREEN" \in query.target \ asked
    <3>1. /\ NextTeam = "GREEN" /\ "GREEN" \notin query.target \ (asked \cup {NextTeam})
          /\ "PINK" \in query.target \ asked <=> "PINK" \in query.target \ (asked \cup {NextTeam})
      BY <2>2 DEF NextTeam
    <3> HIDE DEF Span
    <3> QED BY <1>1, <2>2, <3>1 DEF Owed
  <2>3. CASE "GREEN" \notin query.target \ asked
    <3>1. /\ NextTeam = "PINK" /\ "PINK" \in query.target \ asked
          /\ "PINK" \notin query.target \ (asked \cup {NextTeam})
          /\ "GREEN" \notin query.target \ (asked \cup {NextTeam})
      BY <1>3, <2>1, <2>3 DEF NextTeam
    <3> HIDE DEF Span
    <3> QED BY <1>1, <2>3, <3>1 DEF Owed
  <2> QED BY <2>2, <2>3
<1> QED BY <1>1, <1>2, <1>3

\* The keys a worker has left are fewer than the ints.
LEMMA KeysLeft ==
    ASSUME IInv, NEW n \in DOMAIN Partition, NEW i \in Int32
    PROVE  /\ i \in Int /\ End(n) \in Int
           /\ (IF i <= End(n) THEN End(n) - i + 1 ELSE 0) \in 0 .. 2 * MaxInt + 1
<1>1. End(n) \in Int /\ End(n) < MaxInt /\ i \in Int /\ i >= 0 - MaxInt - 1
    BY BoundsTyped, IntsAreInts, SizeAssumption DEF IInv, Int32
<1> QED BY <1>1, SizeAssumption

\* There is never more to do than for two whole teams.
LEMMA StepsLeftBounded == IInv => StepsBounded
<1> SUFFICES ASSUME IInv PROVE StepsLeft \in 0 .. 2 * Span + 2
    BY DEF StepsBounded
<1>1. CASE pc = "loop"
  <2> DEFINE o == Owed(query.target \ (asked \cup {NextTeam}))
             m == IF k <= End(at) THEN End(at) - k + 1 ELSE 0
  <2>1. m \in 0 .. 2 * MaxInt + 1
    BY <1>1, KeysLeft DEF IInv, LoopInv, Typed
  <2>2. o + Span = Owed(query.target \ asked) /\ o \in {0, Span, 2 * Span}
    BY <1>1, OwedFacts DEF IInv, LoopInv
  <2>3. Owed(query.target \ asked) \in {0, Span, 2 * Span} /\ Span \in Nat
    BY OwedFacts
  <2>4. StepsLeft = o + 2 + m
    BY <1>1 DEF StepsLeft
  <2> HIDE DEF o, m
  <2>5. o \in {0, Span}
    <3> HIDE DEF Span
    <3> QED BY <2>2, <2>3, OwedFacts
  <2> QED BY <2>1, <2>4, <2>5, SizeAssumption DEF Span
<1>2. CASE pc # "loop"
  <2> HIDE DEF Span
  <2> QED BY <1>2, OwedFacts DEF StepsLeft
<1> QED BY <1>1, <1>2

\* Every step leaves fewer.
LEMMA NextStepsLeft == IInv /\ Next => StepsLeft' < StepsLeft
<1> SUFFICES ASSUME IInv, Next PROVE StepsLeft' < StepsLeft
    OBVIOUS
<1>0. Typed /\ LoopInv
    BY DEF IInv
<1>1. CASE Ask
  <2>1. pc = "idle" /\ pc' = "next" /\ Owed(query.target \ asked)' \in {0, Span, 2 * Span}
    <3>1. \A T : Owed(T) \in {0, Span, 2 * Span}
      BY OwedFacts
    <3> QED BY <1>1, <3>1 DEF Ask, Owed
  <2> HIDE DEF Span
  <2> QED BY <2>1, OwedFacts DEF StepsLeft, Span
<1>2. CASE CallTeam
  <2> DEFINE w == WorkerOf(TeamLeader[NextTeam])
             o == Owed(query.target \ (asked \cup {NextTeam}))
  <2>1. pc = "next" /\ query.target \ asked # {} /\ UNCHANGED query
    BY <1>2 DEF CallTeam
  <2>2. StepsLeft = o + Span + 1 /\ o \in Nat /\ Span \in Nat /\ Span >= 5
    <3>1. Owed(query.target \ asked) = o + Span
      BY <1>0, <2>1, OwedFacts
    <3>2. StepsLeft = o + Span + 1
      BY <2>1, <3>1 DEF StepsLeft
    <3>3. o \in {0, Span, 2 * Span} /\ Span \in Nat /\ Span >= 5
      BY OwedFacts
    <3> HIDE DEF o, Span
    <3> QED BY <3>2, <3>3
  <2>3. CASE asked' = asked \cup {NextTeam} /\ UNCHANGED <<pc, at, loop>>
    <3>1. StepsLeft' = o + 1
      BY <2>1, <2>3 DEF StepsLeft, Owed, Span
    <3> HIDE DEF o, Span
    <3> QED BY <2>2, <3>1
  <2>4. CASE /\ w \in DOMAIN Partition
             /\ at' = w /\ pc' = "loop" /\ k' = Start(w) /\ UNCHANGED asked
    <3> DEFINE m == IF Start(w) <= End(w) THEN End(w) - Start(w) + 1 ELSE 0
    <3>1. m \in 0 .. 2 * MaxInt + 1
      BY <1>0, <2>4, BoundsTyped, KeysLeft
    <3>2. NextTeam' = NextTeam /\ End(at)' = End(w)
      BY <2>1, <2>4 DEF NextTeam, End
    <3>3. StepsLeft' = o + 2 + m
      BY <2>1, <2>4, <3>2 DEF StepsLeft, Owed, Span
    <3> HIDE DEF o, m
    <3> QED BY <2>2, <3>1, <3>3, SizeAssumption DEF Span
  <2> QED BY <1>2, <2>3, <2>4 DEF CallTeam
<1>3. CASE Iterate
  <2> DEFINE o == Owed(query.target \ (asked \cup {NextTeam}))
  <2>1. /\ pc = "loop" /\ k <= End(at) /\ k' = k + 1
        /\ UNCHANGED <<pc, query, asked, at>>
    BY <1>3 DEF Iterate
  <2>2. k \in Int /\ End(at) \in Int
    BY <1>0, <2>1, KeysLeft DEF LoopInv, Typed
  <2>3. NextTeam' = NextTeam /\ End(at)' = End(at)
    BY <2>1 DEF NextTeam, End
  <2>4. StepsLeft = o + 2 + (End(at) - k + 1)
    BY <2>1 DEF StepsLeft
  <2>5. StepsLeft' = o + 2 + (IF k + 1 <= End(at) THEN End(at) - (k + 1) + 1 ELSE 0)
    BY <2>1, <2>3 DEF StepsLeft, Owed, Span
  <2>6. o \in {0, Span, 2 * Span} /\ Span \in Nat
    BY OwedFacts
  <2> HIDE DEF o, Span
  <2> QED BY <2>1, <2>2, <2>4, <2>5, <2>6
<1>4. CASE Return
  <2> DEFINE o == Owed(query.target \ (asked \cup {NextTeam}))
  <2>1. /\ pc = "loop" /\ ~(k <= End(at)) /\ pc' = "next"
        /\ asked' = asked \cup {NextTeam} /\ UNCHANGED query
    <3>1. k \in Int /\ End(at) \in Int
      BY <1>0, <1>4, KeysLeft DEF Return, LoopInv, Typed
    <3> QED BY <1>4, <3>1 DEF Return
  <2>2. StepsLeft = o + 2
    <3>1. StepsLeft = o + 2 + 0
      BY <2>1 DEF StepsLeft
    <3>2. o \in {0, Span, 2 * Span} /\ Span \in Nat
      BY OwedFacts
    <3> HIDE DEF o, Span
    <3> QED BY <3>1, <3>2
  <2>3. StepsLeft' = o + 1
    BY <2>1 DEF StepsLeft, Owed, Span
  <2>4. o \in {0, Span, 2 * Span} /\ Span \in Nat
    BY OwedFacts
  <2> HIDE DEF o, Span
  <2> QED BY <2>2, <2>3, <2>4
<1>5. CASE Merge
  <2>1. pc = "next" /\ pc' = "done"
    BY <1>5 DEF Merge
  <2>2. Owed(query.target \ asked) \in {0, Span, 2 * Span} /\ Span \in Nat
    BY OwedFacts
  <2>3. StepsLeft' = 0 /\ StepsLeft = Owed(query.target \ asked) + 1
    BY <2>1 DEF StepsLeft
  <2> HIDE DEF Span
  <2> QED BY <2>2, <2>3
<1> QED BY <1>1, <1>2, <1>3, <1>4, <1>5 DEF Next, Serve

\* What Answered needs beside fairness: whatever the range and the partitions,
\* a query is answered within a number of steps known from the width of int;
\* the key of the loop neither wraps around nor misses its bound.
THEOREM LoopAlwaysEnds == Spec => []StepsBounded /\ LoopEnds
<1>1. IInv /\ [Next]_vars => [StepsLeft' < StepsLeft]_vars
    BY NextStepsLeft
<1> QED BY <1>1, InitIInv, NextIInv, StepsLeftBounded, PTL DEF Spec, LoopEnds
=============================================================================
