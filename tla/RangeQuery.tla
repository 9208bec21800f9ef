------------------------------ MODULE RangeQuery ------------------------------
(***************************************************************************)
(* The data of one chunked query: leader A asks the teams one after the    *)
(* other, the team leader picks its worker, the worker cuts the range into *)
(* chunks and returns the first, and A merges what it got.  QuerySystem    *)
(* has the concurrency of this path and takes the first chunks as given;   *)
(* here they are computed, with the 32-bit keys of the code.               *)
(***************************************************************************)
EXTENDS Integers, Sequences

CONSTANTS
    Neighbors,   \* node -> its neighbours, in the order of the topology file
    ByName,      \* all nodes in the order of their names
    TeamOf,      \* node -> team
    TeamLeader,  \* team -> its leader, which A calls by name
    PyNodes,     \* nodes that run the Python servers
    Partition,   \* node with a dataset -> <<key_min, key_max>>
    CHUNK_SIZE,  \* pairs in a chunk
    MaxInt,      \* the largest int
    Prime1, Prime2, Modulus,  \* of HashKey
    Queries      \* the ranges asked for

Teams == {"GREEN", "PINK"}
Int32 == (0 - MaxInt - 1) .. MaxInt

ASSUME SizeAssumption == /\ CHUNK_SIZE \in Nat \ {0}
                         /\ MaxInt \in Nat
                         /\ Prime1 \in Nat /\ Prime2 \in Nat
                         /\ Modulus \in Nat \ {0}
ASSUME QueriesAssumption == Queries \subseteq Int32 \X Int32
ASSUME PartitionAssumption ==
    \A n \in DOMAIN Partition :
      Partition[n] \in Int32 \X Int32 /\ Partition[n][2] < MaxInt
ASSUME TopologyAssumption ==
    TeamLeader \in [Teams -> DOMAIN Neighbors] /\ TeamOf \in [DOMAIN Neighbors -> STRING]

VARIABLES
    pc,      \* "idle", "next" team, "loop" of QueryRange, "done"
    query,   \* the range and the target
    asked,   \* teams asked so far
    at,      \* the worker in the loop
    k,       \* QueryRange: the key,
    chunk,   \* the keys of current_chunk,
    sum,     \* partial_sum
    results, \* and the chunks made, as records of keys and sum
    got,     \* team -> reply of its call
    answer   \* A's reply

loop == <<k, chunk, sum, results>>
vars == <<pc, query, asked, at, k, chunk, sum, results, got, answer>>

HashKey(key) == (key * Prime1 + Prime2) % Modulus

\* GenerateData.
Data(n) == [key \in Partition[n][1] .. Partition[n][2] |-> HashKey(key)]

\* A serialized KVResult, or the failure of a call.
Result(keys, s) == [ok |-> TRUE, keys |-> keys, sum |-> s]
Failed == [ok |-> FALSE, keys |-> <<>>, sum |-> 0]

\* Fault: every node goes through its neighbours by name.
WorkerOfByName(n) ==
    LET ours == SelectSeq(ByName, LAMBDA m :
                  /\ \E i \in DOMAIN Neighbors[n] : Neighbors[n][i] = m
                  /\ TeamOf[m] = TeamOf[n]
                  /\ \A t \in Teams : TeamLeader[t] # m)
    IN  IF ours = <<>> THEN "" ELSE ours[1]

\* The first neighbour of the own team that is no team leader: the C++ nodes
\* go through a map by name, the Python ones through the list of the file.
WorkerOf(n) ==
    LET near == {Neighbors[n][i] : i \in DOMAIN Neighbors[n]}
        all  == IF n \in PyNodes THEN Neighbors[n]
                ELSE SelectSeq(ByName, LAMBDA m : m \in near)
        ours == SelectSeq(all, LAMBDA m : /\ TeamOf[m] = TeamOf[n]
                                          /\ \A t \in Teams : TeamLeader[t] # m)
    IN  IF ours = <<>> THEN "" ELSE ours[1]

Init ==
    /\ pc = "idle"
    /\ query = [range |-> <<0, 0>>, target |-> {}]
    /\ asked = {}
    /\ at = ""
    /\ k = 0 /\ chunk = <<>> /\ sum = 0 /\ results = <<>>
    /\ got = [t \in Teams |-> Failed]
    /\ answer = Failed

-----------------------------------------------------------------------------
\* A client's InitQuery; TEAM_UNSPECIFIED asks for no team.
Ask ==
    /\ pc = "idle"
    /\ \E q \in Queries, T \in SUBSET Teams :
         query' = [range |-> q, target |-> T]
    /\ pc' = "next"
    /\ UNCHANGED <<asked, at, loop, got, answer>>

NextTeam ==
    IF "GREEN" \in query.target \ asked THEN "GREEN" ELSE "PINK"

Start(n) == IF query.range[1] < Partition[n][1] THEN Partition[n][1]
            ELSE query.range[1]

\* Fault: the upper bound is not clamped; keys not found are skipped anyway.
EndUnclamped(n) == query.range[2]

End(n) == IF query.range[2] > Partition[n][2] THEN Partition[n][2]
           ELSE query.range[2]

\* The call of a team leader fails for good (it is down, its worker is, the
\* worker has no dataset), or its worker starts the loop.
CallTeam ==
    /\ pc = "next"
    /\ query.target \ asked # {}
    /\ LET w == WorkerOf(TeamLeader[NextTeam]) IN
       \/ /\ asked' = asked \cup {NextTeam}
          /\ UNCHANGED <<pc, at, loop>>
       \/ /\ w \in DOMAIN Partition
          /\ at' = w
          /\ pc' = "loop"
          /\ k' = Start(w)
          /\ chunk' = <<>> /\ sum' = 0 /\ results' = <<>>
          /\ UNCHANGED asked
    /\ UNCHANGED <<query, got, answer>>

\* Fault: the next chunk starts with the old sum.
PushKeepsSum(c, s) ==
    results' = Append(results, [keys |-> c, sum |-> s]) /\ chunk' = <<>> /\ sum' = s

\* The chunk is finished and a new one started.
Push(c, s) ==
    results' = Append(results, [keys |-> c, sum |-> s]) /\ chunk' = <<>> /\ sum' = 0

\* Fault: a chunk is finished one pair too late.
AddPairLate(v) ==
    LET c == Append(chunk, k) s == sum + v
    IN  IF Len(c) > CHUNK_SIZE
          THEN Push(c, s)
          ELSE chunk' = c /\ sum' = s /\ UNCHANGED results

AddPair(v) ==
    LET c == Append(chunk, k) s == sum + v
    IN  IF Len(c) >= CHUNK_SIZE
          THEN Push(c, s)
          ELSE chunk' = c /\ sum' = s /\ UNCHANGED results

Iterate ==
    /\ pc = "loop"
    /\ k <= End(at)
    /\ k' = k + 1
    /\ IF k \in DOMAIN Data(at) THEN AddPair(Data(at)[k])
       ELSE UNCHANGED <<chunk, sum, results>>
    /\ UNCHANGED <<pc, query, asked, at, got, answer>>

\* The end of QueryRange: the last chunk may be shorter.  InitQueryWorker
\* replies with the first chunk, or with an empty result.
Return ==
    /\ pc = "loop"
    /\ k > End(at)
    /\ IF chunk # <<>> THEN Push(chunk, sum) ELSE UNCHANGED <<chunk, sum, results>>
    /\ got' = [got EXCEPT ![NextTeam] =
                 IF results' = <<>> THEN Result(<<>>, 0)
                 ELSE Result(results'[1].keys, results'[1].sum)]
    /\ asked' = asked \cup {NextTeam}
    /\ pc' = "next"
    /\ UNCHANGED <<query, at, k, answer>>

\* Fault: the sums of the teams are not added.
MergedLastSum(g, p) == Result(g.keys \o p.keys, IF p.ok THEN p.sum ELSE g.sum)

\* Pairs and sums of the teams that answered.
Merged(g, p) == Result(g.keys \o p.keys, g.sum + p.sum)

\* Fault: one failed team keeps the answer back.
MergeAllOk ==
    /\ pc = "next"
    /\ query.target \ asked = {}
    /\ \A t \in query.target : got[t].ok
    /\ answer' = Merged(got["GREEN"], got["PINK"])
    /\ pc' = "done"
    /\ UNCHANGED <<query, asked, at, loop, got>>

Merge ==
    /\ pc = "next"
    /\ query.target \ asked = {}
    /\ answer' = IF \E t \in Teams : got[t].ok
                   THEN Merged(got["GREEN"], got["PINK"]) ELSE Failed
    /\ pc' = "done"
    /\ UNCHANGED <<query, asked, at, loop, got>>

Serve == CallTeam \/ Iterate \/ Return \/ Merge

Next == Ask \/ Serve

Spec == Init /\ [][Next]_vars

\* The calls are synchronous and carry deadlines: A's thread goes on.
FairSpec == Spec /\ WF_vars(Serve)

-----------------------------------------------------------------------------
(***************************************************************************)
(* Properties                                                              *)
(***************************************************************************)
\* The keys a .. b in ascending order.
Run(a, b) == [i \in 1 .. (IF b < a THEN 0 ELSE b - a + 1) |-> a + i - 1]

Sums      == 0 .. CHUNK_SIZE * (Modulus - 1)
ChunkRecs == [keys : Seq(Int32), sum : Sums]

\* Types.  The loop's int does not overflow, though it goes one beyond the
\* bound; a chunk's sum is one of at most CHUNK_SIZE hashed values.
TypeOK ==
    /\ pc \in {"idle", "next", "loop", "done"}
    /\ query \in [range : Int32 \X Int32, target : SUBSET Teams]
    /\ asked \subseteq query.target
    /\ at \in DOMAIN Partition \cup {""}
    /\ k \in Int32
    /\ chunk \in Seq(Int32)
    /\ sum \in Sums
    /\ results \in Seq(ChunkRecs)
    /\ got \in [Teams -> [ok : BOOLEAN, keys : Seq(Int32), sum : Sums]]
    /\ answer \in [ok : BOOLEAN, keys : Seq(Int32), sum : 0 .. 2 * CHUNK_SIZE * (Modulus - 1)]

\* The chunks made so far are full and, one after the other, the keys from the
\* first one on; the current chunk holds the keys since then.
ChunksTile ==
    pc = "loop" =>
      LET s == Start(at) n == Len(results)
      IN  /\ \A i \in 1 .. n :
               results[i].keys = Run(s + (i - 1) * CHUNK_SIZE, s + i * CHUNK_SIZE - 1)
          /\ chunk = Run(s + n * CHUNK_SIZE, k - 1)
          /\ Len(chunk) < CHUNK_SIZE
          /\ k <= IF End(at) < s THEN s ELSE End(at) + 1

\* The values of the keys added up.
Total(keys) ==
    LET upto[n \in 0 .. Len(keys)] ==
          IF n = 0 THEN 0 ELSE upto[n - 1] + HashKey(keys[n])
    IN  upto[Len(keys)]

\* A client that adds up the values of the pairs gets the partial_sum that
\* comes with them, in every chunk and in A's merge of two of them.
SumsAgree ==
    /\ \A i \in DOMAIN results : results[i].sum = Total(results[i].keys)
    /\ sum = Total(chunk)
    /\ answer.sum = Total(answer.keys)

\* The partition a team answers from: C's for GREEN, F's for PINK.
Holder == [t \in Teams |-> IF t = "GREEN" THEN "C" ELSE "F"]

\* The keys of the team's partition in the range, up to a chunk.
Due(t) ==
    LET n == Holder[t] s == Start(n) IN
    IF End(n) < s + CHUNK_SIZE - 1 THEN Run(s, End(n))
    ELSE Run(s, s + CHUNK_SIZE - 1)

\* A's answer is, for each team that answered, the lowest keys of that team's
\* partition in the range, up to a chunk, GREEN's before PINK's: no key twice,
\* none out of the range, none of a partition of the other team.
AnswerIsFirstChunks ==
    /\ \A t \in Teams : got[t].ok => t \in query.target /\ got[t].keys = Due(t)
    /\ answer.ok => answer.keys = got["GREEN"].keys \o got["PINK"].keys
    /\ \A i, j \in DOMAIN answer.keys : i < j => answer.keys[i] < answer.keys[j]

\* Every query is answered, whatever its range and though a team fails.
Answered == pc = "next" ~> pc = "done"
=============================================================================
