-------------------------- MODULE ChunkManager_proofs --------------------------
(***************************************************************************)
(* The chunk store for every number of readers, requests and chunks: no    *)
(* wake-up is lost, chunks are in place, downloads are faithful, a cancel  *)
(* reaches whoever waits.                                                  *)
(***************************************************************************)
EXTENDS ChunkManager, FiniteSetTheorems, TLAPS

State  == [token : Readers \cup {""}, cancelled : BOOLEAN, chunks : Seq(Chunks),
           complete : BOOLEAN, old : BOOLEAN]
Thread == [pc : {"ready", "waiting", "done"}, req : Reqs, call : {"init", "get"},
           idx : Nat, woken : BOOLEAN, dangling : BOOLEAN, hit : BOOLEAN,
           got : Seq(Replies)]

\* The vector q of request r, of which the indexes d were stored: its last
\* element was, and the elements before it were unless the order was broken.
VectorOK(q, r, d, ordered) ==
    /\ q \in Seq(Chunks)
    /\ Len(q) <= Last + 1
    /\ q # <<>> => q[Len(q)] # Default
    /\ \A k \in 1 .. Len(q) : IF q[k] = Default THEN ~ordered
                              ELSE q[k] = Chunk(r, k - 1) /\ k - 1 \in d
    /\ ordered => d = 0 .. Len(q) - 1

StateOK(r, s, d, ev) ==
    /\ d \subseteq Indexes
    /\ IF s = NoState THEN r \in InOrder \ ev => d = {}
       ELSE s \in State /\ VectorOK(s.chunks, r, d, r \in InOrder \ ev)

\* What a reader of an undisturbed request has got.
Download(th) ==
    LET n == Len(th.got) IN
    /\ th.pc # "done" => n = th.idx
    /\ \A k \in 1 .. n : k < n \/ th.pc # "done" => th.got[k] = Chunk(th.req, k - 1)
    /\ th.pc = "done" =>
         \/ th.got[n] = Chunk(th.req, Last) /\ n = Last + 1
         \/ \E m \in 0 .. Last + 1 : th.got[n] = Error(th.req, n - 1, m)

\* The part of it that does not depend on what the reader waits for.
Reader(th, ev) ==
    /\ th \in Thread
    /\ th.idx <= Last
    /\ th.dangling => th.pc # "ready" /\ th.req \in ev
    /\ th.req \in InOrder \ ev => Download(th)
    /\ th.hit /\ th.pc # "waiting" /\ th.req \notin ev =>
         /\ th.pc = "done"
         /\ \E i \in 0 .. Last + 1 : th.got[Len(th.got)] = Error(th.req, i, 0)

Sleeper(th, s) ==
    th.pc = "waiting" /\ ~th.dangling =>
      /\ s # NoState
      /\ th.woken \/ ~Ready(th, s)
      /\ th.hit => s.cancelled

ThreadOK(th, s, ev) == Reader(th, ev) /\ Sleeper(th, s)

IInv ==
    /\ \A r \in Reqs : StateOK(r, states[r], sent[r], evicted)
    /\ \A t \in Readers : ThreadOK(reader[t], states[reader[t].req], evicted)
    /\ states \in [Reqs -> State \cup {NoState}]
    /\ reader \in [Readers -> Thread]
    /\ sent \in [Reqs -> SUBSET Indexes]
    /\ evicted \in SUBSET Reqs
    /\ down \in BOOLEAN

-----------------------------------------------------------------------------
\* A chunk is not a default one, and is final if it is the last.
LEMMA ChunkFacts ==
    ASSUME NEW r \in Reqs, NEW i \in Indexes
    PROVE  /\ Chunk(r, i) # Default
           /\ Chunk(r, i) \in Chunks
           /\ Chunk(r, i).final <=> i = Last
<1>1. Chunk(r, i).total = Last + 1 /\ Default.total = 0
    BY DEF Chunk, Default
<1>2. Chunk(r, i) \in Chunks
    BY DEF Chunks
<1>3. Chunk(r, i).final <=> i = Last
    BY DEF Chunk
<1> QED BY <1>1, <1>2, <1>3, LastAssumption

\* An error is final, and a reply.
LEMMA ErrorFacts ==
    ASSUME NEW r \in Reqs, NEW i \in 0 .. Last + 1, NEW n \in 0 .. Last + 1
    PROVE  Error(r, i, n) \in Replies /\ Error(r, i, n).final
<1>1. Error(r, i, n) \in Replies
    BY DEF Replies
<1>2. Error(r, i, n).final
    BY DEF Error
<1> QED BY <1>1, <1>2

\* Storing a chunk keeps the vector in order.
LEMMA StoredOK ==
    ASSUME NEW r \in Reqs, NEW i \in Indexes, NEW s \in State, NEW d \in SUBSET Indexes,
           NEW o \in BOOLEAN,
           VectorOK(s.chunks, r, d, o), o => i = Len(s.chunks)
    PROVE  VectorOK(Stored(s, Chunk(r, i)), r, d \cup {i}, o)
<1> DEFINE q == s.chunks
           c == Chunk(r, i)
           w == Stored(s, c)
           n == Len(q)
           m == IF i < n THEN n ELSE i + 1
<1>0. q \in Seq(Chunks) /\ n \in Nat /\ n <= Last + 1
    BY DEF VectorOK
<1>1. q \in Seq(Chunks) /\ n \in Nat /\ n <= Last + 1 /\ i \in Nat /\ i <= Last /\ c.index = i
    <2>1. c.index = i
        BY DEF Chunk
    <2> QED BY <1>0, <2>1, LastAssumption DEF Indexes
<1>2. c \in Chunks /\ c # Default /\ Default \in Chunks
    BY ChunkFacts DEF Chunks
<1>3. /\ w = [k \in 1 .. m |-> IF k = i + 1 THEN c ELSE IF k <= n THEN q[k] ELSE Default]
      /\ m \in Nat
    BY <1>1 DEF Stored
<1>4. \A k \in 1 .. m : w[k] \in Chunks
    BY <1>1, <1>2, <1>3
<1>5. w \in Seq(Chunks) /\ Len(w) = m
    <2> HIDE DEF w, m, q, n
    <2>1. w = [k \in 1 .. m |-> w[k]]
        BY <1>3
    <2>2. [k \in 1 .. m |-> w[k]] \in Seq(Chunks) /\ Len([k \in 1 .. m |-> w[k]]) = m
        BY <1>3, <1>4
    <2> QED BY <2>1, <2>2
<1>6. m <= Last + 1 /\ m > 0
    BY <1>1, LastAssumption
<1>7. w[m] # Default
    <2>1. CASE i < n
        BY <2>1, <1>1, <1>2, <1>3, <1>6 DEF VectorOK
    <2>2. CASE ~(i < n)
        BY <2>2, <1>1, <1>2, <1>3, <1>6
    <2> QED BY <2>1, <2>2
<1>8. ASSUME NEW k \in 1 .. m
      PROVE  IF w[k] = Default THEN ~o
             ELSE w[k] = Chunk(r, k - 1) /\ k - 1 \in d \cup {i}
    <2>1. CASE k = i + 1
        BY <2>1, <1>1, <1>2, <1>3
    <2>2. CASE k # i + 1 /\ k <= n
        <3>1. k \in 1 .. n /\ w[k] = q[k]
            BY <2>2, <1>1, <1>3
        <3> QED BY <3>1 DEF VectorOK
    <2>3. CASE k # i + 1 /\ ~(k <= n)
        <3>1. w[k] = Default /\ ~o
            BY <2>3, <1>1, <1>3
        <3> QED BY <3>1
    <2> QED BY <2>1, <2>2, <2>3
<1>9. o => d \cup {i} = 0 .. m - 1
    BY <1>1 DEF VectorOK
<1>10. w # <<>> => w[Len(w)] # Default
    BY <1>5, <1>7
<1>11. VectorOK(w, r, d \cup {i}, o)
    <2> HIDE DEF w, m
    <2> QED BY <1>5, <1>6, <1>8, <1>9, <1>10 DEF VectorOK
<1> QED BY <1>11

\* The fields of a thread that returns.
LEMMA ReturnedFields ==
    ASSUME NEW th \in Thread, NEW a \in Replies
    PROVE  /\ Returned(th, a) \in Thread
           /\ Returned(th, a).pc = IF a.final THEN "done" ELSE "ready"
           /\ Returned(th, a).req = th.req
           /\ Returned(th, a).idx = IF a.final THEN th.idx ELSE th.idx + 1
           /\ Returned(th, a).got = Append(th.got, a)
           /\ Returned(th, a).hit = th.hit
           /\ Returned(th, a).dangling = FALSE
<1>1. Append(th.got, a) \in Seq(Replies)
    BY DEF Thread
<1> DEFINE u == Returned(th, a)
<1>2. u = [pc |-> IF a.final THEN "done" ELSE "ready", req |-> th.req, call |-> "get",
           idx |-> IF a.final THEN th.idx ELSE th.idx + 1,
           woken |-> FALSE, dangling |-> FALSE, hit |-> th.hit, got |-> Append(th.got, a)]
    <2>1. th = [pc |-> th.pc, req |-> th.req, call |-> th.call, idx |-> th.idx,
                woken |-> th.woken, dangling |-> th.dangling, hit |-> th.hit, got |-> th.got]
        BY DEF Thread
    <2>2. u = [th EXCEPT !.pc = IF a.final THEN "done" ELSE "ready", !.call = "get",
                         !.idx = IF a.final THEN th.idx ELSE th.idx + 1,
                         !.got = Append(th.got, a), !.woken = FALSE, !.dangling = FALSE]
        BY DEF Returned
    <2> QED BY <2>1, <2>2
<1>3. /\ th.req \in Reqs /\ th.idx \in Nat /\ th.hit \in BOOLEAN
    BY DEF Thread
<1> HIDE DEF u
<1>4. u \in Thread
    BY <1>1, <1>2, <1>3 DEF Thread
<1> QED BY <1>2, <1>4 DEF u

\* The last element of a longer sequence, and the others.
LEMMA AppendFacts ==
    ASSUME NEW S, NEW q \in Seq(S), NEW a \in S
    PROVE  /\ Len(Append(q, a)) = Len(q) + 1
           /\ Append(q, a)[Len(q) + 1] = a
           /\ \A k \in 1 .. Len(q) : Append(q, a)[k] = q[k]
    OBVIOUS

\* A thread that gets an error is done.
LEMMA ReturnedError ==
    ASSUME NEW th, NEW ev, NEW n \in 0 .. Last + 1,
           Reader(th, ev), th.pc # "done", th.hit => n = 0
    PROVE  LET u == Returned(th, Error(th.req, th.idx, n))
           IN  Reader(u, ev) /\ u.pc # "waiting"
<1> DEFINE a == Error(th.req, th.idx, n)
           u == Returned(th, a)
           m == Len(th.got)
<1>1. th \in Thread /\ th.idx \in 0 .. Last + 1 /\ th.req \in Reqs /\ th.got \in Seq(Replies)
    BY LastAssumption DEF Reader, Thread
<1>2. a \in Replies /\ a.final
    BY <1>1, ErrorFacts
<1> HIDE DEF a
<1>3. /\ u \in Thread /\ u.pc = "done" /\ u.req = th.req /\ u.idx = th.idx
      /\ u.got = Append(th.got, a) /\ u.hit = th.hit /\ u.dangling = FALSE
    BY <1>1, <1>2, ReturnedFields
<1>4. /\ Len(u.got) = m + 1 /\ m \in Nat
      /\ u.got[m + 1] = a
      /\ \A k \in 1 .. m : u.got[k] = th.got[k]
    BY <1>1, <1>2, <1>3, AppendFacts
<1>5. u.got[Len(u.got)] = Error(u.req, u.idx, n)
    BY <1>3, <1>4 DEF a
<1>6. ASSUME u.req \in InOrder \ ev PROVE Download(u)
    <2>1. m = th.idx /\ \A k \in 1 .. m : th.got[k] = Chunk(th.req, k - 1)
        BY <1>1, <1>3, <1>6 DEF Reader, Download
    <2>2. ASSUME NEW k \in 1 .. Len(u.got), k < Len(u.got)
          PROVE  u.got[k] = Chunk(u.req, k - 1)
        <3>1. k \in 1 .. m
            BY <2>2, <1>4
        <3> QED BY <3>1, <2>1, <1>3, <1>4
    <2>3. u.got[Len(u.got)] = Error(u.req, Len(u.got) - 1, n)
        BY <2>1, <1>1, <1>3, <1>4, <1>5
    <2> QED BY <2>2, <2>3, <1>3 DEF Download
<1>7. th.idx <= Last
    BY DEF Reader
<1> HIDE DEF u
<1>8. th.hit => \E i \in 0 .. Last + 1 : u.got[Len(u.got)] = Error(u.req, i, 0)
    BY <1>1, <1>3, <1>5
<1>9. Reader(u, ev)
    BY <1>1, <1>3, <1>6, <1>7, <1>8 DEF Reader
<1> QED BY <1>3, <1>9 DEF u, a

\* A thread that gets its chunk goes on to the next one, or is done.
LEMMA ReturnedChunk ==
    ASSUME NEW th, NEW ev, NEW q, NEW d,
           Reader(th, ev), th.pc # "done", ~th.hit,
           VectorOK(q, th.req, d, th.req \in InOrder \ ev), th.idx < Len(q)
    PROVE  LET u == Returned(th, q[th.idx + 1])
           IN  Reader(u, ev) /\ u.pc # "waiting"
<1> DEFINE i == th.idx
           a == q[i + 1]
           u == Returned(th, a)
           m == Len(th.got)
<1>1. th \in Thread /\ i \in Indexes /\ i \in Nat /\ i <= Last /\ th.req \in Reqs /\ th.got \in Seq(Replies)
    BY LastAssumption DEF Reader, Thread, Indexes
<1>2. q \in Seq(Chunks) /\ Len(q) \in Nat /\ Len(q) <= Last + 1 /\ i + 1 \in 1 .. Len(q)
    BY <1>1 DEF VectorOK
<1>3. a \in Chunks /\ a \in Replies
    <2>1. a \in Chunks
        BY <1>2
    <2> QED BY <2>1 DEF Replies
<1>4. a = Default \/ a = Chunk(th.req, i)
    BY <1>1, <1>2 DEF VectorOK
<1>5. ASSUME ~a.final PROVE i + 1 <= Last
    <2>1. CASE a = Default
        <3>1. i + 1 # Len(q)
            BY <1>2, <2>1 DEF VectorOK
        <3> QED BY <3>1, <1>1, <1>2, LastAssumption
    <2>2. CASE a = Chunk(th.req, i)
        <3>1. i # Last
            BY <2>2, <1>1, <1>5, ChunkFacts
        <3> QED BY <3>1, <1>1, LastAssumption
    <2> QED BY <2>1, <2>2, <1>4
<1>6. a.final => a = Chunk(th.req, i) /\ i = Last
    <2>1. ~Default.final
        BY DEF Default
    <2> QED BY <2>1, <1>1, <1>4, ChunkFacts
<1> HIDE DEF a
<1>7. /\ u \in Thread /\ u.pc = (IF a.final THEN "done" ELSE "ready") /\ u.req = th.req
      /\ u.idx = (IF a.final THEN i ELSE i + 1)
      /\ u.got = Append(th.got, a) /\ u.hit = th.hit /\ u.dangling = FALSE
    BY <1>1, <1>3, ReturnedFields
<1>8. /\ Len(u.got) = m + 1 /\ m \in Nat
      /\ u.got[m + 1] = a
      /\ \A k \in 1 .. m : u.got[k] = th.got[k]
    BY <1>1, <1>3, <1>7, AppendFacts
<1>9. ASSUME u.req \in InOrder \ ev PROVE Download(u)
    <2>1. m = i /\ \A k \in 1 .. m : th.got[k] = Chunk(th.req, k - 1)
        BY <1>1, <1>7, <1>9 DEF Reader, Download
    <2>2. a = Chunk(th.req, i)
        BY <1>1, <1>2, <1>7, <1>9 DEF VectorOK, a
    <2>3. ASSUME NEW k \in 1 .. Len(u.got) PROVE u.got[k] = Chunk(u.req, k - 1)
        <3>1. CASE k \in 1 .. m
            BY <3>1, <2>1, <1>7, <1>8
        <3>2. CASE k = m + 1
            BY <3>2, <2>1, <2>2, <1>1, <1>7, <1>8
        <3> QED BY <3>1, <3>2, <1>8
    <2>4. u.pc # "done" => Len(u.got) = u.idx
        BY <2>1, <1>1, <1>7, <1>8
    <2>5. u.pc = "done" => u.got[Len(u.got)] = Chunk(u.req, Last) /\ Len(u.got) = Last + 1
        BY <2>1, <2>2, <1>1, <1>6, <1>7, <1>8
    <2> QED BY <2>3, <2>4, <2>5 DEF Download
<1>10. u.idx <= Last /\ ~u.hit
    BY <1>1, <1>5, <1>7
<1> HIDE DEF u
<1>11. Reader(u, ev)
    BY <1>1, <1>7, <1>9, <1>10 DEF Reader
<1> QED BY <1>7, <1>11 DEF u, a

\* The answer of InitRequest or GetChunk, whenever a thread returns.
LEMMA AnswerOK ==
    ASSUME NEW th, NEW ev, NEW s \in State, NEW d,
           Reader(th, ev), th.pc # "done", th.hit => s.cancelled,
           VectorOK(s.chunks, th.req, d, th.req \in InOrder \ ev)
    PROVE  LET u == Returned(th, Answer(th, s))
           IN  Reader(u, ev) /\ u.pc # "waiting"
<1> DEFINE a == Answer(th, s)
<1>1. s.chunks \in Seq(Chunks) /\ Len(s.chunks) \in 0 .. Last + 1 /\ 0 \in 0 .. Last + 1
    BY LastAssumption DEF VectorOK
<1>2. CASE s.cancelled
    <2>1. a = Error(th.req, th.idx, 0)
        BY <1>2 DEF Answer
    <2> QED BY <2>1, <1>1, ReturnedError
<1>3. CASE ~s.cancelled /\ th.idx < Len(s.chunks)
    <2>1. a = s.chunks[th.idx + 1]
        BY <1>3 DEF Answer
    <2> QED BY <2>1, <1>3, ReturnedChunk
<1>4. CASE ~s.cancelled /\ ~(th.idx < Len(s.chunks))
    <2>1. PICK n \in 0 .. Last + 1 : a = Error(th.req, th.idx, n)
        BY <1>1, <1>4 DEF Answer
    <2>2. ~th.hit
        BY <1>4
    <2> QED BY <2>1, <2>2, ReturnedError
<1> QED BY <1>2, <1>3, <1>4

\* A thread that evaluates its predicate leaves, or waits for something that
\* is not there.
LEMMA EvaluatedOK ==
    ASSUME NEW th, NEW ev, NEW s \in State, NEW d, s # NoState,
           Reader(th, ev), th.pc # "done", ~th.dangling, th.hit => s.cancelled,
           VectorOK(s.chunks, th.req, d, th.req \in InOrder \ ev)
    PROVE  ThreadOK(Evaluated(th, s), s, ev)
<1> DEFINE u == Evaluated(th, s)
<1>1. CASE Ready(th, s)
    <2>1. u = Returned(th, Answer(th, s))
        BY <1>1 DEF Evaluated
    <2>2. Reader(u, ev) /\ u.pc # "waiting"
        BY <2>1, AnswerOK
    <2> QED BY <2>2 DEF ThreadOK, Sleeper
<1>2. CASE ~Ready(th, s)
    <2>1. u = [th EXCEPT !.pc = "waiting", !.woken = FALSE]
        BY <1>2 DEF Evaluated
    <2>2. th \in Thread
        BY DEF Reader
    <2>3. /\ u \in Thread /\ u.pc = "waiting" /\ u.req = th.req /\ u.idx = th.idx
          /\ u.got = th.got /\ u.hit = th.hit /\ u.dangling = th.dangling /\ u.call = th.call
        BY <2>1, <2>2 DEF Thread
    <2> HIDE DEF u
    <2>4. Download(th) => Download(u)
        BY <2>3 DEF Download
    <2>5. Reader(u, ev)
        BY <2>3, <2>4 DEF Reader
    <2>6. ~Ready(u, s)
        BY <1>2, <2>3 DEF Ready
    <2> QED BY <2>3, <2>5, <2>6 DEF ThreadOK, Sleeper, u
<1> QED BY <1>1, <1>2

-----------------------------------------------------------------------------
\* A state is not the absence of one.
LEMMA StateApart == ASSUME NEW s \in State PROVE s # NoState
<1>1. "chunks" \in DOMAIN s /\ "chunks" \notin DOMAIN NoState
    BY DEF State, NoState
<1> QED BY <1>1

\* The state a request has after GetOrCreateState.
LEMMA CreatedOK ==
    ASSUME IInv, NEW r \in Reqs
    PROVE  /\ Created(r) \in State
           /\ VectorOK(Created(r).chunks, r, sent[r], r \in InOrder \ evicted)
           /\ states[r] # NoState => Created(r) = states[r]
           /\ states[r] = NoState => ~Created(r).cancelled /\ Created(r).chunks = <<>>
                                       /\ ~Created(r).complete
<1>1. StateOK(r, states[r], sent[r], evicted)
    BY DEF IInv
<1>2. CASE states[r] = NoState
    <2>1. Created(r) = NewState
        BY <1>2 DEF Created
    <2>2. NewState \in State /\ NewState.chunks = <<>> /\ ~NewState.cancelled
            /\ ~NewState.complete
        BY DEF NewState, State
    <2>3. r \in InOrder \ evicted => sent[r] = {}
        BY <1>1, <1>2 DEF StateOK
    <2>4. VectorOK(<<>>, r, sent[r], r \in InOrder \ evicted)
        BY <2>3, LastAssumption DEF VectorOK
    <2> QED BY <1>2, <2>1, <2>2, <2>4
<1>3. CASE states[r] # NoState
    BY <1>1, <1>3 DEF Created, StateOK
<1> QED BY <1>2, <1>3

\* Nothing is stored and nobody waits.
LEMMA InitIInv == Init => IInv
<1> SUFFICES ASSUME Init PROVE IInv
    OBVIOUS
<1>1. /\ states \in [Reqs -> State \cup {NoState}]
      /\ sent \in [Reqs -> SUBSET Indexes] /\ evicted \in SUBSET Reqs /\ down \in BOOLEAN
    BY DEF Init
<1>2. ASSUME NEW r \in Reqs PROVE StateOK(r, states[r], sent[r], evicted)
    BY DEF Init, StateOK
<1>3. ASSUME NEW t \in Readers
      PROVE  reader[t] \in Thread /\ ThreadOK(reader[t], states[reader[t].req], evicted)
    <2>1. /\ reader[t] \in Thread /\ reader[t].pc = "ready" /\ reader[t].idx = 0
          /\ ~reader[t].hit /\ ~reader[t].dangling /\ reader[t].got = <<>>
        <3>1. reader[t] \in [pc : {"ready"}, req : Reqs, call : {"init"}, idx : {0},
                             woken : {FALSE}, dangling : {FALSE}, hit : {FALSE}, got : {<<>>}]
            BY DEF Init
        <3>2. <<>> \in Seq(Replies) /\ 0 \in Nat
            OBVIOUS
        <3>3. reader[t] \in Thread
            BY <3>1, <3>2 DEF Thread
        <3> QED BY <3>1, <3>3
    <2>2. Download(reader[t])
        BY <2>1 DEF Download
    <2> QED BY <2>1, <2>2, LastAssumption DEF ThreadOK, Reader, Sleeper
<1>4. reader \in [Readers -> Thread]
    <2>1. DOMAIN reader = Readers /\ reader = [t \in Readers |-> reader[t]]
        BY DEF Init
    <2> QED BY <2>1, <1>3
<1> QED BY <1>1, <1>2, <1>3, <1>4 DEF IInv

\* What a step has to keep for a thread it leaves alone.
LEMMA OthersOK ==
    ASSUME IInv, NEW x \in Readers, NEW s2, NEW ev2 \in SUBSET Reqs,
           evicted \subseteq ev2,
           s2 = states[reader[x].req]
             \/ /\ states[reader[x].req] = NoState \/ states[reader[x].req].cancelled = s2.cancelled
                /\ states[reader[x].req] = NoState \/ states[reader[x].req].chunks = s2.chunks
                /\ states[reader[x].req] = NoState \/ states[reader[x].req].complete = s2.complete
                /\ s2 # NoState
    PROVE  ThreadOK(reader[x], s2, ev2)
<1> DEFINE th == reader[x]
           s  == states[th.req]
<1>1. Reader(th, evicted) /\ Sleeper(th, s)
    BY DEF IInv, ThreadOK
<1>2. Reader(th, ev2)
    BY <1>1 DEF Reader
<1>3. Sleeper(th, s2)
    BY <1>1 DEF Sleeper, Ready
<1> QED BY <1>2, <1>3 DEF ThreadOK

\* A step that gives states and threads new values keeps the invariant if it
\* does so for each of them.
LEMMA StepIInv ==
    ASSUME IInv, NEW S2, NEW R2,
           states' = [r \in Reqs |-> S2[r]],
           reader' = [t \in Readers |-> R2[t]],
           sent' \in [Reqs -> SUBSET Indexes], evicted' \in SUBSET Reqs, down' \in BOOLEAN,
           \A r \in Reqs : StateOK(r, S2[r], sent'[r], evicted'),
           \A t \in Readers : ThreadOK(R2[t], S2[R2[t].req], evicted')
    PROVE  IInv'
<1>1. \A r \in Reqs : states'[r] = S2[r] /\ S2[r] \in State \cup {NoState}
    BY DEF StateOK
<1>2. \A t \in Readers : reader'[t] = R2[t] /\ R2[t] \in Thread
    BY DEF ThreadOK, Reader
<1>3. \A t \in Readers : R2[t].req \in Reqs
    BY <1>2 DEF Thread
<1>4. \A t \in Readers : ThreadOK(reader[t], states[reader[t].req], evicted)'
    BY <1>1, <1>2, <1>3
<1>5. \A r \in Reqs : StateOK(r, states[r], sent[r], evicted)'
    BY <1>1
<1> QED BY <1>1, <1>2, <1>4, <1>5 DEF IInv

\* The age of a state tells nobody anything until it is erased.
LEMMA AgeIInv == IInv /\ (\E r \in Reqs : Age(r)) => IInv'
<1> SUFFICES ASSUME IInv, NEW r \in Reqs, Age(r) PROVE IInv'
    OBVIOUS
<1> DEFINE s == [states[r] EXCEPT !.old = TRUE]
<1>1. states[r] \in State /\ states[r] # NoState
    BY DEF Age, IInv
<1>2. /\ s \in State /\ s # NoState /\ s.cancelled = states[r].cancelled
      /\ s.chunks = states[r].chunks /\ s.complete = states[r].complete
    <2>1. /\ s \in State /\ s.cancelled = states[r].cancelled
          /\ s.chunks = states[r].chunks /\ s.complete = states[r].complete
        BY <1>1 DEF State
    <2> QED BY <2>1, StateApart
<1>3. /\ states' = [states EXCEPT ![r] = s]
      /\ UNCHANGED <<reader, sent, evicted, down>>
    BY <1>1 DEF Age, State
<1> HIDE DEF s
<1>4. states' \in [Reqs -> State \cup {NoState}]
    BY <1>2, <1>3 DEF IInv
<1>5. ASSUME NEW q \in Reqs PROVE StateOK(q, states[q], sent[q], evicted)'
    BY <1>1, <1>2, <1>3 DEF IInv, StateOK
<1>6. ASSUME NEW x \in Readers PROVE ThreadOK(reader[x], states[reader[x].req], evicted)'
    <2>1. reader[x].req \in Reqs
        BY DEF IInv, Thread
    <2>2. ThreadOK(reader[x], states'[reader[x].req], evicted)
        BY <2>1, <1>2, <1>3, OthersOK DEF IInv
    <2> QED BY <2>2, <1>3
<1> QED BY <1>3, <1>4, <1>5, <1>6 DEF IInv

\* A thread whose flags change.
LEMMA FlagsOK ==
    ASSUME NEW th, NEW ev, NEW u, Reader(th, ev),
           u = [th EXCEPT !.hit = u.hit, !.woken = u.woken],
           u.hit \in BOOLEAN, u.woken \in BOOLEAN,
           u.hit /\ th.pc # "waiting" => th.hit
    PROVE  Reader(u, ev)
<1>1. th \in Thread
    BY DEF Reader
<1>2. /\ u \in Thread /\ u.pc = th.pc /\ u.req = th.req /\ u.idx = th.idx /\ u.call = th.call
      /\ u.got = th.got /\ u.dangling = th.dangling
    BY <1>1 DEF Thread
<1>3. Download(th) => Download(u)
    BY <1>2 DEF Download
<1> QED BY <1>2, <1>3 DEF Reader

\* A thread whose cancellation is forgotten.
LEMMA FreshOK ==
    ASSUME NEW th, NEW ev, Reader(th, ev)
    PROVE  LET u == [th EXCEPT !.hit = FALSE]
           IN  /\ Reader(u, ev) /\ u \in Thread
               /\ u.pc = th.pc /\ u.req = th.req /\ u.idx = th.idx /\ u.call = th.call
               /\ u.dangling = th.dangling /\ u.woken = th.woken /\ ~u.hit
<1> DEFINE u == [th EXCEPT !.hit = FALSE]
<1>1. th \in Thread
    BY DEF Reader, Thread
<1>2. /\ u = [th EXCEPT !.hit = u.hit, !.woken = u.woken]
      /\ u.woken \in BOOLEAN /\ u.hit \in BOOLEAN /\ ~u.hit /\ u.woken = th.woken
      /\ u.pc = th.pc /\ u.req = th.req /\ u.idx = th.idx /\ u.call = th.call
      /\ u.dangling = th.dangling
    BY <1>1 DEF Thread
<1> HIDE DEF u
<1>3. Reader(u, ev)
    <2>1. u.hit /\ th.pc # "waiting" => th.hit
        BY <1>2
    <2> QED BY <1>2, <2>1, FlagsOK, Zenon
<1> QED BY <1>2, <1>3 DEF Reader, u

\* A thread that evaluates its predicate keeps its request.
LEMMA EvaluatedReq ==
    ASSUME NEW th \in Thread, NEW s
    PROVE  Evaluated(th, s).req = th.req
    BY DEF Thread, Evaluated, Returned

\* A second InitRequest of a request resets its flag under the threads that
\* wait: their predicates only become harder to satisfy.
LEMMA InitRequestIInv == IInv /\ (\E t \in Readers : InitRequest(t)) => IInv'
<1> SUFFICES ASSUME IInv, NEW t \in Readers, InitRequest(t) PROVE IInv'
    OBVIOUS
<1> DEFINE r  == reader[t].req
           th == [reader[t] EXCEPT !.hit = FALSE]
           s  == [Created(r) EXCEPT !.token = t, !.cancelled = FALSE]
           S2 == [states EXCEPT ![r] = s]
           R2 == [x \in Readers |->
                        IF x = t THEN Evaluated(th, s)
                        ELSE IF reader[x].req = r
                          THEN [reader[x] EXCEPT !.hit = FALSE]
                        ELSE reader[x]]
<1>1. /\ Reader(reader[t], evicted) /\ r \in Reqs /\ reader[t].pc = "ready"
      /\ ~reader[t].dangling
    <2>1. reader[t] \in Thread
        BY DEF IInv
    <2>2. th.pc = reader[t].pc
        BY <2>1 DEF Thread
    <2> QED BY <2>1, <2>2 DEF IInv, ThreadOK, Reader, Thread, InitRequest
<1>2. /\ Reader(th, evicted) /\ th \in Thread /\ th.pc = "ready" /\ th.req = r
      /\ ~th.hit /\ ~th.dangling
    BY <1>1, FreshOK
<1>3. /\ Created(r) \in State
      /\ VectorOK(Created(r).chunks, r, sent[r], r \in InOrder \ evicted)
      /\ states[r] # NoState => Created(r) = states[r]
    BY <1>1, CreatedOK
<1>4. /\ s \in State /\ ~s.cancelled /\ s.chunks = Created(r).chunks
      /\ s.complete = Created(r).complete
    BY <1>3 DEF State
<1>5. s # NoState
    BY <1>4, StateApart
<1>6. states' = S2 /\ reader' = R2 /\ UNCHANGED <<sent, evicted, down>>
    BY <1>2 DEF InitRequest
<1> HIDE DEF s, th
<1>7. \A q \in Reqs : StateOK(q, S2[q], sent[q], evicted)
    BY <1>3, <1>4, <1>5, <1>1 DEF IInv, StateOK
<1>8. ASSUME NEW x \in Readers PROVE ThreadOK(R2[x], S2[R2[x].req], evicted)
    <2>1. CASE x = t
        <3>1. R2[x] = Evaluated(th, s) /\ Evaluated(th, s).req = r
            BY <2>1, <1>2, EvaluatedReq
        <3>2. ThreadOK(Evaluated(th, s), s, evicted)
            BY <1>2, <1>3, <1>4, <1>5, EvaluatedOK
        <3>3. S2[r] = s
            BY <1>1 DEF IInv
        <3> QED BY <3>1, <3>2, <3>3
    <2>2. CASE x # t /\ reader[x].req = r
        <3> DEFINE v == reader[x]
                   u == [v EXCEPT !.hit = FALSE]
        <3>1. Reader(v, evicted) /\ Sleeper(v, states[r])
            BY <2>2 DEF IInv, ThreadOK
        <3>4. R2[x] = u
            BY <2>2
        <3>3. /\ Reader(u, evicted) /\ u.pc = v.pc /\ u.req = v.req /\ u.idx = v.idx
              /\ u.call = v.call /\ u.dangling = v.dangling /\ ~u.hit /\ u.woken = v.woken
            BY <3>1, FreshOK
        <3> HIDE DEF u, v
        <3>6. S2[u.req] = s
            BY <2>2, <3>3, <1>1 DEF IInv, v
        <3>5. Sleeper(u, s)
            BY <3>1, <3>3, <1>3, <1>4, <1>5 DEF Sleeper, Ready
        <3> QED BY <3>3, <3>4, <3>5, <3>6 DEF ThreadOK
    <2>3. CASE x # t /\ reader[x].req # r
        BY <2>3, <1>1 DEF IInv
    <2> QED BY <2>1, <2>2, <2>3
<1>9. states' = [q \in Reqs |-> S2[q]] /\ reader' = [x \in Readers |-> R2[x]]
    BY <1>6 DEF IInv
<1>10. sent' \in [Reqs -> SUBSET Indexes] /\ evicted' \in SUBSET Reqs /\ down' \in BOOLEAN
    BY <1>6 DEF IInv
<1> HIDE DEF S2, R2
<1> QED BY <1>6, <1>7, <1>8, <1>9, <1>10, StepIInv

\* A step of one thread that leaves the store alone.
LEMMA OneThread ==
    ASSUME IInv, NEW t \in Readers, NEW v,
           UNCHANGED <<states, sent, evicted>>, down' \in BOOLEAN,
           reader' = [reader EXCEPT ![t] = v],
           ThreadOK(v, states[v.req], evicted)
    PROVE  IInv'
<1> DEFINE R2 == [reader EXCEPT ![t] = v]
<1>1. /\ reader \in [Readers -> Thread] /\ states' = [r \in Reqs |-> states[r]]
      /\ sent' \in [Reqs -> SUBSET Indexes] /\ evicted' \in SUBSET Reqs
    BY DEF IInv
<1>2. ASSUME NEW x \in Readers PROVE ThreadOK(R2[x], states[R2[x].req], evicted)
    BY <1>1 DEF IInv
<1>3. \A r \in Reqs : StateOK(r, states[r], sent'[r], evicted')
    BY DEF IInv
<1>4. reader' = [x \in Readers |-> R2[x]]
    BY <1>1
<1> HIDE DEF R2
<1> QED BY <1>1, <1>2, <1>3, <1>4, StepIInv

\* A thread that has been asleep or not, and the state it looks at.
LEMMA ThreadFacts ==
    ASSUME IInv, NEW t \in Readers
    PROVE  LET th == reader[t] s == states[th.req] IN
           /\ th \in Thread /\ th.req \in Reqs
           /\ Reader(th, evicted) /\ Sleeper(th, s)
           /\ s # NoState => s \in State /\ VectorOK(s.chunks, th.req, sent[th.req],
                                                     th.req \in InOrder \ evicted)
<1>1. reader[t] \in Thread /\ reader[t].req \in Reqs
    BY DEF IInv, Thread
<1> QED BY <1>1 DEF IInv, ThreadOK, StateOK

\* A call for a chunk, of a request that exists or not.
LEMMA GetChunkIInv == IInv /\ (\E t \in Readers : GetChunk(t)) => IInv'
<1> SUFFICES ASSUME IInv, NEW t \in Readers, GetChunk(t) PROVE IInv'
    OBVIOUS
<1> DEFINE th == [reader[t] EXCEPT !.hit = FALSE]
           s  == states[th.req]
           v  == IF s = NoState THEN Returned(th, Error(th.req, th.idx, 0))
                 ELSE Evaluated(th, s)
<1>1. /\ Reader(th, evicted) /\ th \in Thread /\ th.pc = reader[t].pc /\ ~th.hit
      /\ th.req = reader[t].req /\ th.dangling = reader[t].dangling
    BY ThreadFacts, FreshOK
<1>2. th.pc = "ready" /\ ~th.dangling
    BY <1>1 DEF GetChunk, Reader
<1>3. /\ reader' = [reader EXCEPT ![t] = v]
      /\ UNCHANGED <<states, sent, evicted, down>>
    BY DEF GetChunk
<1>4. s # NoState => s \in State /\ VectorOK(s.chunks, th.req, sent[th.req],
                                             th.req \in InOrder \ evicted)
    BY <1>1, ThreadFacts
<1> HIDE DEF th
<1>5. ThreadOK(v, states[v.req], evicted)
    <2>1. CASE s = NoState
        <3>1. 0 \in 0 .. Last + 1
            BY LastAssumption
        <3>2. Reader(v, evicted) /\ v.pc # "waiting"
            BY <2>1, <3>1, <1>1, <1>2, ReturnedError
        <3> QED BY <3>2 DEF ThreadOK, Sleeper
    <2>2. CASE s # NoState
        <3>1. v.req = th.req
            BY <2>2, <1>1, EvaluatedReq
        <3>2. ThreadOK(v, s, evicted)
            BY <2>2, <1>1, <1>2, <1>4, EvaluatedOK
        <3> QED BY <3>1, <3>2
    <2> QED BY <2>1, <2>2
<1>6. down' \in BOOLEAN
    BY <1>3 DEF IInv
<1> HIDE DEF v, s
<1> QED BY <1>3, <1>5, <1>6, OneThread

\* A notified thread looks again.
LEMMA WakeIInv == IInv /\ (\E t \in Readers : Wake(t)) => IInv'
<1> SUFFICES ASSUME IInv, NEW t \in Readers, Wake(t) PROVE IInv'
    OBVIOUS
<1> DEFINE th == reader[t]
           s  == states[th.req]
           v  == Evaluated(th, s)
<1>1. /\ Reader(th, evicted) /\ th \in Thread /\ Sleeper(th, s)
      /\ th.pc = "waiting" /\ ~th.dangling
    BY ThreadFacts DEF Wake
<1>2. s # NoState /\ (th.hit => s.cancelled)
    BY <1>1 DEF Sleeper
<1>3. s \in State /\ VectorOK(s.chunks, th.req, sent[th.req], th.req \in InOrder \ evicted)
    BY <1>2, ThreadFacts
<1>4. v.req = th.req /\ ThreadOK(v, s, evicted)
    BY <1>1, <1>2, <1>3, EvaluatedOK, EvaluatedReq
<1>5. reader' = [reader EXCEPT ![t] = v] /\ UNCHANGED <<states, sent, evicted, down>>
    BY DEF Wake
<1>6. down' \in BOOLEAN /\ ThreadOK(v, states[v.req], evicted)
    BY <1>4, <1>5 DEF IInv
<1> HIDE DEF v
<1> QED BY <1>5, <1>6, OneThread

\* A thread whose time is up answers with what there is.
LEMMA TimeoutIInv == IInv /\ (\E t \in Readers : Timeout(t)) => IInv'
<1> SUFFICES ASSUME IInv, NEW t \in Readers, Timeout(t) PROVE IInv'
    OBVIOUS
<1> DEFINE th == reader[t]
           s  == states[th.req]
           v  == Returned(th, Answer(th, s))
<1>1. /\ Reader(th, evicted) /\ th \in Thread /\ Sleeper(th, s)
      /\ th.pc = "waiting" /\ ~th.dangling
    BY ThreadFacts DEF Timeout
<1>2. s # NoState /\ (th.hit => s.cancelled)
    BY <1>1 DEF Sleeper
<1>3. s \in State /\ VectorOK(s.chunks, th.req, sent[th.req], th.req \in InOrder \ evicted)
    BY <1>2, ThreadFacts
<1>4. Reader(v, evicted) /\ v.pc # "waiting"
    BY <1>1, <1>2, <1>3, AnswerOK
<1>5. reader' = [reader EXCEPT ![t] = v] /\ UNCHANGED <<states, sent, evicted, down>>
    BY DEF Timeout
<1>6. down' \in BOOLEAN /\ ThreadOK(v, states[v.req], evicted)
    BY <1>4, <1>5 DEF IInv, ThreadOK, Sleeper
<1> HIDE DEF v
<1> QED BY <1>5, <1>6, OneThread

\* Whatever a thread with a dangling pointer does, its request was evicted.
LEMMA UseAfterFreeIInv == IInv /\ (\E t \in Readers : UseAfterFree(t)) => IInv'
<1> SUFFICES ASSUME IInv, NEW t \in Readers, UseAfterFree(t) PROVE IInv'
    OBVIOUS
<1> DEFINE th == reader[t]
           v  == IF reader' = reader THEN th ELSE [th EXCEPT !.pc = "done"]
<1>1. /\ Reader(th, evicted) /\ th \in Thread /\ Sleeper(th, states[th.req])
      /\ th.pc = "waiting" /\ th.dangling /\ th.req \in evicted
    BY ThreadFacts DEF UseAfterFree, Reader
<1>2. reader' = [reader EXCEPT ![t] = v] /\ UNCHANGED <<states, sent, evicted>>
        /\ down' \in BOOLEAN
    BY DEF UseAfterFree, IInv
<1>3. CASE reader' = reader
    BY <1>1, <1>2, <1>3, OneThread DEF ThreadOK
<1>4. CASE reader' # reader
    <2>1. /\ v \in Thread /\ v.pc = "done" /\ v.req = th.req /\ v.idx = th.idx
          /\ v.dangling
        BY <1>1, <1>4 DEF Thread
    <2> HIDE DEF v
    <2>2. ThreadOK(v, states[v.req], evicted)
        BY <2>1, <1>1 DEF ThreadOK, Reader, Sleeper
    <2> QED BY <2>2, <1>2, OneThread
<1> QED BY <1>3, <1>4

\* What a notification, and a Cancel before it, leave of a sleeping thread.
LEMMA NotifiedOK ==
    ASSUME IInv, NEW x \in Readers, NEW u, NEW s2,
           u = [reader[x] EXCEPT !.hit = u.hit, !.woken = u.woken],
           u.hit \in BOOLEAN, u.woken \in BOOLEAN,
           u.hit /\ reader[x].pc # "waiting" => reader[x].hit,
           reader[x].pc = "waiting" => u.woken,
           reader[x].pc = "waiting" /\ ~reader[x].dangling =>
             s2 # NoState /\ (u.hit => s2.cancelled)
    PROVE  ThreadOK(u, s2, evicted) /\ u.req = reader[x].req
<1> DEFINE th == reader[x]
<1>1. Reader(th, evicted) /\ th \in Thread
    BY ThreadFacts
<1>2. Reader(u, evicted)
    BY <1>1, FlagsOK, Zenon
<1>3. u.pc = th.pc /\ u.req = th.req /\ u.dangling = th.dangling
    BY <1>1 DEF Thread
<1>4. Sleeper(u, s2)
    BY <1>3 DEF Sleeper
<1> QED BY <1>2, <1>3, <1>4 DEF ThreadOK

\* A cancel marks the sleepers of its request and wakes everybody.
LEMMA CancelIInv == IInv /\ (\E t \in Readers : Cancel(t)) => IInv'
<1> SUFFICES ASSUME IInv, NEW t \in Readers, Cancel(t) PROVE IInv'
    OBVIOUS
<1> DEFINE r  == reader[t].req
           s  == [states[r] EXCEPT !.cancelled = TRUE]
           S2 == [states EXCEPT ![r] = s]
           R2 == reader'
<1>1. r \in Reqs /\ states[r] # NoState /\ states[r] \in State
      /\ VectorOK(states[r].chunks, r, sent[r], r \in InOrder \ evicted)
    BY ThreadFacts DEF Cancel
<1>2. s \in State /\ s.cancelled /\ s.chunks = states[r].chunks
    BY <1>1 DEF State
<1>3. s # NoState
    BY <1>2, StateApart
<1>4. states' = S2 /\ UNCHANGED <<sent, evicted, down>>
    BY <1>1 DEF Cancel, State
<1> HIDE DEF s
<1>5. \A q \in Reqs : StateOK(q, S2[q], sent'[q], evicted')
    BY <1>1, <1>2, <1>3, <1>4 DEF IInv, StateOK
<1>6. ASSUME NEW x \in Readers PROVE ThreadOK(R2[x], S2[R2[x].req], evicted')
    <2> DEFINE th == reader[x]
               u  == R2[x]
    <2>1. th \in Thread /\ th.req \in Reqs /\ Sleeper(th, states[th.req])
        BY ThreadFacts
    <2>2. u = [[th EXCEPT !.hit = th.hit \/ (Waiting(x) /\ th.req = r)]
                  EXCEPT !.woken = [th EXCEPT !.hit = th.hit \/ (Waiting(x) /\ th.req = r)].pc = "waiting"]
        BY DEF Cancel, Notified
    <2>3. /\ u = [th EXCEPT !.hit = u.hit, !.woken = u.woken]
          /\ u.hit = (th.hit \/ (Waiting(x) /\ th.req = r))
          /\ u.woken = (th.pc = "waiting")
        BY <2>1, <2>2 DEF Thread
    <2>4. u.hit \in BOOLEAN /\ u.woken \in BOOLEAN
        BY <2>1, <2>3 DEF Thread
    <2>5. u.hit /\ th.pc # "waiting" => th.hit
        BY <2>3 DEF Waiting
    <2>6. S2[th.req] = IF th.req = r THEN s ELSE states[th.req]
        BY <1>1, <2>1 DEF IInv
    <2>7. th.pc = "waiting" /\ ~th.dangling =>
            S2[th.req] # NoState /\ (u.hit => S2[th.req].cancelled)
        BY <1>2, <1>3, <2>1, <2>3, <2>6 DEF Sleeper
    <2>8. th.pc = "waiting" => u.woken
        BY <2>3
    <2> HIDE DEF R2, u, S2
    <2>9. ThreadOK(u, S2[th.req], evicted) /\ u.req = th.req
        BY <2>3, <2>4, <2>5, <2>7, <2>8, NotifiedOK, Zenon
    <2> QED BY <2>9, <1>4 DEF u
<1>7. states' = [q \in Reqs |-> S2[q]] /\ reader' = [x \in Readers |-> R2[x]]
    BY <1>4 DEF IInv, Cancel, Notified
<1>8. sent' \in [Reqs -> SUBSET Indexes] /\ evicted' \in SUBSET Reqs /\ down' \in BOOLEAN
    BY <1>4 DEF IInv
<1> HIDE DEF S2, R2
<1> QED BY <1>5, <1>6, <1>7, <1>8, StepIInv

\* A source in order stores its chunk at the end of the vector.
LEMMA InOrderNext ==
    ASSUME IInv, NEW r \in Reqs, NEW i \in Indexes, StoreChunk(r, i),
           NEW q, VectorOK(q, r, sent[r], r \in InOrder \ evicted),
           r \in InOrder \ evicted
    PROVE  i = Len(q)
<1>1. sent[r] = 0 .. Len(q) - 1 /\ Len(q) \in Nat
    BY DEF VectorOK
<1>2. Cardinality(0 .. Len(q) - 1) = Len(q)
    <2>1. 0 \in Int /\ Len(q) - 1 \in Int
        BY <1>1
    <2>2. Cardinality(0 .. Len(q) - 1) = IF 0 > Len(q) - 1 THEN 0 ELSE Len(q) - 1 - 0 + 1
        BY <2>1, FS_Interval
    <2> QED BY <1>1, <2>2
<1> QED BY <1>1, <1>2 DEF StoreChunk

\* A chunk is put in place, and everybody is woken.
LEMMA StoreChunkIInv ==
    IInv /\ (\E r \in Reqs, i \in Indexes : StoreChunk(r, i)) => IInv'
<1> SUFFICES ASSUME IInv, NEW r \in Reqs, NEW i \in Indexes, StoreChunk(r, i) PROVE IInv'
    OBVIOUS
<1> DEFINE c  == Created(r)
           w  == Stored(c, Chunk(r, i))
           s  == [c EXCEPT !.chunks = w, !.complete = c.complete \/ i = Last]
           S2 == [states EXCEPT ![r] = s]
           R2 == reader'
           o  == r \in InOrder \ evicted
           d  == sent[r] \cup {i}
<1>1. /\ c \in State /\ VectorOK(c.chunks, r, sent[r], o)
      /\ states[r] # NoState => c = states[r]
    BY CreatedOK
<1>2. sent[r] \in SUBSET Indexes /\ o \in BOOLEAN
    BY DEF IInv
<1>3. o => i = Len(c.chunks)
    BY <1>1, InOrderNext
<1>4. VectorOK(w, r, d, o)
    BY <1>1, <1>2, <1>3, StoredOK
<1>5. s \in State /\ s.chunks = w /\ s.cancelled = c.cancelled
    <2>1. w \in Seq(Chunks)
        BY <1>4 DEF VectorOK
    <2> HIDE DEF w, c
    <2> QED BY <1>1, <2>1 DEF State
<1>6. s # NoState
    BY <1>5, StateApart
<1>7. /\ states' = S2 /\ sent' = [sent EXCEPT ![r] = d]
      /\ reader' = [x \in Readers |-> [reader[x] EXCEPT !.woken = reader[x].pc = "waiting"]]
      /\ UNCHANGED <<evicted, down>>
    BY <1>1 DEF StoreChunk, Notified, State
<1> HIDE DEF s, w, c, R2
<1>8. sent' \in [Reqs -> SUBSET Indexes] /\ evicted' \in SUBSET Reqs /\ down' \in BOOLEAN
    BY <1>2, <1>7 DEF IInv
<1>9. ASSUME NEW q \in Reqs PROVE StateOK(q, S2[q], sent'[q], evicted')
    <2>1. CASE q = r
        <3>1. S2[q] = s /\ sent'[q] = d /\ d \subseteq Indexes
            BY <2>1, <1>2, <1>7 DEF IInv
        <3> QED BY <2>1, <3>1, <1>4, <1>5, <1>6, <1>7 DEF StateOK
    <2>2. CASE q # r
        BY <2>2, <1>7 DEF IInv
    <2> QED BY <2>1, <2>2
<1>10. ASSUME NEW x \in Readers PROVE ThreadOK(R2[x], S2[R2[x].req], evicted')
    <2> DEFINE th == reader[x]
               u  == R2[x]
    <2>1. th \in Thread /\ th.req \in Reqs /\ Sleeper(th, states[th.req])
        BY ThreadFacts
    <2>2. u = [th EXCEPT !.woken = th.pc = "waiting"]
        BY <1>7 DEF R2
    <2>3. /\ u = [th EXCEPT !.hit = u.hit, !.woken = u.woken]
          /\ u.hit = th.hit /\ u.woken = (th.pc = "waiting")
        BY <2>1, <2>2 DEF Thread
    <2>4. u.hit \in BOOLEAN /\ u.woken \in BOOLEAN
        BY <2>1, <2>3 DEF Thread
    <2>5. u.hit /\ th.pc # "waiting" => th.hit
        BY <2>3
    <2>6. S2[th.req] = IF th.req = r THEN s ELSE states[th.req]
        BY <2>1 DEF IInv
    <2>7. th.pc = "waiting" /\ ~th.dangling =>
            S2[th.req] # NoState /\ (u.hit => S2[th.req].cancelled)
        BY <1>1, <1>5, <1>6, <2>1, <2>3, <2>6 DEF Sleeper
    <2>8. th.pc = "waiting" => u.woken
        BY <2>3
    <2> HIDE DEF u, S2
    <2>9. ThreadOK(u, S2[th.req], evicted) /\ u.req = th.req
        BY <2>3, <2>4, <2>5, <2>7, <2>8, NotifiedOK, Zenon
    <2> QED BY <2>9, <1>7 DEF u
<1>11. states' = [q \in Reqs |-> S2[q]] /\ reader' = [x \in Readers |-> R2[x]]
    BY <1>7 DEF IInv, R2
<1> HIDE DEF S2
<1> QED BY <1>8, <1>9, <1>10, <1>11, StepIInv

\* What is erased leaves its sleepers with dangling pointers only.
LEMMA EvictIInv == IInv /\ EvictExpired => IInv'
<1> SUFFICES ASSUME IInv, EvictExpired PROVE IInv'
    OBVIOUS
<1> DEFINE olds == {r \in Reqs : states[r] # NoState /\ states[r].old}
           S2 == [r \in Reqs |-> IF r \in olds THEN NoState ELSE states[r]]
           R2 == [t \in Readers |->
                    [reader[t] EXCEPT !.dangling = reader[t].dangling \/
                       (reader[t].pc = "waiting" /\ reader[t].req \in olds)]]
<1>1. /\ states' = S2 /\ reader' = R2 /\ evicted' = evicted \cup olds
      /\ UNCHANGED <<sent, down>>
    BY DEF EvictExpired
<1> HIDE DEF olds
<1>2. olds \subseteq Reqs
    BY DEF olds
<1>3. sent' \in [Reqs -> SUBSET Indexes] /\ evicted' \in SUBSET Reqs /\ down' \in BOOLEAN
    BY <1>1, <1>2 DEF IInv
<1>4. ASSUME NEW q \in Reqs PROVE StateOK(q, S2[q], sent'[q], evicted')
    <2>1. StateOK(q, states[q], sent[q], evicted)
        BY DEF IInv
    <2>2. CASE q \in olds
        BY <2>1, <2>2, <1>1 DEF StateOK
    <2>3. CASE q \notin olds
        <3>1. S2[q] = states[q] /\ (q \in InOrder \ evicted' <=> q \in InOrder \ evicted)
            BY <2>3, <1>1
        <3> QED BY <2>1, <3>1, <1>1 DEF StateOK, VectorOK
    <2> QED BY <2>2, <2>3
<1>5. ASSUME NEW x \in Readers PROVE ThreadOK(R2[x], S2[R2[x].req], evicted')
    <2> DEFINE th == reader[x]
               u  == [th EXCEPT !.dangling = th.dangling \/ (th.pc = "waiting" /\ th.req \in olds)]
    <2>1. th \in Thread /\ th.req \in Reqs /\ Reader(th, evicted) /\ Sleeper(th, states[th.req])
        BY ThreadFacts
    <2>2. /\ u \in Thread /\ u.pc = th.pc /\ u.req = th.req /\ u.idx = th.idx /\ u.call = th.call
          /\ u.got = th.got /\ u.hit = th.hit /\ u.woken = th.woken
          /\ u.dangling = (th.dangling \/ (th.pc = "waiting" /\ th.req \in olds))
        BY <2>1 DEF Thread
    <2>3. R2[x] = u /\ S2[th.req] = IF th.req \in olds THEN NoState ELSE states[th.req]
        BY <2>1
    <2> HIDE DEF u, S2, R2
    <2>4. Download(th) => Download(u)
        BY <2>2 DEF Download
    <2>5. Reader(u, evicted')
        BY <2>1, <2>2, <2>4, <1>1 DEF Reader
    <2>6. Sleeper(u, S2[th.req])
        BY <2>1, <2>2, <2>3 DEF Sleeper, Ready
    <2> QED BY <2>2, <2>3, <2>5, <2>6 DEF ThreadOK
<1>6. states' = [q \in Reqs |-> S2[q]] /\ reader' = [x \in Readers |-> R2[x]]
    BY <1>1
<1> HIDE DEF S2, R2
<1> QED BY <1>3, <1>4, <1>5, <1>6, StepIInv

\* One case per operation.
LEMMA NextIInv == IInv /\ [Next]_vars => IInv'
<1> SUFFICES ASSUME IInv, [Next]_vars PROVE IInv'
    OBVIOUS
<1>1. CASE UNCHANGED vars
    BY <1>1 DEF vars, IInv, StateOK, VectorOK, ThreadOK, Reader, Sleeper, Download, Ready
<1>2. CASE \E t \in Readers : InitRequest(t)
    BY <1>2, InitRequestIInv
<1>3. CASE \E t \in Readers : GetChunk(t)
    BY <1>3, GetChunkIInv
<1>4. CASE \E t \in Readers : Wake(t)
    BY <1>4, WakeIInv
<1>5. CASE \E t \in Readers : Timeout(t)
    BY <1>5, TimeoutIInv
<1>6. CASE \E t \in Readers : UseAfterFree(t)
    BY <1>6, UseAfterFreeIInv
<1>7. CASE \E t \in Readers : Cancel(t)
    BY <1>7, CancelIInv
<1>8. CASE \E r \in Reqs, i \in Indexes : StoreChunk(r, i)
    BY <1>8, StoreChunkIInv
<1>9. CASE \E r \in Reqs : Age(r)
    BY <1>9, AgeIInv
<1>10. CASE EvictExpired
    BY <1>10, EvictIInv
<1> QED BY <1>1, <1>2, <1>3, <1>4, <1>5, <1>6, <1>7, <1>8, <1>9, <1>10 DEF Next, ReaderStep

\* The invariant holds.
LEMMA Invariance == Spec => []IInv
    BY InitIInv, NextIInv, PTL DEF Spec

-----------------------------------------------------------------------------
\* The invariant implies the properties.
LEMMA IInvFacts ==
    ASSUME IInv
    PROVE  TypeOK /\ NoLostWakeup /\ ChunksInPlace /\ DownloadFaithful /\ CancelReachesWaiters
<1>1. TypeOK
    <2>1. \A r \in Reqs : \/ states[r] = NoState
                          \/ states[r] \in State /\ Len(states[r].chunks) <= Last + 1
        BY DEF IInv, StateOK, VectorOK
    <2> QED BY <2>1 DEF IInv, TypeOK, State, Thread
<1>2. NoLostWakeup
    BY ThreadFacts DEF NoLostWakeup, Waiting, Sleeper
<1>3. ChunksInPlace
    <2> SUFFICES ASSUME NEW r \in Reqs, states[r] # NoState,
                        NEW k \in 1 .. Len(states[r].chunks)
                 PROVE  IF states[r].chunks[k] = Default
                          THEN r \notin InOrder \/ r \in evicted
                          ELSE states[r].chunks[k] = Chunk(r, k - 1) /\ k - 1 \in sent[r]
        BY DEF ChunksInPlace
    <2>1. VectorOK(states[r].chunks, r, sent[r], r \in InOrder \ evicted)
        BY DEF IInv, StateOK
    <2> QED BY <2>1 DEF VectorOK
<1>4. DownloadFaithful
    <2> SUFFICES ASSUME NEW t \in Readers, reader[t].req \in InOrder \ evicted
                 PROVE  Download(reader[t])
        BY DEF DownloadFaithful, Download
    <2> QED BY ThreadFacts DEF Reader
<1>5. CancelReachesWaiters
    BY ThreadFacts DEF CancelReachesWaiters, Reader
<1> QED BY <1>1, <1>2, <1>3, <1>4, <1>5

\* For every number of readers, requests and chunks the store and the threads
\* that use it keep their types.
THEOREM TypeCorrect == Spec => []TypeOK
    BY Invariance, IInvFacts, PTL

\* No reader sleeps, unnotified, beside what it waits for.
THEOREM NoLostWakeupAlways == Spec => []NoLostWakeup
    BY Invariance, IInvFacts, PTL

\* Every stored chunk is where a reader looks for it, and what a reader finds
\* was stored, or is the filler of a resize when the source is out of order.
THEOREM ChunksInPlaceAlways == Spec => []ChunksInPlace
    BY Invariance, IInvFacts, PTL

\* A source in order and a request that does not expire make a download
\* complete up to its end or its error.
THEOREM DownloadFaithfulAlways == Spec => []DownloadFaithful
    BY Invariance, IInvFacts, PTL

\* A cancel reaches every thread that waits at that moment.
THEOREM CancelReachesWaitersAlways == Spec => []CancelReachesWaiters
    BY Invariance, IInvFacts, PTL
=============================================================================
