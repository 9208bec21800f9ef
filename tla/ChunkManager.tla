----------------------------- MODULE ChunkManager -----------------------------
(***************************************************************************)
(* ChunkManager: the store of the chunks of running queries, a monitor     *)
(* (one mutex, one condition variable for all requests) with its waits,    *)
(* notifications, deadlines and expiry.                                    *)
(*                                                                         *)
(* A step is what a thread does between taking mu_ and releasing or        *)
(* waiting on it.  The class is not called by the server yet; its clients  *)
(* here follow chunk_manager.h: a reader asks for the first chunk, then    *)
(* for one index after the other until a reply is final, and each request  *)
(* has a source that stores its chunks.                                    *)
(*                                                                         *)
(* InitRequest and GetChunk keep a pointer into states_ while they wait.   *)
(* EvictExpired may erase what it points to; what the waiter does then is  *)
(* undefined: any reply, or the end of the process.                        *)
(***************************************************************************)
EXTENDS Integers, Sequences, FiniteSets

CONSTANTS
    Reqs,      \* request ids
    Readers,   \* reading threads; each one's cancellation token is itself
    Last,      \* index of the final chunk of every request
    InOrder    \* requests whose chunks are stored in the order of their indexes

ASSUME LastAssumption    == Last \in Nat
ASSUME InOrderAssumption == InOrder \subseteq Reqs

VARIABLES
    states,  \* states_: request -> ChunkState, or NoState
    reader,  \* the threads in InitRequest and GetChunk
    sent,    \* request -> indexes its source has stored
    evicted, \* requests that EvictExpired has ever erased
    down     \* the process has died of undefined behaviour

vars == <<states, reader, sent, evicted, down>>

Indexes == 0 .. Last

Chunk(r, i) == [req |-> r, index |-> i, final |-> i = Last, total |-> Last + 1]
Default     == [req |-> "", index |-> 0, final |-> FALSE, total |-> 0]
Error(r, i, n) == [req |-> r, index |-> i, final |-> TRUE, total |-> n]

Chunks  == {Chunk(r, i) : r \in Reqs, i \in Indexes} \cup {Default}
Replies == Chunks \cup {Error(r, i, n) : r \in Reqs, i \in 0 .. Last + 1,
                                         n \in 0 .. Last + 1}

NoState  == [token |-> "none"]
NewState == [token |-> "", cancelled |-> FALSE, chunks |-> <<>>,
             complete |-> FALSE, old |-> FALSE]

\* GetOrCreateState.
Created(r) == IF states[r] = NoState THEN NewState ELSE states[r]

Init ==
    /\ states = [r \in Reqs |-> NoState]
    /\ reader \in [Readers -> [pc : {"ready"}, req : Reqs, call : {"init"},
                               idx : {0}, woken : {FALSE}, dangling : {FALSE},
                               hit : {FALSE}, got : {<<>>}]]
    /\ sent = [r \in Reqs |-> {}]
    /\ evicted = {}
    /\ down = FALSE

-----------------------------------------------------------------------------
(***************************************************************************)
(* InitRequest, GetChunk                                                   *)
(***************************************************************************)
\* The predicates of the two waits, and what is returned after them: a
\* cancelled request is looked at first, then a missing chunk.
Ready(th, s) ==
    \/ s.cancelled
    \/ th.idx < Len(s.chunks)
    \/ th.call = "get" /\ s.complete

\* Fault: an available chunk is returned even if the request is cancelled.
AnswerChunkFirst(th, s) ==
    IF th.idx < Len(s.chunks) THEN s.chunks[th.idx + 1]
    ELSE Error(th.req, th.idx, 0)

\* Fault: the first chunk is returned, as InitRequest does.
AnswerFirst(th, s) ==
    IF s.cancelled THEN Error(th.req, th.idx, 0)
    ELSE IF th.idx < Len(s.chunks) THEN s.chunks[1]
    ELSE Error(th.req, th.idx, IF th.call = "init" THEN 0 ELSE Len(s.chunks))

Answer(th, s) ==
    IF s.cancelled THEN Error(th.req, th.idx, 0)
    ELSE IF th.idx < Len(s.chunks) THEN s.chunks[th.idx + 1]
    ELSE Error(th.req, th.idx, IF th.call = "init" THEN 0 ELSE Len(s.chunks))

\* The thread leaves with a reply; the reader stops or goes on to the next
\* index.
Returned(th, a) ==
    [th EXCEPT !.pc = IF a.final THEN "done" ELSE "ready", !.call = "get",
               !.idx = IF a.final THEN @ ELSE @ + 1,
               !.got = Append(@, a), !.woken = FALSE, !.dangling = FALSE]

\* The thread has the mutex and evaluates its predicate.
Evaluated(th, s) ==
    IF Ready(th, s) THEN Returned(th, Answer(th, s))
    ELSE [th EXCEPT !.pc = "waiting", !.woken = FALSE]

\* InitRequest takes the request over: new token, cancellation forgotten.
InitRequest(t) ==
    LET th == [reader[t] EXCEPT !.hit = FALSE]
        s  == [Created(th.req) EXCEPT !.token = t, !.cancelled = FALSE]
    IN  /\ th.pc = "ready" /\ th.call = "init"
        /\ states' = [states EXCEPT ![th.req] = s]
        /\ reader' = [x \in Readers |->
                        IF x = t THEN Evaluated(th, s)
                        ELSE IF reader[x].req = th.req
                          THEN [reader[x] EXCEPT !.hit = FALSE]
                        ELSE reader[x]]
        /\ UNCHANGED <<sent, evicted, down>>

GetChunk(t) ==
    LET th == [reader[t] EXCEPT !.hit = FALSE]
        s  == states[th.req]
    IN  /\ th.pc = "ready" /\ th.call = "get"
        /\ reader' = [reader EXCEPT ![t] =
                        IF s = NoState
                          THEN Returned(th, Error(th.req, th.idx, 0))
                          ELSE Evaluated(th, s)]
        /\ UNCHANGED <<states, sent, evicted, down>>

\* A notified thread gets the mutex again.
Wake(t) ==
    /\ reader[t].pc = "waiting" /\ reader[t].woken
    /\ ~reader[t].dangling
    /\ reader' = [reader EXCEPT ![t] = Evaluated(@, states[reader[t].req])]
    /\ UNCHANGED <<states, sent, evicted, down>>

\* Fault: wait instead of wait_until.
TimeoutNever(t) == FALSE /\ UNCHANGED vars

\* The ten seconds have passed.
Timeout(t) ==
    /\ reader[t].pc = "waiting"
    /\ ~reader[t].dangling
    /\ reader' = [reader EXCEPT ![t] =
                    Returned(@, Answer(@, states[reader[t].req]))]
    /\ UNCHANGED <<states, sent, evicted, down>>

\* A thread wakes or times out with a pointer to an erased state: the process
\* dies, or the call returns with a reply that can be anything and is not kept.
UseAfterFree(t) ==
    /\ reader[t].pc = "waiting" /\ reader[t].dangling
    /\ \/ down' = TRUE /\ UNCHANGED reader
       \/ reader' = [reader EXCEPT ![t].pc = "done"] /\ UNCHANGED down
    /\ UNCHANGED <<states, sent, evicted>>

ReaderStep(t) ==
    \/ InitRequest(t) \/ GetChunk(t) \/ Wake(t) \/ Timeout(t) \/ UseAfterFree(t)

-----------------------------------------------------------------------------
(***************************************************************************)
(* Cancel, StoreChunk, EvictExpired                                        *)
(***************************************************************************)
Waiting(t) == reader[t].pc = "waiting" /\ ~reader[t].dangling

\* Fault: notify_one.
NotifiedOne(rd) ==
    IF \E t \in Readers : rd[t].pc = "waiting"
      THEN [rd EXCEPT ![CHOOSE t \in Readers : rd[t].pc = "waiting"].woken = TRUE]
      ELSE rd

\* notify_all, on the condition variable all requests share.
Notified(rd) == [t \in Readers |-> [rd[t] EXCEPT !.woken = rd[t].pc = "waiting"]]

\* A reader cancels its request; a token that another InitRequest has
\* replaced is refused.
Cancel(t) ==
    LET r == reader[t].req IN
    /\ states[r] # NoState
    /\ states[r].token = t
    /\ states' = [states EXCEPT ![r].cancelled = TRUE]
    /\ reader' = Notified([x \in Readers |->
                   [reader[x] EXCEPT !.hit = @ \/ (Waiting(x) /\ reader[x].req = r)]])
    /\ UNCHANGED <<sent, evicted, down>>

\* Fault: every chunk is put at the end.
StoredAppend(s, c) == Append(s.chunks, c)

\* Fault: the vector is resized to one element more than needed.
StoredTooLong(s, c) ==
    LET n == Len(s.chunks) IN
    [k \in 1 .. (IF c.index < n THEN n ELSE c.index + 2) |->
       IF k = c.index + 1 THEN c ELSE IF k <= n THEN s.chunks[k] ELSE Default]

\* The vector after a chunk is stored: resized with default chunks if need be.
Stored(s, c) ==
    LET n == Len(s.chunks) IN
    [k \in 1 .. (IF c.index < n THEN n ELSE c.index + 1) |->
       IF k = c.index + 1 THEN c ELSE IF k <= n THEN s.chunks[k] ELSE Default]

StoreChunk(r, i) ==
    /\ i \notin sent[r]
    /\ r \in InOrder => i = Cardinality(sent[r])
    /\ sent' = [sent EXCEPT ![r] = @ \cup {i}]
    /\ states' = [states EXCEPT ![r] =
                    [Created(r) EXCEPT !.chunks = Stored(Created(r), Chunk(r, i)),
                                       !.complete = @ \/ i = Last]]
    /\ reader' = Notified(reader)
    /\ UNCHANGED <<evicted, down>>

\* More than MAX_CHUNK_AGE_SEC pass.
Age(r) ==
    /\ states[r] # NoState
    /\ ~states[r].old
    /\ states' = [states EXCEPT ![r].old = TRUE]
    /\ UNCHANGED <<reader, sent, evicted, down>>

\* Nobody is notified, and the waiters' pointers dangle.
EvictExpired ==
    LET olds == {r \in Reqs : states[r] # NoState /\ states[r].old} IN
    /\ olds # {}
    /\ states' = [r \in Reqs |-> IF r \in olds THEN NoState ELSE states[r]]
    /\ evicted' = evicted \cup olds
    /\ reader' = [t \in Readers |->
                    [reader[t] EXCEPT !.dangling = @ \/
                       (reader[t].pc = "waiting" /\ reader[t].req \in olds)]]
    /\ UNCHANGED <<sent, down>>

Next ==
    /\ ~down
    /\ \/ \E t \in Readers : ReaderStep(t) \/ Cancel(t)
       \/ \E r \in Reqs, i \in Indexes : StoreChunk(r, i)
       \/ \E r \in Reqs : Age(r)
       \/ EvictExpired

Spec == Init /\ [][Next]_vars

\* Waits end: the clock reaches the deadline however often the thread has been
\* notified before.  Sources, cancellation and expiry need not happen.
FairSpec ==
    /\ Spec
    /\ \A t \in Readers : /\ WF_vars(~down /\ Timeout(t))
                         /\ WF_vars(~down /\ UseAfterFree(t))

-----------------------------------------------------------------------------
(***************************************************************************)
(* Properties                                                              *)
(***************************************************************************)
\* chunk_manager.h: the types of ChunkState and of the threads' locals.
TypeOK ==
    /\ \A r \in Reqs :
         \/ states[r] = NoState
         \/ /\ states[r] \in [token : Readers \cup {""}, cancelled : BOOLEAN,
                              chunks : Seq(Chunks), complete : BOOLEAN,
                              old : BOOLEAN]
            /\ Len(states[r].chunks) <= Last + 1
    /\ reader \in [Readers -> [pc : {"ready", "waiting", "done"}, req : Reqs,
                               call : {"init", "get"}, idx : Nat,
                               woken : BOOLEAN, dangling : BOOLEAN,
                               hit : BOOLEAN, got : Seq(Replies)]]
    /\ sent \in [Reqs -> SUBSET Indexes]
    /\ evicted \in SUBSET Reqs
    /\ down \in BOOLEAN

\* No wake-up is lost: a thread that waits for something that is already there
\* has been notified and not yet run, although requests share one condition
\* variable and threads wait for different things.
NoLostWakeup ==
    \A t \in Readers :
      Waiting(t) /\ ~reader[t].woken => ~Ready(reader[t], states[reader[t].req])

\* A vector holds chunks at their own index, those of its request and those
\* that were stored; the rest of it are default chunks of the resize, and of
\* these there are none if the source stores in order and nothing was evicted.
ChunksInPlace ==
    \A r \in Reqs : states[r] # NoState =>
      \A k \in 1 .. Len(states[r].chunks) :
        IF states[r].chunks[k] = Default
          THEN r \notin InOrder \/ r \in evicted
          ELSE states[r].chunks[k] = Chunk(r, k - 1) /\ k - 1 \in sent[r]

\* A reader gets the chunks of its request in order, each once and none
\* skipped, up to the final chunk or an error: with a source that stores in
\* order, and if its request was never evicted.
DownloadFaithful ==
    \A t \in Readers :
      LET th == reader[t] n == Len(th.got) IN
      th.req \in InOrder \ evicted =>
        /\ \A k \in 1 .. n : k < n \/ th.pc # "done" => th.got[k] = Chunk(th.req, k - 1)
        /\ th.pc = "done" =>
             \/ th.got[n] = Chunk(th.req, Last) /\ n = Last + 1
             \/ \E m \in 0 .. Last + 1 : th.got[n] = Error(th.req, n - 1, m)

\* A thread that waited when its request was cancelled returns the error,
\* unless an InitRequest with the same id took the request over.
CancelReachesWaiters ==
    \A t \in Readers :
      reader[t].hit /\ reader[t].pc # "waiting" /\ reader[t].req \notin evicted
        => \E i \in 0 .. Last + 1 :
             reader[t].got[Len(reader[t].got)] = Error(reader[t].req, i, 0)

\* Every call returns, whether or not anything is ever stored (or the process
\* has died of a dangling pointer).
CallsReturn ==
    \A t \in Readers : reader[t].pc = "waiting" ~>
                         reader[t].pc # "waiting" \/ down
=============================================================================
