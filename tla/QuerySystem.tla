----------------------------- MODULE QuerySystem -----------------------------
(***************************************************************************)
(* The chunked query path of the overlay: a client calls InitQuery on the  *)
(* leader A, A calls the team leaders B (GREEN) and E (PINK) one after the *)
(* other, each of them calls its worker (B calls C, E calls F), and the    *)
(* results are merged on the way back.  Every node has a result cache and  *)
(* a cancellation registry; A admits calls through AdmissionControl; a     *)
(* client may cancel its query, and the Cancel is propagated down the same *)
(* tree.                                                                   *)
(*                                                                         *)
(* All calls are synchronous: each runs in a server thread of its own,     *)
(* which is blocked while it waits for a callee.  The thread of attempt i  *)
(* of A for team t is tl[r,t,i], and the thread of attempt j of that one   *)
(* at the worker is wk[r,t,i,j].  A caller whose deadline passes goes on   *)
(* without its callee, which keeps running: no handler looks at the        *)
(* cancellation of its ServerContext.                                      *)
(*                                                                         *)
(* One action is one critical section or one message: a cache or registry  *)
(* method under its mutex, the sending of a call, the arrival of its       *)
(* outcome.  Key-value pairs are reduced to their keys; chunk indices,     *)
(* sizes and times are left out, as InitQuery always answers with chunk 0, *)
(* final, of one.  Backoff only delays the next attempt.                   *)
(***************************************************************************)
EXTENDS Integers, FiniteSets

CONSTANTS
    Requests,    \* client queries, each with its own request id and token
    Keys,        \* keys of the dataset
    Ranges,      \* key ranges [key_min, key_max] the clients ask for
    Targets,     \* sets of teams the clients ask for
    FirstChunk,  \* team -> range -> keys in the first chunk of its worker
    PyLeaders,   \* teams whose leader runs server_e.py
    PyWorkers,   \* teams whose worker runs server_f.py
    MaxRetries,  \* RetryConfig::max_retries, 3 in the code
    MaxPerTeam,  \* A's max_inflight / 2
    QUANTUM,     \* FairScheduler::QUANTUM
    Cancelling,  \* requests whose clients may cancel them
    MaxCrashes   \* bound of the model: how many processes die

Teams == {"GREEN", "PINK"}
Nodes == {"A", "B", "C", "E", "F"}

TeamLeader == [t \in Teams |-> IF t = "GREEN" THEN "B" ELSE "E"]
Worker     == [t \in Teams |-> IF t = "GREEN" THEN "C" ELSE "F"]

ASSUME RequestsAssumption   == IsFiniteSet(Requests)
ASSUME CancelAssumption     == Cancelling \subseteq Requests
ASSUME TargetsAssumption    == Targets \subseteq SUBSET Teams
ASSUME FirstChunkAssumption == FirstChunk \in [Teams -> [Ranges -> SUBSET Keys]]
ASSUME PyAssumption         == PyLeaders \subseteq Teams /\ PyWorkers \subseteq Teams
ASSUME MaxAssumption        == /\ MaxRetries \in Nat
                               /\ MaxPerTeam \in Int
                               /\ QUANTUM \in Nat \ {0}
                               /\ MaxCrashes \in Nat

VARIABLES
    up,          \* node -> is its process running
    crashes,     \* processes that died so far
    cache,       \* node -> range -> chunk held by cache_, or NoAnswer
    tokens,      \* node -> request -> its entry in g_cancel_registry
    inflight,    \* A's FairScheduler (see AdmissionControl)
    deficit,
    lastServed,
    lead,        \* request -> the handler thread at A
    tl,          \* request, team, attempt -> thread at the team leader
    wk,          \* request, team, attempt, attempt -> thread at the worker
    canc         \* request -> node -> the Cancel call of that request there

sched == <<inflight, deficit, lastServed>>
vars  == <<up, crashes, cache, tokens, sched, lead, tl, wk, canc>>

-----------------------------------------------------------------------------
(***************************************************************************)
(* Answers of an RPC, thread states                                        *)
(***************************************************************************)
Codes == {"NONE", "OK", "UNAVAILABLE", "DEADLINE_EXCEEDED",
          "RESOURCE_EXHAUSTED", "CANCELLED"}

Answers    == [code : Codes, keys : SUBSET Keys]
Fail(c)    == [code |-> c, keys |-> {}]
NoAnswer   == Fail("NONE")
Chunk(K)   == [code |-> "OK", keys |-> K]

Attempts == 0 .. MaxRetries

LeadPc == {"idle", "register", "lookup", "admit", "call", "await", "merge",
           "done", "dead"}
TlPc   == {"idle", "register", "lookup", "lookup2", "call", "await", "done",
           "dead"}
WkPc   == {"idle", "register", "lookup", "check", "lookup2", "compute",
           "done", "dead"}
CancPc == {"idle", "sent", "forward", "yes", "no", "lost"}

Stopped(pc) == pc \in {"idle", "done", "dead"}

\* The team the leader serves first: GREEN is tried before PINK.
FirstTeam(T) == IF "GREEN" \in T THEN "GREEN" ELSE "PINK"

\* A request being served holds its admission slot while its call is made.
HoldsSlot(r) == lead[r].pc \in {"call", "await"}

AdmGuard == [r \in Requests |->
               IF HoldsSlot(r) THEN [team |-> lead[r].team, acquired |-> TRUE]
               ELSE [team |-> "", acquired |-> FALSE]]

Adm == INSTANCE AdmissionControl WITH
         Threads <- Requests, NoTeam <- "", guard <- AdmGuard

Init ==
    /\ up      = [n \in Nodes |-> TRUE]
    /\ crashes = 0
    /\ cache   = [n \in Nodes |-> [q \in Ranges |-> NoAnswer]]
    /\ tokens  = [n \in Nodes |-> [r \in Requests |-> "none"]]
    /\ Adm!SchedInit
    /\ lead \in [Requests -> [pc : {"idle"}, team : {"GREEN"}, att : {0},
                              target : Targets, range : Ranges,
                              got : {[t \in Teams |-> NoAnswer]},
                              ans : {NoAnswer}]]
    /\ tl   = [c \in Requests \X Teams \X Attempts |->
                 [pc |-> "idle", att |-> 0, ans |-> NoAnswer]]
    /\ wk   = [c \in Requests \X Teams \X Attempts \X Attempts |->
                 [pc |-> "idle", ans |-> NoAnswer]]
    /\ canc = [r \in Requests |-> [n \in Nodes |-> "idle"]]

-----------------------------------------------------------------------------
(***************************************************************************)
(* Cache, registry and retry operations shared by the handlers             *)
(***************************************************************************)
\* Fault: the key leaves key_max out (ranges being <<key_min, key_max>>).
CacheGetAnyMax(n, q) ==
    LET held == {p \in Ranges : p[1] = q[1] /\ cache[n][p] # NoAnswer}
    IN  IF held = {} THEN NoAnswer ELSE cache[n][CHOOSE p \in held : TRUE]

\* LRUCache::Get, with the key "query:<min>-<max>:0".
CacheGet(n, q) == cache[n][q]

\* LRUCache::Put.
CachePut(n, q, a) == cache' = [cache EXCEPT ![n][q] = a]

\* Fault: the flag of a new entry is not initialized.
RegisterUninitialized(n, r) ==
    \E flag \in {"live", "cancelled"} : tokens' = [tokens EXCEPT ![n][r] = flag]

\* CancellationRegistry::Register overwrites the entry, flag included.
Register(n, r) == tokens' = [tokens EXCEPT ![n][r] = "live"]

\* IsRetriable.
Retriable(a) == a.code \in {"UNAVAILABLE", "DEADLINE_EXCEEDED",
                            "RESOURCE_EXHAUSTED"}

\* Fault: a call without a deadline.
OutcomesNoDeadline(callee) ==
    (IF callee.pc = "done" THEN {callee.ans} ELSE {})
      \cup (IF callee.pc = "dead" THEN {Fail("UNAVAILABLE")} ELSE {})

\* What a caller may see of a call it waits for: the answer, the loss of the
\* callee, or its own deadline, which may pass at any time.
Outcomes(callee) ==
    {Fail("DEADLINE_EXCEEDED")}
      \cup (IF callee.pc = "done" THEN {callee.ans} ELSE {})
      \cup (IF callee.pc = "dead" THEN {Fail("UNAVAILABLE")} ELSE {})

-----------------------------------------------------------------------------
(***************************************************************************)
(* Leader A: InitQuery, InitQueryLeader                                    *)
(***************************************************************************)
LeadSet(r, l) == lead' = [lead EXCEPT ![r] = l]
LeadAt(r, pc) == LeadSet(r, [lead[r] EXCEPT !.pc = pc])

\* A client sends its query to the leader.
ClientSend(r) ==
    /\ lead[r].pc = "idle"
    /\ up["A"]
    /\ LeadAt(r, "register")
    /\ UNCHANGED <<up, crashes, cache, tokens, sched, tl, wk, canc>>

LeadRegister(r) ==
    /\ lead[r].pc = "register"
    /\ Register("A", r)
    /\ LeadAt(r, "lookup")
    /\ UNCHANGED <<up, crashes, cache, sched, tl, wk, canc>>

\* The cache is looked up by range only; TEAM_UNSPECIFIED asks no team.
LeadLookup(r) ==
    /\ lead[r].pc = "lookup"
    /\ LET hit == CacheGet("A", lead[r].range)
           T   == lead[r].target
       IN  LeadSet(r, IF hit # NoAnswer
                        THEN [lead[r] EXCEPT !.pc = "done", !.ans = hit]
                      ELSE IF T = {}
                        THEN [lead[r] EXCEPT !.pc = "merge"]
                      ELSE [lead[r] EXCEPT !.pc = "admit",
                                           !.team = FirstTeam(T)])
    /\ UNCHANGED <<up, crashes, cache, tokens, sched, tl, wk, canc>>

\* AdmissionGuard acquired: the call to the team leader begins.
LeadAdmit(r) ==
    /\ lead[r].pc = "admit"
    /\ Adm!TryAcquire(lead[r].team)
    /\ LeadSet(r, [lead[r] EXCEPT !.pc = "call", !.att = 0])
    /\ UNCHANGED <<up, crashes, cache, tokens, tl, wk, canc>>

\* AdmissionGuard refused: the whole query fails, even if the other team has
\* answered already.
LeadRefused(r) ==
    /\ lead[r].pc = "admit"
    /\ ~Adm!CanAcquire(lead[r].team)
    /\ LeadSet(r, [lead[r] EXCEPT !.pc = "done",
                                  !.ans = Fail("RESOURCE_EXHAUSTED")])
    /\ UNCHANGED <<up, crashes, cache, tokens, sched, tl, wk, canc>>

\* Fault: the slot is given back only when the call succeeded.
LeadOutcomeLeak(r, a) ==
    LET l == lead[r] t == l.team IN
    IF Retriable(a) /\ l.att < MaxRetries
      THEN /\ LeadSet(r, [l EXCEPT !.pc = "call", !.att = @ + 1])
           /\ UNCHANGED sched
      ELSE /\ IF a.code = "OK" THEN Adm!Release(t) ELSE UNCHANGED sched
           /\ LeadSet(r, [l EXCEPT !.got[t] = a,
                                   !.pc = IF t = "GREEN" /\ "PINK" \in l.target
                                            THEN "admit" ELSE "merge",
                                   !.team = "PINK"])

\* Fault: one attempt too many.
LeadOutcomeOneMore(r, a) ==
    LET l == lead[r] t == l.team IN
    IF Retriable(a) /\ l.att <= MaxRetries
      THEN /\ LeadSet(r, [l EXCEPT !.pc = "call", !.att = @ + 1])
           /\ UNCHANGED sched
      ELSE /\ Adm!Release(t)
           /\ LeadSet(r, [l EXCEPT !.got[t] = a, !.pc = "merge"])

\* CallWithRetries gets the outcome of an attempt: another attempt after the
\* backoff, or the end of the call, with which the guard's block is left.
LeadOutcome(r, a) ==
    LET l == lead[r] t == l.team IN
    IF Retriable(a) /\ l.att < MaxRetries
      THEN /\ LeadSet(r, [l EXCEPT !.pc = "call", !.att = @ + 1])
           /\ UNCHANGED sched
      ELSE /\ Adm!Release(t)
           /\ LeadSet(r, [l EXCEPT !.got[t] = a,
                                   !.pc = IF t = "GREEN" /\ "PINK" \in l.target
                                            THEN "admit" ELSE "merge",
                                   !.team = "PINK"])

\* The thread that A's current attempt runs at the team leader.
TlOf(r) == <<r, lead[r].team, lead[r].att>>

LeadCall(r) ==
    /\ lead[r].pc = "call"
    /\ IF up[TeamLeader[lead[r].team]]
         THEN /\ tl' = [tl EXCEPT ![TlOf(r)].pc = "register"]
              /\ LeadAt(r, "await")
              /\ UNCHANGED sched
         ELSE LeadOutcome(r, Fail("UNAVAILABLE")) /\ UNCHANGED tl
    /\ UNCHANGED <<up, crashes, cache, tokens, wk, canc>>

LeadReturn(r) ==
    /\ lead[r].pc = "await"
    /\ \E a \in Outcomes(tl[TlOf(r)]) : LeadOutcome(r, a)
    /\ UNCHANGED <<up, crashes, cache, tokens, tl, wk, canc>>

\* One team is enough for an answer, and every answer is cached.
LeadMerge(r) ==
    /\ lead[r].pc = "merge"
    /\ LET l   == lead[r]
           oks == {t \in Teams : l.got[t].code = "OK"}
           a   == Chunk(UNION {l.got[t].keys : t \in oks})
       IN  IF oks = {}
             THEN /\ LeadSet(r, [l EXCEPT !.pc = "done",
                                          !.ans = Fail("UNAVAILABLE")])
                  /\ UNCHANGED cache
             ELSE /\ LeadSet(r, [l EXCEPT !.pc = "done", !.ans = a])
                  /\ CachePut("A", l.range, a)
    /\ UNCHANGED <<up, crashes, tokens, sched, tl, wk, canc>>

LeadStep(r) ==
    \/ LeadRegister(r) \/ LeadLookup(r) \/ LeadAdmit(r) \/ LeadRefused(r)
    \/ LeadCall(r) \/ LeadReturn(r) \/ LeadMerge(r)

-----------------------------------------------------------------------------
(***************************************************************************)
(* Team leaders B and E: InitQuery, InitQueryTeamLeader, E's InitQuery     *)
(***************************************************************************)
TlThreads == Requests \X Teams \X Attempts

TlSet(c, x)    == tl' = [tl EXCEPT ![c] = x]
TlAt(c, pc)    == TlSet(c, [tl[c] EXCEPT !.pc = pc])
TlReply(c, a)  == TlSet(c, [tl[c] EXCEPT !.pc = "done", !.ans = a])

\* The node, the request and the range of a thread.
TlNode(c)  == TeamLeader[c[2]]
TlRange(c) == lead[c[1]].range

TlRegister(c) ==
    /\ tl[c].pc = "register"
    /\ Register(TlNode(c), c[1])
    /\ TlAt(c, "lookup")
    /\ UNCHANGED <<up, crashes, cache, sched, lead, wk, canc>>

TlLookup(c) ==
    /\ tl[c].pc = "lookup"
    /\ LET hit == CacheGet(TlNode(c), TlRange(c))
       IN  IF hit # NoAnswer THEN TlReply(c, hit)
           ELSE TlAt(c, IF c[2] \in PyLeaders THEN "call" ELSE "lookup2")
    /\ UNCHANGED <<up, crashes, cache, tokens, sched, lead, wk, canc>>

\* handler.cc looks once more after it has found the worker.
TlLookup2(c) ==
    /\ tl[c].pc = "lookup2"
    /\ LET hit == CacheGet(TlNode(c), TlRange(c))
       IN  IF hit # NoAnswer THEN TlReply(c, hit) ELSE TlAt(c, "call")
    /\ UNCHANGED <<up, crashes, cache, tokens, sched, lead, wk, canc>>

\* Fault: the reply is cached whatever its status.
TlOutcomeCacheAll(c, a) ==
    IF c[2] \notin PyLeaders /\ Retriable(a) /\ tl[c].att < MaxRetries
      THEN /\ TlSet(c, [tl[c] EXCEPT !.pc = "call", !.att = @ + 1])
           /\ UNCHANGED cache
      ELSE /\ TlReply(c, a)
           /\ CachePut(TlNode(c), TlRange(c), a)

\* The outcome of a call to the worker.  handler.cc retries; server_e.py
\* calls once, and reports every failure as UNAVAILABLE.
TlOutcome(c, a) ==
    IF c[2] \notin PyLeaders /\ Retriable(a) /\ tl[c].att < MaxRetries
      THEN /\ TlSet(c, [tl[c] EXCEPT !.pc = "call", !.att = @ + 1])
           /\ UNCHANGED cache
    ELSE IF a.code = "OK"
      THEN TlReply(c, a) /\ CachePut(TlNode(c), TlRange(c), a)
    ELSE /\ TlReply(c, IF c[2] \in PyLeaders THEN Fail("UNAVAILABLE") ELSE a)
         /\ UNCHANGED cache

\* The thread that its current attempt runs at the worker.
WkOf(c) == <<c[1], c[2], c[3], tl[c].att>>

TlCall(c) ==
    /\ tl[c].pc = "call"
    /\ IF up[Worker[c[2]]]
         THEN /\ wk' = [wk EXCEPT ![WkOf(c)].pc = "register"]
              /\ TlAt(c, "await")
              /\ UNCHANGED cache
         ELSE TlOutcome(c, Fail("UNAVAILABLE")) /\ UNCHANGED wk
    /\ UNCHANGED <<up, crashes, tokens, sched, lead, canc>>

TlReturn(c) ==
    /\ tl[c].pc = "await"
    /\ \E a \in Outcomes(wk[WkOf(c)]) : TlOutcome(c, a)
    /\ UNCHANGED <<up, crashes, tokens, sched, lead, wk, canc>>

TlStep(c) ==
    \/ TlRegister(c) \/ TlLookup(c) \/ TlLookup2(c) \/ TlCall(c) \/ TlReturn(c)

-----------------------------------------------------------------------------
(***************************************************************************)
(* Workers C and F: InitQuery, InitQueryWorker, F's InitQuery              *)
(***************************************************************************)
WkThreads == Requests \X Teams \X Attempts \X Attempts

WkAt(d, pc)   == wk' = [wk EXCEPT ![d].pc = pc]
WkReply(d, a) == wk' = [wk EXCEPT ![d] = [pc |-> "done", ans |-> a]]

WkNode(d)  == Worker[d[2]]
WkRange(d) == lead[d[1]].range

WkRegister(d) ==
    /\ wk[d].pc = "register"
    /\ Register(WkNode(d), d[1])
    /\ WkAt(d, "lookup")
    /\ UNCHANGED <<up, crashes, cache, sched, lead, tl, canc>>

WkLookup(d) ==
    /\ wk[d].pc = "lookup"
    /\ LET hit == CacheGet(WkNode(d), WkRange(d))
       IN  IF hit # NoAnswer THEN WkReply(d, hit) ELSE WkAt(d, "check")
    /\ UNCHANGED <<up, crashes, cache, tokens, sched, lead, tl, canc>>

\* CancellationRegistry::IsCancelled.
IsCancelled(n, r) == tokens[n][r] = "cancelled"

\* The only place on the query path that looks at the cancellation.
WkCheck(d) ==
    /\ wk[d].pc = "check"
    /\ IF IsCancelled(WkNode(d), d[1])
         THEN WkReply(d, Fail("CANCELLED"))
         ELSE WkAt(d, IF d[2] \in PyWorkers THEN "compute" ELSE "lookup2")
    /\ UNCHANGED <<up, crashes, cache, tokens, sched, lead, tl, canc>>

WkLookup2(d) ==
    /\ wk[d].pc = "lookup2"
    /\ LET hit == CacheGet(WkNode(d), WkRange(d))
       IN  IF hit # NoAnswer THEN WkReply(d, hit) ELSE WkAt(d, "compute")
    /\ UNCHANGED <<up, crashes, cache, tokens, sched, lead, tl, canc>>

\* handler.cc returns an empty result without caching it; server_f.py caches
\* it as any other.
WkCompute(d) ==
    /\ wk[d].pc = "compute"
    /\ LET a == Chunk(FirstChunk[d[2]][WkRange(d)])
       IN  /\ WkReply(d, a)
           /\ IF a.keys = {} /\ d[2] \notin PyWorkers
                THEN UNCHANGED cache
                ELSE CachePut(WkNode(d), WkRange(d), a)
    /\ UNCHANGED <<up, crashes, tokens, sched, lead, tl, canc>>

WkStep(d) ==
    \/ WkRegister(d) \/ WkLookup(d) \/ WkCheck(d) \/ WkLookup2(d)
    \/ WkCompute(d)

-----------------------------------------------------------------------------
(***************************************************************************)
(* Cancel                                                                  *)
(***************************************************************************)
\* The stubs PropagateCancel calls, in their order: the neighbours not on the
\* path.  D is left out: no query is sent to it, so its registry has no
\* entry, and it answers "not found" and forwards nothing.
Downstream == [n \in Nodes |-> CASE n = "A" -> <<"B", "E">>
                                 [] n = "B" -> <<"C">>
                                 [] n = "E" -> <<"F">>
                                 [] OTHER   -> <<>>]

CancelAt(r, n, pc) == canc' = [canc EXCEPT ![r][n] = pc]

\* A client cancels its query, before or after the answer.
ClientCancel(r) ==
    /\ r \in Cancelling
    /\ lead[r].pc # "idle"
    /\ canc[r]["A"] = "idle"
    /\ up["A"]
    /\ CancelAt(r, "A", "sent")
    /\ UNCHANGED <<up, crashes, cache, tokens, sched, lead, tl, wk>>

\* CancellationRegistry::Cancel, with the request's own token.
CancelMark(r, n) ==
    /\ canc[r][n] = "sent"
    /\ IF tokens[n][r] = "none"
         THEN CancelAt(r, n, "no") /\ UNCHANGED tokens
         ELSE /\ CancelAt(r, n, "forward")
              /\ tokens' = [tokens EXCEPT ![n][r] = "cancelled"]
    /\ UNCHANGED <<up, crashes, cache, sched, lead, tl, wk>>

\* The next stub.  The reply to the previous one, or its deadline of 1 s, is
\* not looked at.
CancelForward(r, n) ==
    /\ canc[r][n] = "forward"
    /\ \E i \in DOMAIN Downstream[n] :
         LET m == Downstream[n][i] IN
         /\ canc[r][m] = "idle"
         /\ \A j \in 1 .. i - 1 : canc[r][Downstream[n][j]] # "idle"
         /\ CancelAt(r, m, IF up[m] THEN "sent" ELSE "lost")
    /\ UNCHANGED <<up, crashes, cache, tokens, sched, lead, tl, wk>>

\* Fault: the reply waits until every stub has been reached.
CancelReplyAll(r, n) ==
    /\ canc[r][n] = "forward"
    /\ \A i \in DOMAIN Downstream[n] :
         canc[r][Downstream[n][i]] \in {"yes", "no"}
    /\ CancelAt(r, n, "yes")
    /\ UNCHANGED <<up, crashes, cache, tokens, sched, lead, tl, wk>>

CancelReply(r, n) ==
    /\ canc[r][n] = "forward"
    /\ \A i \in DOMAIN Downstream[n] : canc[r][Downstream[n][i]] # "idle"
    /\ CancelAt(r, n, "yes")
    /\ UNCHANGED <<up, crashes, cache, tokens, sched, lead, tl, wk>>

CancelStep(r, n) ==
    CancelMark(r, n) \/ CancelForward(r, n) \/ CancelReply(r, n)

-----------------------------------------------------------------------------
(***************************************************************************)
(* Cache expiry, crashes and restarts                                      *)
(***************************************************************************)
\* The TTL of an entry passes, or it is the least recently used of a full
\* cache: a later lookup misses.
Expire(n, q) ==
    /\ cache[n][q] # NoAnswer
    /\ cache' = [cache EXCEPT ![n][q] = NoAnswer]
    /\ UNCHANGED <<up, crashes, tokens, sched, lead, tl, wk, canc>>

Dying(pc) == IF Stopped(pc) THEN pc ELSE "dead"

\* All state is in memory, and the calls being served end with the process.
Crash(n) ==
    /\ up[n]
    /\ crashes < MaxCrashes
    /\ crashes' = crashes + 1
    /\ up' = [up EXCEPT ![n] = FALSE]
    /\ cache' = [cache EXCEPT ![n] = [q \in Ranges |-> NoAnswer]]
    /\ tokens' = [tokens EXCEPT ![n] = [r \in Requests |-> "none"]]
    /\ IF n = "A"
         THEN /\ Adm!SchedReset
              /\ lead' = [r \in Requests |->
                            [lead[r] EXCEPT !.pc = Dying(@)]]
         ELSE UNCHANGED <<sched, lead>>
    /\ tl' = [c \in TlThreads |->
                IF TlNode(c) = n THEN [tl[c] EXCEPT !.pc = Dying(@)] ELSE tl[c]]
    /\ wk' = [d \in WkThreads |->
                IF WkNode(d) = n THEN [wk[d] EXCEPT !.pc = Dying(@)] ELSE wk[d]]
    /\ canc' = [r \in Requests |->
                  [canc[r] EXCEPT ![n] =
                     IF @ \in {"sent", "forward"} THEN "lost" ELSE @]]

Restart(n) ==
    /\ ~up[n]
    /\ up' = [up EXCEPT ![n] = TRUE]
    /\ UNCHANGED <<crashes, cache, tokens, sched, lead, tl, wk, canc>>

-----------------------------------------------------------------------------
Next ==
    \/ \E r \in Requests : ClientSend(r) \/ LeadStep(r) \/ ClientCancel(r)
    \/ \E c \in TlThreads : TlStep(c)
    \/ \E d \in WkThreads : WkStep(d)
    \/ \E r \in Requests, n \in Nodes : CancelStep(r, n)
    \/ \E n \in Nodes, q \in Ranges : Expire(n, q)
    \/ \E n \in Nodes : Crash(n) \/ Restart(n)

Spec == Init /\ [][Next]_vars

\* Only the threads of A are assumed to run: its calls return by their
\* deadlines, whatever the other nodes do.
FairSpec ==
    Spec /\ \A r \in Requests : WF_vars(LeadStep(r))
                             /\ WF_vars(CancelStep(r, "A"))

-----------------------------------------------------------------------------
(***************************************************************************)
(* Properties                                                              *)
(***************************************************************************)
TypeOK ==
    /\ up \in [Nodes -> BOOLEAN]
    /\ crashes \in 0 .. MaxCrashes
    /\ cache \in [Nodes -> [Ranges -> Answers]]
    /\ tokens \in [Nodes -> [Requests -> {"none", "live", "cancelled"}]]
    /\ Adm!TypeOK
    /\ lead \in [Requests -> [pc : LeadPc, team : Teams, att : Attempts,
                              target : Targets, range : Ranges,
                              got : [Teams -> Answers], ans : Answers]]
    /\ tl \in [TlThreads -> [pc : TlPc, att : Attempts, ans : Answers]]
    /\ wk \in [WkThreads -> [pc : WkPc, ans : Answers]]
    /\ canc \in [Requests -> [Nodes -> CancPc]]

\* What the teams T answer to a query of range q, if all of them answer.
TeamsAnswer(T, q) == Chunk(UNION {FirstChunk[t][q] : t \in T})

\* The teams that clients have asked for range q so far.
Asked(q) ==
    UNION {lead[r].target : r \in {s \in Requests : /\ lead[s].pc # "idle"
                                                   /\ lead[s].range = q}}

\* What node n may hold for range q, or answer: A any of the teams asked for,
\* the nodes of a team what that team answers.
NodeAnswers(n, q) ==
    IF n = "A" THEN {TeamsAnswer(T, q) : T \in (SUBSET Asked(q)) \ {{}}}
    ELSE {TeamsAnswer({t}, q) : t \in {u \in Teams : n \in {TeamLeader[u], Worker[u]}}}

CachesTruthful ==
    \A n \in Nodes, q \in Ranges : cache[n][q] \in {NoAnswer} \cup NodeAnswers(n, q)

LeadTruthful ==
    \A r \in Requests, q \in Ranges :
        (lead[r].range = q /\ lead[r].ans.code = "OK") =>
            lead[r].ans \in NodeAnswers("A", q)

TlTruthful ==
    \A c \in TlThreads : tl[c].ans.code = "OK" =>
        tl[c].ans \in NodeAnswers(TlNode(c), TlRange(c))

WkTruthful ==
    \A d \in WkThreads : wk[d].ans.code = "OK" =>
        wk[d].ans \in NodeAnswers(WkNode(d), WkRange(d))

\* Nothing but the data of the right team and range is ever cached or
\* answered with OK, under retries, orphaned calls, crashes and cancellation:
\* a failure is never cached as an answer, an answer never holds keys of a
\* team nobody asked for, and the chunk of one range is never served for
\* another.
Truthful == CachesTruthful /\ LeadTruthful /\ TlTruthful /\ WkTruthful

\* A query is stopped as cancelled only if its own client cancelled it: no
\* retry, late call, crash or cancellation of another query does that.
NoSpuriousCancellation ==
    \A d \in WkThreads :
        wk[d].ans.code = "CANCELLED" => canc[d[1]]["A"] \in {"forward", "yes", "lost"}

\* The admission of the running system is that of AdmissionControl: whatever
\* way a query ends, its slots are taken and given back as there.
AdmissionImplemented == Adm!Spec

\* Every query gets an answer, though the other nodes may hang or be down.
Answered ==
    \A r \in Requests : lead[r].pc = "register" ~> Stopped(lead[r].pc)

\* Every Cancel gets a reply.
CancelAnswered ==
    \A r \in Requests :
        canc[r]["A"] = "sent" ~> canc[r]["A"] \in {"yes", "no", "lost"}

(***************************************************************************)
(* What the documents say and the code does not do                         *)
(***************************************************************************)
\* A test that asks the GREEN team gets the keys of the GREEN team.  The cache
\* key has no target.
AnswerMatchesTarget ==
    \A r \in Requests : lead[r].ans.code = "OK" =>
        lead[r].ans.keys \subseteq
            UNION {FirstChunk[t][lead[r].range] : t \in lead[r].target}

\* "Mark request as cancelled": the mark stays as long as the process lives.
\* The Register of a retried call wipes it.
CancelSticks ==
    [][\A n \in Nodes, r \in Requests :
         (tokens[n][r] = "cancelled" /\ up'[n]) => tokens'[n][r] = "cancelled"]_vars
=============================================================================
