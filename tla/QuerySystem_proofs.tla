------------------------- MODULE QuerySystem_proofs -------------------------
(***************************************************************************)
(* Proofs about QuerySystem, in eight parts:                               *)
(*  - type correctness of all but the admission state;                     *)
(*  - the system implements AdmissionControl (RefinesAdmission): a thread  *)
(*    of A that has a call in progress is an AdmissionGuard;               *)
(*  - what a query asks for never changes (Fixed), and with it the         *)
(*    inductive invariant IInv: everything cached or answered is right,    *)
(*    and A holds for each team what that team answered (GotTruthful);     *)
(*  - the theorems about AdmissionControl, carried over;                   *)
(*  - MarkedFromRoot, inductive beside IInv: cancellation spreads from A   *)
(*    to the registries below it and from there to the workers;            *)
(*  - SameTargets and LeadRankBounded: what isolates the wrong answers to  *)
(*    the cache key, and the progress of A's threads towards an answer;    *)
(*  - TokensInv, inductive: a node that knows a request has a thread that  *)
(*    registered it, so that only a retried call unmarks a cancelled one;  *)
(*  - CancelWork, which every step of a Cancel lowers.                     *)
(***************************************************************************)
EXTENDS QuerySystem, TLAPS

\* The records of the threads.
Leads == [pc : LeadPc, team : Teams, att : Attempts, target : Targets,
          range : Ranges, got : [Teams -> Answers], ans : Answers]
Tls   == [pc : TlPc, att : Attempts, ans : Answers]
Wks   == [pc : WkPc, ans : Answers]

\* TypeOK without the admission state, which AdmissionControl types.
LocalTypeOK ==
    /\ up \in [Nodes -> BOOLEAN]
    /\ crashes \in 0 .. MaxCrashes
    /\ cache \in [Nodes -> [Ranges -> Answers]]
    /\ tokens \in [Nodes -> [Requests -> {"none", "live", "cancelled"}]]
    /\ lead \in [Requests -> Leads]
    /\ tl \in [TlThreads -> Tls]
    /\ wk \in [WkThreads -> Wks]
    /\ canc \in [Requests -> [Nodes -> CancPc]]

\* The leader and the worker of a team are nodes.
LEMMA NodesOf == \A t \in Teams : TeamLeader[t] \in Nodes /\ Worker[t] \in Nodes
    BY DEF Teams, Nodes, TeamLeader, Worker

\* An attempt that may be repeated has a next one.
LEMMA AttemptFacts ==
    /\ 0 \in Attempts
    /\ \A i \in Attempts : i < MaxRetries => i + 1 \in Attempts
    BY MaxAssumption DEF Attempts

\* What the operators for answers build are answers.
LEMMA AnswerFacts ==
    /\ NoAnswer \in Answers
    /\ \A c \in Codes : Fail(c) \in Answers
    /\ \A K \in SUBSET Keys : Chunk(K) \in Answers
    BY DEF NoAnswer, Fail, Chunk, Answers, Codes

\* The initial states are of the right types.
LEMMA InitType == Init => LocalTypeOK
<1> SUFFICES ASSUME Init PROVE LocalTypeOK
    OBVIOUS
<1>1. /\ up \in [Nodes -> BOOLEAN]
      /\ crashes \in 0 .. MaxCrashes
    BY MaxAssumption DEF Init
<1>2. /\ cache \in [Nodes -> [Ranges -> Answers]]
      /\ tokens \in [Nodes -> [Requests -> {"none", "live", "cancelled"}]]
    BY AnswerFacts DEF Init
<1>3. lead \in [Requests -> Leads]
  <2>1. [t \in Teams |-> NoAnswer] \in [Teams -> Answers]
    BY AnswerFacts
  <2>2. [pc : {"idle"}, team : {"GREEN"}, att : {0},
         target : Targets, range : Ranges,
         got : {[t \in Teams |-> NoAnswer]}, ans : {NoAnswer}] \subseteq Leads
    BY <2>1, AnswerFacts, AttemptFacts DEF Leads, LeadPc, Teams
  <2> QED BY <2>2 DEF Init
<1>4. tl \in [TlThreads -> Tls]
    BY AnswerFacts, AttemptFacts DEF Init, TlThreads, Tls, TlPc
<1>5. wk \in [WkThreads -> Wks]
    BY AnswerFacts DEF Init, WkThreads, Wks, WkPc
<1>6. canc \in [Requests -> [Nodes -> CancPc]]
    BY DEF Init, CancPc
<1> QED BY <1>1, <1>2, <1>3, <1>4, <1>5, <1>6 DEF LocalTypeOK

\* What each thread does with its own record.
LEMMA LeadSetType ==
    ASSUME LocalTypeOK, NEW r \in Requests, NEW l \in Leads, LeadSet(r, l)
    PROVE  lead' \in [Requests -> Leads]
    BY DEF LocalTypeOK, LeadSet

\* A Put leaves the caches well typed.
LEMMA CachePutType ==
    ASSUME LocalTypeOK, NEW n \in Nodes, NEW q \in Ranges, NEW a \in Answers,
           CachePut(n, q, a)
    PROVE  cache' \in [Nodes -> [Ranges -> Answers]]
    BY DEF LocalTypeOK, CachePut

\* A registration leaves the registries well typed.
LEMMA RegisterType ==
    ASSUME LocalTypeOK, NEW n \in Nodes, NEW r \in Requests, Register(n, r)
    PROVE  tokens' \in [Nodes -> [Requests -> {"none", "live", "cancelled"}]]
    BY DEF LocalTypeOK, Register

\* An update leaves the threads of the team leaders well typed.
LEMMA TlSetType ==
    ASSUME LocalTypeOK, NEW c \in TlThreads, NEW x \in Tls, TlSet(c, x)
    PROVE  tl' \in [TlThreads -> Tls]
    BY DEF LocalTypeOK, TlSet

\* A caller sees answers, whatever becomes of its callee.
LEMMA OutcomesType ==
    ASSUME NEW callee, callee.ans \in Answers
    PROVE  Outcomes(callee) \subseteq Answers
    BY AnswerFacts DEF Outcomes, Codes

\* A's current attempt has a thread at the team leader.
LEMMA TlOfThread ==
    ASSUME LocalTypeOK, NEW r \in Requests
    PROVE  TlOf(r) \in TlThreads /\ tl[TlOf(r)] \in Tls
<1>1. lead[r] \in Leads
    BY DEF LocalTypeOK
<1> QED BY <1>1 DEF LocalTypeOK, TlOf, TlThreads, Leads

\* The retry loop keeps the attempt within max_retries.
LEMMA LeadOutcomeType ==
    ASSUME LocalTypeOK, NEW r \in Requests, NEW a \in Answers,
           LeadOutcome(r, a)
    PROVE  lead' \in [Requests -> Leads]
<1> DEFINE l == lead[r]
<1>1. l \in Leads
    BY DEF LocalTypeOK
<1>2. CASE Retriable(a) /\ l.att < MaxRetries
  <2>1. [l EXCEPT !.pc = "call", !.att = @ + 1] \in Leads
    BY <1>1, <1>2, AttemptFacts DEF Leads, LeadPc
  <2> QED BY <1>2, <2>1, LeadSetType DEF LeadOutcome
<1>3. CASE ~(Retriable(a) /\ l.att < MaxRetries)
  <2> DEFINE k == [l EXCEPT !.got[l.team] = a,
                            !.pc = IF l.team = "GREEN" /\ "PINK" \in l.target
                                     THEN "admit" ELSE "merge",
                            !.team = "PINK"]
  <2>1. [l.got EXCEPT ![l.team] = a] \in [Teams -> Answers]
    BY <1>1 DEF Leads
  <2>2. k \in Leads
    BY <1>1, <2>1 DEF Leads, LeadPc, Teams
  <2>3. LeadSet(r, k)
    BY <1>3 DEF LeadOutcome
  <2> QED BY <2>2, <2>3, LeadSetType
<1> QED BY <1>2, <1>3

\* The steps of a thread of A preserve the types.
LEMMA LeadStepType ==
    ASSUME LocalTypeOK, NEW r \in Requests, LeadStep(r)
    PROVE  LocalTypeOK'
<1>0. lead[r] \in Leads
    BY DEF LocalTypeOK
<1>1. CASE LeadRegister(r)
  <2>1. [lead[r] EXCEPT !.pc = "lookup"] \in Leads
    BY <1>0 DEF Leads, LeadPc
  <2>2. lead' \in [Requests -> Leads]
    BY <1>1, <2>1, LeadSetType DEF LeadRegister, LeadAt
  <2>3. tokens' \in [Nodes -> [Requests -> {"none", "live", "cancelled"}]]
    BY <1>1 DEF LeadRegister, Register, LocalTypeOK
  <2> QED BY <1>1, <2>2, <2>3 DEF LeadRegister, LocalTypeOK
<1>2. CASE LeadLookup(r)
  <2>1. cache["A"][lead[r].range] \in Answers
    BY <1>0 DEF LocalTypeOK, Leads, Nodes
  <2>2. /\ [lead[r] EXCEPT !.pc = "done", !.ans = cache["A"][lead[r].range]] \in Leads
        /\ [lead[r] EXCEPT !.pc = "merge"] \in Leads
        /\ [lead[r] EXCEPT !.pc = "admit", !.team = FirstTeam(lead[r].target)] \in Leads
    BY <1>0, <2>1 DEF Leads, LeadPc, FirstTeam, Teams
  <2>3. lead' \in [Requests -> Leads]
    BY <1>2, <2>2, LeadSetType DEF LeadLookup, CacheGet
  <2> QED BY <1>2, <2>3 DEF LeadLookup, LocalTypeOK
<1>3. CASE LeadAdmit(r)
  <2>1. [lead[r] EXCEPT !.pc = "call", !.att = 0] \in Leads
    BY <1>0, AttemptFacts DEF Leads, LeadPc
  <2>2. lead' \in [Requests -> Leads]
    BY <1>3, <2>1, LeadSetType DEF LeadAdmit
  <2> QED BY <1>3, <2>2 DEF LeadAdmit, LocalTypeOK
<1>4. CASE LeadRefused(r)
  <2>1. [lead[r] EXCEPT !.pc = "done", !.ans = Fail("RESOURCE_EXHAUSTED")] \in Leads
    BY <1>0, AnswerFacts DEF Leads, LeadPc, Codes
  <2>2. lead' \in [Requests -> Leads]
    BY <1>4, <2>1, LeadSetType DEF LeadRefused
  <2> QED BY <1>4, <2>2 DEF LeadRefused, LocalTypeOK
<1>5. CASE LeadCall(r)
  <2>1. lead' \in [Requests -> Leads]
    <3>1. CASE up[TeamLeader[lead[r].team]]
      <4>1. [lead[r] EXCEPT !.pc = "await"] \in Leads
        BY <1>0 DEF Leads, LeadPc
      <4> QED BY <1>5, <3>1, <4>1, LeadSetType DEF LeadCall, LeadAt
    <3>2. CASE ~up[TeamLeader[lead[r].team]]
      BY <1>5, <3>2, AnswerFacts, LeadOutcomeType DEF LeadCall, Codes
    <3> QED BY <3>1, <3>2
  <2>2. tl' \in [TlThreads -> Tls]
    <3>1. [tl[TlOf(r)] EXCEPT !.pc = "register"] \in Tls
      BY TlOfThread DEF Tls, TlPc
    <3>2. tl' = tl \/ tl' = [tl EXCEPT ![TlOf(r)] = [@ EXCEPT !.pc = "register"]]
      BY <1>5 DEF LeadCall
    <3> QED BY <3>1, <3>2 DEF LocalTypeOK
  <2> QED BY <1>5, <2>1, <2>2 DEF LeadCall, LocalTypeOK
<1>6. CASE LeadReturn(r)
  <2>1. Outcomes(tl[TlOf(r)]) \subseteq Answers
    BY TlOfThread, OutcomesType DEF Tls
  <2>2. lead' \in [Requests -> Leads]
    BY <1>6, <2>1, LeadOutcomeType DEF LeadReturn
  <2> QED BY <1>6, <2>2 DEF LeadReturn, LocalTypeOK
<1>7. CASE LeadMerge(r)
  <2> DEFINE oks == {t \in Teams : lead[r].got[t].code = "OK"}
             a   == Chunk(UNION {lead[r].got[t].keys : t \in oks})
  <2>1. a \in Answers
    BY <1>0, AnswerFacts DEF Leads, Answers
  <2>2. /\ [lead[r] EXCEPT !.pc = "done", !.ans = Fail("UNAVAILABLE")] \in Leads
        /\ [lead[r] EXCEPT !.pc = "done", !.ans = a] \in Leads
    BY <1>0, <2>1, AnswerFacts DEF Leads, LeadPc, Codes
  <2>3. lead' \in [Requests -> Leads]
    BY <1>7, <2>2, LeadSetType DEF LeadMerge
  <2>4. UNCHANGED cache \/ CachePut("A", lead[r].range, a)
    BY <1>7 DEF LeadMerge
  <2>5. "A" \in Nodes /\ lead[r].range \in Ranges
    BY <1>0 DEF Nodes, Leads
  <2>6. cache' \in [Nodes -> [Ranges -> Answers]]
    BY <2>1, <2>4, <2>5, CachePutType DEF LocalTypeOK
  <2> QED BY <1>7, <2>3, <2>6 DEF LeadMerge, LocalTypeOK
<1> QED BY <1>1, <1>2, <1>3, <1>4, <1>5, <1>6, <1>7 DEF LeadStep

\* The node, the range and the callee of a thread of a team leader.
LEMMA TlFacts ==
    ASSUME LocalTypeOK, NEW c \in TlThreads
    PROVE  /\ tl[c] \in Tls
           /\ TlNode(c) \in Nodes
           /\ TlRange(c) \in Ranges
           /\ c[1] \in Requests /\ c[2] \in Teams /\ c[3] \in Attempts
           /\ WkOf(c) \in WkThreads
           /\ wk[WkOf(c)] \in Wks
<1>1. tl[c] \in Tls
    BY DEF LocalTypeOK
<1>2. c[1] \in Requests /\ c[2] \in Teams /\ c[3] \in Attempts
    BY DEF TlThreads
<1>3. TlNode(c) \in Nodes
    BY <1>2, NodesOf DEF TlNode
<1>4. TlRange(c) \in Ranges
    BY <1>2 DEF TlRange, LocalTypeOK, Leads
<1>5. WkOf(c) \in WkThreads
    BY <1>1, <1>2 DEF WkOf, WkThreads, Tls
<1> QED BY <1>1, <1>2, <1>3, <1>4, <1>5 DEF LocalTypeOK

\* The retry loop of a team leader keeps its attempt within max_retries.
LEMMA TlOutcomeType ==
    ASSUME LocalTypeOK, NEW c \in TlThreads, NEW a \in Answers,
           TlOutcome(c, a)
    PROVE  /\ tl' \in [TlThreads -> Tls]
           /\ cache' \in [Nodes -> [Ranges -> Answers]]
<1>1. tl[c] \in Tls
    BY TlFacts
<1>2. /\ tl[c].att < MaxRetries =>
             [tl[c] EXCEPT !.pc = "call", !.att = @ + 1] \in Tls
      /\ [tl[c] EXCEPT !.pc = "done", !.ans = a] \in Tls
      /\ [tl[c] EXCEPT !.pc = "done", !.ans = Fail("UNAVAILABLE")] \in Tls
    BY <1>1, AttemptFacts, AnswerFacts DEF Tls, TlPc, Codes
<1>3. tl' \in [TlThreads -> Tls]
    BY <1>2, TlSetType DEF TlOutcome, TlReply
<1>4. UNCHANGED cache \/ CachePut(TlNode(c), TlRange(c), a)
    BY DEF TlOutcome
<1> QED BY <1>3, <1>4, TlFacts, CachePutType DEF LocalTypeOK

\* The steps of a team leader preserve the types.
LEMMA TlStepType ==
    ASSUME LocalTypeOK, NEW c \in TlThreads, TlStep(c)
    PROVE  LocalTypeOK'
<1>0. /\ tl[c] \in Tls
      /\ \A pc \in TlPc : [tl[c] EXCEPT !.pc = pc] \in Tls
    BY TlFacts DEF Tls
<1>1. CASE TlRegister(c)
  <2>1. tl' \in [TlThreads -> Tls]
    BY <1>0, <1>1, TlSetType DEF TlRegister, TlAt, TlPc
  <2>2. tokens' \in [Nodes -> [Requests -> {"none", "live", "cancelled"}]]
    BY <1>1, TlFacts, RegisterType DEF TlRegister
  <2> QED BY <1>1, <2>1, <2>2 DEF TlRegister, LocalTypeOK
<1> DEFINE hit == cache[TlNode(c)][TlRange(c)]
<1>2. [tl[c] EXCEPT !.pc = "done", !.ans = hit] \in Tls
  <2>1. hit \in Answers
    BY TlFacts DEF LocalTypeOK
  <2> QED BY <1>0, <2>1 DEF Tls, TlPc
<1>3. CASE TlLookup(c)
  <2>1. tl' \in [TlThreads -> Tls]
    BY <1>0, <1>2, <1>3, TlSetType DEF TlLookup, TlAt, TlReply, TlPc, CacheGet
  <2> QED BY <1>3, <2>1 DEF TlLookup, LocalTypeOK
<1>4. CASE TlLookup2(c)
  <2>1. tl' \in [TlThreads -> Tls]
    BY <1>0, <1>2, <1>4, TlSetType DEF TlLookup2, TlAt, TlReply, TlPc, CacheGet
  <2> QED BY <1>4, <2>1 DEF TlLookup2, LocalTypeOK
<1>5. CASE TlCall(c)
  <2>1. CASE up[Worker[c[2]]]
    <3>1. tl' \in [TlThreads -> Tls]
      BY <1>0, <1>5, <2>1, TlSetType DEF TlCall, TlAt, TlPc
    <3>2. [wk[WkOf(c)] EXCEPT !.pc = "register"] \in Wks
      BY TlFacts DEF Wks, WkPc
    <3>3. wk' = [wk EXCEPT ![WkOf(c)] = [@ EXCEPT !.pc = "register"]]
      BY <1>5, <2>1 DEF TlCall
    <3>4. wk' \in [WkThreads -> Wks]
      BY <3>2, <3>3 DEF LocalTypeOK
    <3> QED BY <1>5, <2>1, <3>1, <3>4 DEF TlCall, LocalTypeOK
  <2>2. CASE ~up[Worker[c[2]]]
    <3>1. TlOutcome(c, Fail("UNAVAILABLE")) /\ UNCHANGED wk
      BY <1>5, <2>2 DEF TlCall
    <3> QED BY <1>5, <3>1, AnswerFacts, TlOutcomeType
            DEF TlCall, LocalTypeOK, Codes
  <2> QED BY <2>1, <2>2
<1>6. CASE TlReturn(c)
  <2>1. Outcomes(wk[WkOf(c)]) \subseteq Answers
    BY TlFacts, OutcomesType DEF Wks
  <2>2. PICK a \in Answers : TlOutcome(c, a)
    BY <1>6, <2>1 DEF TlReturn
  <2> QED BY <1>6, <2>2, TlOutcomeType DEF TlReturn, LocalTypeOK
<1> QED BY <1>1, <1>3, <1>4, <1>5, <1>6 DEF TlStep

\* The node and the range of a thread of a worker.
LEMMA WkFacts ==
    ASSUME LocalTypeOK, NEW d \in WkThreads
    PROVE  /\ wk[d] \in Wks
           /\ WkNode(d) \in Nodes
           /\ WkRange(d) \in Ranges
           /\ d[1] \in Requests /\ d[2] \in Teams
<1>1. d[1] \in Requests /\ d[2] \in Teams
    BY DEF WkThreads
<1>2. WkNode(d) \in Nodes
    BY <1>1, NodesOf DEF WkNode
<1>3. WkRange(d) \in Ranges
    BY <1>1 DEF WkRange, LocalTypeOK, Leads
<1> QED BY <1>1, <1>2, <1>3 DEF LocalTypeOK

\* A reply leaves the threads of the workers well typed.
LEMMA WkReplyType ==
    ASSUME LocalTypeOK, NEW d \in WkThreads, NEW a \in Answers, WkReply(d, a)
    PROVE  wk' \in [WkThreads -> Wks]
<1>1. [pc |-> "done", ans |-> a] \in Wks
    BY DEF Wks, WkPc
<1> QED BY <1>1 DEF WkReply, LocalTypeOK

\* So does a change of their place in the code.
LEMMA WkAtType ==
    ASSUME LocalTypeOK, NEW d \in WkThreads, NEW pc \in WkPc, WkAt(d, pc)
    PROVE  wk' \in [WkThreads -> Wks]
<1>1. [wk[d] EXCEPT !.pc = pc] \in Wks
    BY WkFacts DEF Wks
<1>2. wk' = [wk EXCEPT ![d] = [@ EXCEPT !.pc = pc]]
    BY DEF WkAt
<1> QED BY <1>1, <1>2 DEF LocalTypeOK

\* The steps of a worker preserve the types.
LEMMA WkStepType ==
    ASSUME LocalTypeOK, NEW d \in WkThreads, WkStep(d)
    PROVE  LocalTypeOK'
<1>0. cache[WkNode(d)][WkRange(d)] \in Answers
    BY WkFacts DEF LocalTypeOK
<1>1. CASE WkRegister(d)
  <2>1. wk' \in [WkThreads -> Wks]
    BY <1>1, WkAtType DEF WkRegister, WkPc
  <2>2. tokens' \in [Nodes -> [Requests -> {"none", "live", "cancelled"}]]
    BY <1>1, WkFacts, RegisterType DEF WkRegister
  <2> QED BY <1>1, <2>1, <2>2 DEF WkRegister, LocalTypeOK
<1>2. CASE WkLookup(d)
  <2>1. wk' \in [WkThreads -> Wks]
    BY <1>0, <1>2, WkAtType, WkReplyType DEF WkLookup, WkPc, CacheGet
  <2> QED BY <1>2, <2>1 DEF WkLookup, LocalTypeOK
<1>3. CASE WkCheck(d)
  <2>1. wk' \in [WkThreads -> Wks]
    BY <1>3, AnswerFacts, WkAtType, WkReplyType DEF WkCheck, WkPc, Codes
  <2> QED BY <1>3, <2>1 DEF WkCheck, LocalTypeOK
<1>4. CASE WkLookup2(d)
  <2>1. wk' \in [WkThreads -> Wks]
    BY <1>0, <1>4, WkAtType, WkReplyType DEF WkLookup2, WkPc, CacheGet
  <2> QED BY <1>4, <2>1 DEF WkLookup2, LocalTypeOK
<1>5. CASE WkCompute(d)
  <2> DEFINE a == Chunk(FirstChunk[d[2]][WkRange(d)])
  <2>1. a \in Answers
    BY WkFacts, FirstChunkAssumption, AnswerFacts
  <2>2. wk' \in [WkThreads -> Wks]
    BY <1>5, <2>1, WkReplyType DEF WkCompute
  <2>3. UNCHANGED cache \/ CachePut(WkNode(d), WkRange(d), a)
    BY <1>5 DEF WkCompute
  <2>4. cache' \in [Nodes -> [Ranges -> Answers]]
    BY <2>1, <2>3, WkFacts, CachePutType DEF LocalTypeOK
  <2> QED BY <1>5, <2>2, <2>4 DEF WkCompute, LocalTypeOK
<1> QED BY <1>1, <1>2, <1>3, <1>4, <1>5 DEF WkStep

\* A Cancel call that proceeds at one node leaves the others alone.
LEMMA CancAtType ==
    ASSUME LocalTypeOK, NEW r \in Requests, NEW n \in Nodes, NEW pc \in CancPc,
           CancelAt(r, n, pc)
    PROVE  canc' \in [Requests -> [Nodes -> CancPc]]
<1>1. [canc[r] EXCEPT ![n] = pc] \in [Nodes -> CancPc]
    BY DEF LocalTypeOK
<1>2. canc' = [canc EXCEPT ![r] = [@ EXCEPT ![n] = pc]]
    BY DEF CancelAt
<1> QED BY <1>1, <1>2 DEF LocalTypeOK

\* A Cancel is propagated to nodes.
LEMMA DownstreamNodes ==
    \A n \in Nodes : \A i \in DOMAIN Downstream[n] : Downstream[n][i] \in Nodes
    BY DEF Downstream, Nodes

\* The steps of a Cancel preserve the types.
LEMMA CancelType ==
    ASSUME LocalTypeOK, NEW r \in Requests, NEW n \in Nodes,
           ClientCancel(r) \/ CancelStep(r, n)
    PROVE  LocalTypeOK'
<1>1. CASE ClientCancel(r)
  <2>1. canc' \in [Requests -> [Nodes -> CancPc]]
    BY <1>1, CancAtType DEF ClientCancel, CancPc, Nodes
  <2> QED BY <1>1, <2>1 DEF ClientCancel, LocalTypeOK
<1>2. CASE CancelMark(r, n)
  <2>1. canc' \in [Requests -> [Nodes -> CancPc]]
    BY <1>2, CancAtType DEF CancelMark, CancPc
  <2>2. tokens' \in [Nodes -> [Requests -> {"none", "live", "cancelled"}]]
    <3>1. tokens' = tokens \/ tokens' = [tokens EXCEPT ![n][r] = "cancelled"]
      BY <1>2 DEF CancelMark
    <3>2. [tokens[n] EXCEPT ![r] = "cancelled"]
             \in [Requests -> {"none", "live", "cancelled"}]
      BY DEF LocalTypeOK
    <3> QED BY <3>1, <3>2 DEF LocalTypeOK
  <2> QED BY <1>2, <2>1, <2>2 DEF CancelMark, LocalTypeOK
<1>3. CASE CancelForward(r, n)
  <2>1. PICK i \in DOMAIN Downstream[n] :
           CancelAt(r, Downstream[n][i],
                    IF up[Downstream[n][i]] THEN "sent" ELSE "lost")
    BY <1>3 DEF CancelForward
  <2>2. canc' \in [Requests -> [Nodes -> CancPc]]
    BY <2>1, DownstreamNodes, CancAtType DEF CancPc
  <2> QED BY <1>3, <2>2 DEF CancelForward, LocalTypeOK
<1>4. CASE CancelReply(r, n)
  <2>1. canc' \in [Requests -> [Nodes -> CancPc]]
    BY <1>4, CancAtType DEF CancelReply, CancPc
  <2> QED BY <1>4, <2>1 DEF CancelReply, LocalTypeOK
<1> QED BY <1>1, <1>2, <1>3, <1>4 DEF CancelStep

\* A crash preserves the types.
LEMMA CrashType ==
    ASSUME LocalTypeOK, NEW n \in Nodes, Crash(n)
    PROVE  LocalTypeOK'
<1>1. up' \in [Nodes -> BOOLEAN] /\ crashes' \in 0 .. MaxCrashes
    BY MaxAssumption DEF Crash, LocalTypeOK
<1>2. /\ cache' \in [Nodes -> [Ranges -> Answers]]
      /\ tokens' \in [Nodes -> [Requests -> {"none", "live", "cancelled"}]]
    BY AnswerFacts DEF Crash, LocalTypeOK
<1>3. lead' \in [Requests -> Leads]
  <2>1. \A r \in Requests : [lead[r] EXCEPT !.pc = Dying(@)] \in Leads
    BY DEF LocalTypeOK, Leads, Dying, LeadPc
  <2>2. \/ UNCHANGED lead
        \/ lead' = [r \in Requests |-> [lead[r] EXCEPT !.pc = Dying(@)]]
    BY DEF Crash
  <2> QED BY <2>1, <2>2 DEF LocalTypeOK
<1>4. tl' \in [TlThreads -> Tls]
  <2>1. \A c \in TlThreads :
          (IF TlNode(c) = n THEN [tl[c] EXCEPT !.pc = Dying(@)] ELSE tl[c]) \in Tls
    BY DEF LocalTypeOK, Tls, Dying, TlPc
  <2>2. tl' = [c \in TlThreads |->
                 IF TlNode(c) = n THEN [tl[c] EXCEPT !.pc = Dying(@)] ELSE tl[c]]
    BY DEF Crash
  <2> QED BY <2>1, <2>2
<1>5. wk' \in [WkThreads -> Wks]
  <2>1. \A d \in WkThreads :
          (IF WkNode(d) = n THEN [wk[d] EXCEPT !.pc = Dying(@)] ELSE wk[d]) \in Wks
    BY DEF LocalTypeOK, Wks, Dying, WkPc
  <2>2. wk' = [d \in WkThreads |->
                 IF WkNode(d) = n THEN [wk[d] EXCEPT !.pc = Dying(@)] ELSE wk[d]]
    BY DEF Crash
  <2> QED BY <2>1, <2>2
<1>6. canc' \in [Requests -> [Nodes -> CancPc]]
  <2>1. \A r \in Requests :
          canc[r] \in [Nodes -> CancPc]
    BY DEF LocalTypeOK
  <2>2. \A r \in Requests :
          [canc[r] EXCEPT ![n] = IF @ \in {"sent", "forward"} THEN "lost" ELSE @]
             \in [Nodes -> CancPc]
    BY <2>1 DEF CancPc
  <2> QED BY <2>2 DEF Crash
<1> QED BY <1>1, <1>2, <1>3, <1>4, <1>5, <1>6 DEF LocalTypeOK

\* Every step preserves the types.
LEMMA NextType == LocalTypeOK /\ [Next]_vars => LocalTypeOK'
<1> SUFFICES ASSUME LocalTypeOK, [Next]_vars PROVE LocalTypeOK'
    OBVIOUS
<1>1. ASSUME NEW r \in Requests, ClientSend(r) PROVE LocalTypeOK'
  <2>1. [lead[r] EXCEPT !.pc = "register"] \in Leads
    BY DEF LocalTypeOK, Leads, LeadPc
  <2>2. lead' \in [Requests -> Leads]
    BY <1>1, <2>1, LeadSetType DEF ClientSend, LeadAt
  <2> QED BY <1>1, <2>2 DEF ClientSend, LocalTypeOK
<1>2. ASSUME NEW n \in Nodes, NEW q \in Ranges, Expire(n, q) PROVE LocalTypeOK'
  <2>1. cache' \in [Nodes -> [Ranges -> Answers]]
    BY <1>2, AnswerFacts DEF Expire, LocalTypeOK
  <2> QED BY <1>2, <2>1 DEF Expire, LocalTypeOK
<1>3. ASSUME NEW n \in Nodes, Restart(n) PROVE LocalTypeOK'
    BY <1>3 DEF Restart, LocalTypeOK
<1>4. CASE UNCHANGED vars
    BY <1>4 DEF vars, LocalTypeOK
<1>5. "A" \in Nodes
    BY DEF Nodes
<1> QED BY <1>1, <1>2, <1>3, <1>4, <1>5, LeadStepType, TlStepType, WkStepType,
           CancelType, CrashType DEF Next

\* The types of all but the admission state, which is left to AdmissionControl.
LEMMA LocalType == Spec => []LocalTypeOK
<1> QED BY InitType, NextType, PTL DEF Spec

-----------------------------------------------------------------------------
\* The guard of AdmissionControl that a record of A stands for.
InSlot(l) == l.pc \in {"call", "await"}
SlotOf(l) == IF InSlot(l) THEN [team |-> l.team, acquired |-> TRUE]
             ELSE [team |-> "", acquired |-> FALSE]

\* The guards of AdmissionControl, before and after a step.
LEMMA AdmGuardIs ==
    /\ AdmGuard = [r \in Requests |-> SlotOf(lead[r])]
    /\ AdmGuard' = [r \in Requests |-> SlotOf(lead'[r])]
    BY DEF AdmGuard, SlotOf, InSlot, HoldsSlot

\* An update of one record changes the mapped guard of that request only.
LEMMA LeadSetGuard ==
    ASSUME LocalTypeOK, NEW r \in Requests, NEW l, LeadSet(r, l)
    PROVE  AdmGuard' = [AdmGuard EXCEPT ![r] = SlotOf(l)]
<1>1. \A s \in Requests : lead'[s] = IF s = r THEN l ELSE lead[s]
    BY DEF LeadSet, LocalTypeOK
<1> HIDE DEF LeadSet
<1> QED BY <1>1, AdmGuardIs

\* A step that neither takes nor gives back a slot is a stutter of AdmissionControl.
LEMMA SlotKept ==
    ASSUME LocalTypeOK, NEW r \in Requests, NEW l, LeadSet(r, l),
           SlotOf(l) = SlotOf(lead[r]), UNCHANGED sched
    PROVE  UNCHANGED Adm!vars
<1>1. AdmGuard' = AdmGuard
    BY LeadSetGuard, AdmGuardIs
<1> QED BY <1>1 DEF Adm!vars, AdmGuard, sched

\* The end of a call, and only the end, destroys its guard.
LEMMA LeadOutcomeRefines ==
    ASSUME LocalTypeOK, NEW r \in Requests, NEW a, LeadOutcome(r, a),
           HoldsSlot(r)
    PROVE  Adm!Destroy(r) \/ UNCHANGED Adm!vars
<1> DEFINE l == lead[r]
<1>1. l \in Leads
    BY DEF LocalTypeOK
<1>2. CASE Retriable(a) /\ l.att < MaxRetries
  <2>1. SlotOf([l EXCEPT !.pc = "call", !.att = @ + 1]) = SlotOf(l)
    BY <1>1 DEF HoldsSlot, SlotOf, InSlot, Leads
  <2> QED BY <1>2, <2>1, SlotKept DEF LeadOutcome
<1>3. CASE ~(Retriable(a) /\ l.att < MaxRetries)
  <2> DEFINE k == [l EXCEPT !.got[l.team] = a,
                            !.pc = IF l.team = "GREEN" /\ "PINK" \in l.target
                                     THEN "admit" ELSE "merge",
                            !.team = "PINK"]
  <2>1. LeadSet(r, k) /\ Adm!Release(l.team)
    BY <1>3 DEF LeadOutcome
  <2>2. SlotOf(k) = Adm!NoGuard
    <3>1. k.pc \in {"admit", "merge"}
      BY <1>1 DEF Leads
    <3> HIDE DEF k
    <3> QED BY <3>1 DEF SlotOf, InSlot, Adm!NoGuard
  <2>3. AdmGuard' = [AdmGuard EXCEPT ![r] = Adm!NoGuard]
    BY <2>1, <2>2, LeadSetGuard
  <2>4. AdmGuard[r] = [team |-> l.team, acquired |-> TRUE]
    BY DEF AdmGuard, HoldsSlot
  <2>5. AdmGuard[r].acquired /\ AdmGuard[r].team = l.team
    BY <2>4
  <2>6. AdmGuard[r] # Adm!NoGuard
    <3>1. l.team # "" /\ Adm!NoGuard.team = ""
      BY <1>1 DEF Leads, Teams, Adm!NoGuard
    <3> QED BY <2>5, <3>1
  <2> QED BY <2>1, <2>3, <2>5, <2>6 DEF Adm!Destroy, AdmGuard
<1> QED BY <1>2, <1>3

\* An admitted query constructs a guard.
LEMMA LeadAdmitRefines ==
    ASSUME LocalTypeOK, NEW r \in Requests, LeadAdmit(r)
    PROVE  Adm!Admit(r, lead[r].team)
<1> DEFINE k == [lead[r] EXCEPT !.pc = "call", !.att = 0]
<1>1. lead[r] \in Leads
    BY DEF LocalTypeOK
<1>2. LeadSet(r, k) /\ Adm!TryAcquire(lead[r].team) /\ lead[r].pc = "admit"
    BY DEF LeadAdmit
<1>3. k.pc = "call" /\ k.team = lead[r].team
    BY <1>1 DEF Leads
<1> HIDE DEF k
<1>4. SlotOf(k) = [team |-> lead[r].team, acquired |-> TRUE]
    BY <1>3 DEF SlotOf, InSlot
<1>5. AdmGuard' = [AdmGuard EXCEPT ![r] = [team |-> lead[r].team, acquired |-> TRUE]]
    BY <1>2, <1>4, LeadSetGuard
<1>6. AdmGuard[r] = Adm!NoGuard
    BY <1>2 DEF AdmGuard, HoldsSlot, Adm!NoGuard
<1> QED BY <1>2, <1>5, <1>6 DEF Adm!Admit, AdmGuard

\* Every step of A's threads is one of AdmissionControl, or a stutter.
LEMMA LeadStepRefines ==
    ASSUME LocalTypeOK, NEW r \in Requests, LeadStep(r)
    PROVE  Adm!Next \/ UNCHANGED Adm!vars
<1>0. lead[r] \in Leads
    BY DEF LocalTypeOK
<1>1. CASE LeadRegister(r)
  <2>1. SlotOf([lead[r] EXCEPT !.pc = "lookup"]) = SlotOf(lead[r])
    BY <1>0, <1>1 DEF LeadRegister, SlotOf, InSlot, Leads
  <2> QED BY <1>1, <2>1, SlotKept DEF LeadRegister, LeadAt, sched
<1>2. CASE LeadLookup(r)
  <2> DEFINE hit == cache["A"][lead[r].range]
  <2>1. PICK k : LeadSet(r, k) /\ k.pc \in {"done", "merge", "admit"}
    <3>1. /\ [lead[r] EXCEPT !.pc = "done", !.ans = hit].pc = "done"
          /\ [lead[r] EXCEPT !.pc = "merge"].pc = "merge"
          /\ [lead[r] EXCEPT !.pc = "admit", !.team = FirstTeam(lead[r].target)].pc = "admit"
      BY <1>0 DEF Leads
    <3>2. \/ LeadSet(r, [lead[r] EXCEPT !.pc = "done", !.ans = hit])
          \/ LeadSet(r, [lead[r] EXCEPT !.pc = "merge"])
          \/ LeadSet(r, [lead[r] EXCEPT !.pc = "admit", !.team = FirstTeam(lead[r].target)])
      BY <1>2 DEF LeadLookup, CacheGet
    <3> QED BY <3>1, <3>2
  <2>2. SlotOf(k) = SlotOf(lead[r])
    BY <1>2, <2>1 DEF SlotOf, InSlot, LeadLookup
  <2> QED BY <1>2, <2>1, <2>2, SlotKept DEF LeadLookup, sched
<1>3. CASE LeadAdmit(r)
  <2>1. lead[r].team \in Teams
    BY <1>0 DEF Leads
  <2>2. Adm!Admit(r, lead[r].team)
    BY <1>3, LeadAdmitRefines
  <2> QED BY <2>1, <2>2 DEF Adm!Next
<1>4. CASE LeadRefused(r)
  <2>1. SlotOf([lead[r] EXCEPT !.pc = "done", !.ans = Fail("RESOURCE_EXHAUSTED")])
          = SlotOf(lead[r])
    BY <1>0, <1>4 DEF LeadRefused, SlotOf, InSlot, Leads
  <2> QED BY <1>4, <2>1, SlotKept DEF LeadRefused, sched
<1>5. CASE LeadCall(r)
  <2>1. HoldsSlot(r)
    BY <1>5 DEF LeadCall, HoldsSlot
  <2>2. CASE up[TeamLeader[lead[r].team]]
    <3>1. SlotOf([lead[r] EXCEPT !.pc = "await"]) = SlotOf(lead[r])
      BY <1>0, <1>5 DEF LeadCall, SlotOf, InSlot, Leads
    <3> QED BY <1>5, <2>2, <3>1, SlotKept DEF LeadCall, LeadAt
  <2>3. CASE ~up[TeamLeader[lead[r].team]]
    BY <1>5, <2>1, <2>3, LeadOutcomeRefines DEF LeadCall, Adm!Next
  <2> QED BY <2>2, <2>3
<1>6. CASE LeadReturn(r)
  <2>1. HoldsSlot(r)
    BY <1>6 DEF LeadReturn, HoldsSlot
  <2> QED BY <1>6, <2>1, LeadOutcomeRefines DEF LeadReturn, Adm!Next
<1>7. CASE LeadMerge(r)
  <2>1. PICK k : LeadSet(r, k) /\ k.pc = "done"
    <3>1. \A a : [lead[r] EXCEPT !.pc = "done", !.ans = a].pc = "done"
      BY <1>0 DEF Leads
    <3>2. \E a : LeadSet(r, [lead[r] EXCEPT !.pc = "done", !.ans = a])
      BY <1>7 DEF LeadMerge
    <3> QED BY <3>1, <3>2
  <2>2. SlotOf(k) = SlotOf(lead[r])
    BY <1>7, <2>1 DEF SlotOf, InSlot, LeadMerge
  <2> QED BY <1>7, <2>1, <2>2, SlotKept DEF LeadMerge, sched
<1> QED BY <1>1, <1>2, <1>3, <1>4, <1>5, <1>6, <1>7 DEF LeadStep

\* A crash of A restarts its AdmissionControl; other crashes are stutters.
LEMMA CrashRefines ==
    ASSUME LocalTypeOK, NEW n \in Nodes, Crash(n)
    PROVE  Adm!Next \/ UNCHANGED Adm!vars
<1>1. CASE n = "A"
  <2>1. \A r \in Requests : SlotOf(lead'[r]) = Adm!NoGuard
    <3> SUFFICES ASSUME NEW r \in Requests PROVE SlotOf(lead'[r]) = Adm!NoGuard
      OBVIOUS
    <3>1. lead[r] \in Leads
      BY DEF LocalTypeOK
    <3>2. lead'[r].pc = Dying(lead[r].pc)
      BY <1>1, <3>1 DEF Crash, Leads
    <3> QED BY <3>2 DEF Dying, Stopped, SlotOf, InSlot, Adm!NoGuard
  <2>2. AdmGuard' = [r \in Requests |-> Adm!NoGuard]
    BY <2>1, AdmGuardIs
  <2> QED BY <1>1, <2>2 DEF Crash, Adm!Next, Adm!Restart, AdmGuard
<1>2. CASE n # "A"
  <2>1. UNCHANGED <<sched, lead>>
    BY <1>2 DEF Crash
  <2> QED BY <2>1 DEF Adm!vars, AdmGuard, sched, HoldsSlot
<1> QED BY <1>1, <1>2

\* Every step of the system is one of AdmissionControl, or a stutter.
LEMMA NextRefines == LocalTypeOK /\ [Next]_vars => [Adm!Next]_(Adm!vars)
<1> SUFFICES ASSUME LocalTypeOK, [Next]_vars
             PROVE  Adm!Next \/ UNCHANGED Adm!vars
    OBVIOUS
<1>1. ASSUME NEW r \in Requests, ClientSend(r) PROVE UNCHANGED Adm!vars
  <2>1. lead[r] \in Leads
    BY DEF LocalTypeOK
  <2>2. SlotOf([lead[r] EXCEPT !.pc = "register"]) = SlotOf(lead[r])
    BY <1>1, <2>1 DEF ClientSend, SlotOf, InSlot, Leads
  <2> QED BY <1>1, <2>2, SlotKept DEF ClientSend, LeadAt, sched
<1>2. ASSUME UNCHANGED <<sched, lead>> PROVE UNCHANGED Adm!vars
    BY <1>2 DEF Adm!vars, AdmGuard, sched, HoldsSlot
<1>3. ASSUME NEW r \in Requests, ClientCancel(r) PROVE UNCHANGED <<sched, lead>>
    BY <1>3 DEF ClientCancel
<1>4. ASSUME NEW c \in TlThreads, TlStep(c) PROVE UNCHANGED <<sched, lead>>
    BY <1>4 DEF TlStep, TlRegister, TlLookup, TlLookup2, TlCall, TlReturn
<1>5. ASSUME NEW d \in WkThreads, WkStep(d) PROVE UNCHANGED <<sched, lead>>
    BY <1>5 DEF WkStep, WkRegister, WkLookup, WkCheck, WkLookup2, WkCompute
<1>6. ASSUME NEW r \in Requests, NEW n \in Nodes, CancelStep(r, n)
      PROVE  UNCHANGED <<sched, lead>>
    BY <1>6 DEF CancelStep, CancelMark, CancelForward, CancelReply
<1>7. ASSUME NEW n \in Nodes, NEW q \in Ranges, Expire(n, q)
      PROVE  UNCHANGED <<sched, lead>>
    BY <1>7 DEF Expire
<1>8. ASSUME NEW n \in Nodes, Restart(n) PROVE UNCHANGED <<sched, lead>>
    BY <1>8 DEF Restart
<1>9. CASE UNCHANGED vars
    BY <1>2, <1>9 DEF vars
<1> QED BY <1>1, <1>2, <1>3, <1>4, <1>5, <1>6, <1>7, <1>8, <1>9,
           LeadStepRefines, CrashRefines DEF Next

\* The initial states map to the initial state of AdmissionControl.
LEMMA InitRefines == Init => Adm!Init
<1> SUFFICES ASSUME Init PROVE Adm!Init
    OBVIOUS
<1>1. \A r \in Requests : ~HoldsSlot(r)
    BY DEF Init, HoldsSlot
<1> QED BY <1>1 DEF Init, Adm!Init, AdmGuard, Adm!NoGuard

\* The query path uses the admission control as AdmissionControl says, on
\* every way out of a call: answer, refusal, failed retries, crash.
THEOREM RefinesAdmission == Spec => AdmissionImplemented
<1> QED BY LocalType, InitRefines, NextRefines, PTL
           DEF Spec, AdmissionImplemented, Adm!Spec

-----------------------------------------------------------------------------
\* What a query asks for never changes, and a query once sent stays so.
Fixed == \A r \in Requests : /\ lead'[r].target = lead[r].target
                             /\ lead'[r].range = lead[r].range
                             /\ lead[r].pc # "idle" => lead'[r].pc # "idle"

\* An update of a record that keeps target and range fixes them.
LEMMA LeadSetFixed ==
    ASSUME LocalTypeOK, NEW r \in Requests, NEW l, LeadSet(r, l),
           l.target = lead[r].target, l.range = lead[r].range, l.pc # "idle"
    PROVE  Fixed
<1>1. \A s \in Requests : lead'[s] = IF s = r THEN l ELSE lead[s]
    BY DEF LeadSet, LocalTypeOK
<1> QED BY <1>1 DEF Fixed

\* What the steps of A leave of a record.
LEMMA LeadUpdates ==
    ASSUME LocalTypeOK, NEW r \in Requests
    PROVE  /\ \A pc \in LeadPc \ {"idle"} : LeadAt(r, pc) => Fixed
           /\ \A pc \in LeadPc \ {"idle"} : \A a :
                LeadSet(r, [lead[r] EXCEPT !.pc = pc, !.ans = a]) => Fixed
           /\ \A pc \in LeadPc \ {"idle"} : \A t :
                LeadSet(r, [lead[r] EXCEPT !.pc = pc, !.team = t]) => Fixed
           /\ \A pc \in LeadPc \ {"idle"} : \A i :
                LeadSet(r, [lead[r] EXCEPT !.pc = pc, !.att = i]) => Fixed
           /\ \A pc \in LeadPc \ {"idle"} : \A g, t :
                LeadSet(r, [lead[r] EXCEPT !.got = g, !.pc = pc, !.team = t]) => Fixed
<1>0. lead[r] \in Leads
    BY DEF LocalTypeOK
<1>1. ASSUME NEW pc \in LeadPc \ {"idle"}, LeadAt(r, pc) PROVE Fixed
  <2> DEFINE l == [lead[r] EXCEPT !.pc = pc]
  <2>1. l.target = lead[r].target /\ l.range = lead[r].range /\ l.pc = pc
    BY <1>0 DEF Leads
  <2> QED BY <1>1, <2>1, LeadSetFixed DEF LeadAt
<1>2. ASSUME NEW pc \in LeadPc \ {"idle"}, NEW a,
             LeadSet(r, [lead[r] EXCEPT !.pc = pc, !.ans = a]) PROVE Fixed
  <2> DEFINE l == [lead[r] EXCEPT !.pc = pc, !.ans = a]
  <2>1. l.target = lead[r].target /\ l.range = lead[r].range /\ l.pc = pc
    BY <1>0 DEF Leads
  <2> QED BY <1>2, <2>1, LeadSetFixed
<1>3. ASSUME NEW pc \in LeadPc \ {"idle"}, NEW t,
             LeadSet(r, [lead[r] EXCEPT !.pc = pc, !.team = t]) PROVE Fixed
  <2> DEFINE l == [lead[r] EXCEPT !.pc = pc, !.team = t]
  <2>1. l.target = lead[r].target /\ l.range = lead[r].range /\ l.pc = pc
    BY <1>0 DEF Leads
  <2> QED BY <1>3, <2>1, LeadSetFixed
<1>4. ASSUME NEW pc \in LeadPc \ {"idle"}, NEW i,
             LeadSet(r, [lead[r] EXCEPT !.pc = pc, !.att = i]) PROVE Fixed
  <2> DEFINE l == [lead[r] EXCEPT !.pc = pc, !.att = i]
  <2>1. l.target = lead[r].target /\ l.range = lead[r].range /\ l.pc = pc
    BY <1>0 DEF Leads
  <2> QED BY <1>4, <2>1, LeadSetFixed
<1>5. ASSUME NEW pc \in LeadPc \ {"idle"}, NEW g, NEW t,
             LeadSet(r, [lead[r] EXCEPT !.got = g, !.pc = pc, !.team = t])
      PROVE  Fixed
  <2> DEFINE l == [lead[r] EXCEPT !.got = g, !.pc = pc, !.team = t]
  <2>1. l.target = lead[r].target /\ l.range = lead[r].range /\ l.pc = pc
    BY <1>0 DEF Leads
  <2> QED BY <1>5, <2>1, LeadSetFixed
<1> QED BY <1>1, <1>2, <1>3, <1>4, <1>5

\* The retry loop keeps what the query asks for.
LEMMA LeadOutcomeFixed ==
    ASSUME LocalTypeOK, NEW r \in Requests, NEW a, LeadOutcome(r, a)
    PROVE  Fixed
<1> DEFINE l == lead[r]
           pc == IF l.team = "GREEN" /\ "PINK" \in l.target
                   THEN "admit" ELSE "merge"
<1>1. \/ LeadSet(r, [l EXCEPT !.pc = "call", !.att = @ + 1])
      \/ LeadSet(r, [l EXCEPT !.got[l.team] = a, !.pc = pc, !.team = "PINK"])
    BY DEF LeadOutcome
<1>2. pc \in LeadPc \ {"idle"} /\ "call" \in LeadPc \ {"idle"}
    BY DEF LeadPc
<1> HIDE DEF pc
<1> QED BY <1>1, <1>2, LeadUpdates

\* Every step keeps what the queries ask for.
LEMMA NextFixed == LocalTypeOK /\ [Next]_vars => Fixed
<1> SUFFICES ASSUME LocalTypeOK, [Next]_vars PROVE Fixed
    OBVIOUS
<1>1. ASSUME UNCHANGED lead PROVE Fixed
    BY <1>1 DEF Fixed
<1>2. ASSUME NEW r \in Requests, LeadStep(r) PROVE Fixed
  <2>1. CASE LeadRegister(r)
    BY <2>1, LeadUpdates DEF LeadRegister, LeadPc
  <2>2. CASE LeadLookup(r)
    BY <2>2, LeadUpdates DEF LeadLookup, LeadAt, LeadPc
  <2>3. CASE LeadAdmit(r)
    BY <2>3, LeadUpdates DEF LeadAdmit, LeadPc
  <2>4. CASE LeadRefused(r)
    BY <2>4, LeadUpdates DEF LeadRefused, LeadPc
  <2>5. CASE LeadCall(r)
    BY <2>5, LeadUpdates, LeadOutcomeFixed DEF LeadCall, LeadPc
  <2>6. CASE LeadReturn(r)
    BY <2>6, LeadOutcomeFixed DEF LeadReturn
  <2>7. CASE LeadMerge(r)
    BY <2>7, LeadUpdates DEF LeadMerge, LeadPc
  <2> QED BY <1>2, <2>1, <2>2, <2>3, <2>4, <2>5, <2>6, <2>7 DEF LeadStep
<1>3. ASSUME NEW r \in Requests, ClientSend(r) PROVE Fixed
    BY <1>3, LeadUpdates DEF ClientSend, LeadPc
<1>4. ASSUME NEW n \in Nodes, Crash(n) PROVE Fixed
  <2>1. CASE n = "A"
    <3>1. ASSUME NEW r \in Requests
          PROVE  /\ lead'[r].target = lead[r].target
                 /\ lead'[r].range = lead[r].range
                 /\ lead[r].pc # "idle" => lead'[r].pc # "idle"
      <4>1. lead[r] \in Leads
        BY DEF LocalTypeOK
      <4>2. lead'[r] = [lead[r] EXCEPT !.pc = Dying(@)]
        BY <1>4, <2>1 DEF Crash
      <4> QED BY <4>1, <4>2 DEF Leads, Dying, Stopped
    <3> QED BY <3>1 DEF Fixed
  <2>2. CASE n # "A"
    BY <1>1, <1>4, <2>2 DEF Crash
  <2> QED BY <2>1, <2>2
<1>5. ASSUME NEW c \in TlThreads, TlStep(c) PROVE UNCHANGED lead
    BY <1>5 DEF TlStep, TlRegister, TlLookup, TlLookup2, TlCall, TlReturn
<1>6. ASSUME NEW d \in WkThreads, WkStep(d) PROVE UNCHANGED lead
    BY <1>6 DEF WkStep, WkRegister, WkLookup, WkCheck, WkLookup2, WkCompute
<1>7. ASSUME NEW r \in Requests, NEW n \in Nodes, CancelStep(r, n)
      PROVE  UNCHANGED lead
    BY <1>7 DEF CancelStep, CancelMark, CancelForward, CancelReply
<1> QED BY <1>1, <1>2, <1>3, <1>4, <1>5, <1>6, <1>7
        DEF Next, ClientCancel, Expire, Restart, vars

-----------------------------------------------------------------------------
\* What A has got so far is what the teams it asked have answered, and the
\* team it is about to ask is one of those the client asks for.
GotRecord(l) ==
    /\ l.pc \in {"admit", "call", "await"} => l.team \in l.target
    /\ \A t \in Teams : l.got[t].code = "OK" =>
         t \in l.target /\ l.got[t] = TeamsAnswer({t}, l.range)

GotTruthful == \A r \in Requests : GotRecord(lead[r])

\* The inductive invariant.
IInv == LocalTypeOK /\ Truthful /\ GotTruthful

\* The nodes of a team have one right answer.
LEMMA TeamNodes ==
    ASSUME NEW t \in Teams, NEW q
    PROVE  /\ NodeAnswers(TeamLeader[t], q) = {TeamsAnswer({t}, q)}
           /\ NodeAnswers(Worker[t], q) = {TeamsAnswer({t}, q)}
<1>1. /\ TeamLeader[t] # "A" /\ Worker[t] # "A"
      /\ {u \in Teams : TeamLeader[t] \in {TeamLeader[u], Worker[u]}} = {t}
      /\ {u \in Teams : Worker[t] \in {TeamLeader[u], Worker[u]}} = {t}
    BY DEF Teams, TeamLeader, Worker
<1> QED BY <1>1 DEF NodeAnswers

\* It is the first chunk of its worker.
LEMMA TeamAnswer ==
    ASSUME NEW t \in Teams, NEW q
    PROVE  TeamsAnswer({t}, q) = Chunk(FirstChunk[t][q])
<1>1. UNION {FirstChunk[u][q] : u \in {t}} = FirstChunk[t][q]
    OBVIOUS
<1> QED BY <1>1 DEF TeamsAnswer

\* A right answer is OK.
LEMMA NodeAnswersOK ==
    ASSUME NEW n, NEW q, NEW a \in NodeAnswers(n, q)
    PROVE  a.code = "OK"
    BY DEF NodeAnswers, TeamsAnswer, Chunk

\* Right answers stay right while queries are sent.
LEMMA NodeAnswersGrow ==
    ASSUME LocalTypeOK, Fixed, NEW n, NEW q
    PROVE  NodeAnswers(n, q) \subseteq NodeAnswers(n, q)'
<1>1. Asked(q) \subseteq Asked(q)'
    BY DEF Asked, Fixed
<1> QED BY <1>1 DEF NodeAnswers, TeamsAnswer

\* What a step may do to the caches and to the answers of the threads.
CacheDelta == \A n \in Nodes, q \in Ranges :
    cache'[n][q] \in {cache[n][q], NoAnswer} \cup NodeAnswers(n, q)
LeadDelta == \A r \in Requests : lead'[r].ans.code = "OK" =>
    lead'[r].ans \in {lead[r].ans} \cup NodeAnswers("A", lead[r].range)
TlDelta == \A c \in TlThreads : tl'[c].ans.code = "OK" =>
    tl'[c].ans \in {tl[c].ans} \cup NodeAnswers(TlNode(c), TlRange(c))
WkDelta == \A d \in WkThreads : wk'[d].ans.code = "OK" =>
    wk'[d].ans \in {wk[d].ans} \cup NodeAnswers(WkNode(d), WkRange(d))

\* Steps that only add right answers keep everything truthful.
LEMMA DeltaTruthful ==
    ASSUME LocalTypeOK, Fixed, Truthful,
           CacheDelta, LeadDelta, TlDelta, WkDelta
    PROVE  Truthful'
<1>1. CachesTruthful'
    BY NodeAnswersGrow DEF CacheDelta, Truthful, CachesTruthful
<1>2. LeadTruthful'
  <2> SUFFICES ASSUME NEW r \in Requests, NEW q \in Ranges,
                      lead'[r].range = q, lead'[r].ans.code = "OK"
               PROVE  lead'[r].ans \in NodeAnswers("A", q)'
    BY DEF LeadTruthful
  <2>1. lead[r].range = q
    BY DEF Fixed
  <2>2. lead'[r].ans \in NodeAnswers("A", q)
    BY <2>1 DEF LeadDelta, Truthful, LeadTruthful
  <2> QED BY <2>2, NodeAnswersGrow
<1>3. TlTruthful'
  <2> SUFFICES ASSUME NEW c \in TlThreads, tl'[c].ans.code = "OK"
               PROVE  tl'[c].ans \in NodeAnswers(TlNode(c), TlRange(c))'
    BY DEF TlTruthful
  <2>1. TlRange(c)' = TlRange(c) /\ c[2] \in Teams
    BY DEF Fixed, TlRange, TlThreads
  <2>2. tl'[c].ans \in NodeAnswers(TlNode(c), TlRange(c))
    BY DEF TlDelta, Truthful, TlTruthful
  <2>3. NodeAnswers(TlNode(c), TlRange(c))' = NodeAnswers(TlNode(c), TlRange(c))
    BY <2>1 DEF NodeAnswers, TlNode, TeamLeader, Teams, TeamsAnswer
  <2> QED BY <2>2, <2>3
<1>4. WkTruthful'
  <2> SUFFICES ASSUME NEW d \in WkThreads, wk'[d].ans.code = "OK"
               PROVE  wk'[d].ans \in NodeAnswers(WkNode(d), WkRange(d))'
    BY DEF WkTruthful
  <2>1. WkRange(d)' = WkRange(d) /\ d[2] \in Teams
    BY DEF Fixed, WkRange, WkThreads
  <2>2. wk'[d].ans \in NodeAnswers(WkNode(d), WkRange(d))
    BY DEF WkDelta, Truthful, WkTruthful
  <2>3. NodeAnswers(WkNode(d), WkRange(d))' = NodeAnswers(WkNode(d), WkRange(d))
    BY <2>1 DEF NodeAnswers, WkNode, Worker, Teams, TeamsAnswer
  <2> QED BY <2>2, <2>3
<1> QED BY <1>1, <1>2, <1>3, <1>4 DEF Truthful

\* The parts of the state a step does not touch.
LEMMA NoDelta ==
    /\ UNCHANGED cache => CacheDelta
    /\ UNCHANGED lead => LeadDelta
    /\ UNCHANGED tl => TlDelta
    /\ UNCHANGED wk => WkDelta
    BY DEF CacheDelta, LeadDelta, TlDelta, WkDelta

\* Caching a right answer is such a step,
LEMMA PutDelta ==
    ASSUME LocalTypeOK, NEW n \in Nodes, NEW q \in Ranges,
           NEW a \in NodeAnswers(n, q), CachePut(n, q, a)
    PROVE  CacheDelta
    BY DEF CacheDelta, CachePut, LocalTypeOK

\* so is giving one at a team leader,
LEMMA TlSetDelta ==
    ASSUME LocalTypeOK, NEW c \in TlThreads, NEW x, TlSet(c, x),
           x.ans.code = "OK" =>
             x.ans \in {tl[c].ans} \cup NodeAnswers(TlNode(c), TlRange(c))
    PROVE  TlDelta
    BY DEF TlDelta, TlSet, LocalTypeOK

\* or at a worker,
LEMMA WkReplyDelta ==
    ASSUME LocalTypeOK, NEW d \in WkThreads, NEW a, WkReply(d, a),
           a.code = "OK" => a \in NodeAnswers(WkNode(d), WkRange(d))
    PROVE  WkDelta
    BY DEF WkDelta, WkReply, LocalTypeOK

\* and so is a step of a worker that gives no answer.
LEMMA WkAtDelta ==
    ASSUME LocalTypeOK, NEW d \in WkThreads, NEW pc, WkAt(d, pc)
    PROVE  WkDelta
<1>1. wk' = [wk EXCEPT ![d] = [@ EXCEPT !.pc = pc]] /\ wk[d] \in Wks
    BY DEF WkAt, LocalTypeOK
<1>2. [wk[d] EXCEPT !.pc = pc].ans = wk[d].ans
    BY <1>1 DEF Wks
<1> QED BY <1>1, <1>2 DEF WkDelta, LocalTypeOK

-----------------------------------------------------------------------------
\* The inductive invariant holds initially: there are no answers.
LEMMA InitIInv == Init => IInv
<1> SUFFICES ASSUME Init PROVE IInv
    OBVIOUS
<1>1. LocalTypeOK
    BY InitType
<1>2. NoAnswer.code # "OK"
    BY DEF NoAnswer, Fail
<1>3. \A r \in Requests : /\ lead[r].ans = NoAnswer
                          /\ lead[r].got = [t \in Teams |-> NoAnswer]
                          /\ lead[r].pc = "idle"
    BY DEF Init
<1>4. CachesTruthful /\ TlTruthful /\ WkTruthful
    BY <1>2 DEF Init, CachesTruthful, TlTruthful, WkTruthful, TlThreads, WkThreads
<1>5. LeadTruthful
    BY <1>2, <1>3 DEF LeadTruthful
<1>6. GotTruthful
    BY <1>2, <1>3 DEF GotTruthful, GotRecord
<1> QED BY <1>1, <1>4, <1>5, <1>6 DEF IInv, Truthful

\* A worker answers from its cache or its dataset.
LEMMA WkStepDelta ==
    ASSUME IInv, NEW d \in WkThreads, WkStep(d)
    PROVE  CacheDelta /\ WkDelta
<1> DEFINE hit == cache[WkNode(d)][WkRange(d)]
<1>0. LocalTypeOK /\ Truthful
    BY DEF IInv
<1>1. hit # NoAnswer => hit \in NodeAnswers(WkNode(d), WkRange(d))
    BY <1>0, WkFacts DEF Truthful, CachesTruthful
<1>2. CASE WkRegister(d)
    BY <1>0, <1>2, NoDelta, WkAtDelta DEF WkRegister
<1>3. CASE WkLookup(d)
    BY <1>0, <1>1, <1>3, NoDelta, WkAtDelta, WkReplyDelta DEF WkLookup, CacheGet
<1>4. CASE WkCheck(d)
  <2>1. Fail("CANCELLED").code # "OK"
    BY DEF Fail
  <2> QED BY <1>0, <1>4, <2>1, NoDelta, WkAtDelta, WkReplyDelta DEF WkCheck
<1>5. CASE WkLookup2(d)
    BY <1>0, <1>1, <1>5, NoDelta, WkAtDelta, WkReplyDelta DEF WkLookup2, CacheGet
<1>6. CASE WkCompute(d)
  <2> DEFINE a == Chunk(FirstChunk[d[2]][WkRange(d)])
  <2>1. a \in NodeAnswers(WkNode(d), WkRange(d))
    BY <1>0, WkFacts, TeamNodes, TeamAnswer DEF WkNode
  <2>2. WkReply(d, a) /\ (UNCHANGED cache \/ CachePut(WkNode(d), WkRange(d), a))
    BY <1>6 DEF WkCompute
  <2> HIDE DEF a
  <2> QED BY <1>0, <2>1, <2>2, WkFacts, NoDelta, PutDelta, WkReplyDelta
<1> QED BY <1>2, <1>3, <1>4, <1>5, <1>6 DEF WkStep

\* A team leader passes its worker's answer on, and caches it if it is OK.
LEMMA TlOutcomeDelta ==
    ASSUME IInv, NEW c \in TlThreads, NEW a, TlOutcome(c, a),
           a.code = "OK" => a \in NodeAnswers(TlNode(c), TlRange(c))
    PROVE  CacheDelta /\ TlDelta
<1>0. LocalTypeOK /\ tl[c] \in Tls
    BY TlFacts DEF IInv
<1>1. CacheDelta
  <2>1. UNCHANGED cache \/ (a.code = "OK" /\ CachePut(TlNode(c), TlRange(c), a))
    BY DEF TlOutcome
  <2> QED BY <1>0, <2>1, TlFacts, NoDelta, PutDelta
<1>2. TlDelta
  <2>1. /\ [tl[c] EXCEPT !.pc = "call", !.att = @ + 1].ans = tl[c].ans
        /\ \A b : [tl[c] EXCEPT !.pc = "done", !.ans = b].ans = b
    BY <1>0 DEF Tls
  <2>2. Fail("UNAVAILABLE").code # "OK"
    BY DEF Fail
  <2>3. \/ TlSet(c, [tl[c] EXCEPT !.pc = "call", !.att = @ + 1])
        \/ TlSet(c, [tl[c] EXCEPT !.pc = "done", !.ans = a])
        \/ TlSet(c, [tl[c] EXCEPT !.pc = "done", !.ans = Fail("UNAVAILABLE")])
    BY DEF TlOutcome, TlReply
  <2> QED BY <1>0, <2>1, <2>2, <2>3, TlSetDelta
<1> QED BY <1>1, <1>2

\* A team leader answers from its cache or its worker.
LEMMA TlStepDelta ==
    ASSUME IInv, NEW c \in TlThreads, TlStep(c)
    PROVE  CacheDelta /\ TlDelta /\ WkDelta
<1> DEFINE hit == cache[TlNode(c)][TlRange(c)]
<1>0. LocalTypeOK /\ Truthful /\ tl[c] \in Tls
    BY TlFacts DEF IInv
<1>1. hit # NoAnswer => hit \in NodeAnswers(TlNode(c), TlRange(c))
    BY <1>0, TlFacts DEF Truthful, CachesTruthful
<1>2. ASSUME NEW pc, TlAt(c, pc) PROVE TlDelta
  <2>1. [tl[c] EXCEPT !.pc = pc].ans = tl[c].ans
    BY <1>0 DEF Tls
  <2> QED BY <1>0, <1>2, <2>1, TlSetDelta DEF TlAt
<1>3. ASSUME NEW a \in NodeAnswers(TlNode(c), TlRange(c)), TlReply(c, a)
      PROVE  TlDelta
  <2>1. [tl[c] EXCEPT !.pc = "done", !.ans = a].ans = a
    BY <1>0 DEF Tls
  <2> QED BY <1>0, <1>3, <2>1, TlSetDelta DEF TlReply
<1>4. CASE TlRegister(c)
    BY <1>2, <1>4, NoDelta DEF TlRegister
<1>5. CASE TlLookup(c)
    BY <1>1, <1>2, <1>3, <1>5, NoDelta DEF TlLookup, CacheGet
<1>6. CASE TlLookup2(c)
    BY <1>1, <1>2, <1>3, <1>6, NoDelta DEF TlLookup2, CacheGet
<1>7. CASE TlCall(c)
  <2>1. CASE up[Worker[c[2]]]
    <3>1. wk' = [wk EXCEPT ![WkOf(c)] = [@ EXCEPT !.pc = "register"]]
      BY <1>7, <2>1 DEF TlCall
    <3>2. [wk[WkOf(c)] EXCEPT !.pc = "register"].ans = wk[WkOf(c)].ans
      BY <1>0, TlFacts DEF Wks
    <3>3. WkDelta
      BY <1>0, <3>1, <3>2, TlFacts DEF WkDelta, LocalTypeOK
    <3> QED BY <1>2, <1>7, <2>1, <3>3, NoDelta DEF TlCall
  <2>2. CASE ~up[Worker[c[2]]]
    <3>1. Fail("UNAVAILABLE").code # "OK"
      BY DEF Fail
    <3> QED BY <1>7, <2>2, <3>1, TlOutcomeDelta, NoDelta DEF TlCall
  <2> QED BY <2>1, <2>2
<1>8. CASE TlReturn(c)
  <2>1. PICK a \in Outcomes(wk[WkOf(c)]) : TlOutcome(c, a)
    BY <1>8 DEF TlReturn
  <2>2. a.code = "OK" => a = wk[WkOf(c)].ans
    BY <2>1 DEF Outcomes, Fail
  <2>3. NodeAnswers(WkNode(WkOf(c)), WkRange(WkOf(c)))
          = NodeAnswers(TlNode(c), TlRange(c))
    BY <1>0, TlFacts, TeamNodes DEF WkNode, WkOf, WkRange, TlNode, TlRange
  <2>4. a.code = "OK" => a \in NodeAnswers(TlNode(c), TlRange(c))
    BY <1>0, <2>2, <2>3, TlFacts DEF Truthful, WkTruthful
  <2> QED BY <1>8, <2>1, <2>4, TlOutcomeDelta, NoDelta DEF TlReturn
<1> QED BY <1>4, <1>5, <1>6, <1>7, <1>8 DEF TlStep

\* An update of a record of A that gives no wrong answer.
LEMMA LeadSetDelta ==
    ASSUME LocalTypeOK, GotTruthful, NEW r \in Requests, NEW l, LeadSet(r, l),
           GotRecord(l),
           l.ans.code = "OK" =>
             l.ans \in {lead[r].ans} \cup NodeAnswers("A", lead[r].range)
    PROVE  LeadDelta /\ GotTruthful'
<1>1. \A s \in Requests : lead'[s] = IF s = r THEN l ELSE lead[s]
    BY DEF LeadSet, LocalTypeOK
<1>2. LeadDelta
    BY <1>1 DEF LeadDelta
<1>3. \A s \in Requests : GotRecord(lead'[s])
    BY <1>1 DEF GotTruthful
<1>4. GotTruthful'
    BY <1>3 DEF GotTruthful, GotRecord, TeamsAnswer
<1> QED BY <1>2, <1>4

\* A takes the answer of a call for that of the team it called.
LEMMA LeadOutcomeDelta ==
    ASSUME IInv, NEW r \in Requests, NEW a, LeadOutcome(r, a),
           lead[r].team \in lead[r].target,
           a.code = "OK" => a = TeamsAnswer({lead[r].team}, lead[r].range)
    PROVE  LeadDelta /\ GotTruthful'
<1> DEFINE l == lead[r]
           k == [l EXCEPT !.got[l.team] = a,
                          !.pc = IF l.team = "GREEN" /\ "PINK" \in l.target
                                   THEN "admit" ELSE "merge",
                          !.team = "PINK"]
           i == [l EXCEPT !.pc = "call", !.att = @ + 1]
<1>0. LocalTypeOK /\ GotTruthful /\ l \in Leads /\ GotRecord(l)
    BY DEF IInv, LocalTypeOK, GotTruthful
<1>1. GotRecord(i) /\ i.ans = l.ans
    BY <1>0 DEF GotRecord, Leads
<1>2. GotRecord(k) /\ k.ans = l.ans
  <2>1. /\ k.ans = l.ans /\ k.team = "PINK" /\ k.target = l.target
        /\ k.range = l.range
        /\ k.pc = IF l.team = "GREEN" /\ "PINK" \in l.target
                    THEN "admit" ELSE "merge"
        /\ k.got = [l.got EXCEPT ![l.team] = a]
    BY <1>0 DEF Leads
  <2>2. l.got \in [Teams -> Answers] /\ l.team \in Teams
    BY <1>0 DEF Leads
  <2> HIDE DEF k
  <2>3. \A t \in Teams : k.got[t] = IF t = l.team THEN a ELSE l.got[t]
    BY <2>1, <2>2
  <2> QED BY <1>0, <2>1, <2>3 DEF GotRecord
<1>3. LeadSet(r, i) \/ LeadSet(r, k)
    BY DEF LeadOutcome
<1> HIDE DEF i, k
<1> QED BY <1>0, <1>1, <1>2, <1>3, LeadSetDelta

\* A answers from its cache or from the teams the client asks for.
LEMMA LeadStepDelta ==
    ASSUME IInv, NEW r \in Requests, LeadStep(r)
    PROVE  CacheDelta /\ LeadDelta /\ TlDelta /\ WkDelta /\ GotTruthful'
<1> DEFINE l == lead[r]
<1>0. /\ LocalTypeOK /\ Truthful /\ GotTruthful
      /\ l \in Leads /\ GotRecord(l)
    BY DEF IInv, LocalTypeOK, GotTruthful
<1>1. CASE LeadRegister(r)
  <2> DEFINE k == [l EXCEPT !.pc = "lookup"]
  <2>1. GotRecord(k) /\ k.ans = l.ans
    BY <1>0 DEF GotRecord, Leads
  <2>2. LeadSet(r, k)
    BY <1>1 DEF LeadRegister, LeadAt
  <2> HIDE DEF k
  <2> QED BY <1>0, <1>1, <2>1, <2>2, LeadSetDelta, NoDelta DEF LeadRegister
<1>2. CASE LeadLookup(r)
  <2> DEFINE hit == cache["A"][l.range]
             k1 == [l EXCEPT !.pc = "done", !.ans = hit]
             k2 == [l EXCEPT !.pc = "merge"]
             k3 == [l EXCEPT !.pc = "admit", !.team = FirstTeam(l.target)]
  <2>1. GotRecord(k1) /\ k1.ans = hit
    BY <1>0 DEF GotRecord, Leads
  <2>2. GotRecord(k2) /\ k2.ans = l.ans
    BY <1>0 DEF GotRecord, Leads
  <2>3. l.target # {} => GotRecord(k3)
    <3>1. l.target # {} => FirstTeam(l.target) \in l.target
      <4>1. l.target \subseteq {"GREEN", "PINK"}
        BY <1>0, TargetsAssumption DEF Leads, Teams
      <4> QED BY <4>1 DEF FirstTeam
    <3> QED BY <1>0, <3>1 DEF GotRecord, Leads
  <2>4. k3.ans = l.ans
    BY <1>0 DEF Leads
  <2>5. hit # NoAnswer => hit \in NodeAnswers("A", l.range)
    BY <1>0 DEF Truthful, CachesTruthful, Leads, Nodes
  <2>6. \/ hit # NoAnswer /\ LeadSet(r, k1)
        \/ LeadSet(r, k2)
        \/ l.target # {} /\ LeadSet(r, k3)
    BY <1>2 DEF LeadLookup, CacheGet
  <2> HIDE DEF k1, k2, k3, hit
  <2>7. LeadDelta /\ GotTruthful'
    BY <1>0, <2>1, <2>2, <2>3, <2>4, <2>5, <2>6, LeadSetDelta
  <2> QED BY <1>2, <2>7, NoDelta DEF LeadLookup
<1>3. CASE LeadAdmit(r)
  <2> DEFINE k == [l EXCEPT !.pc = "call", !.att = 0]
  <2>1. GotRecord(k) /\ k.ans = l.ans
    BY <1>0, <1>3 DEF LeadAdmit, GotRecord, Leads
  <2>2. LeadSet(r, k)
    BY <1>3 DEF LeadAdmit
  <2> HIDE DEF k
  <2> QED BY <1>0, <1>3, <2>1, <2>2, LeadSetDelta, NoDelta DEF LeadAdmit
<1>4. CASE LeadRefused(r)
  <2> DEFINE k == [l EXCEPT !.pc = "done", !.ans = Fail("RESOURCE_EXHAUSTED")]
  <2>1. GotRecord(k) /\ k.ans.code # "OK"
    BY <1>0 DEF GotRecord, Leads, Fail
  <2>2. LeadSet(r, k)
    BY <1>4 DEF LeadRefused
  <2> HIDE DEF k
  <2> QED BY <1>0, <1>4, <2>1, <2>2, LeadSetDelta, NoDelta DEF LeadRefused
<1>5. CASE LeadCall(r)
  <2>1. l.team \in l.target
    BY <1>0, <1>5 DEF GotRecord, LeadCall
  <2>2. CASE up[TeamLeader[l.team]]
    <3> DEFINE k == [l EXCEPT !.pc = "await"]
    <3>1. GotRecord(k) /\ k.ans = l.ans
      BY <1>0, <2>1 DEF GotRecord, Leads
    <3>2. LeadSet(r, k)
      BY <1>5, <2>2 DEF LeadCall, LeadAt
    <3>3. TlDelta
      <4>1. tl' = [tl EXCEPT ![TlOf(r)] = [@ EXCEPT !.pc = "register"]]
        BY <1>5, <2>2 DEF LeadCall
      <4>2. [tl[TlOf(r)] EXCEPT !.pc = "register"].ans = tl[TlOf(r)].ans
        BY <1>0, TlOfThread DEF Tls
      <4> QED BY <1>0, <4>1, <4>2, TlOfThread DEF TlDelta, LocalTypeOK
    <3> HIDE DEF k
    <3> QED BY <1>0, <1>5, <3>1, <3>2, <3>3, LeadSetDelta, NoDelta DEF LeadCall
  <2>3. CASE ~up[TeamLeader[l.team]]
    <3>1. Fail("UNAVAILABLE").code # "OK"
      BY DEF Fail
    <3> QED BY <1>5, <2>1, <2>3, <3>1, LeadOutcomeDelta, NoDelta DEF LeadCall
  <2> QED BY <2>2, <2>3
<1>6. CASE LeadReturn(r)
  <2>1. l.team \in l.target /\ l.team \in Teams
    BY <1>0, <1>6 DEF GotRecord, LeadReturn, Leads
  <2>2. PICK a \in Outcomes(tl[TlOf(r)]) : LeadOutcome(r, a)
    BY <1>6 DEF LeadReturn
  <2>3. a.code = "OK" => a = tl[TlOf(r)].ans
    BY <2>2 DEF Outcomes, Fail
  <2>4. NodeAnswers(TlNode(TlOf(r)), TlRange(TlOf(r)))
          = {TeamsAnswer({l.team}, l.range)}
    BY <2>1, TeamNodes DEF TlNode, TlRange, TlOf
  <2>5. a.code = "OK" => a = TeamsAnswer({l.team}, l.range)
    BY <1>0, <2>3, <2>4, TlOfThread DEF Truthful, TlTruthful
  <2> QED BY <1>6, <2>1, <2>2, <2>5, LeadOutcomeDelta, NoDelta DEF LeadReturn
<1>7. CASE LeadMerge(r)
  <2> DEFINE oks == {t \in Teams : l.got[t].code = "OK"}
             a   == Chunk(UNION {l.got[t].keys : t \in oks})
             k1  == [l EXCEPT !.pc = "done", !.ans = Fail("UNAVAILABLE")]
             k2  == [l EXCEPT !.pc = "done", !.ans = a]
  <2>1. GotRecord(k1) /\ k1.ans.code # "OK"
    BY <1>0 DEF GotRecord, Leads, Fail
  <2>2. GotRecord(k2) /\ k2.ans = a
    BY <1>0 DEF GotRecord, Leads
  <2>3. oks # {} => a \in NodeAnswers("A", l.range)
    <3>1. oks \subseteq l.target
      BY <1>0 DEF GotRecord
    <3>2. l.target \subseteq Asked(l.range)
      <4>1. r \in {s \in Requests : lead[s].pc # "idle" /\ lead[s].range = l.range}
        BY <1>7 DEF LeadMerge
      <4> QED BY <4>1 DEF Asked
    <3>3. \A t \in oks : l.got[t].keys = FirstChunk[t][l.range]
      <4> SUFFICES ASSUME NEW t \in oks
                   PROVE  l.got[t].keys = FirstChunk[t][l.range]
        OBVIOUS
      <4>1. l.got[t] = TeamsAnswer({t}, l.range)
        BY <1>0 DEF GotRecord
      <4>2. l.got[t] = Chunk(FirstChunk[t][l.range])
        BY <4>1, TeamAnswer
      <4> QED BY <4>2 DEF Chunk
    <3> HIDE DEF oks
    <3>4. UNION {l.got[t].keys : t \in oks} = UNION {FirstChunk[t][l.range] : t \in oks}
      BY <3>3
    <3> QED BY <3>1, <3>2, <3>4 DEF NodeAnswers, TeamsAnswer
  <2>4. \/ LeadSet(r, k1) /\ UNCHANGED cache
        \/ oks # {} /\ LeadSet(r, k2) /\ CachePut("A", l.range, a)
    BY <1>7 DEF LeadMerge
  <2>5. "A" \in Nodes /\ l.range \in Ranges
    BY <1>0 DEF Nodes, Leads
  <2> HIDE DEF k1, k2, a, oks
  <2>6. CacheDelta
    BY <1>0, <2>3, <2>4, <2>5, PutDelta, NoDelta
  <2>7. LeadDelta /\ GotTruthful'
    BY <1>0, <2>1, <2>2, <2>3, <2>4, LeadSetDelta
  <2> QED BY <1>7, <2>6, <2>7, NoDelta DEF LeadMerge
<1> QED BY <1>1, <1>2, <1>3, <1>4, <1>5, <1>6, <1>7 DEF LeadStep

\* A crash empties the caches of its node, and answers nothing.
LEMMA CrashDelta ==
    ASSUME IInv, NEW n \in Nodes, Crash(n)
    PROVE  CacheDelta /\ LeadDelta /\ TlDelta /\ WkDelta /\ GotTruthful'
<1>0. LocalTypeOK /\ GotTruthful
    BY DEF IInv
<1>1. CacheDelta
    BY <1>0 DEF Crash, CacheDelta, LocalTypeOK
<1>2. \A r \in Requests : \/ lead'[r] = lead[r]
                          \/ lead'[r] = [lead[r] EXCEPT !.pc = Dying(@)]
    BY DEF Crash
<1>3. ASSUME NEW r \in Requests
      PROVE  lead'[r].ans = lead[r].ans /\ GotRecord(lead'[r])
  <2>1. lead[r] \in Leads /\ GotRecord(lead[r])
    BY <1>0 DEF LocalTypeOK, GotTruthful
  <2> DEFINE k == [lead[r] EXCEPT !.pc = Dying(@)]
  <2>2. k.ans = lead[r].ans /\ GotRecord(k)
    BY <2>1 DEF Leads, GotRecord, Dying, Stopped
  <2> HIDE DEF k
  <2>3. lead'[r] = lead[r] \/ lead'[r] = k
    BY <1>2 DEF k
  <2> QED BY <2>1, <2>2, <2>3
<1>4. LeadDelta
    BY <1>3 DEF LeadDelta
<1>5. GotTruthful'
    BY <1>3 DEF GotTruthful, GotRecord, TeamsAnswer
<1>6. \A c \in TlThreads : tl'[c].ans = tl[c].ans
  <2> SUFFICES ASSUME NEW c \in TlThreads PROVE tl'[c].ans = tl[c].ans
    OBVIOUS
  <2>1. tl[c] \in Tls
    BY <1>0 DEF LocalTypeOK
  <2>2. tl'[c] = IF TlNode(c) = n THEN [tl[c] EXCEPT !.pc = Dying(@)] ELSE tl[c]
    BY DEF Crash
  <2> QED BY <2>1, <2>2 DEF Tls
<1>7. \A d \in WkThreads : wk'[d].ans = wk[d].ans
  <2> SUFFICES ASSUME NEW d \in WkThreads PROVE wk'[d].ans = wk[d].ans
    OBVIOUS
  <2>1. wk[d] \in Wks
    BY <1>0 DEF LocalTypeOK
  <2>2. wk'[d] = IF WkNode(d) = n THEN [wk[d] EXCEPT !.pc = Dying(@)] ELSE wk[d]
    BY DEF Crash
  <2> QED BY <2>1, <2>2 DEF Wks
<1> QED BY <1>1, <1>4, <1>5, <1>6, <1>7 DEF TlDelta, WkDelta

\* Every step preserves the inductive invariant.
LEMMA NextIInv == IInv /\ [Next]_vars => IInv'
<1> SUFFICES ASSUME IInv, [Next]_vars PROVE IInv'
    OBVIOUS
<1>0. LocalTypeOK /\ Truthful /\ GotTruthful /\ Fixed
    BY NextFixed DEF IInv
<1>1. LocalTypeOK'
    BY <1>0, NextType
<1> DEFINE Delta == CacheDelta /\ LeadDelta /\ TlDelta /\ WkDelta /\ GotTruthful'
<1>2. UNCHANGED lead => GotTruthful'
    BY <1>0 DEF GotTruthful, GotRecord, TeamsAnswer
<1>3. ASSUME UNCHANGED <<cache, lead, tl, wk>> PROVE Delta
    BY <1>2, <1>3, NoDelta
<1>4. ASSUME NEW r \in Requests, ClientSend(r) PROVE Delta
  <2> DEFINE k == [lead[r] EXCEPT !.pc = "register"]
  <2>1. lead[r] \in Leads /\ GotRecord(lead[r])
    BY <1>0 DEF LocalTypeOK, GotTruthful
  <2>2. GotRecord(k) /\ k.ans = lead[r].ans
    BY <2>1 DEF GotRecord, Leads
  <2>3. LeadSet(r, k)
    BY <1>4 DEF ClientSend, LeadAt
  <2> HIDE DEF k
  <2> QED BY <1>0, <1>4, <2>2, <2>3, LeadSetDelta, NoDelta DEF ClientSend
<1>5. ASSUME NEW r \in Requests, LeadStep(r) PROVE Delta
    BY <1>5, LeadStepDelta
<1>6. ASSUME NEW c \in TlThreads, TlStep(c) PROVE Delta
  <2>1. UNCHANGED lead
    BY <1>6 DEF TlStep, TlRegister, TlLookup, TlLookup2, TlCall, TlReturn
  <2> QED BY <1>2, <1>6, <2>1, TlStepDelta, NoDelta
<1>7. ASSUME NEW d \in WkThreads, WkStep(d) PROVE Delta
  <2>1. UNCHANGED <<lead, tl>>
    BY <1>7 DEF WkStep, WkRegister, WkLookup, WkCheck, WkLookup2, WkCompute
  <2> QED BY <1>2, <1>7, <2>1, WkStepDelta, NoDelta
<1>8. ASSUME NEW r \in Requests, NEW n \in Nodes, CancelStep(r, n) PROVE Delta
  <2>1. UNCHANGED <<cache, lead, tl, wk>>
    BY <1>8 DEF CancelStep, CancelMark, CancelForward, CancelReply
  <2> QED BY <1>3, <2>1
<1>9. ASSUME NEW n \in Nodes, NEW q \in Ranges, Expire(n, q) PROVE Delta
  <2>1. CacheDelta
    BY <1>0, <1>9 DEF Expire, CacheDelta, LocalTypeOK
  <2> QED BY <1>2, <1>9, <2>1, NoDelta DEF Expire
<1>10. ASSUME NEW n \in Nodes, Crash(n) PROVE Delta
    BY <1>10, CrashDelta
<1>11. ASSUME NEW r \in Requests, ClientCancel(r) PROVE Delta
    BY <1>3, <1>11 DEF ClientCancel
<1>12. ASSUME NEW n \in Nodes, Restart(n) PROVE Delta
    BY <1>3, <1>12 DEF Restart
<1>13. ASSUME UNCHANGED vars PROVE Delta
  <2>1. UNCHANGED <<cache, lead, tl, wk>>
    BY <1>13 DEF vars
  <2> QED BY <1>3, <2>1
<1> HIDE DEF Delta
<1>14. Delta
    BY <1>4, <1>5, <1>6, <1>7, <1>8, <1>9, <1>10, <1>11, <1>12, <1>13 DEF Next
<1> QED BY <1>0, <1>1, <1>14, DeltaTruthful DEF IInv, Delta

\* Whatever the interleaving of retries, orphaned calls, cancellations,
\* evictions and crashes, caches and OK answers hold the data of the right
\* teams and range, and nothing else.
THEOREM AnswersTruthful == Spec => []Truthful
<1>1. IInv => Truthful
    BY DEF IInv
<1> QED BY <1>1, InitIInv, NextIInv, PTL DEF Spec

-----------------------------------------------------------------------------
\* The theorems about the admission control, of the one A runs.
AdmProofs == INSTANCE AdmissionControl_proofs WITH
               Threads <- Requests, NoTeam <- "", guard <- AdmGuard

\* The constants satisfy the assumptions of AdmissionControl.
LEMMA AdmAssumptions ==
    /\ AdmProofs!ThreadsAssumption
    /\ AdmProofs!NoTeamAssumption
    /\ AdmProofs!MaxAssumption
    /\ AdmProofs!QuantumAssumption
<1>1. AdmProofs!ThreadsAssumption
    BY RequestsAssumption
       DEF AdmProofs!ThreadsAssumption, AdmProofs!IsFiniteSet, IsFiniteSet
<1>2. /\ AdmProofs!NoTeamAssumption
      /\ AdmProofs!MaxAssumption
      /\ AdmProofs!QuantumAssumption
    BY MaxAssumption DEF AdmProofs!NoTeamAssumption, AdmProofs!MaxAssumption,
                         AdmProofs!QuantumAssumption, Teams
<1> QED BY <1>1, <1>2

\* The two instances of AdmissionControl are the same.
LEMMA AdmSameSpec ==
    /\ Adm!Init => AdmProofs!Init
    /\ [Adm!Next]_(Adm!vars) => [AdmProofs!Next]_(AdmProofs!vars)
<1>1. Adm!Init => AdmProofs!Init
    BY DEF Adm!Init, AdmProofs!Init, Adm!SchedInit, AdmProofs!SchedInit,
           Adm!NoGuard, AdmProofs!NoGuard
<1>2. ASSUME NEW t \in Teams
      PROVE  Adm!CanAcquire(t) <=> AdmProofs!CanAcquire(t)
    BY DEF Adm!CanAcquire, AdmProofs!CanAcquire, Adm!AtCapacity,
           AdmProofs!AtCapacity, Adm!OutOfCredit, AdmProofs!OutOfCredit
<1>3. ASSUME NEW d
      PROVE  /\ Adm!Charged(d) = AdmProofs!Charged(d)
             /\ Adm!Credited(d) = AdmProofs!Credited(d)
    BY DEF Adm!Charged, AdmProofs!Charged, Adm!Credited, AdmProofs!Credited
<1>4. ASSUME NEW t \in Teams
      PROVE  /\ Adm!TryAcquire(t) => AdmProofs!TryAcquire(t)
             /\ Adm!Release(t) => AdmProofs!Release(t)
    BY <1>2, <1>3 DEF Adm!TryAcquire, AdmProofs!TryAcquire, Adm!Release,
                      AdmProofs!Release
<1>5. ASSUME NEW h \in Requests, NEW t \in Teams
      PROVE  /\ Adm!Admit(h, t) => AdmProofs!Admit(h, t)
             /\ Adm!Refuse(h, t) => AdmProofs!Refuse(h, t)
    BY <1>2, <1>4 DEF Adm!Admit, AdmProofs!Admit, Adm!Refuse, AdmProofs!Refuse,
                      Adm!NoGuard, AdmProofs!NoGuard, Adm!sched, AdmProofs!sched
<1>6. ASSUME NEW h \in Requests
      PROVE  Adm!Destroy(h) => AdmProofs!Destroy(h)
    BY <1>3 DEF Adm!Destroy, AdmProofs!Destroy, Adm!Release, AdmProofs!Release,
                Adm!NoGuard, AdmProofs!NoGuard, Adm!sched, AdmProofs!sched
<1>7. Adm!Restart => AdmProofs!Restart
    BY DEF Adm!Restart, AdmProofs!Restart, Adm!SchedReset,
           AdmProofs!SchedReset, Adm!NoGuard, AdmProofs!NoGuard
<1>8. Adm!vars = AdmProofs!vars /\ (Adm!vars)' = (AdmProofs!vars)'
    BY DEF Adm!vars, AdmProofs!vars
<1> QED BY <1>1, <1>5, <1>6, <1>7, <1>8 DEF Adm!Next, AdmProofs!Next

\* The counters of A's scheduler are the calls that A has in progress, no team
\* has more of them than its share, and a team without any is admitted.
THEOREM QueriesAdmitted ==
    Spec => [](/\ AdmProofs!TypeOK
               /\ AdmProofs!InflightMatchesGuards
               /\ AdmProofs!CapacityRespected
               /\ AdmProofs!IdleTeamAdmitted)
<1>1. Spec => AdmProofs!Spec
    BY RefinesAdmission, AdmSameSpec, PTL
       DEF AdmissionImplemented, Adm!Spec, AdmProofs!Spec
<1>2. AdmProofs!Spec => []AdmProofs!TypeOK
    BY AdmAssumptions, AdmProofs!TypeCorrect
<1>3. AdmProofs!Spec => []AdmProofs!InflightMatchesGuards
    BY AdmAssumptions, AdmProofs!NoSlotLost
<1>4. AdmProofs!Spec => []AdmProofs!CapacityRespected
    BY AdmAssumptions, AdmProofs!CapacityHolds
<1>5. AdmProofs!Spec => []AdmProofs!IdleTeamAdmitted
    BY AdmAssumptions, AdmProofs!IdleNeverRefused
<1> QED BY <1>1, <1>2, <1>3, <1>4, <1>5, PTL

\* Type correctness, the admission state of A included.
THEOREM TypeCorrect == Spec => []TypeOK
<1>1. AdmProofs!TypeOK => Adm!TypeOK
    BY DEF Adm!TypeOK, AdmProofs!TypeOK, Adm!Guards, AdmProofs!Guards,
           Adm!NoGuard, AdmProofs!NoGuard
<1>2. LocalTypeOK /\ Adm!TypeOK => TypeOK
    BY DEF LocalTypeOK, TypeOK, Leads, Tls, Wks
<1> QED BY <1>1, <1>2, LocalType, QueriesAdmitted, PTL

-----------------------------------------------------------------------------
\* The client's Cancel of r has been accepted by A (or was lost with it).
Confirmed(r) == canc[r]["A"] \in {"forward", "yes", "lost"}

\* No Cancel is on its way below A, no registry has the flag set and no worker
\* has stopped unless it has: the tree is marked from the root.
MarkedFromRoot ==
    /\ \A r \in Requests, n \in Nodes \ {"A"} :
         canc[r][n] # "idle" => Confirmed(r)
    /\ \A r \in Requests, n \in Nodes :
         tokens[n][r] = "cancelled" => Confirmed(r)
    /\ \A d \in WkThreads : wk[d].ans.code = "CANCELLED" => Confirmed(d[1])

\* What a step may do to them.
MarkDelta ==
    /\ \A r \in Requests : Confirmed(r) => Confirmed(r)'
    /\ \A r \in Requests, n \in Nodes \ {"A"} :
         canc'[r][n] # "idle" => canc[r][n] # "idle" \/ Confirmed(r)'
    /\ \A r \in Requests, n \in Nodes :
         tokens'[n][r] = "cancelled" =>
             tokens[n][r] = "cancelled" \/ Confirmed(r)'
    /\ \A d \in WkThreads : wk'[d].ans.code = "CANCELLED" =>
         wk[d].ans.code = "CANCELLED" \/ Confirmed(d[1])'

\* A step that marks only confirmed requests keeps the tree marked from the root.
LEMMA DeltaMarked == MarkedFromRoot /\ MarkDelta => MarkedFromRoot'
<1>1. ASSUME NEW d \in WkThreads PROVE d[1] \in Requests
    BY DEF WkThreads
<1> QED BY <1>1 DEF MarkedFromRoot, MarkDelta

\* Steps that leave the Cancel calls, the registries or the workers alone.
CancDelta == /\ \A r \in Requests : Confirmed(r) => Confirmed(r)'
             /\ \A r \in Requests, n \in Nodes \ {"A"} :
                  canc'[r][n] # "idle" => canc[r][n] # "idle" \/ Confirmed(r)'
TokensDelta == \A r \in Requests, n \in Nodes :
    tokens'[n][r] = "cancelled" => tokens[n][r] = "cancelled" \/ Confirmed(r)'
StopDelta == \A d \in WkThreads : wk'[d].ans.code = "CANCELLED" =>
    wk[d].ans.code = "CANCELLED" \/ Confirmed(d[1])'

\* A step that leaves one of the three parts alone marks nothing there.
LEMMA NoMark ==
    /\ UNCHANGED canc => CancDelta
    /\ UNCHANGED tokens => TokensDelta
    /\ UNCHANGED wk => StopDelta
    /\ CancDelta /\ TokensDelta /\ StopDelta => MarkDelta
<1>1. UNCHANGED canc => CancDelta
    BY DEF CancDelta, Confirmed
<1>2. UNCHANGED tokens => TokensDelta
    BY DEF TokensDelta
<1>3. UNCHANGED wk => StopDelta
    BY DEF StopDelta
<1>4. CancDelta /\ TokensDelta /\ StopDelta => MarkDelta
    BY DEF CancDelta, TokensDelta, StopDelta, MarkDelta
<1> QED BY <1>1, <1>2, <1>3, <1>4

\* A registration marks nothing: it clears the flag.
LEMMA RegisterMark ==
    ASSUME LocalTypeOK, NEW n \in Nodes, NEW r \in Requests, Register(n, r)
    PROVE  TokensDelta
    BY DEF TokensDelta, Register, LocalTypeOK

\* A worker that replies stops at most its own request.
LEMMA WkReplyMark ==
    ASSUME LocalTypeOK, NEW d \in WkThreads, NEW a, WkReply(d, a),
           a.code = "CANCELLED" => Confirmed(d[1])'
    PROVE  StopDelta
    BY DEF StopDelta, WkReply, LocalTypeOK

\* A step of a worker without a reply stops nothing.
LEMMA WkAtMark ==
    ASSUME LocalTypeOK, NEW d \in WkThreads, NEW pc, WkAt(d, pc)
    PROVE  StopDelta
<1>1. wk' = [wk EXCEPT ![d] = [@ EXCEPT !.pc = pc]] /\ wk[d] \in Wks
    BY DEF WkAt, LocalTypeOK
<1>2. [wk[d] EXCEPT !.pc = pc].ans = wk[d].ans
    BY <1>1 DEF Wks
<1> QED BY <1>1, <1>2 DEF StopDelta, LocalTypeOK

\* A worker stops a request as cancelled only if its flag is set.
LEMMA WkStepMark ==
    ASSUME IInv, MarkedFromRoot, NEW d \in WkThreads, WkStep(d)
    PROVE  MarkDelta
<1> DEFINE hit == cache[WkNode(d)][WkRange(d)]
<1>0. LocalTypeOK /\ Truthful
    BY DEF IInv
<1>1. hit # NoAnswer => hit.code # "CANCELLED"
  <2>1. hit # NoAnswer => hit \in NodeAnswers(WkNode(d), WkRange(d))
    BY <1>0, WkFacts DEF Truthful, CachesTruthful
  <2> QED BY <2>1, NodeAnswersOK
<1>2. UNCHANGED canc
    BY DEF WkStep, WkRegister, WkLookup, WkCheck, WkLookup2, WkCompute
<1>3. CASE WkRegister(d)
    BY <1>0, <1>2, <1>3, WkFacts, RegisterMark, WkAtMark, NoMark DEF WkRegister
<1>4. CASE WkLookup(d)
  <2>1. StopDelta
    BY <1>0, <1>1, <1>4, WkReplyMark, WkAtMark DEF WkLookup, CacheGet
  <2> QED BY <1>2, <1>4, <2>1, NoMark DEF WkLookup
<1>5. CASE WkCheck(d)
  <2>1. ASSUME IsCancelled(WkNode(d), d[1]) PROVE Confirmed(d[1])'
    <3>1. Confirmed(d[1])
      BY <1>0, <2>1, WkFacts DEF IsCancelled, MarkedFromRoot
    <3> QED BY <1>2, <3>1 DEF Confirmed
  <2>2. StopDelta
    BY <1>0, <1>5, <2>1, WkReplyMark, WkAtMark DEF WkCheck
  <2> QED BY <1>2, <1>5, <2>2, NoMark DEF WkCheck
<1>6. CASE WkLookup2(d)
  <2>1. StopDelta
    BY <1>0, <1>1, <1>6, WkReplyMark, WkAtMark DEF WkLookup2, CacheGet
  <2> QED BY <1>2, <1>6, <2>1, NoMark DEF WkLookup2
<1>7. CASE WkCompute(d)
  <2>1. Chunk(FirstChunk[d[2]][WkRange(d)]).code # "CANCELLED"
    BY DEF Chunk
  <2>2. StopDelta
    BY <1>0, <1>7, <2>1, WkReplyMark DEF WkCompute
  <2> QED BY <1>2, <1>7, <2>2, NoMark DEF WkCompute
<1> QED BY <1>3, <1>4, <1>5, <1>6, <1>7 DEF WkStep

\* A Cancel proceeds at A, or below A once it is confirmed.
LEMMA CancelAtMark ==
    ASSUME LocalTypeOK, NEW r \in Requests, NEW n \in Nodes, NEW pc,
           CancelAt(r, n, pc),
           n = "A" => (Confirmed(r) => pc \in {"forward", "yes", "lost"}),
           n # "A" => canc[r][n] # "idle" \/ Confirmed(r)
    PROVE  /\ CancDelta
           /\ n = "A" /\ pc \in {"forward", "yes", "lost"} => Confirmed(r)'
<1>1. \A s \in Requests, m \in Nodes :
        canc'[s][m] = IF s = r /\ m = n THEN pc ELSE canc[s][m]
    BY DEF CancelAt, LocalTypeOK
<1>2. "A" \in Nodes
    BY DEF Nodes
<1> QED BY <1>1, <1>2 DEF CancDelta, Confirmed

\* No Cancel is propagated back to A.
LEMMA DownstreamBelowA ==
    \A n \in Nodes : \A i \in DOMAIN Downstream[n] : Downstream[n][i] # "A"
    BY DEF Downstream, Nodes

\* The steps of a Cancel mark the request of that Cancel only.
LEMMA CancelStepMark ==
    ASSUME IInv, MarkedFromRoot, NEW r \in Requests, NEW n \in Nodes,
           CancelStep(r, n)
    PROVE  MarkDelta
<1>0. LocalTypeOK
    BY DEF IInv
<1>1. canc[r][n] # "idle"
    BY DEF CancelStep, CancelMark, CancelForward, CancelReply
<1>2. n # "A" => Confirmed(r)
    BY <1>1 DEF MarkedFromRoot
<1>3. UNCHANGED wk
    BY DEF CancelStep, CancelMark, CancelForward, CancelReply
<1>4. CASE CancelMark(r, n)
  <2>1. n = "A" => ~Confirmed(r)
    BY <1>4 DEF CancelMark, Confirmed
  <2>2. CASE tokens[n][r] = "none"
    BY <1>0, <1>1, <1>3, <1>4, <2>1, <2>2, CancelAtMark, NoMark DEF CancelMark
  <2>3. CASE tokens[n][r] # "none"
    <3>1. CancelAt(r, n, "forward") /\ tokens' = [tokens EXCEPT ![n][r] = "cancelled"]
      BY <1>4, <2>3 DEF CancelMark
    <3>2. CancDelta /\ (n = "A" => Confirmed(r)')
      BY <1>0, <1>1, <2>1, <3>1, CancelAtMark
    <3>3. Confirmed(r)'
      BY <1>2, <3>2 DEF CancDelta
    <3>4. TokensDelta
      BY <1>0, <3>1, <3>3 DEF TokensDelta, LocalTypeOK
    <3> QED BY <1>3, <3>2, <3>4, NoMark
  <2> QED BY <2>2, <2>3
<1>5. CASE CancelForward(r, n)
  <2>1. PICK i \in DOMAIN Downstream[n] :
           CancelAt(r, Downstream[n][i],
                    IF up[Downstream[n][i]] THEN "sent" ELSE "lost")
    BY <1>5 DEF CancelForward
  <2>2. Confirmed(r)
    BY <1>2, <1>5 DEF CancelForward, Confirmed
  <2>3. CancDelta
    BY <1>0, <2>1, <2>2, DownstreamNodes, DownstreamBelowA, CancelAtMark
  <2> QED BY <1>3, <1>5, <2>3, NoMark DEF CancelForward
<1>6. CASE CancelReply(r, n)
  <2>1. CancDelta
    BY <1>0, <1>1, <1>6, CancelAtMark DEF CancelReply
  <2> QED BY <1>3, <1>6, <2>1, NoMark DEF CancelReply
<1> QED BY <1>4, <1>5, <1>6 DEF CancelStep

\* A team leader marks nothing.
LEMMA TlStepMark ==
    ASSUME IInv, NEW c \in TlThreads, TlStep(c)
    PROVE  MarkDelta
<1>0. LocalTypeOK
    BY DEF IInv
<1>1. UNCHANGED canc
    BY DEF TlStep, TlRegister, TlLookup, TlLookup2, TlCall, TlReturn
<1>2. CASE TlRegister(c)
    BY <1>0, <1>1, <1>2, TlFacts, RegisterMark, NoMark DEF TlRegister
<1>3. CASE TlLookup(c) \/ TlLookup2(c) \/ TlReturn(c)
    BY <1>1, <1>3, NoMark DEF TlLookup, TlLookup2, TlReturn
<1>4. CASE TlCall(c)
  <2>1. WkOf(c) \in WkThreads
    BY <1>0, TlFacts
  <2>2. WkAt(WkOf(c), "register") \/ UNCHANGED wk
    BY <1>4 DEF TlCall, WkAt
  <2>3. StopDelta
    BY <1>0, <2>1, <2>2, WkAtMark, NoMark
  <2> QED BY <1>1, <1>4, <2>3, NoMark DEF TlCall
<1> QED BY <1>2, <1>3, <1>4 DEF TlStep

\* The query path of A marks nothing.
LEMMA LeadStepMark ==
    ASSUME IInv, NEW r \in Requests, LeadStep(r)
    PROVE  MarkDelta
<1>0. LocalTypeOK /\ "A" \in Nodes
    BY DEF IInv, Nodes
<1>1. UNCHANGED <<canc, wk>>
    BY DEF LeadStep, LeadRegister, LeadLookup, LeadAdmit, LeadRefused,
           LeadCall, LeadReturn, LeadMerge
<1>2. TokensDelta
  <2>1. CASE LeadRegister(r)
    BY <1>0, <2>1, RegisterMark DEF LeadRegister
  <2>2. CASE ~LeadRegister(r)
    <3>1. UNCHANGED tokens
      BY <2>2 DEF LeadStep, LeadLookup, LeadAdmit, LeadRefused, LeadCall,
                  LeadReturn, LeadMerge
    <3> QED BY <3>1, NoMark
  <2> QED BY <2>1, <2>2
<1> QED BY <1>1, <1>2, NoMark

\* A Cancel that arrives marks nothing yet.
LEMMA ClientCancelMark ==
    ASSUME IInv, NEW r \in Requests, ClientCancel(r)
    PROVE  MarkDelta
<1>0. LocalTypeOK /\ "A" \in Nodes
    BY DEF IInv, Nodes
<1>1. CancelAt(r, "A", "sent") /\ ~Confirmed(r) /\ UNCHANGED <<tokens, wk>>
    BY DEF ClientCancel, Confirmed
<1>2. CancDelta
    BY <1>0, <1>1, CancelAtMark
<1> QED BY <1>1, <1>2, NoMark

\* A crash loses the Cancel calls of its node, and a lost one at A has been
\* sent: it may be that the flag was set before.
LEMMA CrashMark ==
    ASSUME IInv, NEW n \in Nodes, Crash(n)
    PROVE  MarkDelta
<1>0. LocalTypeOK /\ "A" \in Nodes
    BY DEF IInv, Nodes
<1>1. ASSUME NEW r \in Requests, NEW m \in Nodes
      PROVE  canc'[r][m] = IF m = n /\ canc[r][m] \in {"sent", "forward"}
                             THEN "lost" ELSE canc[r][m]
    BY <1>0 DEF Crash, LocalTypeOK
<1>2. CancDelta
    BY <1>0, <1>1 DEF CancDelta, Confirmed
<1>3. TokensDelta
    BY <1>0 DEF Crash, TokensDelta, LocalTypeOK
<1>4. ASSUME NEW d \in WkThreads PROVE wk'[d].ans = wk[d].ans
  <2>1. wk[d] \in Wks
    BY <1>0 DEF LocalTypeOK
  <2>2. wk'[d] = IF WkNode(d) = n THEN [wk[d] EXCEPT !.pc = Dying(@)] ELSE wk[d]
    BY DEF Crash
  <2> QED BY <2>1, <2>2 DEF Wks
<1>5. StopDelta
    BY <1>4 DEF StopDelta
<1> QED BY <1>2, <1>3, <1>5, NoMark

\* Nothing is marked initially.
LEMMA InitMarked == Init => MarkedFromRoot
    BY DEF Init, MarkedFromRoot, WkThreads, NoAnswer, Fail

\* Every step keeps the tree marked from the root.
LEMMA NextMarked == IInv /\ MarkedFromRoot /\ [Next]_vars => MarkedFromRoot'
<1> SUFFICES ASSUME IInv, MarkedFromRoot, [Next]_vars PROVE MarkedFromRoot'
    OBVIOUS
<1>1. ASSUME UNCHANGED <<tokens, wk, canc>> PROVE MarkDelta
    BY <1>1, NoMark
<1>2. ASSUME NEW r \in Requests, ClientSend(r) PROVE MarkDelta
    BY <1>1, <1>2 DEF ClientSend
<1>3. ASSUME NEW n \in Nodes, NEW q \in Ranges, Expire(n, q) PROVE MarkDelta
    BY <1>1, <1>3 DEF Expire
<1>4. ASSUME NEW n \in Nodes, Restart(n) PROVE MarkDelta
    BY <1>1, <1>4 DEF Restart
<1>5. ASSUME UNCHANGED vars PROVE MarkDelta
    BY <1>1, <1>5 DEF vars
<1>6. MarkDelta
    BY <1>2, <1>3, <1>4, <1>5, LeadStepMark, TlStepMark, WkStepMark,
       ClientCancelMark, CancelStepMark, CrashMark DEF Next
<1> QED BY <1>6, DeltaMarked

\* A worker stops a query as cancelled only if A has accepted the Cancel of
\* that very query, through every retry, orphaned call and crash.
THEOREM CancellationGenuine == Spec => []NoSpuriousCancellation
<1>1. MarkedFromRoot => NoSpuriousCancellation
    BY DEF MarkedFromRoot, NoSpuriousCancellation, Confirmed
<1>2. Init => IInv /\ MarkedFromRoot
    BY InitIInv, InitMarked
<1>3. IInv /\ MarkedFromRoot /\ [Next]_vars => (IInv /\ MarkedFromRoot)'
    BY NextIInv, NextMarked
<1> QED BY <1>1, <1>2, <1>3, PTL DEF Spec

-----------------------------------------------------------------------------
(***************************************************************************)
(* When A's answer is that of the teams asked for                          *)
(***************************************************************************)
\* Queries of the same range ask for the same teams.
SameTargets == \A r, s \in Requests :
    lead[r].range = lead[s].range => lead[r].target = lead[s].target

\* A's cache has no team in its key (AnswerMatchesTarget fails), and that is
\* all that is wrong: where the queries of a range agree on the teams, each is
\* answered with keys of the teams it asks for.
THEOREM AnswersMatchTargets == Spec /\ SameTargets => []AnswerMatchesTarget
<1>1. SameTargets /\ IInv /\ [Next]_vars => SameTargets'
  <2>1. IInv /\ [Next]_vars => Fixed
    BY NextFixed DEF IInv
  <2> QED BY <2>1 DEF SameTargets, Fixed
<1>2. SameTargets /\ IInv => AnswerMatchesTarget
  <2> SUFFICES ASSUME SameTargets, IInv, NEW r \in Requests, lead[r].ans.code = "OK"
               PROVE  lead[r].ans.keys \subseteq
                          UNION {FirstChunk[t][lead[r].range] : t \in lead[r].target}
    BY DEF AnswerMatchesTarget
  <2>1. lead[r].range \in Ranges
    BY DEF IInv, LocalTypeOK, Leads
  <2>2. PICK T \in SUBSET Asked(lead[r].range) : lead[r].ans = TeamsAnswer(T, lead[r].range)
    BY <2>1 DEF IInv, Truthful, LeadTruthful, NodeAnswers
  <2>3. Asked(lead[r].range) \subseteq lead[r].target
    BY DEF Asked, SameTargets
  <2> QED BY <2>2, <2>3 DEF TeamsAnswer, Chunk
<1> QED BY <1>1, <1>2, InitIInv, NextIInv, PTL DEF Spec

-----------------------------------------------------------------------------
(***************************************************************************)
(* Progress of A's threads                                                 *)
(***************************************************************************)
\* How many steps a thread of A has left: an attempt takes two, the call and
\* its outcome; GREEN comes before PINK.
RankOf(l) ==
    LET after == IF l.team = "GREEN" THEN 2 * MaxRetries + 4 ELSE 1
        tries == 2 * (MaxRetries - l.att)
    IN  CASE l.pc = "idle"     -> 4 * MaxRetries + 10
          [] l.pc = "register" -> 4 * MaxRetries + 9
          [] l.pc = "lookup"   -> 4 * MaxRetries + 8
          [] l.pc = "admit"    -> after + 2 * MaxRetries + 3
          [] l.pc = "call"     -> after + tries + 2
          [] l.pc = "await"    -> after + tries + 1
          [] l.pc = "merge"    -> 1
          [] OTHER             -> 0

LeadRank(r) == RankOf(lead[r])

LeadRankBounded == \A r \in Requests : LeadRank(r) \in 0 .. 4 * MaxRetries + 10

\* The safety half of Answered: no step of A's thread is one in vain, no other
\* step gives it more to do.
LeadProgress ==
    [][\A r \in Requests : /\ LeadStep(r) => LeadRank(r)' < LeadRank(r)
                           /\ LeadRank(r)' <= LeadRank(r)]_vars

\* The rank is bounded.
LEMMA RankBounded ==
    ASSUME NEW l \in Leads PROVE RankOf(l) \in 0 .. 4 * MaxRetries + 10
<1>1. l.att \in 0 .. MaxRetries /\ MaxRetries \in Nat
    BY MaxAssumption DEF Leads, Attempts
<1>2. l.pc \in LeadPc
    BY DEF Leads
<1> QED BY <1>1, <1>2 DEF RankOf, LeadPc

\* A thread that puts down a record of a lower rank has got on.
LEMMA LeadSetRank ==
    ASSUME LocalTypeOK, NEW r \in Requests, NEW l \in Leads, LeadSet(r, l),
           RankOf(l) < LeadRank(r)
    PROVE  /\ LeadRank(r)' < LeadRank(r)
           /\ \A s \in Requests : LeadRank(s)' <= LeadRank(s)
<1>1. \A s \in Requests : lead'[s] = IF s = r THEN l ELSE lead[s]
    BY DEF LeadSet, LocalTypeOK
<1>2. \A s \in Requests : RankOf(lead[s]) \in Nat /\ RankOf(l) \in Nat
  <2>1. \A s \in Requests : lead[s] \in Leads
    BY DEF LocalTypeOK
  <2> QED BY <2>1, RankBounded, MaxAssumption
<1> QED BY <1>1, <1>2 DEF LeadRank

\* Each retry has one attempt less before it, and the end of a call leaves one
\* team less.
LEMMA OutcomeRank ==
    ASSUME LocalTypeOK, NEW r \in Requests, lead[r].pc \in {"call", "await"},
           NEW a \in Answers, LeadOutcome(r, a)
    PROVE  /\ LeadRank(r)' < LeadRank(r)
           /\ \A s \in Requests : LeadRank(s)' <= LeadRank(s)
<1> DEFINE l == lead[r]
<1>1. l \in Leads /\ MaxRetries \in Nat /\ l.att \in 0 .. MaxRetries
    BY MaxAssumption DEF LocalTypeOK, Leads, Attempts
<1>2. CASE Retriable(a) /\ l.att < MaxRetries
  <2> DEFINE k == [l EXCEPT !.pc = "call", !.att = @ + 1]
  <2>1. LeadSet(r, k)
    BY <1>2 DEF LeadOutcome
  <2> HIDE DEF l
  <2>2. k \in Leads
    BY <1>1, <1>2, AttemptFacts DEF Leads, LeadPc
  <2>3. k.pc = "call" /\ k.att = l.att + 1 /\ k.team = l.team
    BY <1>1 DEF Leads
  <2> HIDE DEF k
  <2>4. l.pc \in {"call", "await"}
    BY DEF l
  <2>5. RankOf(k) < RankOf(l)
    BY <1>1, <2>3, <2>4 DEF RankOf
  <2> QED BY <2>1, <2>2, <2>5, LeadSetRank DEF LeadRank, l
<1>3. CASE ~(Retriable(a) /\ l.att < MaxRetries)
  <2> DEFINE pc == IF l.team = "GREEN" /\ "PINK" \in l.target THEN "admit" ELSE "merge"
             k  == [l EXCEPT !.got[l.team] = a, !.pc = pc, !.team = "PINK"]
  <2>1. LeadSet(r, k)
    BY <1>3 DEF LeadOutcome
  <2> HIDE DEF l
  <2>2. k \in Leads
    <3>1. [l.got EXCEPT ![l.team] = a] \in [Teams -> Answers]
      BY <1>1 DEF Leads
    <3> QED BY <1>1, <3>1 DEF Leads, LeadPc, Teams
  <2>3. k.pc = pc /\ k.team = "PINK"
    BY <1>1 DEF Leads
  <2>4. pc = "merge" \/ (pc = "admit" /\ l.team = "GREEN")
    OBVIOUS
  <2> HIDE DEF k, pc
  <2>5. l.pc \in {"call", "await"}
    BY DEF l
  <2>6. RankOf(k) < RankOf(l)
    BY <1>1, <2>3, <2>4, <2>5 DEF RankOf
  <2> QED BY <2>1, <2>2, <2>6, LeadSetRank DEF LeadRank, l
<1> QED BY <1>2, <1>3

\* Every step of a thread of A lowers its rank.
LEMMA LeadStepRank ==
    ASSUME LocalTypeOK, NEW r \in Requests, LeadStep(r)
    PROVE  /\ LeadRank(r)' < LeadRank(r)
           /\ \A s \in Requests : LeadRank(s)' <= LeadRank(s)
<1> DEFINE l == lead[r]
<1>0. l \in Leads /\ MaxRetries \in Nat /\ l.att \in 0 .. MaxRetries
    BY MaxAssumption DEF LocalTypeOK, Leads, Attempts
<1>1. CASE LeadRegister(r)
  <2> DEFINE k == [l EXCEPT !.pc = "lookup"]
  <2>1. k \in Leads /\ RankOf(k) < RankOf(l)
    BY <1>0, <1>1 DEF LeadRegister, Leads, LeadPc, RankOf
  <2> QED BY <1>1, <2>1, LeadSetRank DEF LeadRegister, LeadAt, LeadRank
<1>2. CASE LeadLookup(r)
  <2> DEFINE hit == cache["A"][l.range]
             k1 == [l EXCEPT !.pc = "done", !.ans = hit]
             k2 == [l EXCEPT !.pc = "merge"]
             k3 == [l EXCEPT !.pc = "admit", !.team = FirstTeam(l.target)]
  <2>1. hit \in Answers
    BY <1>0 DEF LocalTypeOK, Leads, Nodes
  <2>2. k1 \in Leads /\ k2 \in Leads /\ k3 \in Leads
    BY <1>0, <2>1 DEF Leads, LeadPc, FirstTeam, Teams
  <2>3. LeadSet(r, k1) \/ LeadSet(r, k2) \/ LeadSet(r, k3)
    BY <1>2 DEF LeadLookup, CacheGet
  <2>4. /\ k1.pc = "done" /\ k2.pc = "merge"
        /\ k3.pc = "admit" /\ l.pc = "lookup"
    BY <1>0, <1>2 DEF Leads, LeadLookup
  <2>5. RankOf(k1) < RankOf(l) /\ RankOf(k2) < RankOf(l) /\ RankOf(k3) < RankOf(l)
    <3> HIDE DEF k1, k2, k3, l
    <3> QED BY <1>0, <2>4 DEF RankOf
  <2> QED BY <2>2, <2>3, <2>5, LeadSetRank DEF LeadRank
<1>3. CASE LeadAdmit(r)
  <2> DEFINE k == [l EXCEPT !.pc = "call", !.att = 0]
  <2>1. k \in Leads
    BY <1>0, AttemptFacts DEF Leads, LeadPc
  <2>2. k.pc = "call" /\ k.att = 0 /\ k.team = l.team /\ l.pc = "admit"
    BY <1>0, <1>3 DEF Leads, LeadAdmit
  <2>3. RankOf(k) < RankOf(l)
    <3> HIDE DEF k, l
    <3> QED BY <1>0, <2>2 DEF RankOf
  <2> QED BY <1>3, <2>1, <2>3, LeadSetRank DEF LeadAdmit, LeadRank
<1>4. CASE LeadRefused(r)
  <2> DEFINE k == [l EXCEPT !.pc = "done", !.ans = Fail("RESOURCE_EXHAUSTED")]
  <2>1. k \in Leads
    BY <1>0, AnswerFacts DEF Leads, LeadPc, Codes
  <2>2. k.pc = "done" /\ l.pc = "admit"
    BY <1>0, <1>4 DEF Leads, LeadRefused
  <2>3. RankOf(k) < RankOf(l)
    <3> HIDE DEF k, l
    <3> QED BY <1>0, <2>2 DEF RankOf
  <2> QED BY <1>4, <2>1, <2>3, LeadSetRank DEF LeadRefused, LeadRank
<1>5. CASE LeadCall(r)
  <2>1. CASE up[TeamLeader[l.team]]
    <3> DEFINE k == [l EXCEPT !.pc = "await"]
    <3>1. k \in Leads
      BY <1>0 DEF Leads, LeadPc
    <3>2. k.pc = "await" /\ k.att = l.att /\ k.team = l.team /\ l.pc = "call"
      BY <1>0, <1>5 DEF Leads, LeadCall
    <3>3. RankOf(k) < RankOf(l)
      <4> HIDE DEF k, l
      <4> QED BY <1>0, <3>2 DEF RankOf
    <3> QED BY <1>5, <2>1, <3>1, <3>3, LeadSetRank DEF LeadCall, LeadAt, LeadRank
  <2>2. CASE ~up[TeamLeader[l.team]]
    BY <1>5, <2>2, AnswerFacts, OutcomeRank DEF LeadCall, Codes
  <2> QED BY <2>1, <2>2
<1>6. CASE LeadReturn(r)
  <2>1. Outcomes(tl[TlOf(r)]) \subseteq Answers
    BY TlOfThread, OutcomesType DEF Tls
  <2> QED BY <1>6, <2>1, OutcomeRank DEF LeadReturn
<1>7. CASE LeadMerge(r)
  <2> DEFINE oks == {t \in Teams : l.got[t].code = "OK"}
             a   == Chunk(UNION {l.got[t].keys : t \in oks})
             k1  == [l EXCEPT !.pc = "done", !.ans = Fail("UNAVAILABLE")]
             k2  == [l EXCEPT !.pc = "done", !.ans = a]
  <2>1. a \in Answers
    BY <1>0, AnswerFacts DEF Leads, Answers
  <2>2. k1 \in Leads /\ k2 \in Leads
    BY <1>0, <2>1, AnswerFacts DEF Leads, LeadPc, Codes
  <2>3. LeadSet(r, k1) \/ LeadSet(r, k2)
    BY <1>7 DEF LeadMerge
  <2>4. k1.pc = "done" /\ k2.pc = "done" /\ l.pc = "merge"
    BY <1>0, <1>7 DEF Leads, LeadMerge
  <2>5. RankOf(k1) < RankOf(l) /\ RankOf(k2) < RankOf(l)
    <3> HIDE DEF k1, k2, l
    <3> QED BY <1>0, <2>4 DEF RankOf
  <2> QED BY <2>2, <2>3, <2>5, LeadSetRank DEF LeadRank
<1> QED BY <1>1, <1>2, <1>3, <1>4, <1>5, <1>6, <1>7 DEF LeadStep

\* No other step raises it: a crash ends the thread.
LEMMA NextRank ==
    ASSUME LocalTypeOK, [Next]_vars, NEW s \in Requests
    PROVE  LeadRank(s)' <= LeadRank(s)
<1>0. /\ lead[s] \in Leads /\ RankOf(lead[s]) \in Nat
      /\ MaxRetries \in Nat /\ lead[s].att \in 0 .. MaxRetries
  <2>1. lead[s] \in Leads /\ MaxRetries \in Nat
    BY MaxAssumption DEF LocalTypeOK
  <2> QED BY <2>1, RankBounded DEF Leads, Attempts
<1>1. ASSUME UNCHANGED lead PROVE LeadRank(s)' <= LeadRank(s)
    BY <1>0, <1>1 DEF LeadRank
<1>2. ASSUME NEW r \in Requests, ClientSend(r) PROVE LeadRank(s)' <= LeadRank(s)
  <2> DEFINE l == lead[r]
             k == [l EXCEPT !.pc = "register"]
  <2>1. l \in Leads /\ MaxRetries \in Nat
    BY MaxAssumption DEF LocalTypeOK
  <2>2. k \in Leads /\ k.pc = "register" /\ l.pc = "idle"
    BY <1>2, <2>1 DEF Leads, LeadPc, ClientSend
  <2>3. RankOf(k) < RankOf(l)
    <3> HIDE DEF k, l
    <3> QED BY <2>1, <2>2 DEF RankOf
  <2> QED BY <1>2, <2>2, <2>3, LeadSetRank DEF ClientSend, LeadAt, LeadRank
<1>3. ASSUME NEW n \in Nodes, Crash(n), n = "A" PROVE LeadRank(s)' <= LeadRank(s)
  <2> DEFINE k == [lead[s] EXCEPT !.pc = Dying(@)]
  <2>1. lead'[s] = k
    BY <1>3 DEF Crash
  <2>2. k = lead[s] \/ k.pc = "dead"
    BY <1>0 DEF Leads, Dying, Stopped
  <2> HIDE DEF k
  <2>3. k.pc = "dead" => RankOf(k) = 0
    BY DEF RankOf
  <2> QED BY <1>0, <2>1, <2>2, <2>3 DEF LeadRank
<1>4. ASSUME NEW n \in Nodes, Crash(n), n # "A" PROVE UNCHANGED lead
    BY <1>4 DEF Crash
<1>5. ASSUME NEW c \in TlThreads, TlStep(c) PROVE UNCHANGED lead
    BY <1>5 DEF TlStep, TlRegister, TlLookup, TlLookup2, TlCall, TlReturn
<1>6. ASSUME NEW d \in WkThreads, WkStep(d) PROVE UNCHANGED lead
    BY <1>6 DEF WkStep, WkRegister, WkLookup, WkCheck, WkLookup2, WkCompute
<1>7. ASSUME NEW r \in Requests, NEW n \in Nodes, CancelStep(r, n)
      PROVE  UNCHANGED lead
    BY <1>7 DEF CancelStep, CancelMark, CancelForward, CancelReply
<1> QED BY <1>1, <1>2, <1>3, <1>4, <1>5, <1>6, <1>7, LeadStepRank
        DEF Next, ClientCancel, Expire, Restart, vars

\* What Answered needs beside fairness: a query is served in a bounded number
\* of steps, whatever the other nodes, the network and the other queries do.
THEOREM QueriesProgress == Spec => []LeadRankBounded /\ LeadProgress
<1>1. LocalTypeOK => LeadRankBounded
    BY RankBounded DEF LocalTypeOK, LeadRankBounded, LeadRank
<1>2. LocalTypeOK /\ [Next]_vars =>
        [\A r \in Requests : /\ LeadStep(r) => LeadRank(r)' < LeadRank(r)
                             /\ LeadRank(r)' <= LeadRank(r)]_vars
    BY LeadStepRank, NextRank
<1> QED BY <1>1, <1>2, LocalType, PTL DEF Spec, LeadProgress


-----------------------------------------------------------------------------
(***************************************************************************)
(* What unmarks a cancelled query                                          *)
(***************************************************************************)
\* A thread that has registered its request.
Past(pc) == pc \notin {"idle", "register"}

\* Some thread of request r has registered it at node n.
NodePast(n, r) ==
    \/ n = "A" /\ Past(lead[r].pc)
    \/ \E t \in Teams, i \in Attempts : n = TeamLeader[t] /\ Past(tl[<<r, t, i>>].pc)
    \/ \E t \in Teams, i \in Attempts, j \in Attempts :
         n = Worker[t] /\ Past(wk[<<r, t, i, j>>].pc)

Registered == \A n \in Nodes, r \in Requests : tokens[n][r] # "none" => NodePast(n, r)

\* A thread of A with record l has not made attempt i at team t, one of a team
\* leader with record x not attempt j at the worker.
Unasked(l, t, i) ==
    \/ l.pc \in {"idle", "register", "lookup"}
    \/ l.pc = "admit" /\ l.team = t
    \/ l.pc = "call"  /\ l.team = t /\ i >= l.att
    \/ l.pc = "await" /\ l.team = t /\ i > l.att
    \/ l.pc \in {"admit", "call", "await"} /\ l.team = "GREEN" /\ t = "PINK"

Uncalled(x, j) ==
    \/ x.pc \in {"idle", "register", "lookup", "lookup2"}
    \/ x.pc = "call"  /\ j >= x.att
    \/ x.pc = "await" /\ j > x.att

\* Attempts not made have no thread yet.
CallsFresh == \A r \in Requests, t \in Teams, i \in Attempts :
    Unasked(lead[r], t, i) => tl[<<r, t, i>>].pc = "idle"

CalleesFresh == \A c \in TlThreads, j \in Attempts :
    Uncalled(tl[c], j) => wk[<<c[1], c[2], c[3], j>>].pc = "idle"

\* The inductive invariant: a node that knows a request has a thread that has
\* registered it.
TokensInv == LocalTypeOK /\ CallsFresh /\ CalleesFresh /\ Registered

\* Two attempts of one call have come to node n.
Retried(n, r) ==
    \/ \E t \in Teams, i \in Attempts, j \in Attempts :
         /\ n = TeamLeader[t] /\ i # j
         /\ tl[<<r, t, i>>].pc # "idle" /\ tl[<<r, t, j>>].pc # "idle"
    \/ \E t \in Teams, i \in Attempts, j \in Attempts, k \in Attempts, m \in Attempts :
         /\ n = Worker[t] /\ ~(i = k /\ j = m)
         /\ wk[<<r, t, i, j>>].pc # "idle" /\ wk[<<r, t, k, m>>].pc # "idle"

\* A mark goes with the process, or when a retried call registers again.
OnlyRetriesUnmark ==
    [][\A n \in Nodes, r \in Requests :
         tokens[n][r] = "cancelled" /\ up'[n] =>
           tokens'[n][r] = "cancelled" \/ Retried(n, r)]_vars

\* What a step may do: threads stay past their registration, a node comes to
\* know a request from a thread that registers, and what is not called yet
\* stays idle.
PastKept ==
    /\ \A r \in Requests : Past(lead[r].pc) => Past(lead'[r].pc)
    /\ \A c \in TlThreads : Past(tl[c].pc) => Past(tl'[c].pc)
    /\ \A d \in WkThreads : Past(wk[d].pc) => Past(wk'[d].pc)

TokensAdded == \A n \in Nodes, r \in Requests :
    tokens'[n][r] # "none" => tokens[n][r] # "none" \/ NodePast(n, r)'

\* Such a step keeps a registering thread at every node that knows a request.
LEMMA PastRegistered ==
    ASSUME Registered, PastKept, TokensAdded PROVE Registered'
<1>1. ASSUME NEW n \in Nodes, NEW r \in Requests, NodePast(n, r)
      PROVE  NodePast(n, r)'
  <2>1. CASE n = "A" /\ Past(lead[r].pc)
    BY <2>1 DEF NodePast, PastKept
  <2>2. CASE \E t \in Teams, i \in Attempts :
               n = TeamLeader[t] /\ Past(tl[<<r, t, i>>].pc)
    <3>1. PICK t \in Teams, i \in Attempts :
             n = TeamLeader[t] /\ Past(tl[<<r, t, i>>].pc)
      BY <2>2
    <3>2. <<r, t, i>> \in TlThreads
      BY DEF TlThreads
    <3>3. Past(tl'[<<r, t, i>>].pc)
      BY <3>1, <3>2 DEF PastKept
    <3> QED BY <3>1, <3>3 DEF NodePast
  <2>3. CASE \E t \in Teams, i \in Attempts, j \in Attempts :
               n = Worker[t] /\ Past(wk[<<r, t, i, j>>].pc)
    <3>1. PICK t \in Teams, i \in Attempts, j \in Attempts :
             n = Worker[t] /\ Past(wk[<<r, t, i, j>>].pc)
      BY <2>3
    <3>2. <<r, t, i, j>> \in WkThreads
      BY DEF WkThreads
    <3>3. Past(wk'[<<r, t, i, j>>].pc)
      BY <3>1, <3>2 DEF PastKept
    <3> QED BY <3>1, <3>3 DEF NodePast
  <2> QED BY <1>1, <2>1, <2>2, <2>3 DEF NodePast
<1> QED BY <1>1 DEF Registered, TokensAdded

\* A new record of A's thread that asks no less than the old one keeps the
\* attempts fresh.
LEMMA LeadSetFresh ==
    ASSUME LocalTypeOK, CallsFresh, NEW r \in Requests, NEW l, LeadSet(r, l),
           UNCHANGED tl,
           \A t \in Teams, i \in Attempts : Unasked(l, t, i) => Unasked(lead[r], t, i),
           Past(lead[r].pc) => Past(l.pc)
    PROVE  /\ CallsFresh'
           /\ \A s \in Requests : Past(lead[s].pc) => Past(lead'[s].pc)
<1>1. \A s \in Requests : lead'[s] = IF s = r THEN l ELSE lead[s]
    BY DEF LeadSet, LocalTypeOK
<1> QED BY <1>1 DEF CallsFresh

\* The outcome of an attempt: the next one, the next team or none is fresh.
LEMMA LeadOutcomeFresh ==
    ASSUME LocalTypeOK, CallsFresh, NEW r \in Requests,
           lead[r].pc \in {"call", "await"}, NEW a, LeadOutcome(r, a), UNCHANGED tl
    PROVE  /\ CallsFresh'
           /\ \A s \in Requests : Past(lead[s].pc) => Past(lead'[s].pc)
<1> DEFINE l == lead[r]
<1>1. l \in Leads /\ MaxRetries \in Nat /\ l.att \in 0 .. MaxRetries
    BY MaxAssumption DEF LocalTypeOK, Leads, Attempts
<1>a. l.pc \in {"call", "await"}
    OBVIOUS
<1>2. CASE Retriable(a) /\ l.att < MaxRetries
  <2> DEFINE k == [l EXCEPT !.pc = "call", !.att = @ + 1]
  <2>1. LeadSet(r, k)
    BY <1>2 DEF LeadOutcome
  <2>2. k.pc = "call" /\ k.att = l.att + 1 /\ k.team = l.team
    BY <1>1 DEF Leads
  <2>3. ASSUME NEW t \in Teams, NEW i \in Attempts, Unasked(k, t, i)
        PROVE  Unasked(l, t, i)
    <3> HIDE DEF k, l
    <3>1. i \in Int
      BY DEF Attempts
    <3> QED BY <1>1, <1>a, <2>2, <2>3, <3>1 DEF Unasked
  <2> HIDE DEF k
  <2> QED BY <2>1, <2>2, <2>3, LeadSetFresh DEF Past
<1>3. CASE ~(Retriable(a) /\ l.att < MaxRetries)
  <2> DEFINE pc == IF l.team = "GREEN" /\ "PINK" \in l.target THEN "admit" ELSE "merge"
             k  == [l EXCEPT !.got[l.team] = a, !.pc = pc, !.team = "PINK"]
  <2>1. LeadSet(r, k)
    BY <1>3 DEF LeadOutcome
  <2>2. k.pc = pc /\ k.team = "PINK"
    BY <1>1 DEF Leads
  <2>3. pc = "merge" \/ (pc = "admit" /\ l.team = "GREEN")
    OBVIOUS
  <2>4. ASSUME NEW t \in Teams, NEW i \in Attempts, Unasked(k, t, i)
        PROVE  Unasked(l, t, i)
    <3> HIDE DEF k, l, pc
    <3> QED BY <1>a, <2>2, <2>3, <2>4 DEF Unasked
  <2> HIDE DEF k, pc
  <2> QED BY <2>1, <2>2, <2>3, <2>4, LeadSetFresh DEF Past
<1> QED BY <1>2, <1>3


\* The steps of a thread of A.
LEMMA LeadStepTokens ==
    ASSUME TokensInv, NEW r \in Requests, LeadStep(r)
    PROVE  /\ CallsFresh' /\ CalleesFresh' /\ PastKept /\ TokensAdded
           /\ \A n \in Nodes, s \in Requests :
                tokens[n][s] = "cancelled" => tokens'[n][s] = "cancelled"
<1> DEFINE l == lead[r]
           Lead == CallsFresh' /\ \A s \in Requests : Past(lead[s].pc) => Past(lead'[s].pc)
<1>0. /\ LocalTypeOK /\ CallsFresh /\ CalleesFresh /\ Registered
      /\ l \in Leads /\ "A" \in Nodes
    BY DEF TokensInv, LocalTypeOK, Nodes
<1>1. UNCHANGED wk
    BY DEF LeadStep, LeadRegister, LeadLookup, LeadAdmit, LeadRefused,
           LeadCall, LeadReturn, LeadMerge
<1>2. ASSUME Lead, UNCHANGED <<tl, tokens>>
      PROVE  /\ CallsFresh' /\ CalleesFresh' /\ PastKept /\ TokensAdded
             /\ \A n \in Nodes, s \in Requests :
                  tokens[n][s] = "cancelled" => tokens'[n][s] = "cancelled"
    BY <1>0, <1>1, <1>2 DEF CalleesFresh, PastKept, TokensAdded
<1>3. CASE LeadRegister(r)
  <2> DEFINE k == [l EXCEPT !.pc = "lookup"]
  <2>1. LeadSet(r, k) /\ UNCHANGED tl /\ l.pc = "register"
    BY <1>3 DEF LeadRegister, LeadAt
  <2>2. k.pc = "lookup"
    BY <1>0 DEF Leads
  <2>3. CallsFresh' /\ \A s \in Requests : Past(lead[s].pc) => Past(lead'[s].pc)
    <3>1. \A t \in Teams, i \in Attempts : Unasked(k, t, i) => Unasked(l, t, i)
      BY <2>1 DEF Unasked
    <3> HIDE DEF k
    <3> QED BY <1>0, <2>1, <2>2, <3>1, LeadSetFresh DEF Past
  <2>4. tokens["A"][r] = "none"
    <3>1. ~NodePast("A", r)
      BY <2>1 DEF NodePast, Past, TeamLeader, Worker
    <3> QED BY <1>0, <3>1 DEF Registered
  <2>5. \A n \in Nodes, s \in Requests :
          tokens'[n][s] = IF n = "A" /\ s = r THEN "live" ELSE tokens[n][s]
    BY <1>0, <1>3 DEF LeadRegister, Register, LocalTypeOK
  <2>6. lead'[r].pc = "lookup"
    <3> HIDE DEF k
    <3> QED BY <1>0, <2>1, <2>2 DEF LeadSet, LocalTypeOK
  <2>7. NodePast("A", r)'
    BY <2>6 DEF NodePast, Past
  <2> QED BY <1>0, <1>1, <2>1, <2>3, <2>4, <2>5, <2>7
          DEF CalleesFresh, PastKept, TokensAdded
<1>4. CASE LeadLookup(r)
  <2> DEFINE k1 == [l EXCEPT !.pc = "done", !.ans = cache["A"][l.range]]
             k2 == [l EXCEPT !.pc = "merge"]
             k3 == [l EXCEPT !.pc = "admit", !.team = FirstTeam(l.target)]
  <2>1. /\ LeadSet(r, k1) \/ LeadSet(r, k2) \/ LeadSet(r, k3)
        /\ l.pc = "lookup" /\ UNCHANGED <<tl, tokens>>
    BY <1>4 DEF LeadLookup, CacheGet
  <2>2. k1.pc = "done" /\ k2.pc = "merge" /\ k3.pc = "admit"
    BY <1>0 DEF Leads
  <2>3. \A k \in {k1, k2, k3}, t \in Teams, i \in Attempts :
          Unasked(k, t, i) => Unasked(l, t, i)
    BY <2>1 DEF Unasked
  <2> HIDE DEF k1, k2, k3
  <2>4. Lead
    BY <1>0, <2>1, <2>2, <2>3, LeadSetFresh DEF Past
  <2> QED BY <1>2, <2>1, <2>4
<1>5. CASE LeadAdmit(r)
  <2> DEFINE k == [l EXCEPT !.pc = "call", !.att = 0]
  <2>1. LeadSet(r, k) /\ l.pc = "admit" /\ UNCHANGED <<tl, tokens>>
    BY <1>5 DEF LeadAdmit
  <2>2. k.pc = "call" /\ k.att = 0 /\ k.team = l.team
    BY <1>0 DEF Leads
  <2> HIDE DEF k
  <2>3. \A t \in Teams, i \in Attempts : Unasked(k, t, i) => Unasked(l, t, i)
    <3> HIDE DEF l
    <3> QED BY <2>1, <2>2 DEF Unasked
  <2>4. Lead
    BY <1>0, <2>1, <2>2, <2>3, LeadSetFresh DEF Past
  <2> QED BY <1>2, <2>1, <2>4
<1>6. CASE LeadRefused(r)
  <2> DEFINE k == [l EXCEPT !.pc = "done", !.ans = Fail("RESOURCE_EXHAUSTED")]
  <2>1. LeadSet(r, k) /\ l.pc = "admit" /\ UNCHANGED <<tl, tokens>>
    BY <1>6 DEF LeadRefused
  <2>2. k.pc = "done"
    BY <1>0 DEF Leads
  <2> HIDE DEF k
  <2>3. \A t \in Teams, i \in Attempts : Unasked(k, t, i) => Unasked(l, t, i)
    BY <2>2 DEF Unasked
  <2>4. Lead
    BY <1>0, <2>1, <2>2, <2>3, LeadSetFresh DEF Past
  <2> QED BY <1>2, <2>1, <2>4
<1>7. CASE LeadCall(r)
  <2>1. CASE up[TeamLeader[l.team]]
    <3> DEFINE k == [l EXCEPT !.pc = "await"]
               c == TlOf(r)
    <3>1. /\ LeadSet(r, k) /\ l.pc = "call" /\ UNCHANGED tokens
          /\ tl' = [tl EXCEPT ![c].pc = "register"]
      BY <1>7, <2>1 DEF LeadCall, LeadAt
    <3>2. k.pc = "await" /\ k.att = l.att /\ k.team = l.team
      BY <1>0 DEF Leads
    <3>3. /\ l.team \in Teams /\ l.att \in Attempts /\ l.att \in Int
          /\ c = <<r, l.team, l.att>> /\ c \in TlThreads /\ tl[c] \in Tls
      BY <1>0, TlOfThread DEF Leads, Attempts, TlOf
    <3>4. tl[c].pc = "idle"
      BY <1>0, <3>1, <3>3 DEF CallsFresh, Unasked
    <3>5. \A b \in TlThreads : tl'[b] = IF b = c THEN [tl[c] EXCEPT !.pc = "register"]
                                       ELSE tl[b]
      BY <1>0, <3>1 DEF LocalTypeOK
    <3>6. \A b \in TlThreads : tl'[b].pc = IF b = c THEN "register" ELSE tl[b].pc
      BY <3>3, <3>5 DEF Tls
    <3> HIDE DEF k, c
    <3>7. \A s \in Requests : lead'[s] = IF s = r THEN k ELSE lead[s]
      BY <1>0, <3>1 DEF LeadSet, LocalTypeOK
    <3>8. CallsFresh'
      <4> SUFFICES ASSUME NEW s \in Requests, NEW t \in Teams, NEW i \in Attempts,
                          Unasked(lead'[s], t, i)
                   PROVE  tl'[<<s, t, i>>].pc = "idle"
        BY DEF CallsFresh
      <4>1. <<s, t, i>> \in TlThreads /\ i \in Int
        BY DEF TlThreads, Attempts
      <4>2. CASE s = r
        <5>1. Unasked(k, t, i)
          BY <3>7, <4>2
        <5>2. Unasked(l, t, i) /\ ~(t = l.team /\ i = l.att)
          <6> HIDE DEF l
          <6> QED BY <3>1, <3>2, <3>3, <4>1, <5>1 DEF Unasked
        <5>3. <<s, t, i>> # c
          BY <3>3, <5>2
        <5>4. tl[<<s, t, i>>].pc = "idle"
          BY <1>0, <4>2, <5>2 DEF CallsFresh
        <5> QED BY <3>6, <4>1, <5>3, <5>4
      <4>3. CASE s # r
        <5>1. <<s, t, i>> # c
          BY <3>3, <4>3
        <5>2. tl[<<s, t, i>>].pc = "idle"
          BY <1>0, <3>7, <4>3 DEF CallsFresh
        <5> QED BY <3>6, <4>1, <5>1, <5>2
      <4> QED BY <4>2, <4>3
    <3>9. CalleesFresh'
      <4>1. ASSUME NEW b \in TlThreads, NEW j, Uncalled(tl'[b], j)
            PROVE  Uncalled(tl[b], j)
        BY <3>4, <3>5, <4>1 DEF Uncalled
      <4> QED BY <1>0, <1>1, <4>1 DEF CalleesFresh
    <3>10. PastKept
      BY <1>1, <3>1, <3>2, <3>4, <3>6, <3>7 DEF PastKept, Past
    <3> QED BY <3>1, <3>8, <3>9, <3>10 DEF TokensAdded
  <2>2. CASE ~up[TeamLeader[l.team]]
    <3>1. LeadOutcome(r, Fail("UNAVAILABLE")) /\ UNCHANGED <<tl, tokens>> /\ l.pc = "call"
      BY <1>7, <2>2 DEF LeadCall
    <3>2. Lead
      BY <1>0, <3>1, LeadOutcomeFresh
    <3> QED BY <1>2, <3>1, <3>2
  <2> QED BY <2>1, <2>2
<1>8. CASE LeadReturn(r)
  <2>1. PICK a : LeadOutcome(r, a) /\ UNCHANGED <<tl, tokens>> /\ l.pc = "await"
    BY <1>8 DEF LeadReturn
  <2>2. Lead
    BY <1>0, <2>1, LeadOutcomeFresh
  <2> QED BY <1>2, <2>1, <2>2
<1>9. CASE LeadMerge(r)
  <2> DEFINE a  == Chunk(UNION {l.got[t].keys : t \in {u \in Teams : l.got[u].code = "OK"}})
             k1 == [l EXCEPT !.pc = "done", !.ans = Fail("UNAVAILABLE")]
             k2 == [l EXCEPT !.pc = "done", !.ans = a]
  <2>1. /\ LeadSet(r, k1) \/ LeadSet(r, k2)
        /\ UNCHANGED <<tl, tokens>>
    BY <1>9 DEF LeadMerge
  <2>2. k1.pc = "done" /\ k2.pc = "done"
    BY <1>0 DEF Leads
  <2> HIDE DEF k1, k2
  <2>3. \A k \in {k1, k2}, t \in Teams, i \in Attempts :
          Unasked(k, t, i) => Unasked(l, t, i)
    BY <2>2 DEF Unasked
  <2>4. Lead
    BY <1>0, <2>1, <2>2, <2>3, LeadSetFresh DEF Past
  <2> QED BY <1>2, <2>1, <2>4
<1> QED BY <1>3, <1>4, <1>5, <1>6, <1>7, <1>8, <1>9 DEF LeadStep


\* The nodes of the two teams are their own, and none is A.
LEMMA NodesApart ==
    ASSUME NEW t \in Teams, NEW u \in Teams
    PROVE  /\ TeamLeader[t] # "A" /\ Worker[t] # "A" /\ TeamLeader[t] # Worker[u]
           /\ (TeamLeader[t] = TeamLeader[u] => t = u)
           /\ (Worker[t] = Worker[u] => t = u)
    BY DEF TeamLeader, Worker, Teams

\* A thread of a team leader that calls no less than before keeps the attempts
\* fresh.
LEMMA TlSetFresh ==
    ASSUME LocalTypeOK, CallsFresh, CalleesFresh, NEW c \in TlThreads, NEW x,
           TlSet(c, x), UNCHANGED <<lead, wk>>, tl[c].pc # "idle",
           \A j \in Attempts : Uncalled(x, j) => Uncalled(tl[c], j),
           Past(tl[c].pc) => Past(x.pc)
    PROVE  CallsFresh' /\ CalleesFresh' /\ PastKept
<1>1. \A b \in TlThreads : tl'[b] = IF b = c THEN x ELSE tl[b]
    BY DEF TlSet, LocalTypeOK
<1>2. CallsFresh'
  <2> SUFFICES ASSUME NEW r \in Requests, NEW t \in Teams, NEW i \in Attempts,
                      Unasked(lead[r], t, i)
               PROVE  tl'[<<r, t, i>>].pc = "idle"
    BY DEF CallsFresh
  <2>1. tl[<<r, t, i>>].pc = "idle" /\ <<r, t, i>> \in TlThreads
    BY DEF CallsFresh, TlThreads
  <2> QED BY <1>1, <2>1
<1>3. CalleesFresh'
    BY <1>1 DEF CalleesFresh
<1> QED BY <1>1, <1>2, <1>3 DEF PastKept

\* The outcome of an attempt at the worker: the next one is fresh.
LEMMA TlOutcomeFresh ==
    ASSUME LocalTypeOK, CallsFresh, CalleesFresh, NEW c \in TlThreads,
           tl[c].pc \in {"call", "await"}, NEW a, TlOutcome(c, a),
           UNCHANGED <<lead, wk>>
    PROVE  CallsFresh' /\ CalleesFresh' /\ PastKept
<1> DEFINE x  == tl[c]
           k1 == [x EXCEPT !.pc = "call", !.att = @ + 1]
           k2 == [x EXCEPT !.pc = "done", !.ans = a]
           k3 == [x EXCEPT !.pc = "done", !.ans = Fail("UNAVAILABLE")]
<1>1. x \in Tls /\ x.att \in Int
    BY TlFacts DEF Tls, Attempts
<1>2. TlSet(c, k1) \/ TlSet(c, k2) \/ TlSet(c, k3)
    BY DEF TlOutcome, TlReply
<1>3. /\ k1.pc = "call" /\ k1.att = x.att + 1
      /\ k2.pc = "done" /\ k3.pc = "done"
    BY <1>1 DEF Tls
<1>4. \A k \in {k1, k2, k3}, j \in Attempts : Uncalled(k, j) => Uncalled(x, j)
  <2> SUFFICES ASSUME NEW k \in {k1, k2, k3}, NEW j \in Attempts, Uncalled(k, j)
               PROVE  Uncalled(x, j)
    OBVIOUS
  <2>1. j \in Int /\ x.pc \in {"call", "await"}
    BY DEF Attempts
  <2>2. (k.pc = "call" /\ k.att = x.att + 1) \/ k.pc = "done"
    BY <1>3
  <2> HIDE DEF x, k1, k2, k3
  <2> QED BY <1>1, <2>1, <2>2 DEF Uncalled
<1>5. Past(x.pc) /\ Past(k1.pc) /\ Past(k2.pc) /\ Past(k3.pc) /\ x.pc # "idle"
    BY <1>3 DEF Past
<1> HIDE DEF k1, k2, k3
<1> QED BY <1>2, <1>4, <1>5, TlSetFresh

\* What a step does with the marks of the nodes.
MarksKept == \A n \in Nodes, s \in Requests :
    tokens[n][s] = "cancelled" => tokens'[n][s] = "cancelled" \/ Retried(n, s)

\* The steps of a thread of a team leader.
LEMMA TlStepTokens ==
    ASSUME TokensInv, NEW c \in TlThreads, TlStep(c)
    PROVE  CallsFresh' /\ CalleesFresh' /\ PastKept /\ TokensAdded /\ MarksKept
<1> DEFINE x == tl[c]
           n == TlNode(c)
           r == c[1]
<1>0. LocalTypeOK /\ CallsFresh /\ CalleesFresh /\ Registered
    BY DEF TokensInv
<1>1. /\ x \in Tls /\ x.att \in Attempts /\ n \in Nodes /\ r \in Requests
      /\ c[2] \in Teams /\ c[3] \in Attempts /\ c = <<c[1], c[2], c[3]>>
    BY <1>0, TlFacts DEF Tls, TlThreads
<1>2. UNCHANGED lead
    BY DEF TlStep, TlRegister, TlLookup, TlLookup2, TlCall, TlReturn
<1>3. ASSUME UNCHANGED tokens PROVE TokensAdded /\ MarksKept
    BY <1>3 DEF TokensAdded, MarksKept
<1>4. CASE TlRegister(c)
  <2> DEFINE k == [x EXCEPT !.pc = "lookup"]
  <2>1. TlSet(c, k) /\ x.pc = "register" /\ UNCHANGED <<lead, wk>>
    BY <1>4 DEF TlRegister, TlAt
  <2>2. k.pc = "lookup"
    BY <1>1 DEF Tls
  <2> HIDE DEF k
  <2>3. CallsFresh' /\ CalleesFresh' /\ PastKept
    <3>1. \A j \in Attempts : Uncalled(k, j) => Uncalled(x, j)
      BY <2>1 DEF Uncalled
    <3> QED BY <1>0, <2>1, <2>2, <3>1, TlSetFresh DEF Past
  <2>4. \A m \in Nodes, s \in Requests :
          tokens'[m][s] = IF m = n /\ s = r THEN "live" ELSE tokens[m][s]
    BY <1>0, <1>1, <1>4 DEF TlRegister, Register, LocalTypeOK
  <2>5. NodePast(n, r)'
    <3>1. tl'[c] = k
      BY <1>0, <2>1 DEF TlSet, LocalTypeOK
    <3>2. n = TeamLeader[c[2]] /\ Past(tl'[<<r, c[2], c[3]>>].pc)
      BY <1>1, <2>2, <3>1 DEF TlNode, Past
    <3> QED BY <1>1, <3>2 DEF NodePast
  <2>6. TokensAdded
    BY <2>4, <2>5 DEF TokensAdded
  <2>7. tokens[n][r] = "cancelled" => Retried(n, r)
    <3> SUFFICES ASSUME tokens[n][r] = "cancelled" PROVE Retried(n, r)
      OBVIOUS
    <3>1. NodePast(n, r)
      BY <1>0, <1>1 DEF Registered
    <3>2. PICK t \in Teams, i \in Attempts :
             n = TeamLeader[t] /\ Past(tl[<<r, t, i>>].pc)
      BY <1>1, <3>1, NodesApart DEF NodePast, TlNode
    <3>3. t = c[2] /\ tl[<<r, t, c[3]>>] = x
      BY <1>1, <3>2, NodesApart DEF TlNode
    <3>4. i # c[3]
      BY <2>1, <3>2, <3>3 DEF Past
    <3>5. tl[<<r, t, i>>].pc # "idle" /\ tl[<<r, t, c[3]>>].pc # "idle"
      BY <2>1, <3>2, <3>3 DEF Past
    <3> QED BY <1>1, <3>2, <3>4, <3>5 DEF Retried
  <2> QED BY <2>3, <2>4, <2>6, <2>7 DEF MarksKept
<1>5. CASE TlLookup(c) \/ TlLookup2(c)
  <2> DEFINE hit == CacheGet(TlNode(c), TlRange(c))
             k1  == [x EXCEPT !.pc = "done", !.ans = hit]
             k2  == [x EXCEPT !.pc = "call"]
             k3  == [x EXCEPT !.pc = "lookup2"]
  <2>1. /\ TlSet(c, k1) \/ TlSet(c, k2) \/ TlSet(c, k3)
        /\ x.pc \in {"lookup", "lookup2"} /\ UNCHANGED <<lead, wk, tokens>>
    BY <1>5 DEF TlLookup, TlLookup2, TlReply, TlAt
  <2>2. k1.pc = "done" /\ k2.pc = "call" /\ k3.pc = "lookup2"
    BY <1>1 DEF Tls
  <2>3. \A k \in {k1, k2, k3}, j \in Attempts : Uncalled(k, j) => Uncalled(x, j)
    BY <2>1 DEF Uncalled
  <2> HIDE DEF k1, k2, k3
  <2>4. CallsFresh' /\ CalleesFresh' /\ PastKept
    BY <1>0, <2>1, <2>2, <2>3, TlSetFresh DEF Past
  <2> QED BY <1>3, <2>1, <2>4
<1>6. CASE TlCall(c)
  <2>1. CASE up[Worker[c[2]]]
    <3> DEFINE k == [x EXCEPT !.pc = "await"]
               d == WkOf(c)
    <3>1. /\ TlSet(c, k) /\ x.pc = "call" /\ UNCHANGED tokens
          /\ wk' = [wk EXCEPT ![d].pc = "register"]
      BY <1>6, <2>1 DEF TlCall, TlAt
    <3>2. k.pc = "await" /\ k.att = x.att
      BY <1>1 DEF Tls
    <3>3. /\ d \in WkThreads /\ wk[d] \in Wks /\ d = <<c[1], c[2], c[3], x.att>>
          /\ x.att \in Int
      BY <1>0, <1>1, TlFacts DEF WkOf, Attempts
    <3>4. wk[d].pc = "idle"
      BY <1>0, <1>1, <3>1, <3>3 DEF CalleesFresh, Uncalled
    <3>5. \A b \in WkThreads : wk'[b].pc = IF b = d THEN "register" ELSE wk[b].pc
      BY <1>0, <3>1, <3>3 DEF LocalTypeOK, Wks
    <3> HIDE DEF k, d
    <3>6. \A b \in TlThreads : tl'[b] = IF b = c THEN k ELSE tl[b]
      BY <1>0, <3>1 DEF TlSet, LocalTypeOK
    <3>7. CallsFresh'
      <4> SUFFICES ASSUME NEW s \in Requests, NEW t \in Teams, NEW i \in Attempts,
                          Unasked(lead[s], t, i)
                   PROVE  tl'[<<s, t, i>>].pc = "idle"
        BY <1>2 DEF CallsFresh
      <4>1. tl[<<s, t, i>>].pc = "idle" /\ <<s, t, i>> \in TlThreads
        BY <1>0 DEF CallsFresh, TlThreads
      <4> QED BY <3>1, <3>6, <4>1
    <3>8. CalleesFresh'
      <4> SUFFICES ASSUME NEW b \in TlThreads, NEW j \in Attempts, Uncalled(tl'[b], j)
                   PROVE  wk'[<<b[1], b[2], b[3], j>>].pc = "idle"
        BY DEF CalleesFresh
      <4>1. /\ b = <<b[1], b[2], b[3]>> /\ j \in Int
            /\ <<b[1], b[2], b[3], j>> \in WkThreads
        BY DEF TlThreads, WkThreads, Attempts
      <4>2. Uncalled(tl[b], j) /\ ~(b = c /\ j = x.att)
        <5>1. CASE b = c
          <6>1. tl'[b] = k
            BY <3>6, <5>1
          <6>2. Uncalled(k, j)
            BY <6>1
          <6>3. j > x.att
            BY <3>2, <6>2 DEF Uncalled
          <6> QED BY <3>1, <3>3, <4>1, <5>1, <6>3 DEF Uncalled
        <5>2. CASE b # c
          <6>1. tl'[b] = tl[b]
            BY <3>6, <5>2
          <6>2. Uncalled(tl[b], j)
            BY <6>1
          <6> QED BY <5>2, <6>2
        <5> QED BY <5>1, <5>2
      <4>3. <<b[1], b[2], b[3], j>> # d
        BY <1>1, <3>3, <4>1, <4>2
      <4>4. wk[<<b[1], b[2], b[3], j>>].pc = "idle"
        BY <1>0, <4>2 DEF CalleesFresh
      <4> QED BY <3>5, <4>1, <4>3, <4>4
    <3>9. PastKept
      BY <1>2, <3>2, <3>4, <3>5, <3>6 DEF PastKept, Past
    <3> QED BY <1>3, <3>1, <3>7, <3>8, <3>9
  <2>2. CASE ~up[Worker[c[2]]]
    <3>1. /\ TlOutcome(c, Fail("UNAVAILABLE")) /\ x.pc = "call"
          /\ UNCHANGED <<lead, wk, tokens>>
      BY <1>6, <2>2 DEF TlCall
    <3> QED BY <1>0, <1>3, <3>1, TlOutcomeFresh
  <2> QED BY <2>1, <2>2
<1>7. CASE TlReturn(c)
  <2>1. PICK a : /\ TlOutcome(c, a) /\ x.pc = "await"
                 /\ UNCHANGED <<lead, wk, tokens>>
    BY <1>7 DEF TlReturn
  <2> QED BY <1>0, <1>3, <2>1, TlOutcomeFresh
<1> QED BY <1>4, <1>5, <1>6, <1>7 DEF TlStep


\* A worker's thread that goes on keeps what it has registered.
LEMMA WkMoves ==
    ASSUME TokensInv, NEW d \in WkThreads, NEW pc, pc \notin {"idle", "register"},
           wk[d].pc # "idle", UNCHANGED <<lead, tl>>,
           wk' = [wk EXCEPT ![d].pc = pc] \/ \E a : wk' = [wk EXCEPT ![d] = [pc |-> pc, ans |-> a]]
    PROVE  CallsFresh' /\ CalleesFresh' /\ PastKept /\ wk'[d].pc = pc
<1>1. \A b \in WkThreads : wk'[b].pc = IF b = d THEN pc ELSE wk[b].pc
    BY DEF TokensInv, LocalTypeOK, Wks
<1>2. CalleesFresh'
  <2> SUFFICES ASSUME NEW c \in TlThreads, NEW j \in Attempts, Uncalled(tl[c], j)
               PROVE  wk'[<<c[1], c[2], c[3], j>>].pc = "idle"
    BY DEF CalleesFresh
  <2>1. <<c[1], c[2], c[3], j>> \in WkThreads
    BY DEF TlThreads, WkThreads
  <2>2. wk[<<c[1], c[2], c[3], j>>].pc = "idle"
    BY DEF TokensInv, CalleesFresh
  <2> QED BY <1>1, <2>1, <2>2
<1>3. CallsFresh'
    BY DEF TokensInv, CallsFresh
<1> QED BY <1>1, <1>2, <1>3 DEF PastKept, Past

\* The steps of a thread of a worker.
LEMMA WkStepTokens ==
    ASSUME TokensInv, NEW d \in WkThreads, WkStep(d)
    PROVE  CallsFresh' /\ CalleesFresh' /\ PastKept /\ TokensAdded /\ MarksKept
<1> DEFINE n == WkNode(d)
           r == d[1]
<1>0. LocalTypeOK /\ Registered
    BY DEF TokensInv
<1>1. /\ n \in Nodes /\ r \in Requests /\ d[2] \in Teams
      /\ d[3] \in Attempts /\ d[4] \in Attempts /\ d = <<d[1], d[2], d[3], d[4]>>
    BY <1>0, WkFacts DEF WkThreads
<1>2. UNCHANGED <<lead, tl>>
    BY DEF WkStep, WkRegister, WkLookup, WkCheck, WkLookup2, WkCompute
<1>3. ASSUME UNCHANGED tokens PROVE TokensAdded /\ MarksKept
    BY <1>3 DEF TokensAdded, MarksKept
<1>4. CASE WkRegister(d)
  <2>1. wk' = [wk EXCEPT ![d].pc = "lookup"] /\ wk[d].pc = "register"
    BY <1>4 DEF WkRegister, WkAt
  <2>2. CallsFresh' /\ CalleesFresh' /\ PastKept /\ wk'[d].pc = "lookup"
    BY <1>2, <2>1, WkMoves
  <2>3. \A m \in Nodes, s \in Requests :
          tokens'[m][s] = IF m = n /\ s = r THEN "live" ELSE tokens[m][s]
    BY <1>0, <1>1, <1>4 DEF WkRegister, Register, LocalTypeOK
  <2>4. NodePast(n, r)'
    <3>1. n = Worker[d[2]] /\ Past(wk'[<<r, d[2], d[3], d[4]>>].pc)
      BY <1>1, <2>2 DEF WkNode, Past
    <3> QED BY <1>1, <3>1 DEF NodePast
  <2>5. TokensAdded
    BY <2>3, <2>4 DEF TokensAdded
  <2>6. tokens[n][r] = "cancelled" => Retried(n, r)
    <3> SUFFICES ASSUME tokens[n][r] = "cancelled" PROVE Retried(n, r)
      OBVIOUS
    <3>1. NodePast(n, r)
      BY <1>0, <1>1 DEF Registered
    <3>2. PICK t \in Teams, i \in Attempts, j \in Attempts :
             n = Worker[t] /\ Past(wk[<<r, t, i, j>>].pc)
      BY <1>1, <3>1, NodesApart DEF NodePast, WkNode
    <3>3. PICK k \in Attempts, m \in Attempts : k = d[3] /\ m = d[4]
      BY <1>1
    <3>4. t = d[2] /\ d = <<r, t, k, m>>
      BY <1>1, <3>2, <3>3, NodesApart DEF WkNode
    <3>5. ~(i = k /\ j = m)
      BY <2>1, <3>2, <3>4 DEF Past
    <3>6. wk[<<r, t, i, j>>].pc # "idle" /\ wk[<<r, t, k, m>>].pc # "idle"
      BY <2>1, <3>2, <3>4 DEF Past
    <3> HIDE DEF n, r
    <3> QED BY <3>2, <3>5, <3>6 DEF Retried
  <2> QED BY <2>2, <2>3, <2>5, <2>6 DEF MarksKept
<1>5. CASE WkLookup(d) \/ WkCheck(d) \/ WkLookup2(d) \/ WkCompute(d)
  <2>1. UNCHANGED tokens /\ wk[d].pc # "idle"
    BY <1>5 DEF WkLookup, WkCheck, WkLookup2, WkCompute
  <2>2. PICK pc \in {"done", "check", "lookup2", "compute"} :
           \/ wk' = [wk EXCEPT ![d].pc = pc]
           \/ \E a : wk' = [wk EXCEPT ![d] = [pc |-> pc, ans |-> a]]
    <3>1. CASE WkLookup(d)
      BY <3>1 DEF WkLookup, WkReply, WkAt
    <3>2. CASE WkCheck(d)
      BY <3>2 DEF WkCheck, WkReply, WkAt
    <3>3. CASE WkLookup2(d)
      BY <3>3 DEF WkLookup2, WkReply, WkAt
    <3>4. CASE WkCompute(d)
      BY <3>4 DEF WkCompute, WkReply
    <3> QED BY <1>5, <3>1, <3>2, <3>3, <3>4
  <2>3. CallsFresh' /\ CalleesFresh' /\ PastKept
    BY <1>2, <2>1, <2>2, WkMoves
  <2> QED BY <1>3, <2>1, <2>3
<1> QED BY <1>4, <1>5 DEF WkStep

\* A crash leaves what is idle idle, and takes the registry of its node along.
LEMMA CrashTokens ==
    ASSUME TokensInv, NEW n \in Nodes, Crash(n)
    PROVE  /\ CallsFresh' /\ CalleesFresh' /\ PastKept /\ TokensAdded
           /\ \A m \in Nodes, s \in Requests : up'[m] => tokens'[m][s] = tokens[m][s]
<1>0. LocalTypeOK
    BY DEF TokensInv
<1>1. \A r \in Requests :
        /\ lead'[r].pc = lead[r].pc \/ (lead'[r].pc = "dead" /\ Past(lead[r].pc))
           \/ (lead'[r].pc = "dead" /\ lead[r].pc = "register")
        /\ lead'[r].team = lead[r].team /\ lead'[r].att = lead[r].att
  <2> SUFFICES ASSUME NEW r \in Requests
               PROVE  /\ lead'[r].pc = lead[r].pc \/ lead'[r].pc = "dead"
                      /\ lead[r].pc = "idle" => lead'[r].pc = "idle"
                      /\ lead'[r].team = lead[r].team /\ lead'[r].att = lead[r].att
    BY DEF Past
  <2>1. lead[r] \in Leads
    BY <1>0 DEF LocalTypeOK
  <2>2. lead'[r] = lead[r] \/ lead'[r] = [lead[r] EXCEPT !.pc = Dying(@)]
    BY DEF Crash
  <2> QED BY <2>1, <2>2 DEF Leads, Dying, Stopped
<1>2. \A c \in TlThreads :
        /\ tl'[c].pc = tl[c].pc \/ (tl'[c].pc = "dead" /\ tl[c].pc # "idle")
        /\ tl'[c].att = tl[c].att
  <2> SUFFICES ASSUME NEW c \in TlThreads
               PROVE  /\ tl'[c].pc = tl[c].pc \/ (tl'[c].pc = "dead" /\ tl[c].pc # "idle")
                      /\ tl'[c].att = tl[c].att
    OBVIOUS
  <2>1. tl[c] \in Tls
    BY <1>0 DEF LocalTypeOK
  <2>2. tl'[c] = tl[c] \/ tl'[c] = [tl[c] EXCEPT !.pc = Dying(@)]
    BY DEF Crash
  <2> QED BY <2>1, <2>2 DEF Tls, Dying, Stopped
<1>3. \A d \in WkThreads :
        wk'[d].pc = wk[d].pc \/ (wk'[d].pc = "dead" /\ wk[d].pc # "idle")
  <2> SUFFICES ASSUME NEW d \in WkThreads
               PROVE  wk'[d].pc = wk[d].pc \/ (wk'[d].pc = "dead" /\ wk[d].pc # "idle")
    OBVIOUS
  <2>1. wk[d] \in Wks
    BY <1>0 DEF LocalTypeOK
  <2>2. wk'[d] = wk[d] \/ wk'[d] = [wk[d] EXCEPT !.pc = Dying(@)]
    BY DEF Crash
  <2> QED BY <2>1, <2>2 DEF Wks, Dying, Stopped
<1>4. CallsFresh'
  <2> SUFFICES ASSUME NEW r \in Requests, NEW t \in Teams, NEW i \in Attempts,
                      Unasked(lead'[r], t, i)
               PROVE  tl'[<<r, t, i>>].pc = "idle"
    BY DEF CallsFresh
  <2>1. Unasked(lead[r], t, i)
    BY <1>1 DEF Unasked
  <2>2. <<r, t, i>> \in TlThreads /\ tl[<<r, t, i>>].pc = "idle"
    BY <2>1 DEF TokensInv, CallsFresh, TlThreads
  <2> QED BY <1>2, <2>2
<1>5. CalleesFresh'
  <2> SUFFICES ASSUME NEW c \in TlThreads, NEW j \in Attempts, Uncalled(tl'[c], j)
               PROVE  wk'[<<c[1], c[2], c[3], j>>].pc = "idle"
    BY DEF CalleesFresh
  <2>1. Uncalled(tl[c], j)
    BY <1>2 DEF Uncalled
  <2>2. /\ <<c[1], c[2], c[3], j>> \in WkThreads
        /\ wk[<<c[1], c[2], c[3], j>>].pc = "idle"
    BY <2>1 DEF TokensInv, CalleesFresh, TlThreads, WkThreads
  <2> QED BY <1>3, <2>2
<1>6. PastKept
    BY <1>1, <1>2, <1>3 DEF PastKept, Past
<1>7. \A m \in Nodes, s \in Requests :
        tokens'[m][s] = IF m = n THEN "none" ELSE tokens[m][s]
    BY <1>0 DEF Crash, LocalTypeOK
<1>8. ~up'[n]
    BY <1>0 DEF Crash, LocalTypeOK
<1> QED BY <1>4, <1>5, <1>6, <1>7, <1>8 DEF TokensAdded

\* The steps of the model beside the threads of the three servers.
LEMMA OtherTokens ==
    ASSUME TokensInv,
           \/ \E r \in Requests : ClientSend(r) \/ ClientCancel(r)
           \/ \E r \in Requests, n \in Nodes : CancelStep(r, n)
           \/ \E n \in Nodes, q \in Ranges : Expire(n, q)
           \/ \E n \in Nodes : Restart(n)
           \/ UNCHANGED vars
    PROVE  CallsFresh' /\ CalleesFresh' /\ PastKept /\ TokensAdded /\ MarksKept
<1>0. LocalTypeOK /\ CallsFresh /\ CalleesFresh
    BY DEF TokensInv
<1>1. ASSUME UNCHANGED <<lead, tl, wk>>
      PROVE  CallsFresh' /\ CalleesFresh' /\ PastKept
    BY <1>0, <1>1 DEF CallsFresh, CalleesFresh, PastKept
<1>2. ASSUME UNCHANGED tokens PROVE TokensAdded /\ MarksKept
    BY <1>2 DEF TokensAdded, MarksKept
<1>3. ASSUME NEW r \in Requests, ClientSend(r)
      PROVE  CallsFresh' /\ CalleesFresh' /\ PastKept /\ TokensAdded /\ MarksKept
  <2> DEFINE k == [lead[r] EXCEPT !.pc = "register"]
  <2>1. LeadSet(r, k) /\ lead[r].pc = "idle" /\ UNCHANGED <<tokens, tl, wk>>
    BY <1>3 DEF ClientSend, LeadAt
  <2>2. \A t \in Teams, i \in Attempts : Unasked(k, t, i) => Unasked(lead[r], t, i)
    BY <2>1 DEF Unasked
  <2>3. Past(lead[r].pc) => Past(k.pc)
    BY <2>1 DEF Past
  <2> HIDE DEF k
  <2>4. CallsFresh' /\ \A s \in Requests : Past(lead[s].pc) => Past(lead'[s].pc)
    BY <1>0, <2>1, <2>2, <2>3, LeadSetFresh
  <2>5. CalleesFresh' /\ PastKept
    BY <1>0, <2>1, <2>4 DEF CalleesFresh, PastKept
  <2> QED BY <1>2, <2>1, <2>4, <2>5
<1>4. ASSUME NEW r \in Requests, NEW n \in Nodes, CancelStep(r, n)
      PROVE  /\ UNCHANGED <<lead, tl, wk>>
             /\ TokensAdded /\ MarksKept
  <2>1. UNCHANGED <<lead, tl, wk>>
    BY <1>4 DEF CancelStep, CancelMark, CancelForward, CancelReply
  <2>2. \/ UNCHANGED tokens
        \/ tokens[n][r] # "none" /\ tokens' = [tokens EXCEPT ![n][r] = "cancelled"]
    BY <1>4 DEF CancelStep, CancelMark, CancelForward, CancelReply
  <2>3. ASSUME tokens[n][r] # "none", tokens' = [tokens EXCEPT ![n][r] = "cancelled"]
        PROVE  TokensAdded /\ MarksKept
    <3>1. \A m \in Nodes, s \in Requests :
            tokens'[m][s] = IF m = n /\ s = r THEN "cancelled" ELSE tokens[m][s]
      BY <1>0, <2>3 DEF LocalTypeOK
    <3> QED BY <2>3, <3>1 DEF TokensAdded, MarksKept
  <2> QED BY <1>2, <2>1, <2>2, <2>3
<1>5. ASSUME \/ \E r \in Requests : ClientCancel(r)
             \/ \E n \in Nodes, q \in Ranges : Expire(n, q)
             \/ \E n \in Nodes : Restart(n)
             \/ UNCHANGED vars
      PROVE  UNCHANGED <<lead, tl, wk, tokens>>
    BY <1>5 DEF ClientCancel, Expire, Restart, vars
<1> QED BY <1>1, <1>2, <1>3, <1>4, <1>5

\* Every step: the invariant is kept, and a mark is lost with the process or
\* to a retried call.
LEMMA NextTokens ==
    ASSUME TokensInv, [Next]_vars
    PROVE  /\ TokensInv'
           /\ \A n \in Nodes, r \in Requests :
                tokens[n][r] = "cancelled" /\ up'[n] =>
                  tokens'[n][r] = "cancelled" \/ Retried(n, r)
<1>0. LocalTypeOK' /\ Registered
    BY NextType DEF TokensInv
<1> DEFINE Fresh == CallsFresh' /\ CalleesFresh' /\ PastKept /\ TokensAdded
           Keep  == \A n \in Nodes, r \in Requests :
                      tokens[n][r] = "cancelled" /\ up'[n] =>
                        tokens'[n][r] = "cancelled" \/ Retried(n, r)
<1>1. MarksKept => Keep
    BY DEF MarksKept
<1>2. ASSUME NEW r \in Requests, LeadStep(r) PROVE Fresh /\ Keep
    BY <1>2, LeadStepTokens
<1>3. ASSUME NEW c \in TlThreads, TlStep(c) PROVE Fresh /\ Keep
    BY <1>1, <1>3, TlStepTokens
<1>4. ASSUME NEW d \in WkThreads, WkStep(d) PROVE Fresh /\ Keep
    BY <1>1, <1>4, WkStepTokens
<1>5. ASSUME NEW n \in Nodes, Crash(n) PROVE Fresh /\ Keep
    BY <1>5, CrashTokens
<1>6. ASSUME \/ \E r \in Requests : ClientSend(r) \/ ClientCancel(r)
             \/ \E r \in Requests, n \in Nodes : CancelStep(r, n)
             \/ \E n \in Nodes, q \in Ranges : Expire(n, q)
             \/ \E n \in Nodes : Restart(n)
             \/ UNCHANGED vars
      PROVE  Fresh /\ Keep
    BY <1>1, <1>6, OtherTokens
<1> HIDE DEF Fresh, Keep
<1>7. Fresh /\ Keep
  <2>1. Next \/ UNCHANGED vars
    OBVIOUS
  <2>2. CASE Next
    BY <1>2, <1>3, <1>4, <1>5, <1>6, <2>2 DEF Next
  <2> QED BY <1>6, <2>1, <2>2
<1>8. Registered'
    BY <1>0, <1>7, PastRegistered DEF Fresh
<1> QED BY <1>0, <1>7, <1>8 DEF Fresh, Keep, TokensInv

\* Initially no node knows a request, and nothing is called.
LEMMA InitTokens == Init => TokensInv
<1> SUFFICES ASSUME Init PROVE TokensInv
    OBVIOUS
<1>1. CallsFresh
    BY DEF Init, CallsFresh
<1>2. CalleesFresh
  <2>1. \A c \in TlThreads, j \in Attempts : <<c[1], c[2], c[3], j>> \in WkThreads
    BY DEF TlThreads, WkThreads
  <2>2. \A d \in WkThreads : wk[d].pc = "idle"
    BY DEF Init, WkThreads
  <2> QED BY <2>1, <2>2 DEF CalleesFresh
<1>3. Registered
    BY DEF Init, Registered
<1> QED BY <1>1, <1>2, <1>3, InitType DEF TokensInv

\* The mark of a cancelled query is lost only with its process, or when a
\* second attempt of one call registers the request again.
THEOREM UnmarkedByRetriesOnly == Spec => OnlyRetriesUnmark
<1>1. TokensInv /\ [Next]_vars =>
        [\A n \in Nodes, r \in Requests :
           tokens[n][r] = "cancelled" /\ up'[n] =>
             tokens'[n][r] = "cancelled" \/ Retried(n, r)]_vars
    BY NextTokens
<1>2. TokensInv /\ [Next]_vars => TokensInv'
    BY NextTokens
<1> QED BY <1>1, <1>2, InitTokens, PTL DEF Spec, OnlyRetriesUnmark

\* A system that never retries keeps the promise of the header: a request that
\* is marked as cancelled stays so as long as the process lives.
THEOREM CancelSticksWithoutRetries ==
    ASSUME MaxRetries = 0 PROVE Spec => CancelSticks
<1>0. \A n, r : ~Retried(n, r)
  <2>1. \A i \in Attempts : i = 0
    BY DEF Attempts
  <2> QED BY <2>1 DEF Retried
<1>1. TokensInv /\ [Next]_vars =>
        [\A n \in Nodes, r \in Requests :
           (tokens[n][r] = "cancelled" /\ up'[n]) => tokens'[n][r] = "cancelled"]_vars
    BY <1>0, NextTokens
<1>2. TokensInv /\ [Next]_vars => TokensInv'
    BY NextTokens
<1> QED BY <1>1, <1>2, InitTokens, PTL DEF Spec, CancelSticks

-----------------------------------------------------------------------------
(***************************************************************************)
(* Progress of a Cancel                                                    *)
(***************************************************************************)
\* The steps the calls of one Cancel have left: to be sent, marked, replied to.
CallWork(pc) == CASE pc = "idle"    -> 3
                  [] pc = "sent"    -> 2
                  [] pc = "forward" -> 1
                  [] OTHER          -> 0
CancelWork(v) == CallWork(v["A"]) + CallWork(v["B"]) + CallWork(v["C"])
                   + CallWork(v["E"]) + CallWork(v["F"])

CancelWorkBounded == \A r \in Requests : CancelWork(canc[r]) \in 0 .. 15

\* The safety half of CancelAnswered, for the whole tree: a Cancel visits each
\* node once and no step of it is in vain; nothing else gives it work.
CancelProgress ==
    [][\A r \in Requests :
         /\ ClientCancel(r) \/ (\E n \in Nodes : CancelStep(r, n))
              => CancelWork(canc'[r]) < CancelWork(canc[r])
         /\ CancelWork(canc'[r]) <= CancelWork(canc[r])]_vars

\* The work of a call is at most three steps.
LEMMA CallWorkBounded == \A pc : CallWork(pc) \in 0 .. 3
    BY DEF CallWork

\* Less work at no node more is less work, and none more not more.
LEMMA WorkSum ==
    ASSUME NEW v, NEW w, \A n \in Nodes : CallWork(w[n]) <= CallWork(v[n])
    PROVE  /\ CancelWork(w) <= CancelWork(v)
           /\ (\E n \in Nodes : CallWork(w[n]) < CallWork(v[n])) =>
                CancelWork(w) < CancelWork(v)
<1>1. \A n \in Nodes : /\ CallWork(v[n]) \in Int /\ CallWork(w[n]) \in Int
                       /\ CallWork(w[n]) <= CallWork(v[n])
    BY CallWorkBounded
<1> QED BY <1>1 DEF CancelWork, Nodes

\* A call that proceeds lowers the work of its Cancel, and of no other.
LEMMA CancelAtWork ==
    ASSUME LocalTypeOK, NEW r \in Requests, NEW n \in Nodes, NEW pc,
           CancelAt(r, n, pc), CallWork(pc) < CallWork(canc[r][n])
    PROVE  /\ CancelWork(canc'[r]) < CancelWork(canc[r])
           /\ \A s \in Requests : CancelWork(canc'[s]) <= CancelWork(canc[s])
<1>1. \A s \in Requests, m \in Nodes :
        canc'[s][m] = IF s = r /\ m = n THEN pc ELSE canc[s][m]
    BY DEF CancelAt, LocalTypeOK
<1>2. \A s \in Requests, m \in Nodes : CallWork(canc'[s][m]) <= CallWork(canc[s][m])
    BY <1>1, CallWorkBounded
<1>3. CallWork(canc'[r][n]) < CallWork(canc[r][n])
    BY <1>1
<1> QED BY <1>2, <1>3, WorkSum

\* The steps of a Cancel.
LEMMA CancelStepWork ==
    ASSUME LocalTypeOK, NEW r \in Requests, NEW n \in Nodes,
           ClientCancel(r) \/ CancelStep(r, n)
    PROVE  /\ CancelWork(canc'[r]) < CancelWork(canc[r])
           /\ \A s \in Requests : CancelWork(canc'[s]) <= CancelWork(canc[s])
<1>1. PICK m \in Nodes, pc \in CancPc : CancelAt(r, m, pc) /\ CallWork(pc) < CallWork(canc[r][m])
  <2>1. CASE ClientCancel(r)
    BY <2>1 DEF ClientCancel, CallWork, Nodes, CancPc
  <2>2. CASE CancelMark(r, n)
    BY <2>2 DEF CancelMark, CallWork, CancPc
  <2>3. CASE CancelForward(r, n)
    <3>1. PICK i \in DOMAIN Downstream[n] :
             /\ canc[r][Downstream[n][i]] = "idle"
             /\ CancelAt(r, Downstream[n][i],
                         IF up[Downstream[n][i]] THEN "sent" ELSE "lost")
      BY <2>3 DEF CancelForward
    <3>2. Downstream[n][i] \in Nodes
      BY DownstreamNodes
    <3> QED BY <3>1, <3>2 DEF CallWork, CancPc
  <2>4. CASE CancelReply(r, n)
    BY <2>4 DEF CancelReply, CallWork, CancPc
  <2> QED BY <2>1, <2>2, <2>3, <2>4 DEF CancelStep
<1> QED BY <1>1, CancelAtWork

\* What CancelAnswered needs beside fairness: a Cancel is over after a bounded
\* number of steps in the whole tree, and crashes only shorten it.
THEOREM CancelsProgress == Spec => []CancelWorkBounded /\ CancelProgress
<1>1. CancelWorkBounded
    BY CallWorkBounded DEF CancelWorkBounded, CancelWork
<1>2. ASSUME LocalTypeOK, [Next]_vars
      PROVE  \A r \in Requests :
               /\ ClientCancel(r) \/ (\E n \in Nodes : CancelStep(r, n))
                    => CancelWork(canc'[r]) < CancelWork(canc[r])
               /\ CancelWork(canc'[r]) <= CancelWork(canc[r])
  <2>1. ASSUME UNCHANGED canc, NEW s \in Requests
        PROVE  CancelWork(canc'[s]) <= CancelWork(canc[s])
    BY <2>1, CallWorkBounded, WorkSum
  <2>2. ASSUME NEW n \in Nodes, Crash(n), NEW s \in Requests
        PROVE  CancelWork(canc'[s]) <= CancelWork(canc[s])
    <3>1. \A m \in Nodes : canc'[s][m] = canc[s][m] \/ canc'[s][m] = "lost"
      BY <1>2, <2>2 DEF Crash, LocalTypeOK
    <3>2. \A m \in Nodes : CallWork(canc'[s][m]) <= CallWork(canc[s][m])
      BY <3>1, CallWorkBounded DEF CallWork
    <3> QED BY <3>2, WorkSum
  <2>3. ASSUME NEW r \in Requests, NEW n \in Nodes, ClientCancel(r) \/ CancelStep(r, n)
        PROVE  /\ CancelWork(canc'[r]) < CancelWork(canc[r])
               /\ \A s \in Requests : CancelWork(canc'[s]) <= CancelWork(canc[s])
    BY <1>2, <2>3, CancelStepWork
  <2>4. "A" \in Nodes
    BY DEF Nodes
  <2>5. ASSUME \/ \E r \in Requests : ClientSend(r) \/ LeadStep(r)
               \/ \E c \in TlThreads : TlStep(c)
               \/ \E d \in WkThreads : WkStep(d)
               \/ \E n \in Nodes, q \in Ranges : Expire(n, q)
               \/ \E n \in Nodes : Restart(n)
               \/ UNCHANGED vars
        PROVE  UNCHANGED canc
    BY <2>5 DEF ClientSend, LeadStep, LeadRegister, LeadLookup, LeadAdmit,
         LeadRefused, LeadCall, LeadReturn, LeadMerge, TlStep, TlRegister,
         TlLookup, TlLookup2, TlCall, TlReturn, WkStep, WkRegister, WkLookup,
         WkCheck, WkLookup2, WkCompute, Expire, Restart, vars
  <2>6. \/ UNCHANGED canc
        \/ \E n \in Nodes : Crash(n)
        \/ \E r \in Requests, n \in Nodes : ClientCancel(r) \/ CancelStep(r, n)
    BY <1>2, <2>4, <2>5 DEF Next
  <2> QED BY <2>1, <2>2, <2>3, <2>4, <2>6
<1>3. LocalTypeOK /\ [Next]_vars =>
        [\A r \in Requests :
           /\ ClientCancel(r) \/ (\E n \in Nodes : CancelStep(r, n))
                => CancelWork(canc'[r]) < CancelWork(canc[r])
           /\ CancelWork(canc'[r]) <= CancelWork(canc[r])]_vars
    BY <1>2
<1> QED BY <1>1, <1>3, LocalType, PTL DEF Spec, CancelProgress
=============================================================================
