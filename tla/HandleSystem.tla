----------------------------- MODULE HandleSystem -----------------------------
(***************************************************************************)
(* The legacy path: Handle at leader A, at the team leaders B (C++) and E  *)
(* (Python) and at the workers C (C++) and F (Python).                     *)
(*                                                                         *)
(* A calls the asked team leaders one after the other, with a deadline and *)
(* retries; a team leader takes an in-flight slot, does its own work and   *)
(* asks its worker; C remembers what it has answered, F does not.  An      *)
(* attempt the caller has given up goes on running at the callee.          *)
(*                                                                         *)
(* Data is the sequence of the nodes whose work is in it (DoLocalWork only *)
(* depends on the payload).  A node's process does not fail here: a call   *)
(* may be refused or broken by the network instead.                        *)
(***************************************************************************)
EXTENDS Integers, Sequences, FiniteSets

CONSTANTS
    Requests,     \* request ids
    Asks,         \* what a client may send: a set of teams, a payload or not
    PyTeams,      \* the teams served by the Python servers: {"PINK"}
    MaxRetries,   \* RetryConfig::max_retries at A and at B, both 3 in the code
    MaxInflight,  \* max_inflight of a team leader, 32 in the topology
    PoolSize      \* threads of a Python server, 8 in the code

Teams == {"GREEN", "PINK"}

ASSUME RequestsAssumption == IsFiniteSet(Requests)
ASSUME AsksAssumption     == Asks \subseteq [target : SUBSET Teams, payload : BOOLEAN]
ASSUME PyTeamsAssumption  == PyTeams \subseteq Teams
ASSUME RetriesAssumption  == MaxRetries \in [{"A", "B"} -> Nat]
ASSUME MaxAssumption      == MaxInflight \in Nat \ {0}
ASSUME PoolAssumption     == PoolSize \in Nat \ {0}

Leader == [t \in Teams |-> IF t = "GREEN" THEN "B" ELSE "E"]
Worker == [t \in Teams |-> IF t = "GREEN" THEN "C" ELSE "F"]

Attempts(n) == 0 .. MaxRetries[n]
TlThreads == Requests \X Teams \X Attempts("A")
WkThreads == Requests \X Teams \X Attempts("A") \X Attempts("B")

VARIABLES
    lead,      \* request -> its handler thread at A
    tl,        \* request, team, attempt -> handler thread at B or E
    wk,        \* request, team, attempt, attempt -> handler thread at C or F
    inflight,  \* team -> inflight_ of its leader
    idem       \* request -> its entry in C's idempotency_cache_

vars == <<lead, tl, wk, inflight, idem>>

Codes   == {"NONE", "OK", "UNAVAILABLE", "RESOURCE_EXHAUSTED", "UNKNOWN"}
Data    == Seq({"B", "C", "E", "F"})
Answers == [code : Codes, data : Data]
Fail(c)    == [code |-> c, data |-> <<>>]
NoAnswer   == Fail("NONE")
Result(d)  == [code |-> "OK", data |-> d]

\* IsRetriable, of the codes that occur here.
Retriable(a) == a.code \in {"UNAVAILABLE", "RESOURCE_EXHAUSTED"}

Init ==
    /\ lead \in [Requests -> [pc : {"idle"}, team : {"GREEN"}, att : {0},
                              ask : Asks,
                              got : {[t \in Teams |-> NoAnswer]},
                              ans : {NoAnswer}]]
    /\ tl = [c \in TlThreads |-> [pc |-> "idle", att |-> 0, ans |-> NoAnswer]]
    /\ wk = [c \in WkThreads |->
               [pc |-> "idle", late |-> FALSE, ran |-> FALSE]]
    /\ inflight = [t \in Teams |-> 0]
    /\ idem = [r \in Requests |-> [held |-> FALSE, expired |-> FALSE]]

-----------------------------------------------------------------------------
(***************************************************************************)
(* Leader A                                                                *)
(***************************************************************************)
LeadSet(r, l) == lead' = [lead EXCEPT ![r] = l]

\* The call A makes next: GREEN first, then PINK, then the merge.
ToTeam(l, t) == [l EXCEPT !.pc = "call", !.team = t, !.att = 0]
Start(l) == IF "GREEN" \in l.ask.target THEN ToTeam(l, "GREEN")
            ELSE IF "PINK" \in l.ask.target THEN ToTeam(l, "PINK")
            ELSE [l EXCEPT !.pc = "merge"]
After(l) == IF l.team = "GREEN" /\ "PINK" \in l.ask.target THEN ToTeam(l, "PINK")
            ELSE [l EXCEPT !.pc = "merge"]

ClientSend(r) ==
    /\ lead[r].pc = "idle"
    /\ LeadSet(r, Start(lead[r]))
    /\ UNCHANGED <<tl, wk, inflight, idem>>

\* Fault: one attempt too many.
LeadOutcomeOneMore(r, a) ==
    LET l == lead[r] IN
    LeadSet(r, IF Retriable(a) /\ l.att <= MaxRetries["A"]
                 THEN [l EXCEPT !.pc = "call", !.att = @ + 1]
                 ELSE After([l EXCEPT !.got[l.team] = a]))

\* CallWithRetries gets the outcome of an attempt.
LeadOutcome(r, a) ==
    LET l == lead[r] IN
    LeadSet(r, IF Retriable(a) /\ l.att < MaxRetries["A"]
                 THEN [l EXCEPT !.pc = "call", !.att = @ + 1]
                 ELSE After([l EXCEPT !.got[l.team] = a]))

TlOf(r) == <<r, lead[r].team, lead[r].att>>

LeadCall(r) ==
    /\ lead[r].pc = "call"
    /\ \/ /\ tl' = [tl EXCEPT ![TlOf(r)].pc = "enter"]
          /\ LeadSet(r, [lead[r] EXCEPT !.pc = "await"])
       \/ LeadOutcome(r, Fail("UNAVAILABLE")) /\ UNCHANGED tl
    /\ UNCHANGED <<wk, inflight, idem>>

\* Fault: a call without a deadline.
GivenUpNever == {}

\* The two seconds of the deadline may pass or the connection may break, at any
\* time: two codes that the callers treat alike.
GivenUp == {Fail("UNAVAILABLE")}

LeadReturn(r) ==
    /\ lead[r].pc = "await"
    /\ \E a \in GivenUp \cup (IF tl[TlOf(r)].pc = "done"
                                THEN {tl[TlOf(r)].ans} ELSE {}) :
         LeadOutcome(r, a)
    /\ UNCHANGED <<tl, wk, inflight, idem>>

\* Fault: every asked team must have answered.
LeadMergeStrict(r) ==
    /\ lead[r].pc = "merge"
    /\ LET got == lead[r].got
           ask == lead[r].ask.target
       IN  LeadSet(r, [lead[r] EXCEPT !.pc = "done", !.ans =
             IF ask # {} /\ \A t \in ask : got[t].code = "OK"
               THEN Result(got["GREEN"].data \o got["PINK"].data)
               ELSE Fail("UNAVAILABLE")])
    /\ UNCHANGED <<tl, wk, inflight, idem>>

\* One team is enough; GREEN's data comes first.
LeadMerge(r) ==
    /\ lead[r].pc = "merge"
    /\ LET got == lead[r].got
           ok(t) == got[t].code = "OK"
       IN  LeadSet(r, [lead[r] EXCEPT !.pc = "done", !.ans =
             IF \E t \in Teams : ok(t)
               THEN Result((IF ok("GREEN") THEN got["GREEN"].data ELSE <<>>)
                             \o (IF ok("PINK") THEN got["PINK"].data ELSE <<>>))
               ELSE Fail("UNAVAILABLE")])
    /\ UNCHANGED <<tl, wk, inflight, idem>>

LeadStep(r) == LeadCall(r) \/ LeadReturn(r) \/ LeadMerge(r)

-----------------------------------------------------------------------------
(***************************************************************************)
(* Team leaders B and E                                                    *)
(***************************************************************************)
TlSet(c, x)   == tl' = [tl EXCEPT ![c] = x]
TlAt(c, pc)   == TlSet(c, [tl[c] EXCEPT !.pc = pc])
TlReply(c, a) == TlSet(c, [tl[c] EXCEPT !.pc = "done", !.ans = a])
Count(t, d)   == inflight' = [inflight EXCEPT ![t] = @ + d]

\* The threads of t's leader between their increment of inflight_ and their
\* decrement, those of them the guard admitted, and the busy threads of the
\* server.
Admitted(t) == {c \in TlThreads : c[2] = t /\ tl[c].pc \in
                                    {"call", "await", "leave"}}
Counted(t)  == {c \in TlThreads : c[2] = t /\ tl[c].pc \in
                                    {"over", "call", "await", "leave"}}

\* Fault: the value before the addition is compared.
TlEnterCppOffByOne(c) ==
    /\ tl[c].pc = "enter"
    /\ c[2] \notin PyTeams
    /\ Count(c[2], 1)
    /\ TlAt(c, IF inflight[c[2]] > MaxInflight THEN "over" ELSE "call")
    /\ UNCHANGED <<lead, wk, idem>>

\* C++ fetches and adds before it compares.
TlEnterCpp(c) ==
    /\ tl[c].pc = "enter"
    /\ c[2] \notin PyTeams
    /\ Count(c[2], 1)
    /\ TlAt(c, IF inflight[c[2]] + 1 > MaxInflight THEN "over" ELSE "call")
    /\ UNCHANGED <<lead, wk, idem>>

\* Fault: a refused request does not give its increment back.
TlRefuseLeak(c) ==
    /\ tl[c].pc = "over"
    /\ TlReply(c, Fail("RESOURCE_EXHAUSTED"))
    /\ UNCHANGED <<lead, wk, inflight, idem>>

TlRefuse(c) ==
    /\ tl[c].pc = "over"
    /\ Count(c[2], -1)
    /\ TlReply(c, Fail("RESOURCE_EXHAUSTED"))
    /\ UNCHANGED <<lead, wk, idem>>
\* A Python server runs a call when a thread of its pool is free, and compares
\* and increments under one lock; a refused call is aborted in there.
TlEnterPy(c) ==
    /\ tl[c].pc = "enter"
    /\ c[2] \in PyTeams
    /\ Cardinality(Admitted(c[2])) < PoolSize
    /\ IF inflight[c[2]] >= MaxInflight
         THEN TlReply(c, Fail("RESOURCE_EXHAUSTED")) /\ UNCHANGED inflight
         ELSE TlAt(c, "call") /\ Count(c[2], 1)
    /\ UNCHANGED <<lead, wk, idem>>

\* The Python code fails on a payload that is not empty.
Raises(c) == c[2] \in PyTeams /\ lead[c[1]].ask.payload

WkOf(c) == <<c[1], c[2], c[3], tl[c].att>>

\* The end of the call to the worker: its data is appended, or the leader's
\* own work is the answer.  Only C++ retries.
TlOutcome(c, a) ==
    TlSet(c, IF Retriable(a) /\ c[2] \notin PyTeams /\ tl[c].att < MaxRetries["B"]
               THEN [tl[c] EXCEPT !.pc = "call", !.att = @ + 1]
               ELSE [tl[c] EXCEPT !.pc = "leave",
                                  !.ans = Result(<<Leader[c[2]]>> \o a.data)])

\* DoLocalWork, then the call to the worker.  A call that reaches C after C
\* has answered the same request is marked late.
TlCall(c) ==
    /\ tl[c].pc = "call"
    /\ ~Raises(c)
    /\ \/ /\ wk' = [wk EXCEPT ![WkOf(c)] =
                    [@ EXCEPT !.pc = "enter",
                              !.late = \E d \in WkThreads :
                                         /\ d[1] = c[1] /\ d[2] = c[2]
                                         /\ wk[d].pc = "done"]]
          /\ TlAt(c, "await")
       \/ TlOutcome(c, Fail("UNAVAILABLE")) /\ UNCHANGED wk
    /\ UNCHANGED <<lead, inflight, idem>>

\* E's loop adds the elements of the payload to an int, and they are strings:
\* the call ends with an exception, after the finally block.  F would do the
\* same, but E does not come to ask it.
TlRaise(c) ==
    /\ tl[c].pc = "call"
    /\ Raises(c)
    /\ TlSet(c, [tl[c] EXCEPT !.pc = "leave", !.ans = Fail("UNKNOWN")])
    /\ UNCHANGED <<lead, wk, inflight, idem>>

\* E waits for F without a deadline.
TlReturn(c) ==
    /\ tl[c].pc = "await"
    /\ \E a \in (IF c[2] \in PyTeams THEN {Fail("UNAVAILABLE")} ELSE GivenUp)
               \cup (IF wk[WkOf(c)].pc = "done"
                        THEN {Result(<<Worker[c[2]]>>)} ELSE {}) :
         TlOutcome(c, a)
    /\ UNCHANGED <<lead, wk, inflight, idem>>

\* Fault: the decrement is forgotten when the worker failed.
TlLeaveLeak(c) ==
    /\ tl[c].pc = "leave"
    /\ Count(c[2], IF Len(tl[c].ans.data) = 2 THEN -1 ELSE 0)
    /\ TlAt(c, "done")
    /\ UNCHANGED <<lead, wk, idem>>

\* ~InflightGuard, or E's finally block: before the answer is sent.
TlLeave(c) ==
    /\ tl[c].pc = "leave"
    /\ Count(c[2], -1)
    /\ TlAt(c, "done")
    /\ UNCHANGED <<lead, wk, idem>>

TlStep(c) == \/ TlEnterCpp(c) \/ TlEnterPy(c) \/ TlRefuse(c)
             \/ TlRaise(c)
             \/ TlCall(c) \/ TlReturn(c) \/ TlLeave(c)

-----------------------------------------------------------------------------
(***************************************************************************)
(* Workers C and F                                                         *)
(***************************************************************************)
WkAt(c, pc) == wk' = [wk EXCEPT ![c].pc = pc]

\* C looks the request up by its id and answers with what it finds.
WkGet(c) ==
    /\ wk[c].pc = "enter"
    /\ c[2] \notin PyTeams
    /\ WkAt(c, IF idem[c[1]].held THEN "done" ELSE "work")
    /\ UNCHANGED <<lead, tl, inflight, idem>>

\* Fault: the result is not remembered.
WkPutNothing(c) ==
    /\ wk[c].pc = "work"
    /\ wk' = [wk EXCEPT ![c].pc = "done", ![c].ran = TRUE]
    /\ UNCHANGED <<lead, tl, inflight, idem>>

\* DoLocalWork, and Put before the answer is sent.
WkPut(c) ==
    /\ wk[c].pc = "work"
    /\ wk' = [wk EXCEPT ![c].pc = "done", ![c].ran = TRUE]
    /\ idem' = [idem EXCEPT ![c[1]].held = TRUE]
    /\ UNCHANGED <<lead, tl, inflight>>

\* F works on every delivery.
WkRunPy(c) ==
    /\ wk[c].pc = "enter"
    /\ c[2] \in PyTeams
    /\ wk' = [wk EXCEPT ![c].pc = "done", ![c].ran = TRUE]
    /\ UNCHANGED <<lead, tl, inflight, idem>>

WkStep(c) == WkGet(c) \/ WkPut(c) \/ WkRunPy(c)

\* An entry outlives its 60 seconds, or is evicted by 500 others.
IdemExpire(r) ==
    /\ idem[r].held
    /\ idem' = [idem EXCEPT ![r] = [held |-> FALSE, expired |-> TRUE]]
    /\ UNCHANGED <<lead, tl, wk, inflight>>

Next ==
    \/ \E r \in Requests : ClientSend(r) \/ LeadStep(r) \/ IdemExpire(r)
    \/ \E c \in TlThreads : TlStep(c)
    \/ \E c \in WkThreads : WkStep(c)

Spec == Init /\ [][Next]_vars

\* The threads of A run, and those of the C++ team leaders; nothing is asked
\* of the workers, of E and of the network.
FairSpec ==
    /\ Spec
    /\ \A r \in Requests : WF_vars(LeadStep(r))
    /\ \A c \in TlThreads : c[2] \notin PyTeams => WF_vars(TlStep(c))

-----------------------------------------------------------------------------
(***************************************************************************)
(* Properties                                                              *)
(***************************************************************************)
\* handler.h, handler.cc, server_e.py: the types of what the nodes keep.
TypeOK ==
    /\ lead \in [Requests -> [pc : {"idle", "call", "await", "merge", "done"},
                              team : Teams, att : Attempts("A"), ask : Asks,
                              got : [Teams -> Answers], ans : Answers]]
    /\ tl \in [TlThreads -> [pc : {"idle", "enter", "over", "call", "await",
                                   "leave", "done"},
                             att : Attempts("B"), ans : Answers]]
    /\ wk \in [WkThreads -> [pc : {"idle", "enter", "work", "done"},
                             late : BOOLEAN, ran : BOOLEAN]]
    /\ inflight \in [Teams -> Nat]
    /\ idem \in [Requests -> [held : BOOLEAN, expired : BOOLEAN]]

\* The in-flight counter of a team leader is the number of its threads between
\* their increment and their decrement: no path through Handle, refused,
\* failed, given up by A or not, loses a slot or returns it twice.
InflightCounts == \A t \in Teams : inflight[t] = Cardinality(Counted(t))

\* No more than max_inflight requests are served at a time by a team leader,
\* although B's counter itself runs over the limit.
ServedWithinLimit == \A t \in Teams : Cardinality(Admitted(t)) <= MaxInflight

\* With a pool no larger than max_inflight (8 threads, 32 slots) E refuses
\* nobody: what is too much for it waits for a thread, out of the guard's sight.
PoolShieldsGuard ==
    PoolSize <= MaxInflight =>
      \A c \in TlThreads : c[2] \in PyTeams =>
        tl[c].ans.code # "RESOURCE_EXHAUSTED"

\* The worker answers a request it has answered before without working again,
\* unless the entry has expired: a Python worker has no such memory.
AnsweredNotRepeated ==
    \A c \in WkThreads :
      c[2] \notin PyTeams /\ wk[c].late /\ wk[c].ran => idem[c[1]].expired

\* The teams A has a good answer of, and what a team can contribute.
Answering(l) == {t \in Teams : l.got[t].code = "OK"}
Parts(t)     == {<<Leader[t]>>, <<Leader[t], Worker[t]>>}

\* A has heard of every asked team and of no other.  Its answer is OK exactly
\* when one of them answered, be the other refused, lost or given up, and it is
\* then what those who did have sent, GREEN's first: each time the whole
\* contribution of one attempt that has ended at the team's leader.  A Python
\* team has no part in the answer to a request with a payload.
AnswerMadeOfTeams ==
    \A r \in Requests : lead[r].pc = "done" =>
      LET l == lead[r]
          part(t) == IF t \in Answering(l) THEN l.got[t].data ELSE <<>>
      IN  /\ {t \in Teams : l.got[t] # NoAnswer} = l.ask.target
          /\ l.ans.code = IF Answering(l) = {} THEN "UNAVAILABLE" ELSE "OK"
          /\ l.ans.data = part("GREEN") \o part("PINK")
          /\ \A t \in Answering(l) :
               /\ ~(t \in PyTeams /\ l.ask.payload)
               /\ l.got[t].data \in Parts(t)
               /\ \E i \in Attempts("A") : LET x == tl[<<r, t, i>>] IN
                    x.pc = "done" /\ x.ans = l.got[t]

\* A's client gets an answer, whatever becomes of the team leaders.
Answered == \A r \in Requests : lead[r].pc = "call" ~> lead[r].pc = "done"

\* The slots of a C++ team leader come back, those of the attempts A has given
\* up too and even if the worker is silent: its calls have a deadline.
SlotsReturned ==
    \A t \in Teams \ PyTeams : inflight[t] > 0 ~> inflight[t] = 0

\* server_e.py: "b is 0..255", the loop over the payload works: a team leader
\* that admits a request does its own work on it.
LeaderWorks ==
    \A c \in TlThreads : tl[c].pc = "done" =>
      tl[c].ans.code \in {"OK", "RESOURCE_EXHAUSTED"}
=============================================================================
