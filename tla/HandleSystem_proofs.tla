-------------------------- MODULE HandleSystem_proofs --------------------------
(***************************************************************************)
(* The legacy path for every number of requests, retries, slots and        *)
(* threads: counters, limits, the memory of C, what answers are made of,   *)
(* and that no thread works in vain.                                       *)
(***************************************************************************)
EXTENDS HandleSystem, FiniteSetTheorems, TLAPS

LeadType == [pc : {"idle", "call", "await", "merge", "done"},
             team : Teams, att : Attempts("A"), ask : Asks,
             got : [Teams -> Answers], ans : Answers]
TlType   == [pc : {"idle", "enter", "over", "call", "await", "leave", "done"},
             att : Attempts("B"), ans : Answers]
WkType   == [pc : {"idle", "enter", "work", "done"},
             late : BOOLEAN, ran : BOOLEAN]
IdemType == [held : BOOLEAN, expired : BOOLEAN]

\* A team that cannot contribute.
Barred(t, ask) == t \in PyTeams /\ ask.payload

\* A has made attempt i at team t.
Called(l, t, i) ==
    /\ l.pc # "idle"
    /\ l.pc \in {"call", "await"} =>
         \/ t # l.team /\ t = "GREEN"
         \/ t = l.team /\ (i < l.att \/ (i = l.att /\ l.pc = "await"))

GotOK(a, t, ask) ==
    a.code = "OK" => t \in ask.target /\ ~Barred(t, ask) /\ a.data \in Parts(t)

LeadPart(l) ==
    /\ l.pc \in {"call", "await"} => l.team \in l.ask.target
    /\ \A t \in Teams : GotOK(l.got[t], t, l.ask)

TlPart(c, x, l) ==
    /\ x.pc # "idle" => Called(l, c[2], c[3])
    /\ c[2] \in PyTeams =>
         x.pc # "over" /\ (PoolSize <= MaxInflight => x.ans.code # "RESOURCE_EXHAUSTED")
    /\ x.pc = "await" => ~Barred(c[2], l.ask)
    /\ x.ans.code = "OK" => ~Barred(c[2], l.ask) /\ x.ans.data \in Parts(c[2])

\* A worker's thread w, the thread x that called it, the entry m of its request.
WkPart(d, w, x, m) ==
    /\ w.pc # "idle" => /\ x.pc \in {"call", "await", "leave", "done"}
                        /\ x.pc = "call" => d[4] < x.att
                        /\ x.pc = "await" => d[4] <= x.att
    /\ w.ran => w.pc = "done"
    /\ d[2] \notin PyTeams =>
         /\ w.pc = "done" => m.held \/ m.expired
         /\ w.late => m.held \/ m.expired
         /\ w.late /\ (w.pc = "work" \/ w.ran) => m.expired

Caller(d) == <<d[1], d[2], d[3]>>

InflightInv ==
    \A t \in Teams : /\ inflight[t] = Cardinality(Counted(t))
                     /\ Cardinality(Admitted(t)) <= MaxInflight

IInv ==
    /\ TypeOK
    /\ \A r \in Requests : LeadPart(lead[r])
    /\ \A c \in TlThreads : TlPart(c, tl[c], lead[c[1]])
    /\ \A d \in WkThreads : WkPart(d, wk[d], tl[Caller(d)], idem[d[1]])
    /\ InflightInv

-----------------------------------------------------------------------------
\* The parts of a thread's name.
LEMMA ThreadNames ==
    /\ \A c \in TlThreads : /\ c[1] \in Requests /\ c[2] \in Teams /\ c[3] \in Attempts("A")
                            /\ c = <<c[1], c[2], c[3]>>
    /\ \A d \in WkThreads : /\ d[1] \in Requests /\ d[2] \in Teams /\ d[3] \in Attempts("A")
                            /\ d[4] \in Attempts("B") /\ d = <<d[1], d[2], d[3], d[4]>>
                            /\ Caller(d) \in TlThreads
    BY DEF TlThreads, WkThreads, Caller

\* Attempts are natural numbers up to the number of retries.
LEMMA AttemptFacts ==
    /\ MaxRetries["A"] \in Nat /\ MaxRetries["B"] \in Nat
    /\ Attempts("A") = 0 .. MaxRetries["A"] /\ Attempts("B") = 0 .. MaxRetries["B"]
    /\ 0 \in Attempts("A") /\ 0 \in Attempts("B")
    BY RetriesAssumption DEF Attempts

\* The types, by their names.
LEMMA Types ==
    TypeOK <=> /\ lead \in [Requests -> LeadType] /\ tl \in [TlThreads -> TlType]
               /\ wk \in [WkThreads -> WkType] /\ inflight \in [Teams -> Nat]
               /\ idem \in [Requests -> IdemType]
    BY DEF TypeOK, LeadType, TlType, WkType, IdemType

\* Answers that are made up on the way.
LEMMA AnswerTypes ==
    /\ \A c \in Codes : Fail(c) \in Answers /\ Fail(c).code = c /\ Fail(c).data = <<>>
    /\ \A d \in Data : Result(d) \in Answers /\ Result(d).code = "OK" /\ Result(d).data = d
    /\ \A a \in Answers : a.code \in Codes /\ a.data \in Data
    /\ \A t \in Teams : Parts(t) \subseteq Data /\ <<>> \in Data
<1>1. <<>> \in Data
    BY DEF Data
<1>2. \A c \in Codes : Fail(c) \in Answers /\ Fail(c).code = c /\ Fail(c).data = <<>>
    BY <1>1 DEF Fail, Answers
<1>3. \A d \in Data : Result(d) \in Answers /\ Result(d).code = "OK" /\ Result(d).data = d
    BY DEF Result, Answers, Codes
<1>4. \A a \in Answers : a.code \in Codes /\ a.data \in Data
    BY DEF Answers
<1>5. ASSUME NEW t \in Teams PROVE Parts(t) \subseteq Data
    <2>1. Leader[t] \in {"B", "C", "E", "F"} /\ Worker[t] \in {"B", "C", "E", "F"}
        BY DEF Leader, Worker
    <2> QED BY <2>1 DEF Parts, Data
<1> QED BY <1>1, <1>2, <1>3, <1>4, <1>5

\* There are finitely many threads.
LEMMA ThreadsFinite ==
    /\ IsFiniteSet(TlThreads)
    /\ \A t \in Teams : IsFiniteSet(Counted(t)) /\ IsFiniteSet(Admitted(t))
                          /\ Admitted(t) \subseteq Counted(t)
<1>1. IsFiniteSet(Teams)
    <2>1. Teams = {"GREEN", "PINK"}
        BY DEF Teams
    <2>2. IsFiniteSet({}) /\ IsFiniteSet({} \cup {"GREEN"})
        BY FS_EmptySet, FS_AddElement
    <2>3. IsFiniteSet(({} \cup {"GREEN"}) \cup {"PINK"})
        BY <2>2, FS_AddElement
    <2>4. Teams = ({} \cup {"GREEN"}) \cup {"PINK"}
        BY <2>1
    <2> QED BY <2>3, <2>4
<1>2. IsFiniteSet(Attempts("A"))
    <2>1. IsFiniteSet(0 .. MaxRetries["A"])
        <3>1. 0 \in Int /\ MaxRetries["A"] \in Int
            BY AttemptFacts
        <3> QED BY <3>1, FS_Interval
    <2> QED BY <2>1, AttemptFacts
<1>3. IsFiniteSet(Teams \X Attempts("A"))
    BY <1>1, <1>2, FS_Product
<1>4. IsFiniteSet(Requests \X (Teams \X Attempts("A")))
    BY <1>3, RequestsAssumption, FS_Product
<1>5. IsFiniteSet(TlThreads)
    <2> DEFINE P == Requests \X (Teams \X Attempts("A"))
               f == [p \in P |-> <<p[1], p[2][1], p[2][2]>>]
    <2>1. f \in [P -> TlThreads]
        BY DEF TlThreads
    <2>2. ASSUME NEW c \in TlThreads PROVE \E p \in P : f[p] = c
        <3>1. <<c[1], <<c[2], c[3]>>>> \in P
            BY ThreadNames
        <3>2. f[<<c[1], <<c[2], c[3]>>>>] = c
            BY <3>1, ThreadNames
        <3> QED BY <3>1, <3>2
    <2>3. f \in Surjection(P, TlThreads)
        <3> HIDE DEF f, P
        <3> QED BY <2>1, <2>2 DEF Surjection
    <2> QED BY <1>4, <2>3, FS_Surjection
<1>6. \A t \in Teams : Counted(t) \subseteq TlThreads /\ Admitted(t) \subseteq Counted(t)
    BY DEF Counted, Admitted
<1> QED BY <1>5, <1>6, FS_Subset

\* One element more or less.
LEMMA CardStep ==
    ASSUME NEW S, IsFiniteSet(S), NEW e
    PROVE  /\ Cardinality(S) \in Nat
           /\ e \in S => S \cup {e} = S /\ Cardinality(S \ {e}) = Cardinality(S) - 1
           /\ e \notin S => S \ {e} = S /\ Cardinality(S \cup {e}) = Cardinality(S) + 1
    BY FS_CardinalityType, FS_AddElement, FS_RemoveElement

-----------------------------------------------------------------------------
(***************************************************************************)
(* Leader A                                                                *)
(***************************************************************************)
\* Types, as the steps use them.
LEMMA Typed ==
    ASSUME IInv
    PROVE  /\ lead \in [Requests -> LeadType] /\ tl \in [TlThreads -> TlType]
           /\ wk \in [WkThreads -> WkType] /\ inflight \in [Teams -> Nat]
           /\ idem \in [Requests -> IdemType]
    BY Types DEF IInv

\* A step of A that makes no call.
LEMMA LeadStepOK ==
    ASSUME IInv, NEW r \in Requests, NEW l \in LeadType,
           lead' = [lead EXCEPT ![r] = l], UNCHANGED <<tl, wk, inflight, idem>>,
           LeadPart(l), l.ask = lead[r].ask,
           \A t \in Teams, i \in Attempts("A") : Called(lead[r], t, i) => Called(l, t, i)
    PROVE  IInv'
<1>1. /\ \A q \in Requests : lead'[q] = IF q = r THEN l ELSE lead[q]
      /\ lead' \in [Requests -> LeadType]
    BY Typed
<1>2. TypeOK'
    BY <1>1, Typed, Types DEF TypeOK, LeadType
<1>3. \A q \in Requests : LeadPart(lead'[q])
    BY <1>1 DEF IInv
<1>4. ASSUME NEW c \in TlThreads PROVE TlPart(c, tl[c], lead'[c[1]])
    <2>1. TlPart(c, tl[c], lead[c[1]]) /\ c[1] \in Requests /\ c[2] \in Teams /\ c[3] \in Attempts("A")
        BY ThreadNames DEF IInv
    <2>2. lead'[c[1]].ask = lead[c[1]].ask
        BY <2>1, <1>1
    <2>3. Called(lead[c[1]], c[2], c[3]) => Called(lead'[c[1]], c[2], c[3])
        BY <2>1, <1>1
    <2> QED BY <2>1, <2>2, <2>3 DEF TlPart
<1>5. InflightInv'
    BY DEF IInv, InflightInv, Counted, Admitted
<1> QED BY <1>2, <1>3, <1>4, <1>5 DEF IInv

\* The next call, or the merge.
LEMMA AfterOK ==
    ASSUME NEW l \in LeadType, l.pc \in {"call", "await"}, LeadPart(l)
    PROVE  /\ After(l) \in LeadType /\ LeadPart(After(l)) /\ After(l).ask = l.ask
           /\ \A t \in Teams, i \in Attempts("A") : Called(l, t, i) => Called(After(l), t, i)
<1> DEFINE u == After(l)
<1>1. CASE l.team = "GREEN" /\ "PINK" \in l.ask.target
    <2>1. u = [l EXCEPT !.pc = "call", !.team = "PINK", !.att = 0]
        BY <1>1 DEF After, ToTeam
    <2>2. /\ u \in LeadType /\ u.pc = "call" /\ u.team = "PINK" /\ u.att = 0
          /\ u.ask = l.ask /\ u.got = l.got
        BY <2>1, AttemptFacts DEF LeadType, Teams
    <2> HIDE DEF u
    <2>3. LeadPart(u)
        BY <1>1, <2>2 DEF LeadPart
    <2>4. \A t \in Teams, i \in Attempts("A") : Called(l, t, i) => Called(u, t, i)
        BY <1>1, <2>2 DEF Called
    <2> QED BY <2>2, <2>3, <2>4 DEF u
<1>2. CASE ~(l.team = "GREEN" /\ "PINK" \in l.ask.target)
    <2>1. u = [l EXCEPT !.pc = "merge"]
        BY <1>2 DEF After
    <2>2. u \in LeadType /\ u.pc = "merge" /\ u.ask = l.ask /\ u.got = l.got
        BY <2>1 DEF LeadType
    <2> HIDE DEF u
    <2>3. LeadPart(u)
        BY <2>2 DEF LeadPart
    <2>4. \A t \in Teams, i \in Attempts("A") : Called(u, t, i)
        BY <2>2 DEF Called
    <2> QED BY <2>2, <2>3, <2>4 DEF u
<1> QED BY <1>1, <1>2

\* The outcome of an attempt.
LEMMA OutcomeOK ==
    ASSUME IInv, NEW r \in Requests, NEW a \in Answers, LeadOutcome(r, a),
           lead[r].pc \in {"call", "await"}, GotOK(a, lead[r].team, lead[r].ask),
           UNCHANGED <<tl, wk, inflight, idem>>
    PROVE  IInv'
<1> DEFINE l == lead[r]
           g == [l EXCEPT !.got[l.team] = a]
<1>1. l \in LeadType /\ LeadPart(l) /\ l.team \in Teams
    BY Typed DEF IInv, LeadType
<1>2. CASE Retriable(a) /\ l.att < MaxRetries["A"]
    <2> DEFINE u == [l EXCEPT !.pc = "call", !.att = l.att + 1]
    <2>1. lead' = [lead EXCEPT ![r] = u]
        BY <1>2 DEF LeadOutcome, LeadSet
    <2>2. l.att + 1 \in Attempts("A") /\ l.att \in Nat
        BY <1>1, <1>2, AttemptFacts DEF LeadType
    <2>3. /\ u \in LeadType /\ u.pc = "call" /\ u.team = l.team /\ u.att = l.att + 1
          /\ u.ask = l.ask /\ u.got = l.got
        BY <1>1, <2>2 DEF LeadType
    <2> HIDE DEF u
    <2>4. LeadPart(u)
        BY <1>1, <2>3 DEF LeadPart
    <2>5. \A t \in Teams, i \in Attempts("A") : Called(l, t, i) => Called(u, t, i)
        BY <2>2, <2>3, AttemptFacts DEF Called
    <2> QED BY <2>1, <2>3, <2>4, <2>5, LeadStepOK
<1>3. CASE ~(Retriable(a) /\ l.att < MaxRetries["A"])
    <2>1. lead' = [lead EXCEPT ![r] = After(g)]
        BY <1>3 DEF LeadOutcome, LeadSet
    <2>2. /\ g \in LeadType /\ g.pc = l.pc /\ g.team = l.team /\ g.att = l.att /\ g.ask = l.ask
          /\ \A t \in Teams : g.got[t] = IF t = l.team THEN a ELSE l.got[t]
        BY <1>1 DEF LeadType
    <2> HIDE DEF g
    <2>3. LeadPart(g)
        BY <1>1, <2>2 DEF LeadPart
    <2>4. \A t \in Teams, i \in Attempts("A") : Called(l, t, i) => Called(g, t, i)
        BY <2>2 DEF Called
    <2>5. /\ After(g) \in LeadType /\ LeadPart(After(g)) /\ After(g).ask = g.ask
          /\ \A t \in Teams, i \in Attempts("A") : Called(g, t, i) => Called(After(g), t, i)
        BY <2>2, <2>3, AfterOK
    <2> QED BY <2>1, <2>2, <2>4, <2>5, LeadStepOK
<1> QED BY <1>2, <1>3

\* A client's request starts with the first team asked, if any.
LEMMA ClientSendIInv == IInv /\ (\E r \in Requests : ClientSend(r)) => IInv'
<1> SUFFICES ASSUME IInv, NEW r \in Requests, ClientSend(r) PROVE IInv'
    OBVIOUS
<1> DEFINE l == lead[r]
           u == Start(l)
<1>1. l \in LeadType /\ LeadPart(l) /\ l.pc = "idle"
    BY Typed DEF IInv, ClientSend
<1>2. \/ \E t \in Teams : t \in l.ask.target /\ u = [l EXCEPT !.pc = "call", !.team = t, !.att = 0]
      \/ u = [l EXCEPT !.pc = "merge"]
    BY DEF Start, ToTeam, Teams
<1>3. /\ u \in LeadType /\ u.ask = l.ask /\ u.got = l.got
      /\ \/ u.pc = "call" /\ u.team \in u.ask.target
         \/ u.pc = "merge"
    BY <1>1, <1>2, AttemptFacts DEF LeadType
<1>4. lead' = [lead EXCEPT ![r] = u] /\ UNCHANGED <<tl, wk, inflight, idem>>
    BY DEF ClientSend, LeadSet
<1> HIDE DEF u
<1>5. LeadPart(u)
    BY <1>1, <1>3 DEF LeadPart
<1>6. \A t \in Teams, i \in Attempts("A") : Called(l, t, i) => Called(u, t, i)
    BY <1>1 DEF Called
<1> QED BY <1>3, <1>4, <1>5, <1>6, LeadStepOK

\* A gives an attempt up, or takes the answer of the thread it waits for.
LEMMA LeadReturnIInv == IInv /\ (\E r \in Requests : LeadReturn(r)) => IInv'
<1> SUFFICES ASSUME IInv, NEW r \in Requests, LeadReturn(r) PROVE IInv'
    OBVIOUS
<1> DEFINE l == lead[r]
           c == TlOf(r)
<1>1. l \in LeadType /\ l.pc = "await" /\ l.team \in l.ask.target /\ l.team \in Teams
    BY Typed DEF IInv, LeadReturn, LeadType, LeadPart
<1>2. c \in TlThreads /\ c[1] = r /\ c[2] = l.team
    BY <1>1 DEF TlOf, TlThreads, LeadType
<1>3. TlPart(c, tl[c], l) /\ tl[c].ans \in Answers
    BY <1>2, Typed DEF IInv, TlType
<1>4. PICK a \in GivenUp \cup {tl[c].ans} : LeadOutcome(r, a)
    BY DEF LeadReturn
<1>5. a \in Answers /\ GotOK(a, l.team, l.ask)
    <2>1. CASE a \in GivenUp
        BY <2>1, AnswerTypes DEF GivenUp, GotOK, Codes
    <2>2. CASE a = tl[c].ans
        BY <2>2, <1>1, <1>2, <1>3 DEF GotOK, TlPart
    <2> QED BY <2>1, <2>2
<1>6. UNCHANGED <<tl, wk, inflight, idem>>
    BY DEF LeadReturn
<1> HIDE DEF c
<1> QED BY <1>1, <1>4, <1>5, <1>6, OutcomeOK

\* The merge puts together what the teams that answered have contributed.
LEMMA LeadMergeIInv == IInv /\ (\E r \in Requests : LeadMerge(r)) => IInv'
<1> SUFFICES ASSUME IInv, NEW r \in Requests, LeadMerge(r) PROVE IInv'
    OBVIOUS
<1> DEFINE l     == lead[r]
           ok(t) == l.got[t].code = "OK"
           g     == IF ok("GREEN") THEN l.got["GREEN"].data ELSE <<>>
           p     == IF ok("PINK") THEN l.got["PINK"].data ELSE <<>>
           a     == IF \E t \in Teams : ok(t) THEN Result(g \o p) ELSE Fail("UNAVAILABLE")
           u     == [l EXCEPT !.pc = "done", !.ans = a]
<1>1. l \in LeadType /\ LeadPart(l) /\ l.pc = "merge"
    BY Typed DEF IInv, LeadMerge
<1>2. lead' = [lead EXCEPT ![r] = u] /\ UNCHANGED <<tl, wk, inflight, idem>>
    BY DEF LeadMerge, LeadSet
<1>3. g \in Data /\ p \in Data
    <2>1. \A t \in Teams : l.got[t].data \in Data
        BY <1>1, AnswerTypes DEF LeadType
    <2>2. "GREEN" \in Teams /\ "PINK" \in Teams
        BY DEF Teams
    <2> QED BY <2>1, <2>2, AnswerTypes
<1>4. g \o p \in Data
    BY <1>3 DEF Data
<1>5. a \in Answers
    BY <1>4, AnswerTypes DEF Codes
<1>6. u \in LeadType /\ u.pc = "done" /\ u.ask = l.ask /\ u.got = l.got
    BY <1>1, <1>5 DEF LeadType
<1> HIDE DEF u
<1>7. LeadPart(u)
    BY <1>1, <1>6 DEF LeadPart
<1>8. \A t \in Teams, i \in Attempts("A") : Called(u, t, i)
    BY <1>6 DEF Called
<1> QED BY <1>2, <1>6, <1>7, <1>8, LeadStepOK

-----------------------------------------------------------------------------
(***************************************************************************)
(* The slots of the team leaders                                           *)
(***************************************************************************)
HasSlot  == {"over", "call", "await", "leave"}
IsServed == {"call", "await", "leave"}

\* The threads that count, after thread c has changed to x.
LEMMA ThreadSets ==
    ASSUME IInv, NEW c \in TlThreads, NEW x \in TlType, tl' = [tl EXCEPT ![c] = x],
           NEW t \in Teams
    PROVE  /\ Counted(t)' = IF c[2] = t /\ x.pc \in HasSlot THEN Counted(t) \cup {c}
                            ELSE Counted(t) \ {c}
           /\ Admitted(t)' = IF c[2] = t /\ x.pc \in IsServed THEN Admitted(t) \cup {c}
                             ELSE Admitted(t) \ {c}
           /\ c \in Counted(t) <=> c[2] = t /\ tl[c].pc \in HasSlot
           /\ c \in Admitted(t) <=> c[2] = t /\ tl[c].pc \in IsServed
<1>1. \A e \in TlThreads : tl'[e] = IF e = c THEN x ELSE tl[e]
    BY Typed
<1> QED BY <1>1 DEF Counted, Admitted, HasSlot, IsServed

\* A step of thread c that takes or returns no slot, takes one or returns one.
LEMMA SlotStep ==
    ASSUME IInv, NEW c \in TlThreads, NEW x \in TlType, tl' = [tl EXCEPT ![c] = x],
           \/ /\ UNCHANGED inflight
              /\ x.pc \in HasSlot <=> tl[c].pc \in HasSlot
              /\ x.pc \in IsServed => tl[c].pc \in IsServed
           \/ /\ Count(c[2], 1)
              /\ tl[c].pc \notin HasSlot /\ x.pc \in HasSlot
              /\ x.pc \in IsServed => inflight[c[2]] < MaxInflight
           \/ /\ Count(c[2], -1)
              /\ tl[c].pc \in HasSlot /\ x.pc \notin HasSlot
    PROVE  InflightInv' /\ inflight' \in [Teams -> Nat]
<1>1. c[2] \in Teams /\ inflight \in [Teams -> Nat] /\ MaxInflight \in Nat
    BY ThreadNames, Typed, MaxAssumption
<1>2. IsServed \subseteq HasSlot
    BY DEF IsServed, HasSlot
<1>3. ASSUME NEW t \in Teams
      PROVE  /\ inflight'[t] = Cardinality(Counted(t)')
             /\ Cardinality(Admitted(t)') <= MaxInflight
             /\ inflight'[t] \in Nat
    <2> DEFINE C == Counted(t)
               A == Admitted(t)
    <2>1. /\ IsFiniteSet(C) /\ IsFiniteSet(A) /\ A \subseteq C
          /\ inflight[t] = Cardinality(C) /\ Cardinality(A) <= MaxInflight
          /\ Cardinality(A) <= Cardinality(C)
        BY ThreadsFinite, FS_Subset DEF IInv, InflightInv
    <2>2. /\ Cardinality(C) \in Nat
          /\ c \in C => C \cup {c} = C /\ Cardinality(C \ {c}) = Cardinality(C) - 1
          /\ c \notin C => C \ {c} = C /\ Cardinality(C \cup {c}) = Cardinality(C) + 1
        BY <2>1, CardStep
    <2>3. /\ Cardinality(A) \in Nat
          /\ c \in A => A \cup {c} = A /\ Cardinality(A \ {c}) = Cardinality(A) - 1
          /\ c \notin A => A \ {c} = A /\ Cardinality(A \cup {c}) = Cardinality(A) + 1
        BY <2>1, CardStep
    <2>4. c \in C => Cardinality(C) > 0
        <3>1. CASE c \in C
            <4>1. IsFiniteSet(C \ {c})
                BY <2>1, FS_RemoveElement
            <4>2. Cardinality(C \ {c}) \in Nat
                BY <4>1, FS_CardinalityType
            <4> QED BY <3>1, <4>2, <2>2
        <3> QED BY <3>1
    <2>5. /\ C' = IF c[2] = t /\ x.pc \in HasSlot THEN C \cup {c} ELSE C \ {c}
          /\ A' = IF c[2] = t /\ x.pc \in IsServed THEN A \cup {c} ELSE A \ {c}
          /\ c \in C <=> c[2] = t /\ tl[c].pc \in HasSlot
          /\ c \in A <=> c[2] = t /\ tl[c].pc \in IsServed
        BY ThreadSets
    <2>6. \/ UNCHANGED inflight
          \/ inflight' = [inflight EXCEPT ![c[2]] = inflight[c[2]] + 1]
          \/ inflight' = [inflight EXCEPT ![c[2]] = inflight[c[2]] - 1]
        BY <1>1 DEF Count
    <2> HIDE DEF C, A
    <2>7. CASE c[2] # t
        <3>1. inflight'[t] = inflight[t] /\ C' = C /\ A' = A
            BY <2>2, <2>3, <2>5, <2>6, <2>7, <1>1
        <3> QED BY <3>1, <2>1, <2>2 DEF C, A
    <2>8. CASE c[2] = t
        <3>1. CASE /\ UNCHANGED inflight
                   /\ x.pc \in HasSlot <=> tl[c].pc \in HasSlot
                   /\ x.pc \in IsServed => tl[c].pc \in IsServed
            <4>1. C' = C
                BY <3>1, <2>2, <2>5, <2>8
            <4>2. A' = A \/ Cardinality(A') = Cardinality(A) - 1
                BY <3>1, <2>3, <2>5, <2>8
            <4>3. Cardinality(A') <= MaxInflight
                BY <4>2, <2>1, <2>3, <1>1
            <4> QED BY <3>1, <4>1, <4>3, <2>1, <2>2 DEF C, A
        <3>2. CASE /\ Count(c[2], 1)
                   /\ tl[c].pc \notin HasSlot /\ x.pc \in HasSlot
                   /\ x.pc \in IsServed => inflight[c[2]] < MaxInflight
            <4>1. inflight'[t] = inflight[t] + 1
                BY <3>2, <2>8, <1>1 DEF Count
            <4>2. Cardinality(C') = Cardinality(C) + 1
                BY <3>2, <2>2, <2>5, <2>8
            <4>3. CASE x.pc \in IsServed
                <5>1. Cardinality(A') = Cardinality(A) + 1
                    BY <3>2, <4>3, <1>2, <2>3, <2>5, <2>8
                <5>2. Cardinality(A) < MaxInflight
                    BY <3>2, <4>3, <2>1, <2>2, <2>3, <2>8, <1>1
                <5> QED BY <4>1, <4>2, <5>1, <5>2, <2>1, <2>2, <2>3, <1>1 DEF C, A
            <4>4. CASE x.pc \notin IsServed
                <5>1. A' = A
                    BY <3>2, <4>4, <1>2, <2>3, <2>5, <2>8
                <5> QED BY <4>1, <4>2, <5>1, <2>1, <2>2, <1>1 DEF C, A
            <4> QED BY <4>3, <4>4
        <3>3. CASE /\ Count(c[2], -1)
                   /\ tl[c].pc \in HasSlot /\ x.pc \notin HasSlot
            <4>1. inflight'[t] = inflight[t] - 1
                BY <3>3, <2>8, <1>1 DEF Count
            <4>2. Cardinality(C') = Cardinality(C) - 1
                BY <3>3, <2>2, <2>5, <2>8
            <4>3. A' = A \ {c}
                BY <3>3, <1>2, <2>5, <2>8
            <4>4. Cardinality(A') <= MaxInflight
                <5>1. CASE c \in A
                    <6>1. Cardinality(A') = Cardinality(A) - 1
                        BY <5>1, <4>3, <2>3
                    <6> QED BY <6>1, <2>1, <2>3, <1>1
                <5>2. CASE c \notin A
                    BY <5>2, <4>3, <2>1, <2>3
                <5> QED BY <5>1, <5>2
            <4>5. Cardinality(C) > 0
                BY <3>3, <2>4, <2>5, <2>8
            <4> QED BY <4>1, <4>2, <4>4, <4>5, <2>1, <2>2 DEF C, A
        <3> QED BY <3>1, <3>2, <3>3
    <2> QED BY <2>7, <2>8
<1>4. inflight' \in [Teams -> Nat]
    <2>1. inflight' = [t \in Teams |-> inflight'[t]]
        BY <1>1 DEF Count
    <2> QED BY <2>1, <1>3
<1> QED BY <1>3, <1>4 DEF InflightInv

-----------------------------------------------------------------------------
(***************************************************************************)
(* Team leaders                                                            *)
(***************************************************************************)
\* A step of thread c of a team leader that changes no worker.
LEMMA TlStepOK ==
    ASSUME IInv, NEW c \in TlThreads, NEW x \in TlType, tl' = [tl EXCEPT ![c] = x],
           UNCHANGED <<lead, wk, idem>>,
           InflightInv' /\ inflight' \in [Teams -> Nat],
           TlPart(c, x, lead[c[1]]),
           \A d \in WkThreads : Caller(d) = c => WkPart(d, wk[d], x, idem[d[1]])
    PROVE  IInv'
<1>1. \A e \in TlThreads : tl'[e] = IF e = c THEN x ELSE tl[e]
    BY Typed
<1>2. TypeOK'
    <2>1. tl' \in [TlThreads -> TlType]
        BY Typed
    <2> QED BY <2>1, Typed, Types DEF TypeOK, TlType
<1>3. \A r \in Requests : LeadPart(lead'[r])
    BY DEF IInv
<1>4. \A e \in TlThreads : TlPart(e, tl'[e], lead'[e[1]])
    BY <1>1 DEF IInv
<1>5. \A d \in WkThreads : WkPart(d, wk'[d], tl'[Caller(d)], idem'[d[1]])
    BY <1>1, ThreadNames DEF IInv
<1> QED BY <1>2, <1>3, <1>4, <1>5 DEF IInv

\* What is known of a thread of a team leader.
LEMMA TlFacts ==
    ASSUME IInv, NEW c \in TlThreads
    PROVE  /\ tl[c] \in TlType /\ c[2] \in Teams /\ TlPart(c, tl[c], lead[c[1]])
           /\ \A d \in WkThreads : Caller(d) = c => WkPart(d, wk[d], tl[c], idem[d[1]])
    BY Typed, ThreadNames DEF IInv

\* B takes a slot before it compares: over the limit, it is not served.
LEMMA TlEnterCppIInv == IInv /\ (\E c \in TlThreads : TlEnterCpp(c)) => IInv'
<1> SUFFICES ASSUME IInv, NEW c \in TlThreads, TlEnterCpp(c) PROVE IInv'
    OBVIOUS
<1> DEFINE pc == IF inflight[c[2]] + 1 > MaxInflight THEN "over" ELSE "call"
           x  == [tl[c] EXCEPT !.pc = pc]
<1>1. /\ tl[c] \in TlType /\ c[2] \in Teams /\ TlPart(c, tl[c], lead[c[1]])
      /\ tl[c].pc = "enter" /\ c[2] \notin PyTeams
    BY TlFacts DEF TlEnterCpp
<1>2. x \in TlType /\ x.pc = pc /\ x.att = tl[c].att /\ x.ans = tl[c].ans
    BY <1>1 DEF TlType
<1>3. tl' = [tl EXCEPT ![c] = x] /\ Count(c[2], 1) /\ UNCHANGED <<lead, wk, idem>>
    BY DEF TlEnterCpp, TlAt, TlSet
<1>4. pc \in {"over", "call"} /\ (pc = "call" => inflight[c[2]] < MaxInflight)
    BY <1>1, Typed, MaxAssumption
<1> HIDE DEF x, pc
<1>5. InflightInv' /\ inflight' \in [Teams -> Nat]
    BY <1>1, <1>2, <1>3, <1>4, SlotStep DEF HasSlot, IsServed
<1>6. TlPart(c, x, lead[c[1]])
    BY <1>1, <1>2, <1>4 DEF TlPart
<1>7. ASSUME NEW d \in WkThreads, Caller(d) = c PROVE WkPart(d, wk[d], x, idem[d[1]])
    BY <1>1, <1>2, <1>4, <1>7, TlFacts DEF WkPart
<1> QED BY <1>2, <1>3, <1>5, <1>6, <1>7, TlStepOK

\* A refused request gives its slot back.
LEMMA TlRefuseIInv == IInv /\ (\E c \in TlThreads : TlRefuse(c)) => IInv'
<1> SUFFICES ASSUME IInv, NEW c \in TlThreads, TlRefuse(c) PROVE IInv'
    OBVIOUS
<1> DEFINE a == Fail("RESOURCE_EXHAUSTED")
           x == [tl[c] EXCEPT !.pc = "done", !.ans = a]
<1>1. /\ tl[c] \in TlType /\ c[2] \in Teams /\ TlPart(c, tl[c], lead[c[1]])
      /\ tl[c].pc = "over"
    BY TlFacts DEF TlRefuse
<1>2. a \in Answers /\ a.code # "OK"
    BY AnswerTypes DEF Codes
<1> HIDE DEF a
<1>3. x \in TlType /\ x.pc = "done" /\ x.att = tl[c].att /\ x.ans = a
    BY <1>1, <1>2 DEF TlType
<1>4. tl' = [tl EXCEPT ![c] = x] /\ Count(c[2], -1) /\ UNCHANGED <<lead, wk, idem>>
    BY DEF TlRefuse, TlReply, TlSet, a
<1> HIDE DEF x
<1>5. InflightInv' /\ inflight' \in [Teams -> Nat]
    BY <1>1, <1>3, <1>4, SlotStep DEF HasSlot, IsServed
<1>6. TlPart(c, x, lead[c[1]])
    BY <1>1, <1>2, <1>3 DEF TlPart
<1>7. ASSUME NEW d \in WkThreads, Caller(d) = c PROVE WkPart(d, wk[d], x, idem[d[1]])
    BY <1>1, <1>3, <1>7, TlFacts DEF WkPart
<1> QED BY <1>3, <1>4, <1>5, <1>6, <1>7, TlStepOK

\* E compares and takes under one lock; behind a small pool it never refuses.
LEMMA TlEnterPyIInv == IInv /\ (\E c \in TlThreads : TlEnterPy(c)) => IInv'
<1> SUFFICES ASSUME IInv, NEW c \in TlThreads, TlEnterPy(c) PROVE IInv'
    OBVIOUS
<1> DEFINE a == Fail("RESOURCE_EXHAUSTED")
           n == inflight[c[2]]
<1>1. /\ tl[c] \in TlType /\ c[2] \in Teams /\ TlPart(c, tl[c], lead[c[1]])
      /\ tl[c].pc = "enter" /\ c[2] \in PyTeams /\ n \in Nat
      /\ UNCHANGED <<lead, wk, idem>>
    BY TlFacts, Typed DEF TlEnterPy
<1>2. a \in Answers /\ a.code # "OK"
    BY AnswerTypes DEF Codes
<1>3. PoolSize <= MaxInflight => n < MaxInflight
    <2>1. Counted(c[2]) = Admitted(c[2])
        BY <1>1 DEF Counted, Admitted, IInv, TlPart
    <2>2. n = Cardinality(Admitted(c[2])) /\ Cardinality(Admitted(c[2])) < PoolSize
        BY <1>1, <2>1 DEF IInv, InflightInv, TlEnterPy
    <2> QED BY <2>2, <1>1, MaxAssumption, PoolAssumption
<1> HIDE DEF a
<1>4. CASE n >= MaxInflight
    <2> DEFINE x == [tl[c] EXCEPT !.pc = "done", !.ans = a]
    <2>1. x \in TlType /\ x.pc = "done" /\ x.att = tl[c].att /\ x.ans = a
        BY <1>1, <1>2 DEF TlType
    <2>2. tl' = [tl EXCEPT ![c] = x] /\ UNCHANGED inflight
        BY <1>4 DEF TlEnterPy, TlReply, TlSet, a
    <2> HIDE DEF x
    <2>3. InflightInv' /\ inflight' \in [Teams -> Nat]
        BY <1>1, <2>1, <2>2, SlotStep DEF HasSlot, IsServed
    <2>4. ~(PoolSize <= MaxInflight)
        BY <1>1, <1>3, <1>4, MaxAssumption
    <2>5. TlPart(c, x, lead[c[1]])
        BY <1>1, <1>2, <2>1, <2>4 DEF TlPart
    <2>6. ASSUME NEW d \in WkThreads, Caller(d) = c PROVE WkPart(d, wk[d], x, idem[d[1]])
        BY <1>1, <2>1, <2>6, TlFacts DEF WkPart
    <2> QED BY <1>1, <2>1, <2>2, <2>3, <2>5, <2>6, TlStepOK
<1>5. CASE ~(n >= MaxInflight)
    <2> DEFINE x == [tl[c] EXCEPT !.pc = "call"]
    <2>1. x \in TlType /\ x.pc = "call" /\ x.att = tl[c].att /\ x.ans = tl[c].ans
        BY <1>1 DEF TlType
    <2>2. tl' = [tl EXCEPT ![c] = x] /\ Count(c[2], 1) /\ n < MaxInflight
        BY <1>1, <1>5, MaxAssumption DEF TlEnterPy, TlAt, TlSet
    <2> HIDE DEF x
    <2>3. InflightInv' /\ inflight' \in [Teams -> Nat]
        BY <1>1, <2>1, <2>2, SlotStep DEF HasSlot, IsServed
    <2>4. TlPart(c, x, lead[c[1]])
        BY <1>1, <2>1 DEF TlPart
    <2>5. ASSUME NEW d \in WkThreads, Caller(d) = c PROVE WkPart(d, wk[d], x, idem[d[1]])
        BY <1>1, <2>1, <2>5, TlFacts DEF WkPart
    <2> QED BY <1>1, <2>1, <2>2, <2>3, <2>4, <2>5, TlStepOK
<1> QED BY <1>4, <1>5

\* A payload ends E's call with an exception; the slot is still held.
LEMMA TlRaiseIInv == IInv /\ (\E c \in TlThreads : TlRaise(c)) => IInv'
<1> SUFFICES ASSUME IInv, NEW c \in TlThreads, TlRaise(c) PROVE IInv'
    OBVIOUS
<1> DEFINE a == Fail("UNKNOWN")
           x == [tl[c] EXCEPT !.pc = "leave", !.ans = a]
<1>1. /\ tl[c] \in TlType /\ c[2] \in Teams /\ TlPart(c, tl[c], lead[c[1]])
      /\ tl[c].pc = "call"
    BY TlFacts DEF TlRaise
<1>2. a \in Answers /\ a.code = "UNKNOWN"
    BY AnswerTypes DEF Codes
<1> HIDE DEF a
<1>3. x \in TlType /\ x.pc = "leave" /\ x.att = tl[c].att /\ x.ans = a
    BY <1>1, <1>2 DEF TlType
<1>4. tl' = [tl EXCEPT ![c] = x] /\ UNCHANGED <<lead, wk, inflight, idem>>
    BY DEF TlRaise, TlSet, a
<1> HIDE DEF x
<1>5. InflightInv' /\ inflight' \in [Teams -> Nat]
    BY <1>1, <1>3, <1>4, SlotStep DEF HasSlot, IsServed
<1>6. TlPart(c, x, lead[c[1]])
    BY <1>1, <1>2, <1>3 DEF TlPart
<1>7. ASSUME NEW d \in WkThreads, Caller(d) = c PROVE WkPart(d, wk[d], x, idem[d[1]])
    BY <1>1, <1>3, <1>7, TlFacts DEF WkPart
<1> QED BY <1>3, <1>4, <1>5, <1>6, <1>7, TlStepOK

\* The slot comes back before the answer is sent.
LEMMA TlLeaveIInv == IInv /\ (\E c \in TlThreads : TlLeave(c)) => IInv'
<1> SUFFICES ASSUME IInv, NEW c \in TlThreads, TlLeave(c) PROVE IInv'
    OBVIOUS
<1> DEFINE x == [tl[c] EXCEPT !.pc = "done"]
<1>1. /\ tl[c] \in TlType /\ c[2] \in Teams /\ TlPart(c, tl[c], lead[c[1]])
      /\ tl[c].pc = "leave"
    BY TlFacts DEF TlLeave
<1>2. x \in TlType /\ x.pc = "done" /\ x.att = tl[c].att /\ x.ans = tl[c].ans
    BY <1>1 DEF TlType
<1>3. tl' = [tl EXCEPT ![c] = x] /\ Count(c[2], -1) /\ UNCHANGED <<lead, wk, idem>>
    BY DEF TlLeave, TlAt, TlSet
<1> HIDE DEF x
<1>4. InflightInv' /\ inflight' \in [Teams -> Nat]
    BY <1>1, <1>2, <1>3, SlotStep DEF HasSlot, IsServed
<1>5. TlPart(c, x, lead[c[1]])
    BY <1>1, <1>2 DEF TlPart
<1>6. ASSUME NEW d \in WkThreads, Caller(d) = c PROVE WkPart(d, wk[d], x, idem[d[1]])
    BY <1>1, <1>2, <1>6, TlFacts DEF WkPart
<1> QED BY <1>2, <1>3, <1>4, <1>5, <1>6, TlStepOK

\* A leader's data, alone and before its worker's.
LEMMA OneAndTwo ==
    ASSUME NEW p, NEW q
    PROVE  <<p>> \o <<>> = <<p>> /\ <<p>> \o <<q>> = <<p, q>>
<1> DEFINE S == {p, q}
<1>1. <<p>> \in Seq(S) /\ <<q>> \in Seq(S) /\ <<>> \in Seq(S) /\ <<p, q>> \in Seq(S)
    OBVIOUS
<1>2. <<p>> \o <<>> = <<p>>
    BY <1>1
<1>3. <<p>> \o <<q>> = <<p, q>>
    <2> DEFINE s == <<p>> \o <<q>>
    <2>1. s \in Seq(S) /\ Len(s) = 2
        BY <1>1
    <2>2. s[1] = p /\ s[2] = q
        BY <1>1
    <2> HIDE DEF s
    <2>3. s = <<p, q>>
        BY <1>1, <2>1, <2>2
    <2> QED BY <2>3 DEF s
<1> QED BY <1>2, <1>3

\* The end of a call to the worker: another attempt, or the leader's own data
\* and perhaps the worker's.
LEMMA TlOutcomeOK ==
    ASSUME IInv, NEW c \in TlThreads, NEW a, TlOutcome(c, a),
           a.data \in {<<>>, <<Worker[c[2]]>>},
           tl[c].pc \in {"call", "await"}, ~Barred(c[2], lead[c[1]].ask),
           UNCHANGED <<lead, wk, inflight, idem>>
    PROVE  IInv'
<1>1. tl[c] \in TlType /\ c[2] \in Teams /\ TlPart(c, tl[c], lead[c[1]])
    BY TlFacts
<1>2. CASE Retriable(a) /\ c[2] \notin PyTeams /\ tl[c].att < MaxRetries["B"]
    <2> DEFINE x == [tl[c] EXCEPT !.pc = "call", !.att = tl[c].att + 1]
    <2>1. tl[c].att + 1 \in Attempts("B") /\ tl[c].att \in Nat
        BY <1>1, <1>2, AttemptFacts DEF TlType
    <2>2. x \in TlType /\ x.pc = "call" /\ x.att = tl[c].att + 1 /\ x.ans = tl[c].ans
        BY <1>1, <2>1 DEF TlType
    <2>3. tl' = [tl EXCEPT ![c] = x]
        BY <1>2 DEF TlOutcome, TlSet
    <2> HIDE DEF x
    <2>4. InflightInv' /\ inflight' \in [Teams -> Nat]
        BY <2>2, <2>3, SlotStep DEF HasSlot, IsServed
    <2>5. TlPart(c, x, lead[c[1]])
        BY <1>1, <2>2 DEF TlPart
    <2>6. ASSUME NEW d \in WkThreads, Caller(d) = c PROVE WkPart(d, wk[d], x, idem[d[1]])
        <3>1. d[4] \in Nat /\ WkPart(d, wk[d], tl[c], idem[d[1]])
            BY <2>6, TlFacts, ThreadNames, AttemptFacts
        <3> QED BY <3>1, <2>1, <2>2 DEF WkPart
    <2> QED BY <2>2, <2>3, <2>4, <2>5, <2>6, TlStepOK
<1>3. CASE ~(Retriable(a) /\ c[2] \notin PyTeams /\ tl[c].att < MaxRetries["B"])
    <2> DEFINE b == Result(<<Leader[c[2]]>> \o a.data)
               x == [tl[c] EXCEPT !.pc = "leave", !.ans = b]
    <2>1. <<Leader[c[2]]>> \o a.data \in Parts(c[2])
        <3>1. /\ <<Leader[c[2]]>> \o <<>> = <<Leader[c[2]]>>
              /\ <<Leader[c[2]]>> \o <<Worker[c[2]]>> = <<Leader[c[2]], Worker[c[2]]>>
            BY OneAndTwo
        <3> QED BY <3>1 DEF Parts
    <2>2. b \in Answers /\ b.code = "OK" /\ b.data \in Parts(c[2])
        BY <1>1, <2>1, AnswerTypes
    <2>3. tl' = [tl EXCEPT ![c] = x]
        BY <1>3 DEF TlOutcome, TlSet
    <2> HIDE DEF b
    <2>4. x \in TlType /\ x.pc = "leave" /\ x.att = tl[c].att /\ x.ans = b
        BY <1>1, <2>2 DEF TlType
    <2> HIDE DEF x
    <2>5. InflightInv' /\ inflight' \in [Teams -> Nat]
        BY <2>3, <2>4, SlotStep DEF HasSlot, IsServed
    <2>6. TlPart(c, x, lead[c[1]])
        BY <1>1, <2>2, <2>4 DEF TlPart
    <2>7. ASSUME NEW d \in WkThreads, Caller(d) = c PROVE WkPart(d, wk[d], x, idem[d[1]])
        BY <2>4, <2>7, TlFacts DEF WkPart
    <2> QED BY <2>3, <2>4, <2>5, <2>6, <2>7, TlStepOK
<1> QED BY <1>2, <1>3

\* The worker has answered, or the call is given up.
LEMMA TlReturnIInv == IInv /\ (\E c \in TlThreads : TlReturn(c)) => IInv'
<1> SUFFICES ASSUME IInv, NEW c \in TlThreads, TlReturn(c) PROVE IInv'
    OBVIOUS
<1>1. tl[c].pc = "await" /\ ~Barred(c[2], lead[c[1]].ask) /\ c[2] \in Teams
    BY TlFacts DEF TlReturn, TlPart
<1>2. PICK a \in {Fail("UNAVAILABLE"), Result(<<Worker[c[2]]>>)} : TlOutcome(c, a)
    BY DEF TlReturn, GivenUp
<1>3. a.data \in {<<>>, <<Worker[c[2]]>>}
    <2>1. Fail("UNAVAILABLE").data = <<>>
        BY DEF Fail
    <2>2. Result(<<Worker[c[2]]>>).data = <<Worker[c[2]]>>
        BY DEF Result
    <2> QED BY <2>1, <2>2
<1>4. UNCHANGED <<lead, wk, inflight, idem>>
    BY DEF TlReturn
<1> QED BY <1>1, <1>2, <1>3, <1>4, TlOutcomeOK

\* The worker of the call is a new thread; it is late if one of its kind has
\* answered, and then C remembers the answer or has lost it.
LEMMA TlCallIInv == IInv /\ (\E c \in TlThreads : TlCall(c)) => IInv'
<1> SUFFICES ASSUME IInv, NEW c \in TlThreads, TlCall(c) PROVE IInv'
    OBVIOUS
<1>1. /\ tl[c] \in TlType /\ c[2] \in Teams /\ c[1] \in Requests /\ c[3] \in Attempts("A")
      /\ TlPart(c, tl[c], lead[c[1]]) /\ tl[c].pc = "call" /\ ~Barred(c[2], lead[c[1]].ask)
    BY TlFacts, ThreadNames DEF TlCall, Raises, Barred
<1>2. CASE TlOutcome(c, Fail("UNAVAILABLE")) /\ UNCHANGED wk
    <2>1. Fail("UNAVAILABLE").data = <<>>
        BY DEF Fail
    <2>2. UNCHANGED <<lead, wk, inflight, idem>>
        BY <1>2 DEF TlCall
    <2> QED BY <1>1, <1>2, <2>1, <2>2, TlOutcomeOK
<1>3. CASE /\ wk' = [wk EXCEPT ![WkOf(c)] =
                       [@ EXCEPT !.pc = "enter",
                                 !.late = \E d \in WkThreads :
                                            /\ d[1] = c[1] /\ d[2] = c[2]
                                            /\ wk[d].pc = "done"]]
           /\ TlAt(c, "await")
    <2> DEFINE e  == WkOf(c)
               lt == \E d \in WkThreads : d[1] = c[1] /\ d[2] = c[2] /\ wk[d].pc = "done"
               w  == [wk[e] EXCEPT !.pc = "enter", !.late = lt]
               x  == [tl[c] EXCEPT !.pc = "await"]
    <2>1. /\ e \in WkThreads /\ e[1] = c[1] /\ e[2] = c[2] /\ e[4] = tl[c].att
          /\ Caller(e) = c /\ e[4] \in Nat
        <3>1. tl[c].att \in Attempts("B") /\ tl[c].att \in Nat
            BY <1>1, AttemptFacts DEF TlType
        <3> QED BY <3>1, <1>1, ThreadNames DEF WkOf, WkThreads, Caller
    <2>2. wk[e] \in WkType /\ WkPart(e, wk[e], tl[c], idem[c[1]])
        BY <2>1, Typed, TlFacts
    <2>3. wk[e].pc = "idle" /\ ~wk[e].ran
        BY <1>1, <2>1, <2>2 DEF WkPart
    <2>4. c[2] \notin PyTeams /\ lt => idem[c[1]].held \/ idem[c[1]].expired
        <3> SUFFICES ASSUME c[2] \notin PyTeams, NEW d \in WkThreads,
                            d[1] = c[1], d[2] = c[2], wk[d].pc = "done"
                     PROVE  idem[c[1]].held \/ idem[c[1]].expired
            OBVIOUS
        <3>1. WkPart(d, wk[d], tl[Caller(d)], idem[d[1]])
            BY DEF IInv
        <3> QED BY <3>1 DEF WkPart
    <2>5. wk' = [wk EXCEPT ![e] = w] /\ tl' = [tl EXCEPT ![c] = x]
            /\ UNCHANGED <<lead, inflight, idem>>
        BY <1>3 DEF TlCall, TlAt, TlSet
    <2> HIDE DEF lt, e
    <2>6. w \in WkType /\ w.pc = "enter" /\ ~w.ran /\ (w.late => lt)
        <3>1. lt \in BOOLEAN
            BY DEF lt
        <3> QED BY <2>2, <2>3, <3>1 DEF WkType
    <2>7. x \in TlType /\ x.pc = "await" /\ x.att = tl[c].att /\ x.ans = tl[c].ans
        BY <1>1 DEF TlType
    <2> HIDE DEF w, x
    <2>8. InflightInv' /\ inflight' \in [Teams -> Nat]
        BY <1>1, <2>5, <2>7, SlotStep DEF HasSlot, IsServed
    <2>9. TlPart(c, x, lead[c[1]])
        BY <1>1, <2>7 DEF TlPart
    <2>10. ASSUME NEW d \in WkThreads PROVE WkPart(d, wk'[d], tl'[Caller(d)], idem'[d[1]])
        <3>1. CASE d = e
            <4>1. wk'[d] = w /\ tl'[Caller(d)] = x /\ idem'[d[1]] = idem[c[1]]
                BY <3>1, <2>1, <2>5, Typed
            <4>2. d[4] = x.att /\ d[2] = c[2] /\ x.pc = "await" /\ x.att \in Nat
                BY <3>1, <2>1, <2>7
            <4>3. c[2] \notin PyTeams /\ w.late => idem[c[1]].held \/ idem[c[1]].expired
                BY <2>4, <2>6
            <4>4. WkPart(d, w, x, idem[c[1]])
                BY <4>2, <4>3, <2>6 DEF WkPart
            <4> QED BY <4>1, <4>4
        <3>2. CASE d # e /\ Caller(d) = c
            <4>1. wk'[d] = wk[d] /\ tl'[Caller(d)] = x /\ idem'[d[1]] = idem[d[1]]
                BY <3>2, <2>5, Typed
            <4>2. WkPart(d, wk[d], tl[c], idem[d[1]]) /\ d[4] \in Nat /\ tl[c].att \in Nat
                BY <3>2, <1>1, TlFacts, ThreadNames, AttemptFacts DEF TlType
            <4> QED BY <4>1, <4>2, <1>1, <2>7 DEF WkPart
        <3>3. CASE d # e /\ Caller(d) # c
            <4>1. wk'[d] = wk[d] /\ tl'[Caller(d)] = tl[Caller(d)] /\ idem'[d[1]] = idem[d[1]]
                BY <3>3, <2>5, Typed, ThreadNames
            <4> QED BY <4>1 DEF IInv
        <3> QED BY <3>1, <3>2, <3>3
    <2>11. \A f \in TlThreads : TlPart(f, tl'[f], lead'[f[1]])
        BY <2>5, <2>9, Typed DEF IInv
    <2>12. tl' \in [TlThreads -> TlType] /\ wk' \in [WkThreads -> WkType]
        BY <2>5, <2>6, <2>7, Typed
    <2>13. TypeOK'
        BY <2>5, <2>8, <2>12, Typed DEF TypeOK, TlType, WkType, LeadType, IdemType
    <2> QED BY <2>5, <2>8, <2>10, <2>11, <2>13 DEF IInv
<1> QED BY <1>2, <1>3 DEF TlCall

\* A calls a team leader: a new thread there, for it never made this attempt.
LEMMA LeadCallIInv == IInv /\ (\E r \in Requests : LeadCall(r)) => IInv'
<1> SUFFICES ASSUME IInv, NEW r \in Requests, LeadCall(r) PROVE IInv'
    OBVIOUS
<1> DEFINE l == lead[r]
<1>1. /\ l \in LeadType /\ LeadPart(l) /\ l.pc = "call" /\ l.team \in Teams
      /\ l.team \in l.ask.target /\ l.att \in Nat
    BY Typed, AttemptFacts DEF IInv, LeadCall, LeadType, LeadPart
<1>2. CASE LeadOutcome(r, Fail("UNAVAILABLE")) /\ UNCHANGED tl
    <2>1. Fail("UNAVAILABLE") \in Answers /\ GotOK(Fail("UNAVAILABLE"), l.team, l.ask)
        BY AnswerTypes DEF GotOK, Codes
    <2>2. UNCHANGED <<tl, wk, inflight, idem>>
        BY <1>2 DEF LeadCall
    <2> QED BY <1>1, <1>2, <2>1, <2>2, OutcomeOK
<1>3. CASE /\ tl' = [tl EXCEPT ![TlOf(r)].pc = "enter"]
           /\ LeadSet(r, [lead[r] EXCEPT !.pc = "await"])
    <2> DEFINE c == TlOf(r)
               x == [tl[c] EXCEPT !.pc = "enter"]
               u == [l EXCEPT !.pc = "await"]
    <2>1. c \in TlThreads /\ c[1] = r /\ c[2] = l.team /\ c[3] = l.att
        BY <1>1 DEF TlOf, TlThreads, LeadType
    <2>2. tl' = [tl EXCEPT ![c] = x] /\ lead' = [lead EXCEPT ![r] = u]
            /\ UNCHANGED <<wk, inflight, idem>>
        BY <1>3 DEF LeadCall, LeadSet
    <2>3. /\ u \in LeadType /\ u.pc = "await" /\ u.team = l.team /\ u.att = l.att
          /\ u.ask = l.ask /\ u.got = l.got
        BY <1>1 DEF LeadType
    <2> HIDE DEF c, u
    <2>4. tl[c] \in TlType /\ TlPart(c, tl[c], l)
        BY <2>1, TlFacts
    <2>5. ~Called(l, c[2], c[3])
        BY <1>1, <2>1 DEF Called
    <2>6. tl[c].pc = "idle"
        BY <2>4, <2>5 DEF TlPart
    <2>7. x \in TlType /\ x.pc = "enter" /\ x.att = tl[c].att /\ x.ans = tl[c].ans
        BY <2>4 DEF TlType
    <2> HIDE DEF x
    <2>8. InflightInv' /\ inflight' \in [Teams -> Nat]
        BY <2>1, <2>2, <2>6, <2>7, SlotStep DEF HasSlot, IsServed
    <2>9. \A t \in Teams, i \in Attempts("A") : Called(l, t, i) => Called(u, t, i)
        BY <1>1, <2>3 DEF Called
    <2>10. /\ \A q \in Requests : lead'[q] = IF q = r THEN u ELSE lead[q]
           /\ \A e \in TlThreads : tl'[e] = IF e = c THEN x ELSE tl[e]
           /\ lead' \in [Requests -> LeadType] /\ tl' \in [TlThreads -> TlType]
        BY <2>1, <2>2, <2>3, <2>7, Typed
    <2>11. TypeOK'
        BY <2>2, <2>8, <2>10, Typed DEF TypeOK, TlType, WkType, LeadType, IdemType
    <2>12. ASSUME NEW q \in Requests PROVE LeadPart(lead'[q])
        <3>1. LeadPart(u)
            BY <1>1, <2>3 DEF LeadPart
        <3> QED BY <3>1, <2>10 DEF IInv
    <2>13. ASSUME NEW e \in TlThreads PROVE TlPart(e, tl'[e], lead'[e[1]])
        <3>1. CASE e = c
            <4>1. Called(u, c[2], c[3])
                BY <2>1, <2>3 DEF Called
            <4>2. TlPart(c, x, u)
                BY <2>3, <2>4, <2>7, <4>1 DEF TlPart
            <4> QED BY <3>1, <4>2, <2>1, <2>10
        <3>2. CASE e # c
            <4>1. TlPart(e, tl[e], lead[e[1]]) /\ e[1] \in Requests /\ e[2] \in Teams
                    /\ e[3] \in Attempts("A")
                BY ThreadNames DEF IInv
            <4>2. CASE e[1] = r
                <5>1. TlPart(e, tl[e], u)
                    BY <4>1, <4>2, <2>3, <2>9 DEF TlPart
                <5> QED BY <3>2, <4>2, <5>1, <2>10
            <4>3. CASE e[1] # r
                BY <3>2, <4>1, <4>3, <2>10
            <4> QED BY <4>2, <4>3
        <3> QED BY <3>1, <3>2
    <2>14. ASSUME NEW d \in WkThreads PROVE WkPart(d, wk'[d], tl'[Caller(d)], idem'[d[1]])
        <3>1. WkPart(d, wk[d], tl[Caller(d)], idem[d[1]]) /\ Caller(d) \in TlThreads
            BY ThreadNames DEF IInv
        <3>2. CASE Caller(d) = c
            <4>1. WkPart(d, wk[d], x, idem[d[1]])
                BY <3>1, <3>2, <2>6 DEF WkPart
            <4> QED BY <3>1, <3>2, <4>1, <2>2, <2>10
        <3>3. CASE Caller(d) # c
            BY <3>1, <3>3, <2>2, <2>10
        <3> QED BY <3>2, <3>3
    <2> QED BY <2>8, <2>11, <2>12, <2>13, <2>14 DEF IInv
<1> QED BY <1>2, <1>3 DEF LeadCall

-----------------------------------------------------------------------------
(***************************************************************************)
(* Workers                                                                 *)
(***************************************************************************)
\* A step of workers and their memory that keeps each thread's part.
LEMMA WkStepOK ==
    ASSUME IInv, UNCHANGED <<lead, tl, inflight>>,
           wk' \in [WkThreads -> WkType], idem' \in [Requests -> IdemType],
           \A d \in WkThreads : WkPart(d, wk'[d], tl[Caller(d)], idem'[d[1]])
    PROVE  IInv'
<1>1. TypeOK'
    BY Typed DEF TypeOK, TlType, WkType, LeadType, IdemType
<1>2. InflightInv'
    BY DEF IInv, InflightInv, Counted, Admitted
<1> QED BY <1>1, <1>2 DEF IInv

\* What is known of a thread of a worker.
LEMMA WkFacts ==
    ASSUME IInv, NEW d \in WkThreads
    PROVE  /\ wk[d] \in WkType /\ idem[d[1]] \in IdemType /\ d[1] \in Requests
           /\ WkPart(d, wk[d], tl[Caller(d)], idem[d[1]])
    BY Typed, ThreadNames DEF IInv

\* C finds an answer under the request id, or sets to work: if it is late, its
\* answer has expired.
LEMMA WkGetIInv == IInv /\ (\E d \in WkThreads : WkGet(d)) => IInv'
<1> SUFFICES ASSUME IInv, NEW c \in WkThreads, WkGet(c) PROVE IInv'
    OBVIOUS
<1> DEFINE pc == IF idem[c[1]].held THEN "done" ELSE "work"
           w  == [wk[c] EXCEPT !.pc = pc]
<1>1. /\ wk[c] \in WkType /\ WkPart(c, wk[c], tl[Caller(c)], idem[c[1]])
      /\ wk[c].pc = "enter" /\ c[2] \notin PyTeams
      /\ wk' = [wk EXCEPT ![c] = w] /\ UNCHANGED <<lead, tl, inflight, idem>>
    BY WkFacts DEF WkGet, WkAt
<1>2. /\ pc \in {"done", "work"}
      /\ pc = "done" => idem[c[1]].held
      /\ pc = "work" => ~idem[c[1]].held
    OBVIOUS
<1> HIDE DEF pc
<1>3. w \in WkType /\ w.pc = pc /\ (w.late => wk[c].late) /\ ~w.ran
    BY <1>1, <1>2 DEF WkType, WkPart
<1> HIDE DEF w
<1>4. WkPart(c, w, tl[Caller(c)], idem[c[1]])
    BY <1>1, <1>2, <1>3 DEF WkPart
<1>5. \A d \in WkThreads : wk'[d] = IF d = c THEN w ELSE wk[d]
    BY <1>1, Typed
<1>6. wk' \in [WkThreads -> WkType] /\ idem' \in [Requests -> IdemType]
    BY <1>1, <1>3, Typed
<1>7. \A d \in WkThreads : WkPart(d, wk'[d], tl[Caller(d)], idem'[d[1]])
    BY <1>1, <1>4, <1>5 DEF IInv
<1> QED BY <1>1, <1>6, <1>7, WkStepOK

\* The answer is remembered before it is given.
LEMMA WkPutIInv == IInv /\ (\E d \in WkThreads : WkPut(d)) => IInv'
<1> SUFFICES ASSUME IInv, NEW c \in WkThreads, WkPut(c) PROVE IInv'
    OBVIOUS
<1> DEFINE w == [wk[c] EXCEPT !.pc = "done", !.ran = TRUE]
           m == [idem[c[1]] EXCEPT !.held = TRUE]
<1>1. /\ wk[c] \in WkType /\ WkPart(c, wk[c], tl[Caller(c)], idem[c[1]])
      /\ wk[c].pc = "work" /\ c[1] \in Requests /\ idem[c[1]] \in IdemType
    BY WkFacts DEF WkPut
<1>2. wk' = [wk EXCEPT ![c] = w] /\ idem' = [idem EXCEPT ![c[1]] = m]
        /\ UNCHANGED <<lead, tl, inflight>>
    BY Typed DEF WkPut
<1>3. w \in WkType /\ w.pc = "done" /\ w.ran /\ (w.late => wk[c].late)
    BY <1>1 DEF WkType
<1>4. m \in IdemType /\ m.held /\ (idem[c[1]].expired => m.expired)
    BY <1>1 DEF IdemType
<1> HIDE DEF w, m
<1>5. ASSUME NEW d \in WkThreads
      PROVE  /\ wk'[d] = IF d = c THEN w ELSE wk[d]
             /\ idem'[d[1]] = IF d[1] = c[1] THEN m ELSE idem[d[1]]
    <2>1. wk'[d] = IF d = c THEN w ELSE wk[d]
        BY <1>2, Typed
    <2>2. d[1] \in Requests
        BY ThreadNames
    <2>3. idem'[d[1]] = IF d[1] = c[1] THEN m ELSE idem[d[1]]
        BY <1>2, <2>2, Typed
    <2> QED BY <2>1, <2>3
<1>6. wk' \in [WkThreads -> WkType] /\ idem' \in [Requests -> IdemType]
    BY <1>2, <1>3, <1>4, Typed
<1>7. ASSUME NEW d \in WkThreads PROVE WkPart(d, wk'[d], tl[Caller(d)], idem'[d[1]])
    <2>1. WkPart(d, wk[d], tl[Caller(d)], idem[d[1]])
        BY DEF IInv
    <2>2. CASE d = c
        <3>1. WkPart(c, w, tl[Caller(c)], m)
            BY <1>1, <1>3, <1>4 DEF WkPart
        <3> QED BY <2>2, <3>1, <1>5
    <2>3. CASE d # c /\ d[1] = c[1]
        <3>1. idem[d[1]].expired => m.expired
            BY <2>3, <1>4
        <3>2. WkPart(d, wk[d], tl[Caller(d)], m)
            BY <2>1, <3>1, <1>4 DEF WkPart
        <3> QED BY <2>3, <3>2, <1>5
    <2>4. CASE d[1] # c[1]
        BY <2>1, <2>4, <1>5
    <2> QED BY <2>2, <2>3, <2>4
<1> QED BY <1>2, <1>6, <1>7, WkStepOK

\* F has no memory.
LEMMA WkRunPyIInv == IInv /\ (\E d \in WkThreads : WkRunPy(d)) => IInv'
<1> SUFFICES ASSUME IInv, NEW c \in WkThreads, WkRunPy(c) PROVE IInv'
    OBVIOUS
<1> DEFINE w == [wk[c] EXCEPT !.pc = "done", !.ran = TRUE]
<1>1. /\ wk[c] \in WkType /\ WkPart(c, wk[c], tl[Caller(c)], idem[c[1]])
      /\ wk[c].pc = "enter" /\ c[2] \in PyTeams
    BY WkFacts DEF WkRunPy
<1>2. wk' = [wk EXCEPT ![c] = w] /\ UNCHANGED <<lead, tl, inflight, idem>>
    BY Typed DEF WkRunPy
<1>3. w \in WkType /\ w.pc = "done" /\ w.ran
    BY <1>1 DEF WkType
<1> HIDE DEF w
<1>4. WkPart(c, w, tl[Caller(c)], idem[c[1]])
    BY <1>1, <1>3 DEF WkPart
<1>5. \A d \in WkThreads : wk'[d] = IF d = c THEN w ELSE wk[d]
    BY <1>2, Typed
<1>6. wk' \in [WkThreads -> WkType] /\ idem' \in [Requests -> IdemType]
    BY <1>2, <1>3, Typed
<1>7. \A d \in WkThreads : WkPart(d, wk'[d], tl[Caller(d)], idem'[d[1]])
    BY <1>2, <1>4, <1>5 DEF IInv
<1> QED BY <1>2, <1>6, <1>7, WkStepOK

\* A lost entry is known to have been lost.
LEMMA IdemExpireIInv == IInv /\ (\E r \in Requests : IdemExpire(r)) => IInv'
<1> SUFFICES ASSUME IInv, NEW r \in Requests, IdemExpire(r) PROVE IInv'
    OBVIOUS
<1> DEFINE m == [held |-> FALSE, expired |-> TRUE]
<1>1. idem' = [idem EXCEPT ![r] = m] /\ UNCHANGED <<lead, tl, wk, inflight>>
    BY DEF IdemExpire
<1>2. m \in IdemType /\ m.expired
    BY DEF IdemType
<1> HIDE DEF m
<1>3. \A d \in WkThreads : idem'[d[1]] = IF d[1] = r THEN m ELSE idem[d[1]]
    BY <1>1, Typed, ThreadNames
<1>4. wk' \in [WkThreads -> WkType] /\ idem' \in [Requests -> IdemType]
    BY <1>1, <1>2, Typed
<1>5. ASSUME NEW d \in WkThreads PROVE WkPart(d, wk'[d], tl[Caller(d)], idem'[d[1]])
    <2>1. WkPart(d, wk[d], tl[Caller(d)], idem[d[1]])
        BY DEF IInv
    <2>2. CASE d[1] = r
        <3>1. WkPart(d, wk[d], tl[Caller(d)], m)
            BY <2>1, <1>2 DEF WkPart
        <3> QED BY <2>2, <3>1, <1>1, <1>3
    <2>3. CASE d[1] # r
        BY <2>1, <2>3, <1>1, <1>3
    <2> QED BY <2>2, <2>3
<1> QED BY <1>1, <1>4, <1>5, WkStepOK

-----------------------------------------------------------------------------
(***************************************************************************)
(* The invariant and what follows from it                                  *)
(***************************************************************************)
\* Nothing has been called, counted or remembered.
LEMMA InitIInv == Init => IInv
<1> SUFFICES ASSUME Init PROVE IInv
    OBVIOUS
<1>1. NoAnswer \in Answers /\ NoAnswer.code = "NONE"
    BY AnswerTypes DEF NoAnswer, Codes
<1>2. ASSUME NEW r \in Requests
      PROVE  /\ lead[r] \in LeadType /\ lead[r].pc = "idle"
             /\ \A t \in Teams : lead[r].got[t] = NoAnswer
    BY <1>1, AttemptFacts DEF Init, LeadType, Teams
<1>3. ASSUME NEW c \in TlThreads
      PROVE  tl[c] \in TlType /\ tl[c].pc = "idle" /\ tl[c].ans.code = "NONE"
    BY <1>1, AttemptFacts DEF Init, TlType
<1>4. ASSUME NEW d \in WkThreads
      PROVE  wk[d] \in WkType /\ wk[d].pc = "idle" /\ ~wk[d].ran /\ ~wk[d].late
    BY DEF Init, WkType
<1>5. TypeOK
    <2>1. lead \in [Requests -> LeadType]
        <3>1. lead = [r \in Requests |-> lead[r]]
            BY DEF Init
        <3> QED BY <3>1, <1>2
    <2>2. tl \in [TlThreads -> TlType]
        <3>1. tl = [c \in TlThreads |-> tl[c]]
            BY DEF Init
        <3> QED BY <3>1, <1>3
    <2>3. wk \in [WkThreads -> WkType]
        <3>1. wk = [d \in WkThreads |-> wk[d]]
            BY DEF Init
        <3> QED BY <3>1, <1>4
    <2>4. inflight \in [Teams -> Nat] /\ idem \in [Requests -> IdemType]
        BY DEF Init, IdemType
    <2> QED BY <2>1, <2>2, <2>3, <2>4, Types
<1>6. \A r \in Requests : LeadPart(lead[r])
    BY <1>1, <1>2 DEF LeadPart, GotOK
<1>7. \A c \in TlThreads : TlPart(c, tl[c], lead[c[1]])
    BY <1>3 DEF TlPart
<1>8. \A d \in WkThreads : WkPart(d, wk[d], tl[Caller(d)], idem[d[1]])
    BY <1>4 DEF WkPart
<1>9. InflightInv
    <2>1. ASSUME NEW t \in Teams PROVE Counted(t) = {} /\ Admitted(t) = {}
        BY <1>3 DEF Counted, Admitted
    <2>2. Cardinality({}) = 0 /\ 0 <= MaxInflight
        BY FS_EmptySet, MaxAssumption
    <2>3. \A t \in Teams : inflight[t] = 0
        BY DEF Init
    <2> QED BY <2>1, <2>2, <2>3 DEF InflightInv
<1> QED BY <1>5, <1>6, <1>7, <1>8, <1>9 DEF IInv

\* A step that changes nothing.
LEMMA StutterIInv == IInv /\ UNCHANGED vars => IInv'
    BY DEF IInv, vars, TypeOK, InflightInv, Counted, Admitted

\* Every step keeps the invariant.
LEMMA NextIInv == IInv /\ [Next]_vars => IInv'
<1> SUFFICES ASSUME IInv, [Next]_vars PROVE IInv'
    OBVIOUS
<1>1. CASE \E r \in Requests : ClientSend(r)
    BY <1>1, ClientSendIInv
<1>2. CASE \E r \in Requests : LeadStep(r)
    BY <1>2, LeadCallIInv, LeadReturnIInv, LeadMergeIInv DEF LeadStep
<1>3. CASE \E r \in Requests : IdemExpire(r)
    BY <1>3, IdemExpireIInv
<1>4. CASE \E c \in TlThreads : TlStep(c)
    BY <1>4, TlEnterCppIInv, TlEnterPyIInv, TlRefuseIInv, TlRaiseIInv, TlCallIInv,
       TlReturnIInv, TlLeaveIInv DEF TlStep
<1>5. CASE \E d \in WkThreads : WkStep(d)
    BY <1>5, WkGetIInv, WkPutIInv, WkRunPyIInv DEF WkStep
<1>6. CASE UNCHANGED vars
    BY <1>6, StutterIInv
<1> QED BY <1>1, <1>2, <1>3, <1>4, <1>5, <1>6 DEF Next

\* The inductive invariant holds always.
LEMMA Invariance == Spec => []IInv
<1> QED BY InitIInv, NextIInv, PTL DEF Spec

\* The state of the nodes keeps its types.
THEOREM TypeCorrect == Spec => []TypeOK
<1>1. IInv => TypeOK
    BY DEF IInv
<1> QED BY <1>1, Invariance, PTL

\* No path through Handle at B or E loses a slot of inflight_ or returns one
\* twice, whatever A and the workers do meanwhile.
THEOREM InflightNeverLost == Spec => []InflightCounts
<1>1. IInv => InflightCounts
    BY DEF IInv, InflightInv, InflightCounts
<1> QED BY <1>1, Invariance, PTL

\* A team leader never serves more than max_inflight requests at a time.
THEOREM LimitHolds == Spec => []ServedWithinLimit
<1>1. IInv => ServedWithinLimit
    BY DEF IInv, InflightInv, ServedWithinLimit
<1> QED BY <1>1, Invariance, PTL

\* E refuses nobody when its pool is no larger than its max_inflight.
THEOREM PoolShieldsGuardAlways == Spec => []PoolShieldsGuard
<1>1. IInv => PoolShieldsGuard
    BY DEF IInv, TlPart, PoolShieldsGuard
<1> QED BY <1>1, Invariance, PTL

\* C works twice on a request it has answered only after it lost the entry.
THEOREM AnsweredNotRepeatedAlways == Spec => []AnsweredNotRepeated
<1>1. IInv => AnsweredNotRepeated
    BY DEF IInv, WkPart, AnsweredNotRepeated
<1> QED BY <1>1, Invariance, PTL

-----------------------------------------------------------------------------
(***************************************************************************)
(* What A's answer is made of                                              *)
(***************************************************************************)
\* A has come to the end of its calls to team t.
Heard(l, t) ==
    /\ t \in l.ask.target
    /\ \/ l.pc \in {"merge", "done"}
       \/ l.pc \in {"call", "await"} /\ t = "GREEN" /\ l.team = "PINK"

\* Of the threads s, an attempt of r at t has ended at the leader with answer a.
Sent(s, r, t, a) == \E i \in Attempts("A") :
    s[<<r, t, i>>].pc = "done" /\ s[<<r, t, i>>].ans = a

\* The answer of a thread at A that is done, from what it has got.
Assembled(l) ==
    LET part(t) == IF t \in Answering(l) THEN l.got[t].data ELSE <<>>
    IN  /\ l.ans.code = IF Answering(l) = {} THEN "UNAVAILABLE" ELSE "OK"
        /\ l.ans.data = part("GREEN") \o part("PINK")

TlEnded == \A c \in TlThreads : tl[c].pc \in {"leave", "done"} => tl[c].ans # NoAnswer

GotPart(s, l, r) ==
    /\ \A t \in Teams : l.got[t] # NoAnswer <=> Heard(l, t)
    /\ \A t \in Answering(l) : Sent(s, r, t, l.got[t])
    /\ l.pc = "done" => Assembled(l)

\* Inductive beside IInv: A holds the answers of attempts that have ended, of
\* the teams it has finished with.
GotInv == TlEnded /\ \A r \in Requests : GotPart(tl, lead[r], r)

\* Codes tell answers from no answer.
LEMMA AnswersDiffer ==
    /\ \A c \in Codes \ {"NONE"} : Fail(c) # NoAnswer
    /\ \A d \in Data : Result(d) # NoAnswer
    BY AnswerTypes DEF NoAnswer, Codes

\* What a thread of a team leader has sent it does not take back.
LEMMA DoneStays ==
    ASSUME IInv, [Next]_vars, NEW c \in TlThreads, tl[c].pc = "done"
    PROVE  tl'[c] = tl[c]
<1>1. ASSUME NEW e \in TlThreads, TlStep(e) PROVE tl'[c] = tl[c]
  <2>1. tl[e].pc # "done" /\ \E x : tl' = [tl EXCEPT ![e] = x]
    BY <1>1 DEF TlStep, TlEnterCpp, TlEnterPy, TlRefuse, TlRaise, TlCall, TlReturn,
                TlLeave, TlAt, TlReply, TlSet, TlOutcome
  <2> QED BY <2>1, Typed
<1>2. ASSUME NEW r \in Requests, LeadCall(r) PROVE tl'[c] = tl[c]
  <2>1. CASE UNCHANGED tl
    BY <2>1
  <2>2. CASE tl' = [tl EXCEPT ![TlOf(r)].pc = "enter"]
    <3>1. c = TlOf(r) => ~Called(lead[c[1]], c[2], c[3])
      <4>1. c = TlOf(r) => c[1] = r /\ c[2] = lead[r].team /\ c[3] = lead[r].att
        BY DEF TlOf
      <4>2. lead[r].pc = "call" /\ lead[r].att \in Nat
        BY <1>2, Typed, AttemptFacts DEF LeadCall, LeadType
      <4> QED BY <4>1, <4>2 DEF Called
    <3>2. Called(lead[c[1]], c[2], c[3])
      BY DEF IInv, TlPart
    <3> QED BY <2>2, <3>1, <3>2, Typed
  <2> QED BY <1>2, <2>1, <2>2 DEF LeadCall
<1>3. ASSUME NEW r \in Requests, ClientSend(r) \/ LeadReturn(r) \/ LeadMerge(r) \/ IdemExpire(r)
      PROVE  UNCHANGED tl
  BY <1>3 DEF ClientSend, LeadReturn, LeadMerge, IdemExpire
<1>4. ASSUME NEW d \in WkThreads, WkStep(d) PROVE UNCHANGED tl
  BY <1>4 DEF WkStep, WkGet, WkPut, WkRunPy
<1>5. CASE UNCHANGED vars
  BY <1>5 DEF vars
<1> QED BY <1>1, <1>2, <1>3, <1>4, <1>5 DEF Next, LeadStep

\* An answer once sent stays so.
LEMMA SentStays ==
    ASSUME IInv, [Next]_vars, NEW r \in Requests, NEW t \in Teams, NEW a, Sent(tl, r, t, a)
    PROVE  Sent(tl', r, t, a)
<1>1. PICK i \in Attempts("A") : tl[<<r, t, i>>].pc = "done" /\ tl[<<r, t, i>>].ans = a
    BY DEF Sent
<1>2. <<r, t, i>> \in TlThreads
    BY DEF TlThreads
<1>3. tl'[<<r, t, i>>] = tl[<<r, t, i>>]
    BY <1>1, <1>2, DoneStays
<1> QED BY <1>1, <1>3 DEF Sent

\* A thread of a team leader that leaves has its answer.
LEMMA TlEndedStep == ASSUME IInv, TlEnded, [Next]_vars PROVE TlEnded'
<1>1. ASSUME NEW c \in TlThreads, TlStep(c) PROVE TlEnded'
  <2> DEFINE x == tl'[c]
  <2>1. \A e \in TlThreads \ {c} : tl'[e] = tl[e]
    <3>1. \E y : tl' = [tl EXCEPT ![c] = y]
      BY <1>1 DEF TlStep, TlEnterCpp, TlEnterPy, TlRefuse, TlRaise, TlCall, TlReturn,
                  TlLeave, TlAt, TlReply, TlSet, TlOutcome
    <3> QED BY <3>1, Typed
  <2>2. tl[c] \in TlType /\ c[2] \in Teams
    BY TlFacts
  <2>3. \A k \in Codes \ {"NONE"} : Fail(k) # NoAnswer
    BY AnswersDiffer
  <2>4. ASSUME NEW a \in Answers, TlOutcome(c, a)
        PROVE  x.pc \in {"leave", "done"} => x.ans # NoAnswer
    <3>1. <<Leader[c[2]]>> \o a.data \in Data
      BY <2>2, <2>4, AnswerTypes DEF Leader, Data, Teams
    <3>2. CASE x = [tl[c] EXCEPT !.pc = "call", !.att = @ + 1]
      BY <2>2, <3>2 DEF TlType
    <3>3. CASE x = [tl[c] EXCEPT !.pc = "leave", !.ans = Result(<<Leader[c[2]]>> \o a.data)]
      BY <2>2, <3>1, <3>3, AnswersDiffer DEF TlType
    <3> QED BY <2>4, <3>2, <3>3, Typed DEF TlOutcome, TlSet
  <2>5. Fail("UNAVAILABLE") \in Answers /\ Result(<<Worker[c[2]]>>) \in Answers
    <3>1. <<Worker[c[2]]>> \in Data
      BY <2>2 DEF Worker, Data, Teams
    <3> QED BY <3>1, AnswerTypes DEF Codes
  <2>6. x.pc \in {"leave", "done"} => x.ans # NoAnswer
    <3>1. CASE TlEnterCpp(c)
      BY <2>2, <3>1, Typed DEF TlEnterCpp, TlAt, TlSet, TlType
    <3>2. CASE TlEnterPy(c)
      <4>1. x = [tl[c] EXCEPT !.pc = "call"]
              \/ x = [tl[c] EXCEPT !.pc = "done", !.ans = Fail("RESOURCE_EXHAUSTED")]
        BY <3>2, Typed DEF TlEnterPy, TlAt, TlReply, TlSet
      <4>2. Fail("RESOURCE_EXHAUSTED") # NoAnswer
        BY <2>3 DEF Codes
      <4> HIDE DEF x
      <4> QED BY <2>2, <4>1, <4>2 DEF TlType
    <3>3. CASE TlRefuse(c)
      BY <2>2, <2>3, <3>3, Typed DEF TlRefuse, TlReply, TlSet, TlType, Codes
    <3>4. CASE TlRaise(c)
      BY <2>2, <2>3, <3>4, Typed DEF TlRaise, TlSet, TlType, Codes
    <3>5. CASE TlCall(c)
      <4>1. CASE TlAt(c, "await")
        BY <2>2, <4>1, Typed DEF TlAt, TlSet, TlType
      <4> QED BY <2>4, <2>5, <3>5, <4>1 DEF TlCall
    <3>6. CASE TlReturn(c)
      BY <2>4, <2>5, <3>6 DEF TlReturn, GivenUp
    <3>7. CASE TlLeave(c)
      BY <2>2, <3>7, Typed DEF TlLeave, TlAt, TlSet, TlType, TlEnded
    <3> QED BY <1>1, <3>1, <3>2, <3>3, <3>4, <3>5, <3>6, <3>7 DEF TlStep
  <2> HIDE DEF x
  <2> QED BY <2>1, <2>6 DEF TlEnded, x
<1>2. ASSUME NEW r \in Requests, LeadCall(r) PROVE TlEnded'
  <2>1. CASE UNCHANGED tl
    BY <2>1 DEF TlEnded
  <2>2. CASE tl' = [tl EXCEPT ![TlOf(r)].pc = "enter"]
    <3>1. ASSUME NEW c \in TlThreads
          PROVE  tl'[c] = tl[c] \/ tl'[c].pc = "enter"
      BY <2>2, Typed DEF TlType
    <3> QED BY <3>1 DEF TlEnded
  <2> QED BY <1>2, <2>1, <2>2 DEF LeadCall
<1>3. ASSUME NEW r \in Requests, ClientSend(r) \/ LeadReturn(r) \/ LeadMerge(r) \/ IdemExpire(r)
      PROVE  UNCHANGED tl
  BY <1>3 DEF ClientSend, LeadReturn, LeadMerge, IdemExpire
<1>4. ASSUME NEW d \in WkThreads, WkStep(d) PROVE UNCHANGED tl
  BY <1>4 DEF WkStep, WkGet, WkPut, WkRunPy
<1>5. UNCHANGED vars => UNCHANGED tl
  BY DEF vars
<1>6. CASE UNCHANGED tl
  BY <1>6 DEF TlEnded
<1> QED BY <1>1, <1>2, <1>3, <1>4, <1>5, <1>6 DEF Next, LeadStep

\* Whatever A does not do leaves what it holds as it was.
LEMMA GotKept ==
    ASSUME IInv, [Next]_vars, NEW r \in Requests, GotPart(tl, lead[r], r),
           lead'[r] = lead[r]
    PROVE  GotPart(tl', lead'[r], r)
<1>1. \A t \in Answering(lead[r]) : Sent(tl', r, t, lead[r].got[t])
    BY SentStays DEF GotPart, Answering
<1> QED BY <1>1 DEF GotPart, Heard, Assembled, Answering

\* The outcome of an attempt: what is taken has been sent.
LEMMA OutcomeGot ==
    ASSUME IInv, [Next]_vars, NEW r \in Requests, GotPart(tl, lead[r], r),
           lead[r].pc \in {"call", "await"}, NEW a \in Answers, LeadOutcome(r, a),
           a # NoAnswer, a.code = "OK" => Sent(tl, r, lead[r].team, a)
    PROVE  GotPart(tl', lead'[r], r)
<1> DEFINE l == lead[r]
           u == lead'[r]
<1>1. l \in LeadType /\ l.team \in Teams /\ l.team \in l.ask.target /\ l.pc # "done"
    BY Typed DEF IInv, LeadType, LeadPart
<1>2. CASE u = [l EXCEPT !.pc = "call", !.att = @ + 1]
  <2>1. u.pc = "call" /\ u.got = l.got /\ u.ask = l.ask /\ u.team = l.team
    BY <1>1, <1>2 DEF LeadType
  <2> HIDE DEF u
  <2>2. \A t \in Answering(l) : Sent(tl', r, t, l.got[t])
    BY SentStays DEF GotPart, Answering
  <2>3. Answering(u) = Answering(l) /\ \A t \in Teams : Heard(u, t) <=> Heard(l, t)
    BY <2>1 DEF Answering, Heard
  <2>4. \A t \in Teams : u.got[t] # NoAnswer <=> Heard(u, t)
    BY <2>1, <2>3 DEF GotPart
  <2> QED BY <2>1, <2>2, <2>3, <2>4 DEF GotPart, u, Answering, Heard
<1>3. CASE u = After([l EXCEPT !.got[l.team] = a])
  <2> DEFINE g == [l EXCEPT !.got[l.team] = a]
             last == ~(l.team = "GREEN" /\ "PINK" \in l.ask.target)
  <2>1. /\ g.ask = l.ask /\ g.team = l.team
        /\ \A t \in Teams : g.got[t] = IF t = l.team THEN a ELSE l.got[t]
    BY <1>1 DEF LeadType
  <2>2. /\ u.got = g.got /\ u.ask = l.ask
        /\ last => u.pc = "merge"
        /\ ~last => u.pc = "call" /\ u.team = "PINK"
    <3>1. g \in LeadType
      BY <1>1 DEF LeadType
    <3>2. CASE last
      BY <1>3, <2>1, <3>1, <3>2 DEF After, LeadType
    <3>3. CASE ~last
      BY <1>3, <2>1, <3>1, <3>3 DEF After, ToTeam, LeadType
    <3> QED BY <3>2, <3>3
  <2>3. \A t \in Teams : u.got[t] = IF t = l.team THEN a ELSE l.got[t]
    BY <2>1, <2>2
  <2> HIDE DEF u, g
  <2>4. \A t \in Teams : u.got[t] # NoAnswer <=> Heard(u, t)
    <3>1. \A t \in Teams : l.got[t] # NoAnswer <=> Heard(l, t)
      BY DEF GotPart
    <3> QED BY <1>1, <2>2, <2>3, <3>1 DEF Heard, Teams
  <2>5. ASSUME NEW t \in Teams, u.got[t].code = "OK" PROVE Sent(tl', r, t, u.got[t])
    <3>1. Sent(tl, r, t, u.got[t])
      BY <1>1, <2>3, <2>5 DEF GotPart, Answering
    <3> QED BY <3>1, SentStays DEF u
  <2>6. u.pc # "done"
    BY <2>2
  <2> QED BY <2>4, <2>5, <2>6 DEF GotPart, u, Answering, Heard
<1> QED BY <1>2, <1>3, Typed DEF LeadOutcome, LeadSet

\* A step of A's thread.
LEMMA LeadGot ==
    ASSUME IInv, GotInv, [Next]_vars, NEW r \in Requests, ClientSend(r) \/ LeadStep(r)
    PROVE  GotPart(tl', lead'[r], r)
<1> DEFINE l == lead[r]
           u == lead'[r]
<1>1. l \in LeadType /\ GotPart(tl, l, r)
    BY Typed DEF GotInv
<1>2. CASE ClientSend(r)
  <2>1. l.pc = "idle" /\ u = Start(l)
    BY <1>2, Typed DEF ClientSend, LeadSet
  <2>2. /\ u.got = l.got /\ u.ask = l.ask
        /\ \/ u.pc = "call" /\ u.team = "GREEN"
           \/ u.pc = "call" /\ u.team = "PINK" /\ "GREEN" \notin l.ask.target
           \/ u.pc = "merge" /\ l.ask.target \cap Teams = {}
    BY <1>1, <2>1 DEF Start, ToTeam, LeadType, Teams
  <2> HIDE DEF u
  <2>3. \A t \in Teams : ~Heard(l, t) /\ ~Heard(u, t)
    BY <2>1, <2>2 DEF Heard, Teams
  <2>4. \A t \in Teams : u.got[t] = NoAnswer
    BY <1>1, <2>2, <2>3 DEF GotPart
  <2>5. Answering(u) = {} /\ u.pc # "done"
    BY <2>2, <2>4, AnswerTypes DEF Answering, NoAnswer, Codes
  <2> QED BY <2>3, <2>4, <2>5 DEF GotPart, u, Answering, Heard
<1>3. CASE LeadCall(r)
  <2>1. CASE LeadOutcome(r, Fail("UNAVAILABLE"))
    BY <1>1, <1>3, <2>1, OutcomeGot, AnswerTypes, AnswersDiffer DEF LeadCall, Codes
  <2>2. CASE LeadSet(r, [l EXCEPT !.pc = "await"])
    <3>1. u.pc = "await" /\ u.got = l.got /\ u.ask = l.ask /\ u.team = l.team /\ l.pc = "call"
      BY <1>1, <1>3, <2>2, Typed DEF LeadSet, LeadType, LeadCall
    <3> HIDE DEF u
    <3>2. \A t \in Answering(l) : Sent(tl', r, t, l.got[t])
      BY <1>1, SentStays DEF GotPart, Answering
    <3>3. Answering(u) = Answering(l) /\ \A t \in Teams : Heard(u, t) <=> Heard(l, t)
      BY <3>1 DEF Answering, Heard
    <3>4. \A t \in Teams : u.got[t] # NoAnswer <=> Heard(u, t)
      BY <1>1, <3>1, <3>3 DEF GotPart
    <3> QED BY <3>1, <3>2, <3>3, <3>4 DEF GotPart, u, Answering, Heard
  <2> QED BY <1>3, <2>1, <2>2 DEF LeadCall
<1>4. CASE LeadReturn(r)
  <2> DEFINE c == TlOf(r)
  <2>1. PICK a \in GivenUp \cup (IF tl[c].pc = "done" THEN {tl[c].ans} ELSE {}) :
             LeadOutcome(r, a)
    BY <1>4 DEF LeadReturn
  <2>2. l.pc = "await" /\ l.team \in Teams /\ l.att \in Attempts("A")
    BY <1>1, <1>4 DEF LeadReturn, LeadType
  <2>3. CASE a \in GivenUp
    BY <1>1, <2>1, <2>2, <2>3, OutcomeGot, AnswerTypes, AnswersDiffer DEF GivenUp, Codes
  <2>4. CASE a = tl[c].ans /\ tl[c].pc = "done"
    <3>1. c \in TlThreads /\ c = <<r, l.team, l.att>>
      BY <2>2 DEF TlOf, TlThreads
    <3>2. Sent(tl, r, l.team, a)
      BY <2>2, <2>4, <3>1 DEF Sent
    <3>3. a \in Answers /\ a # NoAnswer
      BY <2>4, <3>1, Typed DEF TlType, GotInv, TlEnded
    <3> QED BY <1>1, <2>1, <2>2, <3>2, <3>3, OutcomeGot
  <2> QED BY <2>1, <2>3, <2>4
<1>5. CASE LeadMerge(r)
  <2> DEFINE ok(t) == l.got[t].code = "OK"
             part(t) == IF t \in Answering(l) THEN l.got[t].data ELSE <<>>
             d == part("GREEN") \o part("PINK")
             a == IF \E t \in Teams : ok(t) THEN Result(d) ELSE Fail("UNAVAILABLE")
  <2>1. l.pc = "merge" /\ u = [l EXCEPT !.pc = "done", !.ans = a]
    BY <1>5, Typed DEF LeadMerge, LeadSet, Answering, Teams
  <2>2. u.pc = "done" /\ u.got = l.got /\ u.ask = l.ask /\ u.ans = a
    BY <1>1, <2>1 DEF LeadType
  <2> HIDE DEF u
  <2>3. \A t \in Answering(l) : Sent(tl', r, t, l.got[t])
    BY <1>1, SentStays DEF GotPart, Answering
  <2>4. Answering(u) = Answering(l) /\ \A t \in Teams : Heard(u, t) <=> Heard(l, t)
    BY <2>1, <2>2 DEF Answering, Heard
  <2>5. Assembled(u)
    <3>1. CASE Answering(l) = {}
      <4>1. a = Fail("UNAVAILABLE")
        BY <3>1 DEF Answering
      <4>2. a.code = "UNAVAILABLE" /\ a.data = <<>> /\ d = <<>>
        BY <3>1, <4>1, AnswerTypes DEF Codes
      <4> HIDE DEF a
      <4> QED BY <2>2, <2>4, <3>1, <4>2 DEF Assembled
    <3>2. CASE Answering(l) # {}
      <4>1. a = Result(d)
        BY <3>2 DEF Answering
      <4> HIDE DEF a, d
      <4>2. a.code = "OK" /\ a.data = d
        BY <4>1 DEF Result
      <4> USE DEF d
      <4> QED BY <2>2, <2>4, <3>2, <4>2 DEF Assembled
    <3> QED BY <3>1, <3>2
  <2>6. \A t \in Teams : u.got[t] # NoAnswer <=> Heard(u, t)
    BY <1>1, <2>2, <2>4 DEF GotPart
  <2> HIDE DEF a, d
  <2> QED BY <2>2, <2>3, <2>4, <2>5, <2>6 DEF GotPart, u, Answering, Heard, Assembled
<1> QED BY <1>2, <1>3, <1>4, <1>5 DEF LeadStep

\* A step of A's thread of one request leaves the other requests alone.
LEMMA NextGot == IInv /\ GotInv /\ [Next]_vars => GotInv'
<1> SUFFICES ASSUME IInv, GotInv, [Next]_vars PROVE GotInv'
    OBVIOUS
<1>1. TlEnded'
    BY TlEndedStep DEF GotInv
<1>2. ASSUME NEW r \in Requests PROVE GotPart(tl', lead'[r], r)
  <2>1. CASE ClientSend(r) \/ LeadStep(r)
    BY <2>1, LeadGot
  <2>2. CASE lead'[r] = lead[r]
    BY <2>2, GotKept DEF GotInv
  <2>3. ASSUME NEW q \in Requests, ClientSend(q) \/ LeadStep(q), q # r
        PROVE  lead'[r] = lead[r]
    BY <2>3, Typed DEF ClientSend, LeadStep, LeadCall, LeadReturn, LeadMerge,
                       LeadOutcome, LeadSet
  <2>4. ASSUME NEW q \in Requests, IdemExpire(q) PROVE UNCHANGED lead
    BY <2>4 DEF IdemExpire
  <2>5. ASSUME NEW c \in TlThreads, TlStep(c) PROVE UNCHANGED lead
    BY <2>5 DEF TlStep, TlEnterCpp, TlEnterPy, TlRefuse, TlRaise, TlCall, TlReturn, TlLeave
  <2>6. ASSUME NEW d \in WkThreads, WkStep(d) PROVE UNCHANGED lead
    BY <2>6 DEF WkStep, WkGet, WkPut, WkRunPy
  <2>7. CASE UNCHANGED vars
    BY <2>2, <2>7 DEF vars
  <2> QED BY <2>1, <2>2, <2>3, <2>4, <2>5, <2>6, <2>7 DEF Next
<1> QED BY <1>1, <1>2 DEF GotInv

\* Nobody has answered.
LEMMA InitGot == Init => GotInv
<1> SUFFICES ASSUME Init PROVE GotInv
    OBVIOUS
<1>1. \A r \in Requests : lead[r].pc = "idle" /\ \A t \in Teams : lead[r].got[t] = NoAnswer
    BY DEF Init
<1>2. TlEnded
    BY DEF Init, TlEnded
<1>3. \A r \in Requests : Answering(lead[r]) = {}
    BY <1>1, AnswerTypes DEF Answering, NoAnswer, Codes
<1> QED BY <1>1, <1>2, <1>3 DEF GotInv, GotPart, Heard

\* A has heard of every asked team; it answers OK exactly when one of them
\* answered, with the whole contributions of finished attempts at those that
\* did, GREEN's first.
THEOREM AnswerMadeOfTeamsAlways == Spec => []AnswerMadeOfTeams
<1>1. IInv /\ GotInv => AnswerMadeOfTeams
  <2> SUFFICES ASSUME IInv, GotInv, NEW r \in Requests, lead[r].pc = "done"
               PROVE  LET l == lead[r]
                          part(t) == IF t \in Answering(l) THEN l.got[t].data ELSE <<>>
                      IN  /\ {t \in Teams : l.got[t] # NoAnswer} = l.ask.target
                          /\ l.ans.code = IF Answering(l) = {} THEN "UNAVAILABLE" ELSE "OK"
                          /\ l.ans.data = part("GREEN") \o part("PINK")
                          /\ \A t \in Answering(l) :
                               /\ ~(t \in PyTeams /\ l.ask.payload)
                               /\ l.got[t].data \in Parts(t)
                               /\ \E i \in Attempts("A") : LET x == tl[<<r, t, i>>] IN
                                    x.pc = "done" /\ x.ans = l.got[t]
      BY DEF AnswerMadeOfTeams
  <2> DEFINE l == lead[r]
  <2>1. l \in LeadType /\ LeadPart(l) /\ GotPart(tl, l, r)
      BY Typed DEF IInv, GotInv
  <2>2. l.ask.target \subseteq Teams
      BY <2>1, AsksAssumption DEF LeadType
  <2>3. {t \in Teams : l.got[t] # NoAnswer} = l.ask.target
      BY <2>1, <2>2 DEF GotPart, Heard
  <2>4. Assembled(l)
      BY <2>1 DEF GotPart
  <2>5. \A t \in Answering(l) : ~(t \in PyTeams /\ l.ask.payload) /\ l.got[t].data \in Parts(t)
      BY <2>1 DEF LeadPart, GotOK, Barred, Answering
  <2>6. \A t \in Answering(l) : Sent(tl, r, t, l.got[t])
      BY <2>1 DEF GotPart
  <2> HIDE DEF l
  <2> QED BY <2>3, <2>4, <2>5, <2>6 DEF Assembled, Sent, l
<1> QED BY <1>1, Invariance, InitIInv, NextIInv, InitGot, NextGot, PTL DEF Spec

-----------------------------------------------------------------------------
(***************************************************************************)
(* Progress of A's threads and of the team leaders'                        *)
(***************************************************************************)
\* How many steps a thread has left at most: an attempt takes two, the call
\* and its outcome; A asks GREEN before PINK.
RankOf(l) ==
    LET after == IF l.team = "GREEN" THEN 2 * MaxRetries["A"] + 4 ELSE 1
        tries == 2 * (MaxRetries["A"] - l.att)
    IN  CASE l.pc = "idle"  -> 4 * MaxRetries["A"] + 7
          [] l.pc = "call"  -> after + tries + 2
          [] l.pc = "await" -> after + tries + 1
          [] l.pc = "merge" -> 1
          [] OTHER          -> 0

TlRankOf(x) ==
    LET tries == 2 * (MaxRetries["B"] - x.att)
    IN  CASE x.pc = "idle"  -> 2 * MaxRetries["B"] + 5
          [] x.pc = "enter" -> 2 * MaxRetries["B"] + 4
          [] x.pc = "call"  -> tries + 3
          [] x.pc = "await" -> tries + 2
          [] x.pc \in {"over", "leave"} -> 1
          [] OTHER          -> 0

RanksBounded ==
    /\ \A r \in Requests : RankOf(lead[r]) \in 0 .. 4 * MaxRetries["A"] + 7
    /\ \A c \in TlThreads : TlRankOf(tl[c]) \in 0 .. 2 * MaxRetries["B"] + 5

\* The safety half of Answered and of SlotsReturned: no step of a thread is
\* one in vain, no other step gives it more to do.
Progress ==
    [][/\ \A r \in Requests :
            /\ LeadStep(r) => RankOf(lead'[r]) < RankOf(lead[r])
            /\ RankOf(lead'[r]) <= RankOf(lead[r])
       /\ \A c \in TlThreads :
            /\ TlStep(c) => TlRankOf(tl'[c]) < TlRankOf(tl[c])
            /\ TlRankOf(tl'[c]) <= TlRankOf(tl[c])]_vars

\* The ranks are bounded.
LEMMA RankTypes ==
    /\ \A l \in LeadType : RankOf(l) \in 0 .. 4 * MaxRetries["A"] + 7
    /\ \A x \in TlType : TlRankOf(x) \in 0 .. 2 * MaxRetries["B"] + 5
<1>1. ASSUME NEW l \in LeadType PROVE RankOf(l) \in 0 .. 4 * MaxRetries["A"] + 7
  <2>1. /\ l.att \in 0 .. MaxRetries["A"] /\ MaxRetries["A"] \in Nat
        /\ l.pc \in {"idle", "call", "await", "merge", "done"}
    BY AttemptFacts DEF LeadType
  <2> QED BY <2>1 DEF RankOf
<1>2. ASSUME NEW x \in TlType PROVE TlRankOf(x) \in 0 .. 2 * MaxRetries["B"] + 5
  <2>1. /\ x.att \in 0 .. MaxRetries["B"] /\ MaxRetries["B"] \in Nat
        /\ x.pc \in {"idle", "enter", "over", "call", "await", "leave", "done"}
    BY AttemptFacts DEF TlType
  <2> QED BY <2>1 DEF TlRankOf
<1> QED BY <1>1, <1>2

\* Each retry has one attempt less before it, and the end of a call leaves one
\* team less.
LEMMA OutcomeRank ==
    ASSUME IInv, NEW r \in Requests, lead[r].pc \in {"call", "await"}, NEW a,
           LeadOutcome(r, a)
    PROVE  \E l : LeadSet(r, l) /\ RankOf(l) < RankOf(lead[r])
<1> DEFINE l == lead[r]
           g == [l EXCEPT !.got[l.team] = a]
<1>1. /\ l \in LeadType /\ MaxRetries["A"] \in Nat /\ l.att \in 0 .. MaxRetries["A"]
      /\ l.pc \in {"call", "await"} /\ l.team \in Teams
    BY Typed, AttemptFacts DEF LeadType
<1>2. CASE Retriable(a) /\ l.att < MaxRetries["A"]
  <2> DEFINE k == [l EXCEPT !.pc = "call", !.att = @ + 1]
  <2>1. LeadSet(r, k)
    BY <1>2 DEF LeadOutcome
  <2>2. k.pc = "call" /\ k.att = l.att + 1 /\ k.team = l.team
    BY <1>1 DEF LeadType
  <2>3. RankOf(k) < RankOf(l)
    <3> HIDE DEF k, l
    <3> QED BY <1>1, <1>2, <2>2 DEF RankOf
  <2> QED BY <2>1, <2>3
<1>3. CASE ~(Retriable(a) /\ l.att < MaxRetries["A"])
  <2>1. LeadSet(r, After(g))
    BY <1>3 DEF LeadOutcome
  <2>2. g.pc = l.pc /\ g.team = l.team /\ g.att = l.att /\ g.ask = l.ask
        /\ g = [g EXCEPT !.att = l.att]
    BY <1>1 DEF LeadType
  <2> DEFINE k1 == [g EXCEPT !.pc = "call", !.team = "PINK", !.att = 0]
             k2 == [g EXCEPT !.pc = "merge"]
  <2>3. k1.pc = "call" /\ k1.team = "PINK" /\ k1.att = 0 /\ k2.pc = "merge"
    BY <1>1 DEF LeadType
  <2>4. (After(g) = k1 /\ g.team = "GREEN") \/ After(g) = k2
    BY DEF After, ToTeam
  <2> HIDE DEF k1, k2, g, l
  <2>5. g.team = "GREEN" => RankOf(k1) < RankOf(l)
    BY <1>1, <2>2, <2>3 DEF RankOf
  <2>6. RankOf(k2) < RankOf(l)
    BY <1>1, <2>3 DEF RankOf
  <2>7. RankOf(After(g)) < RankOf(l)
    BY <2>4, <2>5, <2>6
  <2> QED BY <2>1, <2>7 DEF l
<1> QED BY <1>2, <1>3

\* Every step of a thread of A lowers its rank, and touches no other of A's.
LEMMA LeadRank ==
    ASSUME IInv, NEW r \in Requests, LeadStep(r) \/ ClientSend(r)
    PROVE  \E l : LeadSet(r, l) /\ RankOf(l) < RankOf(lead[r])
<1> DEFINE l == lead[r]
<1>1. /\ l \in LeadType /\ MaxRetries["A"] \in Nat /\ l.att \in 0 .. MaxRetries["A"]
      /\ l.team \in Teams
    BY Typed, AttemptFacts DEF LeadType
<1>2. CASE LeadCall(r)
  <2>1. CASE \E a : LeadOutcome(r, a)
    BY <1>2, <2>1, OutcomeRank DEF LeadCall
  <2>2. CASE LeadSet(r, [l EXCEPT !.pc = "await"])
    <3> DEFINE k == [l EXCEPT !.pc = "await"]
    <3>1. k.pc = "await" /\ k.att = l.att /\ k.team = l.team /\ l.pc = "call"
      BY <1>1, <1>2 DEF LeadType, LeadCall
    <3>2. RankOf(k) < RankOf(l)
      <4> HIDE DEF k, l
      <4> QED BY <1>1, <3>1 DEF RankOf
    <3> QED BY <2>2, <3>2
  <2> QED BY <1>2, <2>1, <2>2 DEF LeadCall
<1>3. CASE LeadReturn(r)
    BY <1>3, OutcomeRank DEF LeadReturn
<1>4. CASE LeadMerge(r)
  <2>1. PICK a : LeadSet(r, [l EXCEPT !.pc = "done", !.ans = a]) /\ l.pc = "merge"
    BY <1>4 DEF LeadMerge
  <2> DEFINE k == [l EXCEPT !.pc = "done", !.ans = a]
  <2>2. k.pc = "done"
    BY <1>1 DEF LeadType
  <2>3. RankOf(k) < RankOf(l)
    <3> HIDE DEF k, l
    <3> QED BY <2>1, <2>2 DEF RankOf
  <2> QED BY <2>1, <2>3
<1>5. CASE ClientSend(r)
  <2>1. LeadSet(r, Start(l)) /\ l.pc = "idle"
    BY <1>5 DEF ClientSend
  <2> DEFINE k(t) == [l EXCEPT !.pc = "call", !.team = t, !.att = 0]
             m == [l EXCEPT !.pc = "merge"]
  <2>2. (\E t \in Teams : Start(l) = k(t)) \/ Start(l) = m
    BY DEF Start, ToTeam, Teams
  <2>3. m.pc = "merge" /\ \A t \in Teams : k(t).pc = "call" /\ k(t).team = t /\ k(t).att = 0
    BY <1>1 DEF LeadType
  <2> HIDE DEF k, m, l
  <2>4. RankOf(Start(l)) < RankOf(l)
    <3>1. CASE Start(l) = m
      BY <1>1, <2>1, <2>3, <3>1 DEF RankOf
    <3>2. ASSUME NEW t \in Teams, Start(l) = k(t) PROVE RankOf(Start(l)) < RankOf(l)
      BY <1>1, <2>1, <2>3, <3>2 DEF RankOf
    <3> QED BY <2>2, <3>1, <3>2
  <2> QED BY <2>1, <2>4 DEF l
<1> QED BY <1>2, <1>3, <1>4, <1>5 DEF LeadStep

\* The same of a thread of a team leader.
LEMMA TlStepRank ==
    ASSUME IInv, NEW c \in TlThreads, TlStep(c)
    PROVE  \E x : TlSet(c, x) /\ TlRankOf(x) < TlRankOf(tl[c])
<1> DEFINE x == tl[c]
           M == MaxRetries["B"]
<1>1. x \in TlType /\ M \in Nat /\ x.att \in 0 .. M
    BY Typed, AttemptFacts DEF TlType
<1>2. ASSUME NEW pc, TlAt(c, pc),
             \/ x.pc = "enter" /\ pc \in {"over", "call"}
             \/ x.pc = "call" /\ pc = "await"
             \/ x.pc = "leave" /\ pc = "done"
      PROVE  \E k : TlSet(c, k) /\ TlRankOf(k) < TlRankOf(x)
  <2> DEFINE k == [x EXCEPT !.pc = pc]
  <2>1. k.pc = pc /\ k.att = x.att
    BY <1>1 DEF TlType
  <2>2. TlSet(c, k)
    BY <1>2 DEF TlAt
  <2>3. TlRankOf(k) < TlRankOf(x)
    <3> HIDE DEF k, x
    <3> QED BY <1>1, <1>2, <2>1 DEF TlRankOf
  <2> QED BY <2>2, <2>3
<1>3. ASSUME NEW pc \in {"done", "leave"}, NEW a,
             TlSet(c, [x EXCEPT !.pc = pc, !.ans = a]),
             x.pc \in {"enter", "over", "call", "await"},
             pc = "leave" => x.pc # "over"
      PROVE  \E k : TlSet(c, k) /\ TlRankOf(k) < TlRankOf(x)
  <2> DEFINE k == [x EXCEPT !.pc = pc, !.ans = a]
  <2>1. k.pc = pc
    BY <1>1 DEF TlType
  <2>2. TlRankOf(k) < TlRankOf(x)
    <3> HIDE DEF k, x
    <3> QED BY <1>1, <1>3, <2>1 DEF TlRankOf
  <2> QED BY <1>3, <2>2
<1>4. ASSUME NEW a, TlOutcome(c, a), x.pc \in {"call", "await"}
      PROVE  \E k : TlSet(c, k) /\ TlRankOf(k) < TlRankOf(x)
  <2>1. CASE Retriable(a) /\ c[2] \notin PyTeams /\ x.att < M
    <3> DEFINE k == [x EXCEPT !.pc = "call", !.att = @ + 1]
    <3>1. k.pc = "call" /\ k.att = x.att + 1
      BY <1>1 DEF TlType
    <3>2. TlSet(c, k)
      BY <1>4, <2>1 DEF TlOutcome
    <3>3. TlRankOf(k) < TlRankOf(x)
      <4> HIDE DEF k, x, M
      <4>1. M = MaxRetries["B"]
        BY DEF M
      <4> QED BY <1>1, <1>4, <2>1, <3>1, <4>1 DEF TlRankOf
    <3> QED BY <3>2, <3>3
  <2>2. CASE ~(Retriable(a) /\ c[2] \notin PyTeams /\ x.att < M)
    <3>1. TlSet(c, [x EXCEPT !.pc = "leave", !.ans = Result(<<Leader[c[2]]>> \o a.data)])
      BY <1>4, <2>2 DEF TlOutcome
    <3> QED BY <1>3, <1>4, <3>1
  <2> QED BY <2>1, <2>2
<1>5. CASE TlEnterCpp(c)
    BY <1>2, <1>5 DEF TlEnterCpp
<1>6. CASE TlEnterPy(c)
    BY <1>2, <1>3, <1>6 DEF TlEnterPy, TlReply
<1>7. CASE TlRefuse(c)
    BY <1>3, <1>7 DEF TlRefuse, TlReply
<1>8. CASE TlRaise(c)
    BY <1>3, <1>8 DEF TlRaise
<1>9. CASE TlCall(c)
    BY <1>2, <1>4, <1>9 DEF TlCall
<1>10. CASE TlReturn(c)
    BY <1>4, <1>10 DEF TlReturn
<1>11. CASE TlLeave(c)
    BY <1>2, <1>11 DEF TlLeave
<1> QED BY <1>5, <1>6, <1>7, <1>8, <1>9, <1>10, <1>11 DEF TlStep

\* A calls only threads that have not run.
LEMMA CalledRank ==
    ASSUME IInv, NEW r \in Requests, LeadStep(r) \/ ClientSend(r), NEW c \in TlThreads
    PROVE  TlRankOf(tl'[c]) <= TlRankOf(tl[c])
<1>1. \A b \in TlThreads : tl[b] \in TlType /\ TlRankOf(tl[b]) \in Int
  <2>1. \A b \in TlThreads : tl[b] \in TlType
    BY Typed
  <2> QED BY <2>1, RankTypes, AttemptFacts
<1>2. CASE UNCHANGED tl
    BY <1>1, <1>2
<1>3. CASE lead[r].pc = "call" /\ tl' = [tl EXCEPT ![TlOf(r)].pc = "enter"]
  <2> DEFINE l == lead[r]
             b == TlOf(r)
             k == [tl[b] EXCEPT !.pc = "enter"]
  <2>1. /\ b \in TlThreads /\ b[1] = r /\ b[2] = l.team /\ b[3] = l.att
        /\ l.att \in Nat
    BY Typed, AttemptFacts DEF TlOf, TlThreads, LeadType
  <2>2. tl[b].pc = "idle"
    BY <1>3, <2>1, TlFacts DEF TlPart, Called
  <2>3. k.pc = "enter"
    BY <1>1, <2>1 DEF TlType
  <2>4. tl'[c] = IF c = b THEN k ELSE tl[c]
    BY <1>3, <2>1, Typed
  <2> HIDE DEF k, b
  <2>5. TlRankOf(k) \in Int /\ TlRankOf(k) <= TlRankOf(tl[b])
    BY <2>2, <2>3, AttemptFacts DEF TlRankOf
  <2> QED BY <1>1, <2>4, <2>5
<1>4. UNCHANGED tl \/ (lead[r].pc = "call" /\ tl' = [tl EXCEPT ![TlOf(r)].pc = "enter"])
    BY DEF LeadStep, ClientSend, LeadCall, LeadReturn, LeadMerge
<1> QED BY <1>2, <1>3, <1>4

\* What Answered and SlotsReturned need beside fairness: every thread of A and
\* of a team leader has a bounded number of steps to do, retries included,
\* whatever the others, the network and the workers do.
THEOREM RequestsProgress == Spec => []RanksBounded /\ Progress
<1>1. IInv => RanksBounded
    BY Typed, RankTypes DEF RanksBounded
<1>2. ASSUME IInv, [Next]_vars
      PROVE  /\ \A r \in Requests :
                  /\ LeadStep(r) => RankOf(lead'[r]) < RankOf(lead[r])
                  /\ RankOf(lead'[r]) <= RankOf(lead[r])
             /\ \A c \in TlThreads :
                  /\ TlStep(c) => TlRankOf(tl'[c]) < TlRankOf(tl[c])
                  /\ TlRankOf(tl'[c]) <= TlRankOf(tl[c])
  <2>1. /\ \A r \in Requests : RankOf(lead[r]) \in Int /\ RankOf(lead'[r]) \in Int
        /\ \A c \in TlThreads : TlRankOf(tl[c]) \in Int /\ TlRankOf(tl'[c]) \in Int
    <3>1. /\ \A r \in Requests : lead[r] \in LeadType
          /\ \A c \in TlThreads : tl[c] \in TlType
      BY <1>2, Typed
    <3>2. IInv'
      BY <1>2, NextIInv
    <3>3. /\ \A r \in Requests : lead'[r] \in LeadType
          /\ \A c \in TlThreads : tl'[c] \in TlType
      BY <3>2 DEF IInv, TypeOK, LeadType, TlType
    <3> QED BY <3>1, <3>3, RankTypes, AttemptFacts
  <2>2. ASSUME NEW r \in Requests, LeadStep(r) \/ ClientSend(r)
        PROVE  /\ RankOf(lead'[r]) < RankOf(lead[r])
               /\ \A q \in Requests : RankOf(lead'[q]) < RankOf(lead[q]) \/ lead'[q] = lead[q]
    <3>1. PICK l : LeadSet(r, l) /\ RankOf(l) < RankOf(lead[r])
      BY <1>2, <2>2, LeadRank
    <3>2. \A q \in Requests : lead'[q] = IF q = r THEN l ELSE lead[q]
      BY <1>2, <3>1, Typed DEF LeadSet
    <3> QED BY <3>1, <3>2
  <2>3. ASSUME NEW c \in TlThreads, TlStep(c)
        PROVE  /\ TlRankOf(tl'[c]) < TlRankOf(tl[c])
               /\ \A b \in TlThreads : TlRankOf(tl'[b]) < TlRankOf(tl[b]) \/ tl'[b] = tl[b]
    <3>1. PICK x : TlSet(c, x) /\ TlRankOf(x) < TlRankOf(tl[c])
      BY <1>2, <2>3, TlStepRank
    <3>2. \A b \in TlThreads : tl'[b] = IF b = c THEN x ELSE tl[b]
      BY <1>2, <3>1, Typed DEF TlSet
    <3> QED BY <3>1, <3>2
  <2>4. ASSUME NEW c \in TlThreads, TlStep(c) PROVE UNCHANGED lead
    BY <2>4 DEF TlStep, TlEnterCpp, TlEnterPy, TlRefuse, TlRaise, TlCall, TlReturn, TlLeave
  <2>5. ASSUME \/ \E r \in Requests : IdemExpire(r)
               \/ \E d \in WkThreads : WkStep(d)
               \/ UNCHANGED vars
        PROVE  UNCHANGED <<lead, tl>>
    BY <2>5 DEF IdemExpire, WkStep, WkGet, WkPut, WkRunPy, vars
  <2>6. \/ \E r \in Requests : LeadStep(r) \/ ClientSend(r)
        \/ \E c \in TlThreads : TlStep(c)
        \/ UNCHANGED <<lead, tl>>
    BY <1>2, <2>5 DEF Next
  <2>7. \A r \in Requests : RankOf(lead'[r]) <= RankOf(lead[r])
    <3>1. \A r \in Requests : RankOf(lead'[r]) < RankOf(lead[r]) \/ lead'[r] = lead[r]
      BY <2>2, <2>4, <2>6
    <3> QED BY <2>1, <3>1
  <2>8. \A c \in TlThreads : TlRankOf(tl'[c]) <= TlRankOf(tl[c])
    <3>1. ASSUME NEW r \in Requests, LeadStep(r) \/ ClientSend(r), NEW c \in TlThreads
          PROVE  TlRankOf(tl'[c]) <= TlRankOf(tl[c])
      BY <1>2, <3>1, CalledRank
    <3>2. ASSUME NEW b \in TlThreads, TlStep(b), NEW c \in TlThreads
          PROVE  TlRankOf(tl'[c]) <= TlRankOf(tl[c])
      BY <2>1, <2>3, <3>2
    <3>3. UNCHANGED tl => \A c \in TlThreads : TlRankOf(tl'[c]) <= TlRankOf(tl[c])
      BY <2>1
    <3> QED BY <2>6, <3>1, <3>2, <3>3
  <2> QED BY <2>2, <2>3, <2>7, <2>8
<1>3. IInv /\ [Next]_vars =>
        [/\ \A r \in Requests :
              /\ LeadStep(r) => RankOf(lead'[r]) < RankOf(lead[r])
              /\ RankOf(lead'[r]) <= RankOf(lead[r])
         /\ \A c \in TlThreads :
              /\ TlStep(c) => TlRankOf(tl'[c]) < TlRankOf(tl[c])
              /\ TlRankOf(tl'[c]) <= TlRankOf(tl[c])]_vars
    BY <1>2
<1> QED BY <1>1, <1>3, Invariance, PTL DEF Spec, Progress
=============================================================================
