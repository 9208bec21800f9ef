------------------------ MODULE GeneratedMessage_proofs ------------------------
(***************************************************************************)
(* The objects of a generated class, for every class whose fields have     *)
(* has-bits and numbers of their own, as those of basecamp.pb.* and        *)
(* topology.pb.* have: has-bits cover the values, the two passes of the    *)
(* serializer agree, what is sent is what is parsed, and so the objects    *)
(* implement Message.                                                      *)
(***************************************************************************)
EXTENDS GeneratedMessage, BasecampMessages, Induction

\* No two fields of a class share a bit, or a number.
Distinct(c)     == \A f, g \in DOMAIN c.kind : c.bit[f] = c.bit[g] => f = g
Numbered(c)     == \A f, g \in DOMAIN c.kind : c.num[f] = c.num[g] => f = g
DistinctBits    == \A c \in Classes : Distinct(c)
DistinctNumbers == \A c \in Classes : Numbered(c)

-----------------------------------------------------------------------------
(***************************************************************************)
(* Objects                                                                 *)
(***************************************************************************)
\* What a field may hold, and the records an object may keep.
Contents(f) == IF Repeated(f) THEN Seq(Values)
               ELSE {<<>>} \cup {<<v>> : v \in Values \ {0}}
Wire        == Nat \X Values
Foreign     == (Nat \ Numbers) \X Values

\* The shape of an object, the bits over its values, and their types.
Shapes     == [val : [Fields -> Seq(Values)], has : SUBSET Nat, extra : Seq(Wire)]
Covered(x) == \A f \in Fields : x.val[f] # <<>> => Has(x, f)
Proper(x)  == /\ \A f \in Fields : x.val[f] \in Contents(f)
              /\ x.extra \in Seq(Foreign)
Sounds     == {x \in Shapes : Covered(x) /\ Proper(x)}

IInv ==
    /\ class \in Classes
    /\ live \subseteq Fields
    /\ obj \in [Objects -> Sounds]

\* The bits and numbers of a class.
LEMMA ClassTyped ==
    ASSUME class \in Classes, NEW f \in Fields
    PROVE  /\ class.bit[f] \in Nat /\ class.bit[f] \in 0 .. MaxNumber - 1
           /\ class.num[f] \in Nat /\ class.num[f] \in 1 .. MaxNumber
           /\ class.num[f] \in Numbers
           /\ MaxNumber \in Nat
<1>1. /\ class.num \in [Fields -> 1 .. MaxNumber]
      /\ class.bit \in [Fields -> 0 .. MaxNumber - 1]
    BY ClassesAssumption DEF Fields
<1> QED BY <1>1, ValuesAssumption DEF Numbers

\* Contents are sequences of values; a value makes one of a singular field and
\* is appended to one of a repeated field.
LEMMA ContentsTyped ==
    ASSUME NEW f
    PROVE  /\ <<>> \in Contents(f)
           /\ \A c \in Contents(f) : c \in Seq(Values)
           /\ ~Repeated(f) => \A v \in Values : Msg!Content(v) \in Contents(f)
           /\ Repeated(f) => \A v \in Values, c \in Contents(f) : Append(c, v) \in Contents(f)
           /\ ~Repeated(f) => \A c \in Contents(f) :
                                c # <<>> => \E v \in Values \ {0} : c = <<v>>
<1>1. CASE Repeated(f)
    BY <1>1, EmptySeq, AppendProperties DEF Contents
<1>2. CASE ~Repeated(f)
  <2>1. \A v \in Values : <<v>> \in Seq(Values)
    OBVIOUS
  <2>2. <<>> \in Seq(Values)
    OBVIOUS
  <2> QED BY <1>2, <2>1, <2>2 DEF Contents, Msg!Content
<1> QED BY <1>1, <1>2

\* What joins two contents is one.
LEMMA JoinedTyped ==
    ASSUME NEW f, NEW a \in Contents(f), NEW b \in Contents(f)
    PROVE  /\ Msg!Joined(f, a, b) \in Contents(f)
           /\ Msg!Joined(f, a, <<>>) = a
           /\ Msg!Joined(f, <<>>, b) = b
<1>1. Msg!Repeated(f) <=> Repeated(f)
    BY DEF Msg!Repeated, Repeated
<1>2. a \in Seq(Values) /\ b \in Seq(Values)
    BY ContentsTyped
<1>3. CASE Repeated(f)
  <2>1. a \o b \in Seq(Values) /\ a \o <<>> = a /\ <<>> \o b = b
    BY <1>2, ConcatProperties, ConcatEmptySeq
  <2> QED BY <1>1, <1>3, <2>1 DEF Msg!Joined, Contents
<1>4. CASE ~Repeated(f)
    BY <1>1, <1>4 DEF Msg!Joined
<1> QED BY <1>3, <1>4

\* A new object has neither values nor bits.
LEMMA NewSound == New \in Sounds
<1>1. Msg!Default = [f \in Fields |-> <<>>]
    BY DEF Msg!Default, Msg!Fields, Fields
<1>2. /\ <<>> \in Seq(Values) /\ <<>> \in Seq(Wire) /\ <<>> \in Seq(Foreign)
    OBVIOUS
<1>3. New \in Shapes
    BY <1>1, <1>2 DEF New, Shapes
<1>4. Covered(New) /\ Proper(New)
    BY <1>1, <1>2, ContentsTyped DEF New, Covered, Proper
<1> QED BY <1>3, <1>4 DEF Sounds

\* Clear empties an object whose bits cover its values: what it does not
\* reset was empty already.
LEMMA ClearedIsNew == ASSUME NEW x \in Sounds PROVE Cleared(x) = New
<1>1. ASSUME NEW f \in Fields, ~Reset(x, f) PROVE x.val[f] = <<>>
  <2>1. CASE class.kind[f] # "scalar"
      BY <1>1, <2>1 DEF Reset, Sounds, Covered
  <2>2. CASE class.kind[f] = "scalar"
    <3>1. f \in Group(f)
        BY <2>2 DEF Group
    <3>2. ~Has(x, f)
        BY <1>1, <2>2, <3>1 DEF Reset
    <3> QED BY <3>2 DEF Sounds, Covered
  <2> QED BY <2>1, <2>2
<1>2. [f \in Fields |-> IF Reset(x, f) THEN <<>> ELSE x.val[f]] = [f \in Fields |-> <<>>]
    BY <1>1
<1> QED BY <1>2 DEF Cleared, New, Msg!Default, Msg!Fields, Fields

\* A value is written with its bit.
LEMMA WrittenSound ==
    ASSUME class \in Classes, NEW x \in Sounds, NEW f \in Fields, NEW c \in Contents(f)
    PROVE  /\ Written(x, f, c) \in Sounds
           /\ Written(x, f, c).val = [x.val EXCEPT ![f] = c]
           /\ Written(x, f, c).extra = x.extra
<1> DEFINE y == Written(x, f, c)
<1>1. x \in Shapes /\ Covered(x) /\ Proper(x) /\ c \in Seq(Values)
    BY ContentsTyped DEF Sounds
<1>2. /\ y = [val |-> [x.val EXCEPT ![f] = c], has |-> x.has \cup {class.bit[f]},
              extra |-> x.extra]
  <2>1. x = [val |-> x.val, has |-> x.has, extra |-> x.extra] /\ x.val \in [Fields -> Seq(Values)]
    BY <1>1 DEF Shapes
  <2>2. /\ y.val = [x.val EXCEPT ![f] = c] /\ y.has = x.has \cup {class.bit[f]}
        /\ y.extra = x.extra
        /\ DOMAIN y = {"val", "has", "extra"} /\ y = [i \in DOMAIN y |-> y[i]]
    BY <2>1 DEF Written
  <2> HIDE DEF y
  <2> QED BY <2>2
<1> HIDE DEF y
<1>3. y \in Shapes
    BY <1>1, <1>2, ClassTyped DEF Shapes
<1>4. Covered(y)
    BY <1>1, <1>2 DEF Shapes, Covered, Has
<1>5. Proper(y)
    BY <1>1, <1>2 DEF Shapes, Proper
<1> QED BY <1>2, <1>3, <1>4, <1>5 DEF Sounds, y

\* A field is cleared with its bit, which is no other field's.
LEMMA ClearFieldSound ==
    ASSUME NEW x \in Sounds, NEW f \in Fields, Distinct(class)
    PROVE  LET y == [x EXCEPT !.val[f] = <<>>, !.has = @ \ {class.bit[f]}]
           IN  /\ y \in Sounds
               /\ y.val = [x.val EXCEPT ![f] = <<>>]
               /\ y.extra = x.extra
<1> DEFINE y == [x EXCEPT !.val[f] = <<>>, !.has = @ \ {class.bit[f]}]
<1>1. x \in Shapes /\ Covered(x) /\ Proper(x) /\ <<>> \in Seq(Values)
    BY EmptySeq DEF Sounds
<1>2. /\ y = [val |-> [x.val EXCEPT ![f] = <<>>], has |-> x.has \ {class.bit[f]},
              extra |-> x.extra]
  <2>1. x = [val |-> x.val, has |-> x.has, extra |-> x.extra] /\ x.val \in [Fields -> Seq(Values)]
    BY <1>1 DEF Shapes
  <2>2. /\ y.val = [x.val EXCEPT ![f] = <<>>] /\ y.has = x.has \ {class.bit[f]}
        /\ y.extra = x.extra
        /\ DOMAIN y = {"val", "has", "extra"} /\ y = [i \in DOMAIN y |-> y[i]]
    BY <2>1
  <2> HIDE DEF y
  <2> QED BY <2>2
<1> HIDE DEF y
<1>3. y \in Shapes
    BY <1>1, <1>2 DEF Shapes
<1>4. Covered(y)
    BY <1>1, <1>2 DEF Shapes, Covered, Has, Distinct, Fields
<1>5. Proper(y)
    BY <1>1, <1>2, ContentsTyped DEF Shapes, Proper
<1> QED BY <1>2, <1>3, <1>4, <1>5 DEF Sounds, y

\* A merge takes over values with their bits, and joins the contents.
LEMMA MergedSound ==
    ASSUME NEW x \in Sounds, NEW y \in Sounds
    PROVE  /\ Merged(x, y) \in Sounds
           /\ Merged(x, y).val = Msg!Join(x.val, y.val)
           /\ Merged(x, y).extra = x.extra \o y.extra
<1> DEFINE z == Merged(x, y)
<1>1. /\ x \in Shapes /\ Covered(x) /\ Proper(x)
      /\ y \in Shapes /\ Covered(y) /\ Proper(y)
    BY DEF Sounds
<1>2. ASSUME NEW f \in Fields
      PROVE  /\ z.val[f] = Msg!Joined(f, x.val[f], y.val[f])
             /\ z.val[f] \in Contents(f)
             /\ z.val[f] # <<>> => Has(z, f)
  <2>1. x.val[f] \in Contents(f) /\ y.val[f] \in Contents(f)
    BY <1>1 DEF Proper
  <2>2. z.val[f] = IF Has(y, f) THEN Msg!Joined(f, x.val[f], y.val[f]) ELSE x.val[f]
    BY DEF Merged
  <2>3. ~Has(y, f) => y.val[f] = <<>>
    BY <1>1 DEF Covered
  <2>4. z.val[f] = Msg!Joined(f, x.val[f], y.val[f])
    BY <2>1, <2>2, <2>3, JoinedTyped
  <2>5. Has(z, f) <=> Has(x, f) \/ Has(y, f)
    BY DEF Merged, Has
  <2>6. x.val[f] # <<>> => Has(x, f)
    BY <1>1 DEF Covered
  <2> HIDE DEF z
  <2> QED BY <2>1, <2>2, <2>4, <2>5, <2>6, JoinedTyped
<1>3. z.extra = x.extra \o y.extra /\ z.has = x.has \cup y.has
    BY DEF Merged
<1>4. z.val = [f \in Fields |-> z.val[f]] /\ z = [val |-> z.val, has |-> z.has, extra |-> z.extra]
    BY DEF Merged
<1> HIDE DEF z
<1>5. z.extra \in Seq(Foreign) /\ z.extra \in Seq(Wire)
    BY <1>1, <1>3, ConcatProperties DEF Proper, Shapes
<1>6. z \in Shapes
  <2>1. \A f \in Fields : z.val[f] \in Seq(Values)
    BY <1>2, ContentsTyped
  <2>2. z.val \in [Fields -> Seq(Values)]
    BY <1>4, <2>1
  <2> QED BY <1>1, <1>3, <1>4, <1>5, <2>2 DEF Shapes
<1>7. Covered(z) /\ Proper(z)
    BY <1>2, <1>5 DEF Covered, Proper
<1>8. z.val = Msg!Join(x.val, y.val)
    BY <1>2, <1>4 DEF Msg!Join, Msg!Fields, Fields
<1> QED BY <1>3, <1>6, <1>7, <1>8 DEF Sounds, z

\* What is joined with a new object is taken over.
LEMMA JoinedNew ==
    ASSUME NEW y \in Sounds
    PROVE  Msg!Join(New.val, y.val) = y.val /\ New.extra \o y.extra = y.extra
<1>1. /\ y.val = [f \in Fields |-> y.val[f]] /\ y.extra \in Seq(Wire)
    BY DEF Sounds, Shapes
<1>2. \A f \in Fields : New.val[f] = <<>> /\ New.extra = <<>>
    BY DEF New, Msg!Default, Msg!Fields, Fields
<1>3. \A f \in Fields : Msg!Joined(f, <<>>, y.val[f]) = y.val[f]
    BY JoinedTyped DEF Sounds, Proper
<1>4. Msg!Join(New.val, y.val) = [f \in Fields |-> y.val[f]]
    BY <1>2, <1>3 DEF Msg!Join, Msg!Fields, Fields
<1>5. <<>> \o y.extra = y.extra /\ New.extra = <<>>
    BY <1>1, ConcatEmptySeq DEF New
<1> QED BY <1>1, <1>4, <1>5

\* The field of a number is a field that has it.
LEMMA FieldOfNumber ==
    ASSUME NEW n \in Numbers PROVE FieldOf(n) \in Fields /\ class.num[FieldOf(n)] = n
<1>1. \E f \in Fields : class.num[f] = n
    BY DEF Numbers
<1> QED BY <1>1 DEF FieldOf

\* A record read is a value written, or one more unknown field.
LEMMA ReadSound ==
    ASSUME class \in Classes, NEW x \in Sounds, NEW r \in Wire
    PROVE  Read(x, r) \in Sounds
<1>1. r[1] \in Nat /\ r[2] \in Values /\ r = <<r[1], r[2]>>
    BY DEF Wire
<1>2. CASE r[1] \in Numbers
  <2> DEFINE f == FieldOf(r[1])
             c == IF Repeated(f) THEN Append(x.val[f], r[2]) ELSE Msg!Content(r[2])
  <2>1. f \in Fields
    BY <1>2, FieldOfNumber
  <2>2. x.val[f] \in Contents(f)
    BY <2>1 DEF Sounds, Proper
  <2>3. c \in Contents(f)
    BY <1>1, <2>2, ContentsTyped
  <2>4. Read(x, r) = Written(x, f, c)
    BY <1>2 DEF Read
  <2> HIDE DEF f, c
  <2>5. Written(x, f, c) \in Sounds
    BY <2>1, <2>3, WrittenSound
  <2> QED BY <2>4, <2>5
<1>3. CASE r[1] \notin Numbers
  <2> DEFINE y == Read(x, r)
  <2>1. x \in Shapes /\ Covered(x) /\ Proper(x)
    BY DEF Sounds
  <2>2. y = [val |-> x.val, has |-> x.has, extra |-> Append(x.extra, r)]
    BY <1>3, <2>1 DEF Read, Shapes
  <2> HIDE DEF y
  <2>3. r \in Foreign
    BY <1>1, <1>3 DEF Foreign
  <2>4. Append(x.extra, r) \in Seq(Foreign) /\ Append(x.extra, r) \in Seq(Wire)
    BY <2>1, <2>3, AppendProperties DEF Shapes, Proper
  <2>5. y \in Shapes
    BY <2>1, <2>2, <2>4 DEF Shapes
  <2>6. Covered(y) /\ Proper(y)
    BY <2>1, <2>2, <2>4 DEF Covered, Proper, Has
  <2> QED BY <2>5, <2>6 DEF Sounds, y
<1> QED BY <1>2, <1>3

-----------------------------------------------------------------------------
(***************************************************************************)
(* Parsing                                                                 *)
(***************************************************************************)
\* One step of the parser, and its recursion along q.
ReadStep == [p \in Wire \X Sounds |-> Read(p[2], p[1])]
Parses(u, x, q) == SolvesAlong(u, q, Sounds, x, ReadStep)

\* A step of the parser makes sound objects of sound objects.
LEMMA ReadStepOver ==
    ASSUME class \in Classes
    PROVE  /\ StepsOver(ReadStep, Wire, Sounds)
           /\ \A r \in Wire, x \in Sounds : ReadStep[<<r, x>>] = Read(x, r)
<1>1. \A r \in Wire, x \in Sounds : ReadStep[<<r, x>>] = Read(x, r)
  <2> SUFFICES ASSUME NEW r \in Wire, NEW x \in Sounds PROVE ReadStep[<<r, x>>] = Read(x, r)
    OBVIOUS
  <2>1. <<r, x>> \in Wire \X Sounds
    OBVIOUS
  <2> QED BY <2>1 DEF ReadStep
<1> QED BY <1>1, ReadSound DEF StepsOver

\* What is parsed is the last value of the recursion.
LEMMA ParsedSolved ==
    ASSUME class \in Classes, NEW x \in Sounds, NEW q \in Seq(Wire)
    PROVE  \E u : Parses(u, x, q) /\ Parsed(x, q) = u[Len(q)]
<1> DEFINE n == Len(q)
           body(u) == [i \in 0 .. n |-> IF i = 0 THEN x ELSE Read(u[i - 1], q[i])]
           u == CHOOSE u : u = body(u)
<1>1. n \in Nat /\ \A i \in 1 .. n : q[i] \in Wire
    BY LenProperties, ElementOfSeq
<1>2. PICK g : SolvesAlong(g, q, Sounds, x, ReadStep)
    BY ReadStepOver, AlongExists
<1>3. g = body(g)
  <2>1. g \in [0 .. n -> Sounds] /\ g[0] = x
    BY <1>2 DEF SolvesAlong
  <2>2. ASSUME NEW i \in 0 .. n PROVE g[i] = body(g)[i]
    <3>1. CASE i = 0
      BY <2>1, <3>1, <1>1
    <3>2. CASE i # 0
      <4>1. i \in 1 .. n /\ i - 1 \in 0 .. n
        BY <1>1, <3>2
      <4>2. g[i] = ReadStep[<<q[i], g[i - 1]>>] /\ g[i - 1] \in Sounds /\ q[i] \in Wire
        BY <1>1, <1>2, <2>1, <4>1 DEF SolvesAlong
      <4> HIDE DEF n
      <4> QED BY <3>2, <4>2, ReadStepOver
    <3> QED BY <3>1, <3>2
  <2> HIDE DEF n
  <2> QED BY <2>1, <2>2
<1>4. u = body(u)
    BY <1>3
<1>5. Parsed(x, q) = u[n]
    BY DEF Parsed
<1> HIDE DEF u
<1>6. u[0] = x
    BY <1>1, <1>4
<1>7. \A i \in 1 .. n : u[i] = Read(u[i - 1], q[i])
  <2> SUFFICES ASSUME NEW i \in 1 .. n PROVE u[i] = Read(u[i - 1], q[i])
    OBVIOUS
  <2>1. i \in 0 .. n /\ i # 0
    BY <1>1
  <2> HIDE DEF n
  <2> QED BY <1>4, <2>1
<1>8. \A i \in 0 .. n : u[i] \in Sounds
  <2> HIDE DEF n
  <2>1. \A i \in 1 .. n : u[i - 1] \in Sounds => u[i] \in Sounds
    BY <1>1, <1>7, ReadSound
  <2>2. u[0] \in Sounds
    BY <1>6
  <2> QED BY <1>1, <2>1, <2>2, RecursionTyped
<1>9. u \in [0 .. n -> Sounds]
  <2>1. u = [i \in 0 .. n |-> u[i]]
    BY <1>4
  <2> HIDE DEF n
  <2> QED BY <1>8, <2>1
<1>10. \A i \in 1 .. n : u[i] = ReadStep[<<q[i], u[i - 1]>>]
  <2> SUFFICES ASSUME NEW i \in 1 .. n PROVE u[i] = ReadStep[<<q[i], u[i - 1]>>]
    OBVIOUS
  <2>1. i - 1 \in 0 .. n /\ q[i] \in Wire
    BY <1>1
  <2>2. u[i - 1] \in Sounds
    BY <1>8, <2>1
  <2> QED BY <1>7, <2>1, <2>2, ReadStepOver
<1> QED BY <1>5, <1>6, <1>9, <1>10 DEF Parses, SolvesAlong

\* Nothing parsed changes nothing; one record more is read last.
LEMMA ParsedRecords ==
    ASSUME class \in Classes, NEW x \in Sounds
    PROVE  /\ Parsed(x, <<>>) = x
           /\ \A q \in Seq(Wire) : Parsed(x, q) \in Sounds
           /\ \A q \in Seq(Wire), r \in Wire : Parsed(x, Append(q, r)) = Read(Parsed(x, q), r)
<1>1. Parsed(x, <<>>) = x
  <2>1. <<>> \in Seq(Wire) /\ Len(<<>>) = 0
    BY EmptySeq
  <2>2. PICK u : Parses(u, x, <<>>) /\ Parsed(x, <<>>) = u[Len(<<>>)]
    BY <2>1, ParsedSolved
  <2> QED BY <2>1, <2>2 DEF Parses, SolvesAlong
<1>2. ASSUME NEW q \in Seq(Wire) PROVE Parsed(x, q) \in Sounds
  <2>1. PICK u : Parses(u, x, q) /\ Parsed(x, q) = u[Len(q)]
    BY ParsedSolved
  <2>2. Len(q) \in 0 .. Len(q)
    BY LenProperties
  <2> QED BY <2>1, <2>2 DEF Parses, SolvesAlong
<1>3. ASSUME NEW q \in Seq(Wire), NEW r \in Wire
      PROVE  Parsed(x, Append(q, r)) = Read(Parsed(x, q), r)
  <2>1. PICK u : Parses(u, x, q) /\ Parsed(x, q) = u[Len(q)]
    BY ParsedSolved
  <2>2. Append(q, r) \in Seq(Wire) /\ Len(Append(q, r)) = Len(q) + 1
    BY AppendProperties
  <2>3. PICK g : Parses(g, x, Append(q, r)) /\ Parsed(x, Append(q, r)) = g[Len(Append(q, r))]
    BY <2>2, ParsedSolved
  <2>4. g[Len(q) + 1] = ReadStep[<<r, u[Len(q)]>>]
    BY <2>1, <2>3, AlongAppend DEF Parses
  <2>5. u[Len(q)] \in Sounds
    BY <1>2, <2>1
  <2> QED BY <2>1, <2>2, <2>3, <2>4, <2>5, ReadStepOver
<1> QED BY <1>1, <1>2, <1>3

\* Two sequences of records are parsed one after the other.
LEMMA ParsedConcat ==
    ASSUME class \in Classes, NEW x \in Sounds, NEW p \in Seq(Wire), NEW r \in Seq(Wire)
    PROVE  Parsed(x, p \o r) = Parsed(Parsed(x, p), r)
<1> DEFINE y == Parsed(x, p)
           Q == {q \in Seq(Wire) : Parsed(x, p \o q) = Parsed(y, q)}
<1>0. y \in Sounds
    BY ParsedRecords
<1>1. <<>> \in Q
  <2>1. p \o <<>> = p /\ <<>> \in Seq(Wire)
    BY ConcatEmptySeq, EmptySeq
  <2> HIDE DEF y
  <2>2. Parsed(y, <<>>) = y
    BY <1>0, ParsedRecords
  <2> QED BY <2>1, <2>2 DEF y
<1>2. ASSUME NEW q \in Seq(Wire), NEW e \in Wire, q \in Q PROVE Append(q, e) \in Q
  <2>1. Append(q, e) \in Seq(Wire)
    BY AppendProperties
  <2>2. p \o q \in Seq(Wire)
    BY ConcatProperties
  <2>3. p \o Append(q, e) = Append(p \o q, e)
    BY ConcatAppend
  <2>4. Parsed(x, p \o q) = Parsed(y, q)
    BY <1>2
  <2> HIDE DEF y
  <2>5. Parsed(x, Append(p \o q, e)) = Read(Parsed(x, p \o q), e)
    BY <2>2, ParsedRecords
  <2>6. Parsed(y, Append(q, e)) = Read(Parsed(y, q), e)
    BY <1>0, ParsedRecords
  <2> QED BY <2>1, <2>3, <2>4, <2>5, <2>6
<1> HIDE DEF Q
<1>3. Seq(Wire) \subseteq Q
    BY <1>1, <1>2, SeqSetInduction
<1> QED BY <1>3 DEF Q

\* The records of fields the class does not know are kept, one after the other.
LEMMA ParsedForeign ==
    ASSUME class \in Classes, NEW x \in Sounds, NEW w \in Seq(Foreign)
    PROVE  /\ Parsed(x, w).val = x.val
           /\ Parsed(x, w).extra = x.extra \o w
<1> DEFINE Q == {q \in Seq(Foreign) : /\ q \in Seq(Wire)
                                      /\ Parsed(x, q).val = x.val
                                      /\ Parsed(x, q).extra = x.extra \o q}
<1>0. x.extra \in Seq(Foreign)
    BY DEF Sounds, Proper
<1>1. <<>> \in Q
  <2>1. <<>> \in Seq(Foreign) /\ <<>> \in Seq(Wire) /\ x.extra \o <<>> = x.extra
    BY <1>0, EmptySeq, ConcatEmptySeq
  <2> QED BY <2>1, ParsedRecords
<1>2. ASSUME NEW q \in Seq(Foreign), NEW e \in Foreign, q \in Q PROVE Append(q, e) \in Q
  <2> DEFINE y == Parsed(x, q)
  <2>1. e \in Wire /\ e[1] \notin Numbers
    BY DEF Wire, Foreign
  <2>2. /\ Append(q, e) \in Seq(Foreign) /\ q \in Seq(Wire) /\ Append(q, e) \in Seq(Wire)
    BY <1>2, <2>1, AppendProperties
  <2>3. y \in Sounds /\ y.val = x.val /\ y.extra = x.extra \o q
    BY <1>2, <2>2, ParsedRecords
  <2>4. Parsed(x, Append(q, e)) = Read(y, e)
    BY <2>1, <2>2, ParsedRecords
  <2> HIDE DEF y
  <2>5. Read(y, e).val = y.val /\ Read(y, e).extra = Append(y.extra, e)
    BY <2>1, <2>3 DEF Read, Sounds, Shapes
  <2>6. x.extra \o Append(q, e) = Append(x.extra \o q, e)
    <3> DEFINE a == x.extra
    <3>1. a \in Seq(Foreign)
      BY <1>0
    <3> HIDE DEF a
    <3>2. a \o Append(q, e) = Append(a \o q, e)
      BY <3>1, ConcatAppend
    <3> QED BY <3>2 DEF a
  <2> QED BY <2>2, <2>3, <2>4, <2>5, <2>6
<1> HIDE DEF Q
<1>3. Seq(Foreign) \subseteq Q
    BY <1>1, <1>2, SeqSetInduction
<1> QED BY <1>3 DEF Q

\* The records of a content: one for each value.
LEMMA RecordsTyped ==
    ASSUME class \in Classes, NEW f \in Fields, NEW c \in Seq(Values)
    PROVE  /\ Records(f, c) \in Seq(Wire)
           /\ \A v \in Values : <<class.num[f], v>> \in Wire
           /\ Records(f, <<>>) = <<>>
           /\ \A v \in Values :
                Records(f, Append(c, v)) = Append(Records(f, c), <<class.num[f], v>>)
<1> DEFINE m == class.num[f]
           R(d) == [i \in DOMAIN d |-> <<m, d[i]>>]
<1>1. m \in Nat /\ \A d : Records(f, d) = R(d)
    BY ClassTyped DEF Records
<1> HIDE DEF m
<1>2. \A v \in Values : <<m, v>> \in Wire
    BY <1>1 DEF Wire
<1>3. /\ Len(c) \in Nat /\ DOMAIN c = 1 .. Len(c) /\ \A i \in 1 .. Len(c) : c[i] \in Values
    BY LenProperties, ElementOfSeq
<1>4. R(c) \in Seq(Wire) /\ Len(R(c)) = Len(c)
  <2>1. R(c) = [i \in 1 .. Len(c) |-> <<m, c[i]>>] /\ \A i \in 1 .. Len(c) : <<m, c[i]>> \in Wire
    BY <1>2, <1>3
  <2> QED BY <1>3, <2>1
<1>5. R(<<>>) = <<>>
    OBVIOUS
<1>6. ASSUME NEW v \in Values PROVE R(Append(c, v)) = Append(R(c), <<m, v>>)
  <2> DEFINE d == Append(c, v)
             e == Append(R(c), <<m, v>>)
  <2>1. /\ d \in Seq(Values) /\ Len(d) = Len(c) + 1 /\ d[Len(c) + 1] = v
        /\ \A i \in 1 .. Len(c) : d[i] = c[i]
    BY <1>3, AppendProperties
  <2>2. /\ e \in Seq(Wire) /\ Len(e) = Len(c) + 1 /\ e[Len(c) + 1] = <<m, v>>
        /\ \A i \in 1 .. Len(c) : e[i] = R(c)[i]
    <3> DEFINE q == R(c)
               r == <<m, v>>
    <3>1. q \in Seq(Wire) /\ Len(q) = Len(c) /\ r \in Wire
      BY <1>2, <1>4
    <3> HIDE DEF q, r
    <3>2. /\ Append(q, r) \in Seq(Wire) /\ Len(Append(q, r)) = Len(q) + 1
          /\ Append(q, r)[Len(q) + 1] = r
          /\ \A i \in 1 .. Len(q) : Append(q, r)[i] = q[i]
      BY <3>1, AppendProperties
    <3> QED BY <3>1, <3>2 DEF q, r
  <2> HIDE DEF d, e
  <2>3. DOMAIN d = 1 .. Len(c) + 1 /\ DOMAIN e = 1 .. Len(c) + 1
    BY <2>1, <2>2, LenProperties
  <2>4. ASSUME NEW i \in 1 .. Len(c) + 1 PROVE R(d)[i] = e[i]
    <3>1. CASE i = Len(c) + 1
      BY <2>1, <2>2, <2>3, <3>1
    <3>2. CASE i # Len(c) + 1
      <4>1. i \in 1 .. Len(c)
        BY <1>3, <3>2
      <4> QED BY <1>3, <2>1, <2>2, <2>3, <4>1
    <3> QED BY <3>1, <3>2
  <2>5. e = [i \in 1 .. Len(c) + 1 |-> e[i]]
    BY <2>2, <2>3
  <2>6. R(d) = e
    BY <2>3, <2>4, <2>5
  <2> QED BY <2>6 DEF d, e
<1> QED BY <1>1, <1>2, <1>4, <1>5, <1>6 DEF m

\* A record of a field is read into that field.
LEMMA ReadField ==
    ASSUME class \in Classes, Numbered(class), NEW z \in Sounds, NEW f \in Fields,
           NEW v \in Values
    PROVE  LET y == Read(z, <<class.num[f], v>>)
           IN  /\ y.val = [z.val EXCEPT ![f] = IF Repeated(f) THEN Append(z.val[f], v)
                                               ELSE Msg!Content(v)]
               /\ y.extra = z.extra
<1> DEFINE r == <<class.num[f], v>>
           c == IF Repeated(f) THEN Append(z.val[f], v) ELSE Msg!Content(v)
<1>1. class.num[f] \in Numbers
    BY ClassTyped
<1>2. FieldOf(class.num[f]) = f
    BY <1>1, FieldOfNumber DEF Numbered, Fields
<1>3. Read(z, r) = Written(z, f, c)
    BY <1>1, <1>2 DEF Read
<1>4. z.val[f] \in Contents(f)
    BY DEF Sounds, Proper
<1>5. c \in Contents(f)
    BY <1>4, ContentsTyped
<1> HIDE DEF c, r
<1>6. Written(z, f, c).val = [z.val EXCEPT ![f] = c] /\ Written(z, f, c).extra = z.extra
    BY <1>5, WrittenSound
<1> QED BY <1>3, <1>6 DEF c, r

\* The records of a content are joined to the field.
LEMMA ParsedField ==
    ASSUME class \in Classes, Numbered(class), NEW z \in Sounds, NEW f \in Fields,
           NEW c \in Contents(f)
    PROVE  /\ Parsed(z, Records(f, c)) \in Sounds
           /\ Parsed(z, Records(f, c)).val = [z.val EXCEPT ![f] = Msg!Joined(f, z.val[f], c)]
           /\ Parsed(z, Records(f, c)).extra = z.extra
<1> DEFINE a == z.val[f]
           m == class.num[f]
           Goal(d) == /\ Parsed(z, Records(f, d)).val = [z.val EXCEPT ![f] = Msg!Joined(f, a, d)]
                      /\ Parsed(z, Records(f, d)).extra = z.extra
<1>1. /\ z.val \in [Fields -> Seq(Values)] /\ a \in Contents(f) /\ a \in Seq(Values)
      /\ c \in Seq(Values)
    BY ContentsTyped DEF Sounds, Proper, Shapes
<1>2. Msg!Repeated(f) <=> Repeated(f)
    BY DEF Msg!Repeated, Repeated
<1>3. Goal(<<>>)
  <2>1. Records(f, <<>>) = <<>>
    BY <1>1, RecordsTyped
  <2>2. Parsed(z, <<>>) = z
    BY ParsedRecords
  <2>3. Msg!Joined(f, a, <<>>) = a /\ z.val = [z.val EXCEPT ![f] = a]
    BY <1>1, JoinedTyped, ContentsTyped
  <2> HIDE DEF a
  <2> QED BY <2>1, <2>2, <2>3
<1>4. ASSUME NEW d \in Seq(Values), NEW v \in Values, Goal(d)
      PROVE  LET k == IF Repeated(f) THEN Append(Msg!Joined(f, a, d), v) ELSE Msg!Content(v)
             IN  /\ Parsed(z, Records(f, Append(d, v))).val = [z.val EXCEPT ![f] = k]
                 /\ Parsed(z, Records(f, Append(d, v))).extra = z.extra
  <2> DEFINE y == Parsed(z, Records(f, d))
  <2>1. /\ Records(f, d) \in Seq(Wire) /\ <<m, v>> \in Wire
        /\ Records(f, Append(d, v)) = Append(Records(f, d), <<m, v>>)
    BY RecordsTyped
  <2>2. y \in Sounds /\ Parsed(z, Records(f, Append(d, v))) = Read(y, <<m, v>>)
    <3> HIDE DEF m
    <3> QED BY <2>1, ParsedRecords
  <2>3. y.val = [z.val EXCEPT ![f] = Msg!Joined(f, a, d)] /\ y.extra = z.extra
    BY <1>4
  <2> HIDE DEF y
  <2>4. /\ Read(y, <<m, v>>).val = [y.val EXCEPT ![f] = IF Repeated(f) THEN Append(y.val[f], v)
                                                        ELSE Msg!Content(v)]
        /\ Read(y, <<m, v>>).extra = y.extra
    BY <2>2, ReadField
  <2>5. y.val[f] = Msg!Joined(f, a, d)
    BY <1>1, <2>3
  <2> HIDE DEF a, m
  <2> QED BY <1>1, <2>2, <2>3, <2>4, <2>5
<1> HIDE DEF a, m
<1>5. CASE Repeated(f)
  <2> DEFINE Q == {d \in Seq(Values) : Goal(d)}
  <2>1. <<>> \in Q
    BY <1>3, EmptySeq
  <2>2. ASSUME NEW d \in Seq(Values), NEW v \in Values, d \in Q PROVE Append(d, v) \in Q
    <3>1. Append(d, v) \in Seq(Values) /\ Goal(d)
      BY <2>2, AppendProperties
    <3>2. Append(Msg!Joined(f, a, d), v) = Msg!Joined(f, a, Append(d, v))
      <4>1. a \o Append(d, v) = Append(a \o d, v)
        BY <1>1, ConcatAppend
      <4> QED BY <1>2, <1>5, <4>1 DEF Msg!Joined
    <3> HIDE DEF Goal
    <3>3. /\ Parsed(z, Records(f, Append(d, v))).val =
               [z.val EXCEPT ![f] = Append(Msg!Joined(f, a, d), v)]
          /\ Parsed(z, Records(f, Append(d, v))).extra = z.extra
      BY <1>4, <1>5, <3>1
    <3> QED BY <3>1, <3>2, <3>3 DEF Goal
  <2> HIDE DEF Q
  <2>3. c \in Q
    BY <1>1, <2>1, <2>2, SeqSetInduction
  <2>4. Goal(c)
    BY <2>3 DEF Q
  <2> QED BY <1>1, <2>4, RecordsTyped, ParsedRecords DEF a
<1>6. CASE ~Repeated(f)
  <2>1. CASE c = <<>>
    BY <1>1, <1>3, <2>1, RecordsTyped, ParsedRecords DEF a
  <2>2. CASE c # <<>>
    <3>1. PICK v \in Values \ {0} : c = <<v>>
      BY <1>6, <2>2, ContentsTyped
    <3>2. <<>> \in Seq(Values) /\ Append(<<>>, v) = c
      BY <3>1
    <3>3. Msg!Content(v) = c /\ Msg!Joined(f, a, c) = c
      BY <1>2, <1>6, <2>2, <3>1 DEF Msg!Content, Msg!Joined
    <3> HIDE DEF Goal
    <3>4. /\ Parsed(z, Records(f, c)).val = [z.val EXCEPT ![f] = c]
          /\ Parsed(z, Records(f, c)).extra = z.extra
      <4>1. v \in Values /\ Goal(<<>>)
        BY <1>3, <3>1
      <4>2. /\ Parsed(z, Records(f, Append(<<>>, v))).val = [z.val EXCEPT ![f] = Msg!Content(v)]
            /\ Parsed(z, Records(f, Append(<<>>, v))).extra = z.extra
        BY <1>4, <1>6, <3>2, <4>1
      <4> QED BY <3>2, <3>3, <4>2
    <3>5. Records(f, c) \in Seq(Wire)
      BY <1>1, RecordsTyped
    <3> QED BY <3>3, <3>4, <3>5, ParsedRecords DEF a
  <2> QED BY <2>1, <2>2
<1> QED BY <1>5, <1>6

-----------------------------------------------------------------------------
(***************************************************************************)
(* Serializing                                                             *)
(***************************************************************************)
\* What is sent of a field is its content: without the bit there is none.
LEMMA SentTyped ==
    ASSUME class \in Classes, NEW x \in Sounds, NEW f \in Fields
    PROVE  /\ Sent(x, f) = Records(f, x.val[f]) /\ Sent(x, f) \in Seq(Wire)
           /\ x.val[f] \in Contents(f) /\ x.val[f] \in Seq(Values)
<1>1. x.val[f] \in Contents(f) /\ (~Has(x, f) => x.val[f] = <<>>)
    BY DEF Sounds, Proper, Covered
<1>2. x.val[f] \in Seq(Values)
    BY <1>1, ContentsTyped
<1>3. Records(f, x.val[f]) \in Seq(Wire) /\ Records(f, <<>>) = <<>>
    BY <1>2, RecordsTyped
<1> QED BY <1>1, <1>2, <1>3 DEF Sent

\* u[n] are the records of the fields up to number n.
Writes(u, x) ==
    /\ u \in [0 .. MaxNumber -> Seq(Wire)]
    /\ u[0] = <<>>
    /\ \A n \in 1 .. MaxNumber :
         u[n] = IF n \in Numbers THEN u[n - 1] \o Sent(x, FieldOf(n)) ELSE u[n - 1]

\* What is sent ends with the last of them, and what the class does not know.
LEMMA SerializedSolved ==
    ASSUME class \in Classes, NEW x \in Sounds
    PROVE  \E u : Writes(u, x) /\ Serialized(x) = u[MaxNumber] \o x.extra
<1> DEFINE step(n, w) == IF n \in Numbers THEN w \o Sent(x, FieldOf(n)) ELSE w
           s == [p \in (1 .. MaxNumber) \X Seq(Wire) |-> step(p[1], p[2])]
           body(u) == [n \in 0 .. MaxNumber |->
                         IF n = 0 THEN <<>>
                         ELSE IF n \in Numbers THEN u[n - 1] \o Sent(x, FieldOf(n))
                         ELSE u[n - 1]]
           u == CHOOSE u : u = body(u)
<1>1. MaxNumber \in Nat /\ <<>> \in Seq(Wire)
    BY ValuesAssumption, EmptySeq
<1>2. ASSUME NEW n \in 1 .. MaxNumber, NEW w \in Seq(Wire)
      PROVE  s[<<n, w>>] = step(n, w) /\ step(n, w) \in Seq(Wire)
  <2>1. CASE n \in Numbers
    <3>1. Sent(x, FieldOf(n)) \in Seq(Wire)
      BY <2>1, FieldOfNumber, SentTyped
    <3> QED BY <2>1, <3>1, ConcatProperties
  <2>2. CASE n \notin Numbers
    BY <2>2
  <2> QED BY <2>1, <2>2
<1>3. Steps(s, MaxNumber, Seq(Wire))
  <2> HIDE DEF s, step
  <2> QED BY <1>2 DEF Steps
<1>4. PICK g : Solves(g, MaxNumber, Seq(Wire), <<>>, s)
  <2> HIDE DEF s
  <2> QED BY <1>1, <1>3, RecursionExists
<1> HIDE DEF s
<1>5. g = body(g)
  <2>1. g \in [0 .. MaxNumber -> Seq(Wire)] /\ g[0] = <<>>
    BY <1>4 DEF Solves
  <2>2. ASSUME NEW n \in 0 .. MaxNumber PROVE g[n] = body(g)[n]
    <3>1. CASE n = 0
      BY <2>1, <3>1, <1>1
    <3>2. CASE n # 0
      <4>1. n \in 1 .. MaxNumber /\ n - 1 \in 0 .. MaxNumber
        BY <1>1, <3>2
      <4>2. g[n] = s[<<n, g[n - 1]>>] /\ g[n - 1] \in Seq(Wire)
        BY <1>4, <2>1, <4>1 DEF Solves
      <4>3. g[n] = step(n, g[n - 1])
        BY <1>2, <4>1, <4>2
      <4> QED BY <3>2, <4>3
    <3> QED BY <3>1, <3>2
  <2> QED BY <2>1, <2>2
<1>6. u = body(u)
    BY <1>5
<1>7. Serialized(x) = u[MaxNumber] \o x.extra
    BY DEF Serialized
<1> HIDE DEF u
<1>8. u[0] = <<>>
    BY <1>1, <1>6
<1>9. \A n \in 1 .. MaxNumber : u[n] = step(n, u[n - 1])
  <2> SUFFICES ASSUME NEW n \in 1 .. MaxNumber PROVE u[n] = step(n, u[n - 1])
    OBVIOUS
  <2>1. n \in 0 .. MaxNumber /\ n # 0
    BY <1>1
  <2> QED BY <1>6, <2>1
<1>10. \A n \in 0 .. MaxNumber : u[n] \in Seq(Wire)
  <2>1. \A n \in 1 .. MaxNumber : u[n - 1] \in Seq(Wire) => u[n] \in Seq(Wire)
    <3> HIDE DEF step
    <3> QED BY <1>2, <1>9
  <2>2. u[0] \in Seq(Wire)
    BY <1>1, <1>8
  <2> QED BY <1>1, <2>1, <2>2, RecursionTyped
<1>11. u \in [0 .. MaxNumber -> Seq(Wire)]
  <2>1. u = [n \in 0 .. MaxNumber |-> u[n]]
    BY <1>6
  <2> QED BY <1>10, <2>1
<1> QED BY <1>7, <1>8, <1>9, <1>11 DEF Writes

\* What one object sends is what another one that parses it is joined with.
LEMMA ParsedSerialized ==
    ASSUME class \in Classes, Numbered(class), NEW x \in Sounds, NEW y \in Sounds
    PROVE  /\ Serialized(x) \in Seq(Wire)
           /\ Parsed(y, Serialized(x)) \in Sounds
           /\ Parsed(y, Serialized(x)).val = Msg!Join(y.val, x.val)
           /\ Parsed(y, Serialized(x)).extra = y.extra \o x.extra
<1>1. PICK u : Writes(u, x) /\ Serialized(x) = u[MaxNumber] \o x.extra
    BY SerializedSolved
<1>2. MaxNumber \in Nat /\ \A n \in 0 .. MaxNumber : u[n] \in Seq(Wire)
    BY <1>1, ValuesAssumption DEF Writes
<1> DEFINE at(n, f) == IF class.num[f] <= n THEN Msg!Joined(f, y.val[f], x.val[f])
                       ELSE y.val[f]
           Goal(n) == /\ Parsed(y, u[n]).val = [f \in Fields |-> at(n, f)]
                      /\ Parsed(y, u[n]).extra = y.extra
           Q == {n \in Nat : n <= MaxNumber => Goal(n)}
<1>3. y.val = [f \in Fields |-> y.val[f]]
    BY DEF Sounds, Shapes
<1>4. Goal(0)
  <2>1. u[0] = <<>> /\ Parsed(y, <<>>) = y
    BY <1>1, ParsedRecords DEF Writes
  <2>2. \A f \in Fields : ~(class.num[f] <= 0)
    BY ClassTyped
  <2> QED BY <1>3, <2>1, <2>2
<1>5. ASSUME NEW n \in Nat, n + 1 <= MaxNumber, Goal(n) PROVE Goal(n + 1)
  <2> DEFINE z == Parsed(y, u[n])
  <2>1. /\ n \in 0 .. MaxNumber /\ n + 1 \in 1 .. MaxNumber /\ (n + 1) - 1 = n
        /\ u[n] \in Seq(Wire) /\ z \in Sounds
    BY <1>2, <1>5, ParsedRecords
  <2>2. z.val = [f \in Fields |-> at(n, f)] /\ z.extra = y.extra
    BY <1>5
  <2>3. CASE n + 1 \notin Numbers
    <3>1. u[n + 1] = u[n]
      BY <1>1, <2>1, <2>3 DEF Writes
    <3>2. \A f \in Fields : class.num[f] <= n + 1 <=> class.num[f] <= n
      BY <2>3, ClassTyped
    <3>3. \A f \in Fields : at(n + 1, f) = at(n, f)
      BY <3>2
    <3> QED BY <2>2, <3>1, <3>3
  <2>4. CASE n + 1 \in Numbers
    <3> DEFINE e == FieldOf(n + 1)
               c == x.val[e]
    <3>1. e \in Fields /\ class.num[e] = n + 1
      BY <2>4, FieldOfNumber
    <3>2. u[n + 1] = u[n] \o Sent(x, e)
      BY <1>1, <2>1, <2>4 DEF Writes
    <3> HIDE DEF e
    <3>3. Sent(x, e) = Records(e, c) /\ Sent(x, e) \in Seq(Wire) /\ c \in Contents(e)
      BY <3>1, SentTyped
    <3>4. Parsed(y, u[n + 1]) = Parsed(z, Records(e, c))
      BY <2>1, <3>2, <3>3, ParsedConcat
    <3> HIDE DEF z, c
    <3>5. /\ Parsed(z, Records(e, c)).val = [z.val EXCEPT ![e] = Msg!Joined(e, z.val[e], c)]
          /\ Parsed(z, Records(e, c)).extra = z.extra
      BY <2>1, <3>1, <3>3, ParsedField
    <3>6. z.val[e] = y.val[e]
      BY <2>1, <2>2, <3>1
    <3>7. ASSUME NEW f \in Fields
          PROVE  [z.val EXCEPT ![e] = Msg!Joined(e, z.val[e], c)][f] = at(n + 1, f)
      <4>1. CASE f = e
        BY <2>1, <2>2, <3>1, <3>6, <4>1 DEF c
      <4>2. CASE f # e
        <5>1. class.num[f] # n + 1
          BY <3>1, <4>2 DEF Numbered, Fields
        <5>2. class.num[f] <= n + 1 <=> class.num[f] <= n
          BY <5>1, ClassTyped
        <5>3. [z.val EXCEPT ![e] = Msg!Joined(e, z.val[e], c)][f] = at(n, f)
          BY <2>2, <4>2
        <5> QED BY <5>2, <5>3
      <4> QED BY <4>1, <4>2
    <3>8. [z.val EXCEPT ![e] = Msg!Joined(e, z.val[e], c)] = [f \in Fields |-> at(n + 1, f)]
      <4> HIDE DEF at
      <4> QED BY <2>2, <3>7
    <3> QED BY <2>2, <3>4, <3>5, <3>8
  <2> QED BY <2>3, <2>4
<1> HIDE DEF Goal
<1>6. MaxNumber \in Q
  <2>1. 0 \in Q
    BY <1>4
  <2>2. ASSUME NEW n \in Nat, n \in Q PROVE n + 1 \in Q
    <3> SUFFICES ASSUME n + 1 <= MaxNumber PROVE Goal(n + 1)
      OBVIOUS
    <3>1. Goal(n)
      BY <1>2, <2>2
    <3> QED BY <1>5, <3>1
  <2> HIDE DEF Q
  <2> QED BY <1>2, <2>1, <2>2, NatSetInduction
<1>7. Goal(MaxNumber)
    BY <1>2, <1>6
<1>8. \A f \in Fields : class.num[f] <= MaxNumber
    BY <1>2, ClassTyped
<1> DEFINE z == Parsed(y, u[MaxNumber])
<1>9. z.val = Msg!Join(y.val, x.val) /\ z.extra = y.extra
    BY <1>7, <1>8 DEF Goal, Msg!Join, Msg!Fields, Fields
<1>10. u[MaxNumber] \in Seq(Wire) /\ z \in Sounds
  <2>1. u[MaxNumber] \in Seq(Wire)
    BY <1>2
  <2> QED BY <2>1, ParsedRecords
<1>11. x.extra \in Seq(Foreign) /\ x.extra \in Seq(Wire)
    BY DEF Sounds, Proper, Shapes
<1>12. Parsed(y, u[MaxNumber] \o x.extra) = Parsed(z, x.extra)
    BY <1>10, <1>11, ParsedConcat
<1>13. u[MaxNumber] \o x.extra \in Seq(Wire)
    BY <1>10, <1>11, ConcatProperties
<1> HIDE DEF z
<1>14. /\ Parsed(z, x.extra).val = z.val /\ Parsed(z, x.extra).extra = z.extra \o x.extra
       /\ Parsed(z, x.extra) \in Sounds
    BY <1>10, <1>11, ParsedForeign, ParsedRecords
<1> QED BY <1>1, <1>9, <1>12, <1>13, <1>14

-----------------------------------------------------------------------------
(***************************************************************************)
(* Sizes.  The sizer goes by has-bits, the serializer by numbers: a sum    *)
(* does not depend on the order.                                           *)
(***************************************************************************)
\* One step of Size, and its recursion along q.
SizeStep == [p \in Wire \X Nat |-> p[2] + 1 + p[1][2]]
Sizes(u, q) == SolvesAlong(u, q, Nat, 0, SizeStep)

\* A record has a size of its own.
LEMMA SizeStepOver ==
    /\ StepsOver(SizeStep, Wire, Nat)
    /\ \A r \in Wire, n \in Nat : r[2] \in Nat /\ SizeStep[<<r, n>>] = n + 1 + r[2]
<1>1. ASSUME NEW r \in Wire, NEW n \in Nat
      PROVE  r[2] \in Nat /\ SizeStep[<<r, n>>] = n + 1 + r[2]
  <2>1. r[2] \in Nat
    BY ValuesAssumption DEF Wire
  <2>2. <<r, n>> \in Wire \X Nat
    OBVIOUS
  <2>3. SizeStep[<<r, n>>] = n + 1 + r[2]
    BY <2>2 DEF SizeStep
  <2> QED BY <2>1, <2>3
<1>2. \A r \in Wire, n \in Nat : SizeStep[<<r, n>>] \in Nat
  <2> SUFFICES ASSUME NEW r \in Wire, NEW n \in Nat PROVE SizeStep[<<r, n>>] \in Nat
    OBVIOUS
  <2>1. r[2] \in Nat /\ SizeStep[<<r, n>>] = n + 1 + r[2]
    BY <1>1
  <2> QED BY <2>1
<1> QED BY <1>1, <1>2 DEF StepsOver

\* Size is the last value of the recursion.
LEMMA SizeSolved ==
    ASSUME NEW q \in Seq(Wire)
    PROVE  \E u : Sizes(u, q) /\ Size(q) = u[Len(q)]
<1> DEFINE n == Len(q)
           body(u) == [i \in 0 .. n |-> IF i = 0 THEN 0 ELSE u[i - 1] + 1 + q[i][2]]
           u == CHOOSE u : u = body(u)
<1>1. n \in Nat /\ \A i \in 1 .. n : q[i] \in Wire
    BY LenProperties, ElementOfSeq
<1>2. PICK g : SolvesAlong(g, q, Nat, 0, SizeStep)
    BY SizeStepOver, AlongExists
<1>3. g = body(g)
  <2>1. g \in [0 .. n -> Nat] /\ g[0] = 0
    BY <1>2 DEF SolvesAlong
  <2>2. ASSUME NEW i \in 0 .. n PROVE g[i] = body(g)[i]
    <3>1. CASE i = 0
      BY <2>1, <3>1, <1>1
    <3>2. CASE i # 0
      <4>1. i \in 1 .. n /\ i - 1 \in 0 .. n
        BY <1>1, <3>2
      <4>2. g[i] = SizeStep[<<q[i], g[i - 1]>>] /\ g[i - 1] \in Nat /\ q[i] \in Wire
        BY <1>1, <1>2, <2>1, <4>1 DEF SolvesAlong
      <4> HIDE DEF n
      <4>3. g[i] = g[i - 1] + 1 + q[i][2]
        BY <4>2, SizeStepOver
      <4> QED BY <3>2, <4>3
    <3> QED BY <3>1, <3>2
  <2> HIDE DEF n
  <2> QED BY <2>1, <2>2
<1>4. u = body(u)
    BY <1>3
<1>5. Size(q) = u[n]
    BY DEF Size
<1> HIDE DEF u
<1>6. u[0] = 0
    BY <1>1, <1>4
<1>7. \A i \in 1 .. n : u[i] = u[i - 1] + 1 + q[i][2]
  <2> SUFFICES ASSUME NEW i \in 1 .. n PROVE u[i] = u[i - 1] + 1 + q[i][2]
    OBVIOUS
  <2>1. i \in 0 .. n /\ i # 0
    BY <1>1
  <2> HIDE DEF n
  <2> QED BY <1>4, <2>1
<1>8. \A i \in 0 .. n : u[i] \in Nat
  <2> HIDE DEF n
  <2>1. ASSUME NEW i \in 1 .. n, u[i - 1] \in Nat PROVE u[i] \in Nat
    <3>1. q[i][2] \in Nat
      BY <1>1, SizeStepOver
    <3> QED BY <1>7, <2>1, <3>1
  <2>2. u[0] \in Nat
    BY <1>6
  <2> QED BY <1>1, <2>1, <2>2, RecursionTyped
<1>9. u \in [0 .. n -> Nat]
  <2>1. u = [i \in 0 .. n |-> u[i]]
    BY <1>4
  <2> HIDE DEF n
  <2> QED BY <1>8, <2>1
<1>10. \A i \in 1 .. n : u[i] = SizeStep[<<q[i], u[i - 1]>>]
  <2> SUFFICES ASSUME NEW i \in 1 .. n PROVE u[i] = SizeStep[<<q[i], u[i - 1]>>]
    OBVIOUS
  <2>1. i - 1 \in 0 .. n /\ q[i] \in Wire
    BY <1>1
  <2>2. u[i - 1] \in Nat
    BY <1>8, <2>1
  <2> QED BY <1>7, <2>1, <2>2, SizeStepOver
<1> QED BY <1>5, <1>6, <1>9, <1>10 DEF Sizes, SolvesAlong

\* Nothing has no size; one record more adds its own.
LEMMA SizeOfRecords ==
    /\ Size(<<>>) = 0
    /\ \A q \in Seq(Wire) : Size(q) \in Nat
    /\ \A q \in Seq(Wire), r \in Wire : Size(Append(q, r)) = Size(q) + 1 + r[2]
<1>1. Size(<<>>) = 0
  <2>1. <<>> \in Seq(Wire) /\ Len(<<>>) = 0
    BY EmptySeq
  <2>2. PICK u : Sizes(u, <<>>) /\ Size(<<>>) = u[Len(<<>>)]
    BY <2>1, SizeSolved
  <2> QED BY <2>1, <2>2 DEF Sizes, SolvesAlong
<1>2. ASSUME NEW q \in Seq(Wire) PROVE Size(q) \in Nat
  <2>1. PICK u : Sizes(u, q) /\ Size(q) = u[Len(q)]
    BY SizeSolved
  <2>2. Len(q) \in 0 .. Len(q)
    BY LenProperties
  <2> QED BY <2>1, <2>2 DEF Sizes, SolvesAlong
<1>3. ASSUME NEW q \in Seq(Wire), NEW r \in Wire
      PROVE  Size(Append(q, r)) = Size(q) + 1 + r[2]
  <2>1. PICK u : Sizes(u, q) /\ Size(q) = u[Len(q)]
    BY SizeSolved
  <2>2. Append(q, r) \in Seq(Wire) /\ Len(Append(q, r)) = Len(q) + 1
    BY AppendProperties
  <2>3. PICK g : Sizes(g, Append(q, r)) /\ Size(Append(q, r)) = g[Len(Append(q, r))]
    BY <2>2, SizeSolved
  <2>4. g[Len(q) + 1] = SizeStep[<<r, u[Len(q)]>>]
    <3>1. ASSUME NEW Z, SolvesAlong(u, q, Z, 0, SizeStep),
                 SolvesAlong(g, Append(q, r), Z, 0, SizeStep)
          PROVE  g[Len(q) + 1] = SizeStep[<<r, u[Len(q)]>>]
      BY <3>1, AlongAppend
    <3> QED BY <2>1, <2>3, <3>1 DEF Sizes
  <2>5. u[Len(q)] \in Nat
    BY <1>2, <2>1
  <2> QED BY <2>1, <2>2, <2>3, <2>4, <2>5, SizeStepOver
<1> QED BY <1>1, <1>2, <1>3

\* The sizes of two sequences are added when they are put together.
LEMMA SizeOfConcat ==
    ASSUME NEW p \in Seq(Wire), NEW r \in Seq(Wire)
    PROVE  Size(p \o r) = Size(p) + Size(r)
<1> DEFINE Q == {q \in Seq(Wire) : Size(p \o q) = Size(p) + Size(q)}
<1>1. <<>> \in Q
  <2>1. p \o <<>> = p /\ <<>> \in Seq(Wire)
    BY ConcatEmptySeq, EmptySeq
  <2>2. Size(p) \in Nat /\ Size(<<>>) = 0
    BY SizeOfRecords
  <2> QED BY <2>1, <2>2
<1>2. ASSUME NEW q \in Seq(Wire), NEW e \in Wire, q \in Q PROVE Append(q, e) \in Q
  <2>1. Append(q, e) \in Seq(Wire) /\ p \o q \in Seq(Wire)
    BY AppendProperties, ConcatProperties
  <2>2. p \o Append(q, e) = Append(p \o q, e)
    BY ConcatAppend
  <2>3. Size(p \o q) = Size(p) + Size(q)
    BY <1>2
  <2> DEFINE a == Size(p)
             b == Size(q)
             d == e[2]
  <2>4. Size(Append(p \o q, e)) = Size(p \o q) + 1 + d /\ Size(Append(q, e)) = b + 1 + d
    BY <2>1, SizeOfRecords
  <2>5. a \in Nat /\ b \in Nat /\ d \in Nat
    BY SizeOfRecords, SizeStepOver
  <2>6. Size(p \o Append(q, e)) = (a + b) + 1 + d
    BY <2>2, <2>3, <2>4
  <2> HIDE DEF a, b, d
  <2>7. Size(p \o Append(q, e)) = a + Size(Append(q, e))
    BY <2>4, <2>5, <2>6
  <2> QED BY <2>1, <2>7 DEF a
<1> HIDE DEF Q
<1>3. Seq(Wire) \subseteq Q
    BY <1>1, <1>2, SeqSetInduction
<1> QED BY <1>3 DEF Q

\* The weight of a field: the size of what is sent of it.
Weight(x) == [f \in Fields |-> Size(Records(f, x.val[f]))]
BitPlace  == [f \in Fields |-> class.bit[f] + 1]

\* Weights are sizes, and bits and numbers are places.
LEMMA Places ==
    ASSUME class \in Classes, Distinct(class), Numbered(class), NEW x \in Sounds
    PROVE  /\ IsFiniteSet(Fields)
           /\ Weight(x) \in [Fields -> Int]
           /\ class.num \in Injection(Fields, 1 .. MaxNumber)
           /\ BitPlace \in Injection(Fields, 1 .. MaxNumber)
<1>1. MaxNumber \in Nat
    BY ValuesAssumption
<1>2. class.num \in Injection(Fields, 1 .. MaxNumber)
  <2>1. class.num \in [Fields -> 1 .. MaxNumber]
    BY ClassesAssumption DEF Fields
  <2> QED BY <2>1 DEF Injection, IsInjective, Numbered, Fields
<1>3. BitPlace \in Injection(Fields, 1 .. MaxNumber)
  <2>1. \A f \in Fields : class.bit[f] \in Int /\ class.bit[f] + 1 \in 1 .. MaxNumber
    BY <1>1, ClassTyped
  <2>2. BitPlace \in [Fields -> 1 .. MaxNumber]
    BY <2>1 DEF BitPlace
  <2>3. ASSUME NEW f \in Fields, NEW g \in Fields, BitPlace[f] = BitPlace[g] PROVE f = g
    <3>1. class.bit[f] + 1 = class.bit[g] + 1
      BY <2>3 DEF BitPlace
    <3>2. class.bit[f] = class.bit[g]
      BY <2>1, <3>1
    <3> QED BY <3>2 DEF Distinct, Fields
  <2> QED BY <2>2, <2>3 DEF Injection, IsInjective
<1>4. IsFiniteSet(Fields)
  <2>1. IsFiniteSet(1 .. MaxNumber)
    BY <1>1, FS_Interval
  <2> QED BY <1>2, <2>1, FS_Injection
<1>5. Weight(x) \in [Fields -> Int]
  <2>1. ASSUME NEW f \in Fields PROVE Size(Records(f, x.val[f])) \in Int
    <3>1. Records(f, x.val[f]) \in Seq(Wire)
      BY SentTyped
    <3>2. Size(Records(f, x.val[f])) \in Nat
      BY <3>1, SizeOfRecords
    <3> QED BY <3>2
  <2> QED BY <2>1 DEF Weight
<1> QED BY <1>2, <1>3, <1>4, <1>5

\* The sizer adds up the weights in the order of the bits.
LEMMA FieldsSizeAdds ==
    ASSUME class \in Classes, Distinct(class), Numbered(class), NEW x \in Sounds
    PROVE  \E g, t : /\ Placed(g, Weight(x), BitPlace, Fields, MaxNumber)
                     /\ Adds(t, g, MaxNumber)
                     /\ FieldsSize(x) = t[MaxNumber]
<1> DEFINE g == [i \in 1 .. MaxNumber |-> SizeOfBit(x, i - 1)]
           body(u) == [i \in 0 .. MaxNumber |->
                         IF i = 0 THEN 0 ELSE u[i - 1] + SizeOfBit(x, i - 1)]
           u == CHOOSE u : u = body(u)
<1>1. MaxNumber \in Nat
    BY ValuesAssumption
<1>2. ASSUME NEW f \in Fields
      PROVE  SizeOfBit(x, class.bit[f]) = Weight(x)[f]
  <2>1. class.bit[f] \in x.has <=> Has(x, f)
    BY DEF Has
  <2>2. (CHOOSE e \in Fields : class.bit[e] = class.bit[f]) = f
    BY DEF Distinct, Fields
  <2>3. CASE Has(x, f)
    BY <2>1, <2>2, <2>3 DEF SizeOfBit, Weight
  <2>4. CASE ~Has(x, f)
    <3>1. x.val[f] = <<>>
      BY <2>4 DEF Sounds, Covered
    <3>2. Records(f, <<>>) = <<>> /\ Size(<<>>) = 0
      BY <3>1, SentTyped, RecordsTyped, SizeOfRecords
    <3> QED BY <2>1, <2>4, <3>1, <3>2 DEF SizeOfBit, Weight
  <2> QED BY <2>3, <2>4
<1>3. ASSUME NEW i \in 1 .. MaxNumber, \A f \in Fields : BitPlace[f] # i
      PROVE  SizeOfBit(x, i - 1) = 0
  <2>1. \A f \in Fields : class.bit[f] # i - 1
    <3> SUFFICES ASSUME NEW f \in Fields, class.bit[f] = i - 1 PROVE FALSE
      OBVIOUS
    <3>1. class.bit[f] + 1 = i
      BY <1>1
    <3> QED BY <1>3, <3>1 DEF BitPlace
  <2> QED BY <2>1 DEF SizeOfBit
<1>4. ASSUME NEW i \in 1 .. MaxNumber PROVE SizeOfBit(x, i - 1) \in Int
  <2>1. CASE \E f \in Fields : BitPlace[f] = i
    <3>1. PICK f \in Fields : class.bit[f] + 1 = i
      BY <2>1 DEF BitPlace
    <3>2. i - 1 = class.bit[f]
      BY <3>1, ClassTyped
    <3> QED BY <1>2, <3>2, Places
  <2>2. CASE \A f \in Fields : BitPlace[f] # i
    <3>1. SizeOfBit(x, i - 1) = 0
      BY <1>3, <2>2
    <3> QED BY <3>1
  <2> QED BY <2>1, <2>2
<1>5. g \in [1 .. MaxNumber -> Int]
    BY <1>4
<1>6. Placed(g, Weight(x), BitPlace, Fields, MaxNumber)
  <2>1. ASSUME NEW f \in Fields PROVE g[BitPlace[f]] = Weight(x)[f]
    <3>1. BitPlace[f] = class.bit[f] + 1 /\ BitPlace[f] \in 1 .. MaxNumber
      BY <1>1, ClassTyped DEF BitPlace
    <3>2. BitPlace[f] - 1 = class.bit[f]
      BY <3>1, ClassTyped
    <3> QED BY <1>2, <3>1, <3>2
  <2>2. \A i \in 1 .. MaxNumber : (\A f \in Fields : BitPlace[f] # i) => g[i] = 0
    BY <1>3
  <2> HIDE DEF g
  <2> QED BY <1>5, <2>1, <2>2 DEF Placed
<1>7. \A i \in 1 .. MaxNumber : g[i] = SizeOfBit(x, i - 1)
    OBVIOUS
<1> HIDE DEF g
<1>8. PICK t : Adds(t, g, MaxNumber)
    BY <1>1, <1>5, AddsExists
<1>9. t = body(t)
  <2>1. t \in [0 .. MaxNumber -> Int] /\ t[0] = 0
    BY <1>8 DEF Adds
  <2>2. ASSUME NEW i \in 0 .. MaxNumber PROVE t[i] = body(t)[i]
    <3>1. CASE i = 0
      BY <2>1, <3>1, <1>1
    <3>2. CASE i # 0
      <4>1. i \in 1 .. MaxNumber
        BY <1>1, <3>2
      <4> QED BY <1>7, <1>8, <3>2, <4>1 DEF Adds
    <3> QED BY <3>1, <3>2
  <2> QED BY <2>1, <2>2
<1>10. u = body(u)
    BY <1>9
<1>11. FieldsSize(x) = u[MaxNumber]
    BY DEF FieldsSize
<1> HIDE DEF u
<1>12. Adds(u, g, MaxNumber)
  <2>1. u[0] = 0
    BY <1>1, <1>10
  <2>2. \A i \in 1 .. MaxNumber : u[i] = u[i - 1] + g[i]
    <3> SUFFICES ASSUME NEW i \in 1 .. MaxNumber PROVE u[i] = u[i - 1] + g[i]
      OBVIOUS
    <3>1. i \in 0 .. MaxNumber /\ i # 0
      BY <1>1
    <3> QED BY <1>7, <1>10, <3>1
  <2>3. \A i \in 0 .. MaxNumber : u[i] \in Int
    <3>1. ASSUME NEW i \in 1 .. MaxNumber, u[i - 1] \in Int PROVE u[i] \in Int
      <4>1. g[i] \in Int /\ u[i] = u[i - 1] + g[i]
        BY <1>5, <2>2
      <4> QED BY <3>1, <4>1
    <3>2. u[0] \in Int
      BY <2>1
    <3> QED BY <1>1, <3>1, <3>2, RecursionTyped
  <2>4. u = [i \in 0 .. MaxNumber |-> u[i]]
    BY <1>10
  <2>5. u \in [0 .. MaxNumber -> Int]
    BY <2>3, <2>4
  <2> QED BY <2>1, <2>2, <2>5 DEF Adds
<1> QED BY <1>6, <1>11, <1>12

\* The serializer adds them up in the order of the numbers.
LEMMA WritesAdds ==
    ASSUME class \in Classes, Distinct(class), Numbered(class), NEW x \in Sounds,
           NEW u, Writes(u, x)
    PROVE  \E h, s : /\ Placed(h, Weight(x), class.num, Fields, MaxNumber)
                     /\ Adds(s, h, MaxNumber)
                     /\ Size(u[MaxNumber]) = s[MaxNumber]
<1> DEFINE h == [n \in 1 .. MaxNumber |->
                   IF n \in Numbers THEN Weight(x)[FieldOf(n)] ELSE 0]
           s == [n \in 0 .. MaxNumber |-> Size(u[n])]
<1>1. MaxNumber \in Nat /\ \A n \in 0 .. MaxNumber : u[n] \in Seq(Wire)
    BY ValuesAssumption DEF Writes
<1>2. Weight(x) \in [Fields -> Int]
    BY Places
<1>3. h \in [1 .. MaxNumber -> Int]
    BY <1>2, FieldOfNumber
<1>4. Placed(h, Weight(x), class.num, Fields, MaxNumber)
  <2>1. ASSUME NEW f \in Fields PROVE h[class.num[f]] = Weight(x)[f]
    <3>1. class.num[f] \in Numbers /\ class.num[f] \in 1 .. MaxNumber
      BY ClassTyped
    <3>2. FieldOf(class.num[f]) = f
      BY <3>1, FieldOfNumber DEF Numbered, Fields
    <3> QED BY <3>1, <3>2
  <2>2. ASSUME NEW n \in 1 .. MaxNumber, \A f \in Fields : class.num[f] # n
        PROVE  h[n] = 0
    BY <2>2 DEF Numbers
  <2> HIDE DEF h
  <2> QED BY <1>3, <2>1, <2>2 DEF Placed
<1>5. Adds(s, h, MaxNumber)
  <2>1. s \in [0 .. MaxNumber -> Int]
    <3>1. ASSUME NEW n \in 0 .. MaxNumber PROVE Size(u[n]) \in Int
      <4>1. Size(u[n]) \in Nat
        BY <1>1, SizeOfRecords
      <4> QED BY <4>1
    <3> QED BY <3>1
  <2>2. s[0] = 0
    BY <1>1, SizeOfRecords DEF Writes
  <2>3. ASSUME NEW n \in 1 .. MaxNumber PROVE s[n] = s[n - 1] + h[n]
    <3>1. n \in 0 .. MaxNumber /\ n - 1 \in 0 .. MaxNumber
      BY <1>1
    <3>2. s[n] = Size(u[n]) /\ s[n - 1] = Size(u[n - 1]) /\ u[n - 1] \in Seq(Wire)
          /\ s[n - 1] \in Int
      BY <1>1, <2>1, <3>1
    <3>3. CASE n \in Numbers
      <4> DEFINE f == FieldOf(n)
      <4>1. f \in Fields
        BY <3>3, FieldOfNumber
      <4>2. u[n] = u[n - 1] \o Sent(x, f)
        BY <3>3 DEF Writes
      <4> HIDE DEF f
      <4>3. Sent(x, f) = Records(f, x.val[f]) /\ Sent(x, f) \in Seq(Wire)
        BY <4>1, SentTyped
      <4>4. Size(u[n]) = Size(u[n - 1]) + Size(Sent(x, f))
        BY <3>2, <4>2, <4>3, SizeOfConcat
      <4>5. h[n] = Size(Sent(x, f))
        BY <3>3, <4>1, <4>3 DEF f, Weight
      <4> QED BY <3>2, <4>4, <4>5
    <3>4. CASE n \notin Numbers
      <4>1. u[n] = u[n - 1] /\ h[n] = 0
        BY <3>4 DEF Writes
      <4> HIDE DEF s
      <4> QED BY <3>2, <4>1
    <3> QED BY <3>3, <3>4
  <2> HIDE DEF s, h
  <2> QED BY <2>1, <2>2, <2>3 DEF Adds
<1>6. Size(u[MaxNumber]) = s[MaxNumber]
    BY <1>1
<1> QED BY <1>4, <1>5, <1>6

\* The sizer and the serializer agree.
LEMMA SizesAgree ==
    ASSUME class \in Classes, Distinct(class), Numbered(class), NEW x \in Sounds
    PROVE  ByteSize(x) = Size(Serialized(x))
<1>1. PICK u : Writes(u, x) /\ Serialized(x) = u[MaxNumber] \o x.extra
    BY SerializedSolved
<1>2. u[MaxNumber] \in Seq(Wire) /\ x.extra \in Seq(Wire) /\ MaxNumber \in Nat
    BY <1>1, ValuesAssumption DEF Writes, Sounds, Shapes
<1>3. PICK h, s : /\ Placed(h, Weight(x), class.num, Fields, MaxNumber)
                  /\ Adds(s, h, MaxNumber)
                  /\ Size(u[MaxNumber]) = s[MaxNumber]
    BY <1>1, WritesAdds
<1>4. PICK g, t : /\ Placed(g, Weight(x), BitPlace, Fields, MaxNumber)
                  /\ Adds(t, g, MaxNumber)
                  /\ FieldsSize(x) = t[MaxNumber]
    BY FieldsSizeAdds
<1>5. s[MaxNumber] = t[MaxNumber]
    BY <1>2, <1>3, <1>4, Places, SumOrder
<1>6. Size(Serialized(x)) = Size(u[MaxNumber]) + Size(x.extra)
    BY <1>1, <1>2, SizeOfConcat
<1> QED BY <1>3, <1>4, <1>5, <1>6 DEF ByteSize

-----------------------------------------------------------------------------
(***************************************************************************)
(* The invariant                                                           *)
(***************************************************************************)
\* The invariant holds of new objects.
LEMMA InitIInv == Init => IInv
    BY NewSound DEF Init, IInv

\* An action that puts a sound object somewhere preserves the invariant.
LEMMA PutIInv ==
    ASSUME IInv, NEW o \in Objects, NEW x \in Sounds, Put(o, x) PROVE IInv'
<1>1. /\ obj' = [obj EXCEPT ![o] = x] /\ UNCHANGED <<class, live>>
    BY DEF Put
<1>2. Fields' = Fields /\ Sounds' = Sounds
    BY <1>1 DEF Fields, Sounds, Shapes, Covered, Has, Proper, Contents, Repeated,
                Foreign, Numbers, Wire
<1>3. obj' \in [Objects -> Sounds]
    BY <1>1 DEF IInv
<1> QED BY <1>1, <1>2, <1>3 DEF IInv

\* What each action puts into an object, and that it is sound.
LEMMA AccessorSound ==
    ASSUME IInv, DistinctBits, NEW o \in Objects, NEW f \in Fields
    PROVE  /\ \A v \in Values : ~Repeated(f) =>
                 Written(obj[o], f, Msg!Content(v)) \in Sounds
           /\ \A v \in Values : Repeated(f) =>
                 Written(obj[o], f, Append(obj[o].val[f], v)) \in Sounds
           /\ Written(obj[o], f, obj[o].val[f]) \in Sounds
           /\ [obj[o] EXCEPT !.val[f] = <<>>, !.has = @ \ {class.bit[f]}] \in Sounds
<1> DEFINE x == obj[o]
<1>1. x \in Sounds /\ class \in Classes
    BY DEF IInv
<1>2. x.val[f] \in Contents(f)
    BY <1>1 DEF Sounds, Proper
<1>3. Distinct(class)
    BY <1>1 DEF DistinctBits
<1> HIDE DEF x
<1>4. [x EXCEPT !.val[f] = <<>>, !.has = @ \ {class.bit[f]}] \in Sounds
    BY <1>1, <1>3, ClearFieldSound
<1>5. \A c \in Contents(f) : Written(x, f, c) \in Sounds
    BY <1>1, WrittenSound
<1> QED BY <1>2, <1>4, <1>5, ContentsTyped DEF x

\* What an object sends can be parsed: it is made of records.
LEMMA SerializedTyped ==
    ASSUME class \in Classes, NEW x \in Sounds PROVE Serialized(x) \in Seq(Wire)
<1>1. PICK u : Writes(u, x) /\ Serialized(x) = u[MaxNumber] \o x.extra
    BY SerializedSolved
<1>2. u[MaxNumber] \in Seq(Wire) /\ x.extra \in Seq(Wire)
    BY <1>1, ValuesAssumption DEF Writes, Sounds, Shapes
<1> QED BY <1>1, <1>2, ConcatProperties

\* Every action preserves the invariant.
LEMMA NextIInv ==
    ASSUME IInv, DistinctBits, [Next]_vars PROVE IInv'
<1>0. /\ class \in Classes /\ live \subseteq Fields /\ \A o \in Objects : obj[o] \in Sounds
    BY DEF IInv
<1>1. ASSUME NEW o \in Objects, NEW f \in live, Set(o, f) PROVE IInv'
  <2>1. PICK v \in Values : Put(o, Written(obj[o], f, Msg!Content(v)))
      BY <1>1 DEF Set
  <2>2. Written(obj[o], f, Msg!Content(v)) \in Sounds
      BY <1>0, <1>1, AccessorSound DEF Set
  <2> QED BY <2>1, <2>2, PutIInv
<1>2. ASSUME NEW o \in Objects, NEW f \in live, Add(o, f) PROVE IInv'
  <2>1. PICK v \in Values : Put(o, Written(obj[o], f, Append(obj[o].val[f], v)))
      BY <1>2 DEF Add
  <2>2. Written(obj[o], f, Append(obj[o].val[f], v)) \in Sounds
      BY <1>0, <1>2, AccessorSound DEF Add
  <2> QED BY <2>1, <2>2, PutIInv
<1>3. ASSUME NEW o \in Objects, NEW f \in live, Mutable(o, f) PROVE IInv'
  <2>1. Written(obj[o], f, obj[o].val[f]) \in Sounds
      BY <1>0, AccessorSound
  <2> QED BY <1>3, <2>1, PutIInv DEF Mutable
<1>4. ASSUME NEW o \in Objects, NEW f \in live, ClearField(o, f) PROVE IInv'
  <2> DEFINE y == [obj[o] EXCEPT !.val[f] = <<>>, !.has = @ \ {class.bit[f]}]
  <2>1. y \in Sounds
      BY <1>0, AccessorSound
  <2>2. Put(o, y)
      BY <1>4 DEF ClearField
  <2> HIDE DEF y
  <2> QED BY <2>1, <2>2, PutIInv
<1>5. ASSUME NEW o \in Objects, NEW f \in live,
              Release(o, f) \/ SetAllocated(o, f) PROVE IInv'
    BY <1>1, <1>4, <1>5 DEF Release, SetAllocated
<1>6. ASSUME NEW o \in Objects, Clear(o) PROVE IInv'
    BY <1>0, <1>6, ClearedIsNew, NewSound, PutIInv DEF Clear
<1>7. ASSUME NEW o \in Objects, Receive(o) PROVE IInv'
  <2>1. PICK n \in {class.num[f] : f \in live} \cup {MaxNumber + 1}, v \in Values :
            Put(o, Read(obj[o], <<n, v>>))
      BY <1>7 DEF Receive
  <2>2. n \in Nat
      BY <1>0, ClassTyped, ValuesAssumption
  <2>3. <<n, v>> \in Wire
      BY <2>2 DEF Wire
  <2>4. Read(obj[o], <<n, v>>) \in Sounds
      BY <1>0, <2>3, ReadSound
  <2> QED BY <2>1, <2>4, PutIInv
<1>8. ASSUME NEW o \in Objects, NEW p \in Objects, MergeFrom(o, p) PROVE IInv'
  <2>1. Merged(obj[o], obj[p]) \in Sounds
      BY <1>0, MergedSound
  <2> QED BY <1>8, <2>1, PutIInv DEF MergeFrom
<1>9. ASSUME NEW o \in Objects, NEW p \in Objects, CopyFrom(o, p) PROVE IInv'
  <2>1. Cleared(obj[o]) = New /\ Merged(New, obj[p]) \in Sounds
      BY <1>0, ClearedIsNew, NewSound, MergedSound
  <2> QED BY <1>9, <2>1, PutIInv DEF CopyFrom
<1>10. ASSUME NEW o \in Objects, NEW p \in Objects, Swap(o, p) PROVE IInv'
  <2>1. obj' = [obj EXCEPT ![o] = obj[p], ![p] = obj[o]] /\ UNCHANGED <<class, live>>
      BY <1>10 DEF Swap
  <2>2. obj' \in [Objects -> Sounds]
      BY <2>1 DEF IInv
  <2>3. Fields' = Fields /\ Sounds' = Sounds
      BY <2>1 DEF Fields, Sounds, Shapes, Covered, Has, Proper, Contents, Repeated,
                  Foreign, Numbers, Wire
  <2> QED BY <1>0, <2>1, <2>2, <2>3 DEF IInv
<1>11. ASSUME NEW o \in Objects, NEW p \in Objects, Send(o, p) PROVE IInv'
  <2>1. Serialized(obj[p]) \in Seq(Wire)
      BY <1>0, SerializedTyped
  <2>2. Cleared(obj[o]) = New /\ Parsed(New, Serialized(obj[p])) \in Sounds
      BY <1>0, <2>1, ClearedIsNew, NewSound, ParsedRecords
  <2> QED BY <1>11, <2>2, PutIInv DEF Send
<1>12. CASE UNCHANGED vars
  <2>1. UNCHANGED <<class, live, obj>>
      BY <1>12 DEF vars
  <2>2. Fields' = Fields /\ Sounds' = Sounds
      BY <2>1 DEF Fields, Sounds, Shapes, Covered, Has, Proper, Contents, Repeated,
                  Foreign, Numbers, Wire
  <2> QED BY <2>1, <2>2 DEF IInv
<1> QED BY <1>1, <1>2, <1>3, <1>4, <1>5, <1>6, <1>7, <1>8, <1>9, <1>10, <1>11,
           <1>12 DEF Next

(***************************************************************************)
(* A value never lacks its bit, in a class whose has-bits are distinct:    *)
(* Clear, merge and serializer may look at the bits alone.                 *)
(***************************************************************************)
THEOREM HasBitsCoverAlways ==
    ASSUME DistinctBits PROVE Spec => []HasBitsCover
<1>1. DistinctBits /\ IInv /\ [Next]_vars => IInv'
    BY NextIInv
<1>2. IInv => HasBitsCover
    BY DEF IInv, Sounds, Covered, HasBitsCover
<1> QED BY InitIInv, <1>1, <1>2, PTL DEF Spec

(***************************************************************************)
(* Two messages sent back to back are parsed as their merge, whatever has  *)
(* been done to the two objects before.                                    *)
(***************************************************************************)
THEOREM ConcatIsMergeAlways ==
    ASSUME DistinctBits, DistinctNumbers PROVE Spec => []ConcatIsMerge
<1>1. DistinctBits /\ IInv /\ [Next]_vars => IInv'
    BY NextIInv
<1>2. DistinctNumbers /\ IInv => ConcatIsMerge
  <2> SUFFICES ASSUME DistinctNumbers, IInv, NEW o \in Objects, NEW p \in Objects
               PROVE  LET x == Parsed(New, Serialized(obj[o]) \o Serialized(obj[p]))
                          y == Merged(obj[o], obj[p])
                      IN  x.val = y.val /\ x.extra = y.extra
      BY DEF ConcatIsMerge
  <2> DEFINE a == obj[o]
             b == obj[p]
             z == Parsed(New, Serialized(a))
  <2>1. a \in Sounds /\ b \in Sounds /\ class \in Classes /\ Numbered(class)
      BY DEF IInv, DistinctNumbers
  <2> HIDE DEF a, b
  <2>2. /\ Serialized(a) \in Seq(Wire) /\ Serialized(b) \in Seq(Wire)
        /\ z \in Sounds /\ z.val = Msg!Join(New.val, a.val)
        /\ z.extra = New.extra \o a.extra
      BY <2>1, NewSound, ParsedSerialized
  <2>3. z.val = a.val /\ z.extra = a.extra
      BY <2>1, <2>2, JoinedNew
  <2>4. Parsed(New, Serialized(a) \o Serialized(b)) = Parsed(z, Serialized(b))
      BY <2>1, <2>2, NewSound, ParsedConcat
  <2> HIDE DEF z
  <2>5. /\ Parsed(z, Serialized(b)).val = Msg!Join(z.val, b.val)
        /\ Parsed(z, Serialized(b)).extra = z.extra \o b.extra
      BY <2>1, <2>2, ParsedSerialized
  <2>6. Merged(a, b).val = Msg!Join(a.val, b.val) /\ Merged(a, b).extra = a.extra \o b.extra
      BY <2>1, MergedSound
  <2> QED BY <2>3, <2>4, <2>5, <2>6 DEF a, b
<1> QED BY InitIInv, <1>1, <1>2, PTL DEF Spec

(***************************************************************************)
(* The size computed beforehand is that of what is written, though the two *)
(* passes take the fields in different orders.                             *)
(***************************************************************************)
THEOREM SizeMatchesAlways ==
    ASSUME DistinctBits, DistinctNumbers PROVE Spec => []SizeMatches
<1>1. DistinctBits /\ IInv /\ [Next]_vars => IInv'
    BY NextIInv
<1>2. DistinctBits /\ DistinctNumbers /\ IInv => SizeMatches
  <2> SUFFICES ASSUME DistinctBits, DistinctNumbers, IInv, NEW o \in Objects
               PROVE  ByteSize(obj[o]) = Size(Serialized(obj[o]))
      BY DEF SizeMatches
  <2>1. /\ obj[o] \in Sounds /\ class \in Classes
        /\ Distinct(class) /\ Numbered(class)
      BY DEF IInv, DistinctBits, DistinctNumbers
  <2> QED BY <2>1, SizesAgree
<1> QED BY InitIInv, <1>1, <1>2, PTL DEF Spec

-----------------------------------------------------------------------------
(***************************************************************************)
(* The objects implement Message                                           *)
(***************************************************************************)
\* The contents and the unknown fields, without the bits.
Vals   == [o \in Objects |-> obj[o].val]
Extras == [o \in Objects |-> obj[o].extra]

\* Putting an object somewhere changes the contents there.
LEMMA PutMapped ==
    ASSUME IInv, NEW o \in Objects, NEW x \in Sounds, Put(o, x)
    PROVE  /\ Vals' = [Vals EXCEPT ![o] = x.val]
           /\ Extras' = [Extras EXCEPT ![o] = x.extra]
           /\ class' = class
<1>1. obj' = [obj EXCEPT ![o] = x] /\ class' = class /\ obj \in [Objects -> Sounds]
    BY DEF Put, IInv
<1>2. \A q \in Objects : obj'[q] = IF q = o THEN x ELSE obj[q]
    BY <1>1
<1>3. Vals' = [q \in Objects |-> IF q = o THEN x.val ELSE obj[q].val]
    BY <1>2 DEF Vals
<1>4. Extras' = [q \in Objects |-> IF q = o THEN x.extra ELSE obj[q].extra]
    BY <1>2 DEF Extras
<1> QED BY <1>1, <1>3, <1>4 DEF Vals, Extras

\* Putting a field's new content into an object assigns it.
LEMMA PutAssigns ==
    ASSUME IInv, NEW o \in Objects, NEW x \in Sounds, Put(o, x), NEW f \in Fields, NEW c,
           x.val = [obj[o].val EXCEPT ![f] = c], x.extra = obj[o].extra
    PROVE  Msg!Assign(o, f, c)
<1>1. /\ Vals' = [Vals EXCEPT ![o] = x.val]
      /\ Extras' = [Extras EXCEPT ![o] = x.extra]
      /\ class' = class
    BY PutMapped
<1>2. Vals[o] = obj[o].val /\ Extras[o] = obj[o].extra
    BY DEF Vals, Extras
<1>3. Vals' = [Vals EXCEPT ![o] = [@ EXCEPT ![f] = c]]
    BY <1>1, <1>2
<1>4. Extras' = Extras
    BY <1>1, <1>2 DEF Extras
<1> QED BY <1>1, <1>3, <1>4 DEF Msg!Assign, Vals, Extras

\* New objects are new messages.
LEMMA InitImplements == Init => Msg!Init
    BY DEF Init, New, Msg!Init

\* The accessors of a field: a write, a clear or nothing.
LEMMA AccessorsImplement ==
    ASSUME IInv, DistinctBits, NEW o \in Objects, NEW f \in live,
           \/ Set(o, f) \/ Add(o, f) \/ Mutable(o, f) \/ ClearField(o, f)
           \/ Release(o, f) \/ SetAllocated(o, f)
    PROVE  [Msg!Next]_Msg!vars
<1> DEFINE x == obj[o]
<1>0. /\ class \in Classes /\ f \in Fields /\ x \in Sounds /\ x.val[f] \in Contents(f)
      /\ (Msg!Repeated(f) <=> Repeated(f)) /\ f \in Msg!Fields
      /\ Distinct(class)
    BY DEF IInv, Msg!Repeated, Repeated, Msg!Fields, Fields, Sounds, Proper, DistinctBits
<1>a. Vals[o] = x.val
    BY DEF Vals
<1>1. ASSUME NEW v \in Values, Msg!Write(o, f, v) PROVE Msg!Next
    BY <1>0, <1>1 DEF Msg!Next
<1>2. ASSUME NEW v \in Values, NEW c \in Contents(f), Put(o, Written(x, f, c)),
              c = IF Repeated(f) THEN Append(x.val[f], v) ELSE Msg!Content(v)
      PROVE  Msg!Next
  <2>1. /\ Written(x, f, c) \in Sounds
        /\ Written(x, f, c).val = [x.val EXCEPT ![f] = c]
        /\ Written(x, f, c).extra = x.extra
    <3> HIDE DEF x
    <3> QED BY <1>0, WrittenSound
  <2>2. Msg!Assign(o, f, c)
      BY <1>0, <1>2, <2>1, PutAssigns
  <2>3. c = IF Msg!Repeated(f) THEN Append(Vals[o][f], v) ELSE Msg!Content(v)
      BY <1>0, <1>a, <1>2
  <2>4. Msg!Write(o, f, v)
      BY <2>2, <2>3 DEF Msg!Write, Msg!Assign, Vals
  <2> QED BY <1>1, <2>4
<1>3. CASE Set(o, f) \/ Add(o, f)
  <2> DEFINE c(v) == IF Repeated(f) THEN Append(x.val[f], v) ELSE Msg!Content(v)
  <2>1. PICK v \in Values : Put(o, Written(x, f, c(v)))
      BY <1>3 DEF Set, Add
  <2>2. c(v) \in Contents(f)
      BY <1>0, ContentsTyped
  <2> QED BY <1>2, <2>1, <2>2
<1>4. CASE Mutable(o, f)
  <2>1. Put(o, Written(x, f, x.val[f]))
      BY <1>4 DEF Mutable
  <2> HIDE DEF x
  <2>2. /\ Written(x, f, x.val[f]) \in Sounds
        /\ Written(x, f, x.val[f]).val = [x.val EXCEPT ![f] = x.val[f]]
        /\ Written(x, f, x.val[f]).extra = x.extra
      BY <1>0, WrittenSound
  <2>3. [x.val EXCEPT ![f] = x.val[f]] = x.val
      BY <1>0 DEF Sounds, Shapes
  <2>4. /\ Vals' = [Vals EXCEPT ![o] = x.val] /\ Extras' = [Extras EXCEPT ![o] = x.extra]
        /\ class' = class
      BY <2>1, <2>2, <2>3, PutMapped
  <2>5. Vals' = Vals /\ Extras' = Extras
      BY <2>4 DEF Vals, Extras, x
  <2> QED BY <2>4, <2>5 DEF Msg!vars, Vals, Extras
<1>5. CASE ClearField(o, f)
  <2> DEFINE y == [x EXCEPT !.val[f] = <<>>, !.has = @ \ {class.bit[f]}]
  <2>1. Put(o, y)
      BY <1>5 DEF ClearField
  <2> HIDE DEF x
  <2>2. y \in Sounds /\ y.val = [x.val EXCEPT ![f] = <<>>] /\ y.extra = x.extra
      BY <1>0, ClearFieldSound
  <2> HIDE DEF y
  <2>3. Msg!Assign(o, f, <<>>)
      BY <1>0, <2>1, <2>2, PutAssigns DEF x
  <2> QED BY <1>0, <2>3 DEF Msg!ClearField, Msg!Next
<1> QED BY <1>3, <1>4, <1>5 DEF Release, SetAllocated

\* A record of another writer.
LEMMA ReceiveImplements ==
    ASSUME IInv, DistinctNumbers, NEW o \in Objects, Receive(o)
    PROVE  Msg!Next
<1>0. /\ class \in Classes /\ live \subseteq Fields /\ obj[o] \in Sounds
      /\ Numbered(class) /\ MaxNumber \in Nat
    BY ValuesAssumption DEF IInv, DistinctNumbers
<1>1. PICK n \in {class.num[f] : f \in live} \cup {MaxNumber + 1}, v \in Values :
          Put(o, Read(obj[o], <<n, v>>))
    BY DEF Receive
<1>2. n \in 1 .. MaxNumber + 1 /\ n \in Nat
    BY <1>0, ClassTyped
<1>3. <<n, v>> \in Wire
    BY <1>2 DEF Wire
<1>4. Read(obj[o], <<n, v>>) \in Sounds
    BY <1>0, <1>3, ReadSound
<1>5. (n \in Numbers) <=> \E f \in Msg!Fields : class.num[f] = n
    BY DEF Numbers, Fields, Msg!Fields
<1>6. Msg!Receive(o, n, v)
  <2>1. CASE n \in Numbers
    <3>1. PICK f \in Fields : class.num[f] = n
        BY <2>1 DEF Numbers
    <3> DEFINE x == obj[o]
    <3>2. PICK c : c = IF Repeated(f) THEN Append(x.val[f], v) ELSE Msg!Content(v)
        OBVIOUS
    <3>3. c = IF Msg!Repeated(f) THEN Append(Vals[o][f], v) ELSE Msg!Content(v)
        BY <3>2 DEF Vals, Msg!Repeated, Repeated
    <3>4. Msg!Assign(o, f, c)
      <4> PICK y : y = Read(x, <<n, v>>)
          OBVIOUS
      <4>1. x \in Sounds
          BY <1>0
      <4>2. y \in Sounds /\ Put(o, y)
          BY <1>1, <1>4
      <4> HIDE DEF x
      <4>3. y.val = [x.val EXCEPT ![f] = c] /\ y.extra = x.extra
          BY <1>0, <3>1, <3>2, <4>1, ReadField
      <4> QED BY <3>1, <4>2, <4>3, PutAssigns DEF x
    <3>5. Msg!Write(o, f, v)
        BY <3>3, <3>4 DEF Msg!Write, Msg!Assign, Vals
    <3> QED BY <1>5, <2>1, <3>1, <3>5 DEF Msg!Receive, Msg!Fields, Fields
  <2>2. CASE n \notin Numbers
    <3> DEFINE y == Read(obj[o], <<n, v>>)
    <3>1. y.val = obj[o].val /\ y.extra = Append(obj[o].extra, <<n, v>>)
      <4>1. obj[o] \in Shapes
          BY <1>0 DEF Sounds
      <4> QED BY <2>2, <4>1 DEF Read, Shapes
    <3> HIDE DEF y
    <3>2. /\ Vals' = [Vals EXCEPT ![o] = y.val] /\ Extras' = [Extras EXCEPT ![o] = y.extra]
          /\ class' = class
        BY <1>1, <1>4, PutMapped DEF y
    <3>3. Vals' = Vals /\ Extras' = [Extras EXCEPT ![o] = Append(@, <<n, v>>)]
        BY <3>1, <3>2 DEF Vals, Extras
    <3> QED BY <1>5, <2>2, <3>2, <3>3 DEF Msg!Receive, Vals, Extras
  <2> QED BY <2>1, <2>2
<1> QED BY <1>2, <1>6 DEF Msg!Next

\* Every other action on one or two objects.
LEMMA CopiesImplement ==
    ASSUME IInv, DistinctNumbers, NEW o \in Objects, NEW p \in Objects,
           \/ Clear(o) \/ MergeFrom(o, p) \/ CopyFrom(o, p) \/ Swap(o, p) \/ Send(o, p)
    PROVE  Msg!Next
<1>0. /\ class \in Classes /\ obj[o] \in Sounds /\ obj[p] \in Sounds
      /\ obj \in [Objects -> Sounds] /\ Numbered(class)
      /\ Cleared(obj[o]) = New
      /\ Vals[o] = obj[o].val /\ Vals[p] = obj[p].val
      /\ Extras[o] = obj[o].extra /\ Extras[p] = obj[p].extra
    BY ClearedIsNew DEF IInv, DistinctNumbers, Vals, Extras
<1>1. CASE Clear(o)
  <2>1. Put(o, New)
      BY <1>0, <1>1 DEF Clear
  <2>2. /\ Vals' = [Vals EXCEPT ![o] = New.val] /\ Extras' = [Extras EXCEPT ![o] = New.extra]
        /\ class' = class
      BY <2>1, NewSound, PutMapped
  <2>3. New.val = Msg!Default /\ New.extra = <<>>
      BY DEF New
  <2>4. Msg!Clear(o)
      BY <2>2, <2>3 DEF Msg!Clear, Vals, Extras
  <2> QED BY <2>4 DEF Msg!Next
<1>2. CASE MergeFrom(o, p)
  <2> DEFINE z == Merged(obj[o], obj[p])
  <2>1. Put(o, z)
      BY <1>2 DEF MergeFrom
  <2>2. /\ z \in Sounds /\ z.val = Msg!Join(obj[o].val, obj[p].val)
        /\ z.extra = obj[o].extra \o obj[p].extra
      BY <1>0, MergedSound
  <2> HIDE DEF z
  <2>3. /\ Vals' = [Vals EXCEPT ![o] = z.val] /\ Extras' = [Extras EXCEPT ![o] = z.extra]
        /\ class' = class
      BY <2>1, <2>2, PutMapped
  <2>4. /\ Vals' = [Vals EXCEPT ![o] = Msg!Join(@, Vals[p])]
        /\ Extras' = [Extras EXCEPT ![o] = @ \o Extras[p]]
      BY <1>0, <2>2, <2>3
  <2>5. Msg!MergeFrom(o, p)
      BY <2>3, <2>4 DEF Msg!MergeFrom, Vals, Extras
  <2> QED BY <2>5 DEF Msg!Next
<1>3. ASSUME NEW z \in Sounds, Put(o, z), z.val = obj[p].val, z.extra = obj[p].extra
      PROVE  Msg!CopyFrom(o, p)
  <2>1. /\ Vals' = [Vals EXCEPT ![o] = z.val] /\ Extras' = [Extras EXCEPT ![o] = z.extra]
        /\ class' = class
      BY <1>3, PutMapped
  <2>2. Vals' = [Vals EXCEPT ![o] = Vals[p]] /\ Extras' = [Extras EXCEPT ![o] = Extras[p]]
      BY <1>0, <1>3, <2>1
  <2> QED BY <2>1, <2>2 DEF Msg!CopyFrom, Vals, Extras
<1>4. CASE CopyFrom(o, p)
  <2> DEFINE z == Merged(New, obj[p])
  <2>1. Put(o, z)
      BY <1>0, <1>4 DEF CopyFrom
  <2>2. /\ z \in Sounds /\ z.val = Msg!Join(New.val, obj[p].val)
        /\ z.extra = New.extra \o obj[p].extra
      BY <1>0, NewSound, MergedSound
  <2>3. z.val = obj[p].val /\ z.extra = obj[p].extra
      BY <1>0, <2>2, JoinedNew
  <2> HIDE DEF z
  <2> QED BY <1>3, <2>1, <2>2, <2>3 DEF Msg!Next
<1>5. CASE Swap(o, p)
  <2>1. /\ obj' = [obj EXCEPT ![o] = obj[p], ![p] = obj[o]] /\ class' = class
      BY <1>5 DEF Swap
  <2>2. \A q \in Objects : obj'[q] = IF q = p THEN obj[o] ELSE IF q = o THEN obj[p] ELSE obj[q]
      BY <1>0, <2>1
  <2>3. Vals' = [q \in Objects |-> IF q = p THEN obj[o].val
                                   ELSE IF q = o THEN obj[p].val ELSE obj[q].val]
      BY <2>2 DEF Vals
  <2>4. Extras' = [q \in Objects |-> IF q = p THEN obj[o].extra
                                     ELSE IF q = o THEN obj[p].extra ELSE obj[q].extra]
      BY <2>2 DEF Extras
  <2>5. Vals' = [Vals EXCEPT ![o] = Vals[p], ![p] = Vals[o]]
      BY <1>0, <2>3 DEF Vals
  <2>6. Extras' = [Extras EXCEPT ![o] = Extras[p], ![p] = Extras[o]]
      BY <1>0, <2>4 DEF Extras
  <2>7. Msg!Swap(o, p)
      BY <2>1, <2>5, <2>6 DEF Msg!Swap, Vals, Extras
  <2> QED BY <2>7 DEF Msg!Next
<1>6. CASE Send(o, p)
  <2> DEFINE z == Parsed(New, Serialized(obj[p]))
  <2>1. Put(o, z)
      BY <1>0, <1>6 DEF Send
  <2>2. /\ z \in Sounds /\ z.val = Msg!Join(New.val, obj[p].val)
        /\ z.extra = New.extra \o obj[p].extra
      BY <1>0, NewSound, ParsedSerialized
  <2>3. z.val = obj[p].val /\ z.extra = obj[p].extra
      BY <1>0, <2>2, JoinedNew
  <2> HIDE DEF z
  <2> QED BY <1>3, <2>1, <2>2, <2>3 DEF Msg!Next
<1> QED BY <1>1, <1>2, <1>4, <1>5, <1>6

\* Every step of an object is one of the message, or none.
LEMMA StepImplements ==
    ASSUME IInv, DistinctBits, DistinctNumbers, [Next]_vars PROVE [Msg!Next]_Msg!vars
<1>1. CASE Next
    BY <1>1, AccessorsImplement, ReceiveImplements, CopiesImplement DEF Next
<1>2. CASE UNCHANGED vars
    BY <1>2 DEF vars, Msg!vars
<1> QED BY <1>1, <1>2

(***************************************************************************)
(* An object of a generated class is a value per field and nothing else:   *)
(* neither a has-bit set in vain nor a copy into a used object nor the     *)
(* wire between two servers ever shows.                                    *)
(***************************************************************************)
THEOREM MessageImplementedAlways ==
    ASSUME DistinctBits, DistinctNumbers PROVE Spec => MessageImplemented
<1>1. DistinctBits /\ IInv /\ [Next]_vars => IInv'
    BY NextIInv
<1>2. DistinctBits /\ DistinctNumbers /\ IInv /\ [Next]_vars => [Msg!Next]_Msg!vars
    BY StepImplements
<1> QED BY InitIInv, <1>1, InitImplements, <1>2, PTL
        DEF Spec, MessageImplemented, Msg!Spec

-----------------------------------------------------------------------------
(***************************************************************************)
(* The classes of this program                                             *)
(***************************************************************************)
\* In each of the generated classes, bits and numbers are distinct.
LEMMA BasecampDistinct == \A c \in AllClasses : Distinct(c) /\ Numbered(c)
<1>1. Distinct(Request) /\ Numbered(Request)
    BY DEF Distinct, Numbered, Class, Request,
           RequestKinds, RequestNumbers, RequestBits
<1>2. Distinct(Result) /\ Numbered(Result)
    BY DEF Distinct, Numbered, Class, Result,
           ResultKinds, ResultNumbers, ResultBits
<1>3. Distinct(InitRequest) /\ Numbered(InitRequest)
    BY DEF Distinct, Numbered, Class, InitRequest,
           InitRequestKinds, InitRequestNumbers, InitRequestBits
<1>4. Distinct(ChunkRequest) /\ Numbered(ChunkRequest)
    BY DEF Distinct, Numbered, Class, ChunkRequest,
           ChunkRequestKinds, ChunkRequestNumbers, ChunkRequestBits
<1>5. Distinct(Chunk) /\ Numbered(Chunk)
    BY DEF Distinct, Numbered, Class, Chunk,
           ChunkKinds, ChunkNumbers, ChunkBits
<1>6. Distinct(KVPair) /\ Numbered(KVPair)
    BY DEF Distinct, Numbered, Class, KVPair,
           KVPairKinds, KVPairNumbers, KVPairBits
<1>7. Distinct(KVResult) /\ Numbered(KVResult)
    BY DEF Distinct, Numbered, Class, KVResult,
           KVResultKinds, KVResultNumbers, KVResultBits
<1>8. Distinct(CancelRequest) /\ Numbered(CancelRequest)
    BY DEF Distinct, Numbered, Class, CancelRequest,
           CancelRequestKinds, CancelRequestNumbers, CancelRequestBits
<1>9. Distinct(CancelReply) /\ Numbered(CancelReply)
    BY DEF Distinct, Numbered, Class, CancelReply,
           CancelReplyKinds, CancelReplyNumbers, CancelReplyBits
<1>10. Distinct(HealthReply) /\ Numbered(HealthReply)
    BY DEF Distinct, Numbered, Class, HealthReply,
           HealthReplyKinds, HealthReplyNumbers, HealthReplyBits
<1>11. Distinct(Node) /\ Numbered(Node)
    BY DEF Distinct, Numbered, Class, Node,
           NodeKinds, NodeNumbers, NodeBits
<1>12. Distinct(Topology) /\ Numbered(Topology)
    BY DEF Distinct, Numbered, Class, Topology,
           TopologyKinds, TopologyNumbers, TopologyBits
<1> QED BY <1>1, <1>2, <1>3, <1>4, <1>5, <1>6, <1>7, <1>8, <1>9, <1>10, <1>11,
           <1>12 DEF AllClasses

(***************************************************************************)
(* So all of this holds of the classes this program uses: bits cover the   *)
(* values, sizer and serializer agree, concatenation is a merge, and the   *)
(* objects the handlers fill, copy and send are plain messages to them.    *)
(***************************************************************************)
THEOREM BasecampMessagesCorrect ==
    ASSUME Classes = AllClasses
    PROVE  /\ Spec => [](HasBitsCover /\ ConcatIsMerge /\ SizeMatches)
           /\ Spec => MessageImplemented
<1>1. DistinctBits /\ DistinctNumbers
    BY BasecampDistinct DEF DistinctBits, DistinctNumbers
<1>2. Spec => []HasBitsCover
    BY <1>1, HasBitsCoverAlways
<1>3. Spec => []ConcatIsMerge
    BY <1>1, ConcatIsMergeAlways
<1>4. Spec => []SizeMatches
    BY <1>1, SizeMatchesAlways
<1>5. Spec => MessageImplemented
    BY <1>1, MessageImplementedAlways
<1> QED BY <1>2, <1>3, <1>4, <1>5, PTL
=============================================================================
