--------------------------- MODULE GeneratedMessage ---------------------------
(***************************************************************************)
(* The objects of a class generated by protoc.  An object keeps a has-bit  *)
(* per field beside the value; Clear, the sizer, the serializer and the    *)
(* merge look at the bits before, or instead of, the values.  A value      *)
(* whose bit is not set would not be sent, not be merged, and would show   *)
(* up again in an object that was cleared and used for the next answer.    *)
(*                                                                         *)
(* Contents are those of Message.  Wire data is a sequence of records      *)
(* <<field number, value>>; how a number or a string becomes bytes is left *)
(* to libprotobuf, and so is the parser, driven by the class's table: it   *)
(* is modelled by what it leaves behind.  Two bounds: an object has only   *)
(* the fields in "live" set, and no content or list of records grows       *)
(* beyond MaxLen.                                                          *)
(***************************************************************************)
EXTENDS Integers, Sequences, FiniteSets

CONSTANTS
    Classes,    \* the generated classes
    Objects,    \* objects of one class: a handler's request, answer, copy ...
    Values,     \* values of a field; 0 is the default
    MaxNumber,  \* the highest field number
    MaxLive,    \* how many fields of an object are used
    MaxLen      \* the longest content

ASSUME ValuesAssumption  == Values \subseteq Nat /\ MaxNumber \in Nat
\* Has-bits are counted from 0, one for each field.
ASSUME ClassesAssumption ==
    \A c \in Classes :
      /\ c.num \in [DOMAIN c.kind -> 1 .. MaxNumber]
      /\ c.bit \in [DOMAIN c.kind -> 0 .. MaxNumber - 1]
      /\ \A f \in DOMAIN c.kind : c.kind[f] \in {"scalar", "string", "repeated"}

VARIABLES
    class,  \* the class of the objects
    live,   \* the fields in use
    obj     \* object -> values, _has_bits_, unknown fields

vars == <<class, live, obj>>

Msg == INSTANCE Message WITH
         val   <- [o \in Objects |-> obj[o].val],
         extra <- [o \in Objects |-> obj[o].extra]

Fields      == DOMAIN class.kind
Repeated(f) == class.kind[f] = "repeated"

New == [val |-> Msg!Default, has |-> {}, extra |-> <<>>]

Has(x, f) == class.bit[f] \in x.has

\* Scalars lie together; those of one byte of has-bits form a group.
Group(f) == {g \in Fields : /\ class.kind[g] = "scalar"
                            /\ class.bit[g] \div 8 = class.bit[f] \div 8}

Init ==
    /\ class \in Classes
    /\ live \in {S \in SUBSET Fields : S # {} /\ Cardinality(S) <= MaxLive}
    /\ obj = [o \in Objects |-> New]

-----------------------------------------------------------------------------
(***************************************************************************)
(* Accessors                                                               *)
(***************************************************************************)
Put(o, x) == obj' = [obj EXCEPT ![o] = x] /\ UNCHANGED <<class, live>>

\* A value is stored and the bit is set, whatever the value.
Written(x, f, c) ==
    [x EXCEPT !.val[f] = c, !.has = @ \cup {class.bit[f]}]

\* set_<scalar>, set_<string>.
Set(o, f) ==
    /\ ~Repeated(f)
    /\ \E v \in Values : Put(o, Written(obj[o], f, Msg!Content(v)))

\* add_<repeated>.
Add(o, f) ==
    /\ Repeated(f)
    /\ Len(obj[o].val[f]) < MaxLen
    /\ \E v \in Values : Put(o, Written(obj[o], f, Append(obj[o].val[f], v)))

\* mutable_<repeated>, mutable_<string>: the bit is set before anything is
\* written through the pointer.
Mutable(o, f) ==
    /\ class.kind[f] # "scalar"
    /\ Put(o, Written(obj[o], f, obj[o].val[f]))

\* clear_<field>.
ClearField(o, f) ==
    Put(o, [obj[o] EXCEPT !.val[f] = <<>>, !.has = @ \ {class.bit[f]}])

\* release_<string>: without the bit there is nothing to give away.
Release(o, f) ==
    class.kind[f] = "string" /\ Has(obj[o], f) /\ ClearField(o, f)

\* set_allocated_<string>, of a string or of no string.
SetAllocated(o, f) ==
    class.kind[f] = "string" /\ (Set(o, f) \/ ClearField(o, f))

-----------------------------------------------------------------------------
(***************************************************************************)
(* Clear, MergeFrom, CopyFrom, Swap                                        *)
(***************************************************************************)
\* Fault: a scalar is only reset if the first bit of its group is set.
ResetFirst(x, f) ==
    IF class.kind[f] # "scalar" THEN Has(x, f)
    ELSE \E g \in Group(f) : Has(x, g) /\
           \A h \in Group(f) : class.bit[g] <= class.bit[h]

\* Which fields Clear resets: a string or a repeated field by its own bit, a
\* group of scalars (one memset) if any bit of the group is set, a scalar
\* alone in its group always.
Reset(x, f) ==
    IF class.kind[f] # "scalar" THEN Has(x, f)
    ELSE Group(f) = {f} \/ \E g \in Group(f) : Has(x, g)

Cleared(x) ==
    [val   |-> [f \in Fields |-> IF Reset(x, f) THEN <<>> ELSE x.val[f]],
     has   |-> {},
     extra |-> <<>>]

\* A field of the source counts if its bit is set and it is not the default.
Merged(x, y) ==
    [val   |-> [f \in Fields |-> IF Has(y, f)
                                   THEN Msg!Joined(f, x.val[f], y.val[f])
                                   ELSE x.val[f]],
     has   |-> x.has \cup y.has,
     extra |-> x.extra \o y.extra]

Fits(x) == /\ \A f \in Fields : Len(x.val[f]) <= MaxLen
           /\ Len(x.extra) <= MaxLen

Clear(o) == Put(o, Cleared(obj[o]))

MergeFrom(o, p) ==
    /\ o # p
    /\ Fits(Merged(obj[o], obj[p]))
    /\ Put(o, Merged(obj[o], obj[p]))

CopyFrom(o, p) == o # p /\ Put(o, Merged(Cleared(obj[o]), obj[p]))

Swap(o, p) ==
    /\ o # p
    /\ obj' = [obj EXCEPT ![o] = obj[p], ![p] = obj[o]]
    /\ UNCHANGED <<class, live>>

-----------------------------------------------------------------------------
(***************************************************************************)
(* Serializing and parsing                                                 *)
(***************************************************************************)
Numbers    == {class.num[f] : f \in Fields}
FieldOf(n) == CHOOSE f \in Fields : class.num[f] = n

Records(f, c) == [i \in DOMAIN c |-> <<class.num[f], c[i]>>]

\* Fault: the bit alone decides, and a default value is sent.
SentDefault(x, f) ==
    IF ~Has(x, f) THEN <<>>
    ELSE IF x.val[f] = <<>> THEN <<<<class.num[f], 0>>>>
    ELSE Records(f, x.val[f])

\* The records of a field: its bit is set, and it is not the default.
Sent(x, f) == IF Has(x, f) THEN Records(f, x.val[f]) ELSE <<>>

\* The fields in the order of their numbers, the unknown ones last.
Serialized(x) ==
    LET upto[n \in 0 .. MaxNumber] ==
          IF n = 0 THEN <<>>
          ELSE IF n \in Numbers THEN upto[n - 1] \o Sent(x, FieldOf(n))
          ELSE upto[n - 1]
    IN  upto[MaxNumber] \o x.extra

\* A record takes one byte for its field and one for each unit of its value.
Size(w) ==
    LET upto[i \in 0 .. Len(w)] == IF i = 0 THEN 0 ELSE upto[i - 1] + 1 + w[i][2]
    IN  upto[Len(w)]

\* The size of the field of a has-bit.
SizeOfBit(x, b) ==
    IF b \in x.has /\ \E f \in Fields : class.bit[f] = b
    THEN LET f == CHOOSE f \in Fields : class.bit[f] = b
         IN  Size(Records(f, x.val[f]))
    ELSE 0

\* Has-bit by has-bit.
FieldsSize(x) ==
    LET upto[i \in 0 .. MaxNumber] ==
          IF i = 0 THEN 0 ELSE upto[i - 1] + SizeOfBit(x, i - 1)
    IN  upto[MaxNumber]

\* Fault: the fields the class does not know are not counted.
ByteSizeKnown(x) == FieldsSize(x)

\* ByteSizeLong: no buffer, and another order than that of Serialized.
ByteSize(x) == FieldsSize(x) + Size(x.extra)

\* The parser reads a record <<number, value>> into an object.  It sets the bit
\* of the field, takes the last record of a singular field and all those of a
\* repeated one, and keeps what the class does not know.
Read(x, r) ==
    IF r[1] \in Numbers
    THEN LET f == FieldOf(r[1])
         IN  Written(x, f, IF Repeated(f) THEN Append(x.val[f], r[2])
                           ELSE Msg!Content(r[2]))
    ELSE [x EXCEPT !.extra = Append(@, r)]

\* Record by record.
Parsed(x, w) ==
    LET upto[i \in 0 .. Len(w)] == IF i = 0 THEN x ELSE Read(upto[i - 1], w[i])
    IN  upto[Len(w)]

\* SerializeAsString at p; ParseFromString clears o first.
Send(o, p) ==
    /\ o # p
    /\ Put(o, Parsed(Cleared(obj[o]), Serialized(obj[p])))

\* A record of another writer: a value, the default made explicit, or a field
\* of a newer version of the class.
Receive(o) ==
    \E n \in {class.num[f] : f \in live} \cup {MaxNumber + 1}, v \in Values :
      LET x == Read(obj[o], <<n, v>>)
      IN  Fits(x) /\ Put(o, x)

Next ==
    \/ \E o \in Objects, f \in live :
         \/ Set(o, f) \/ Add(o, f) \/ Mutable(o, f) \/ ClearField(o, f)
         \/ Release(o, f) \/ SetAllocated(o, f)
    \/ \E o \in Objects : Clear(o) \/ Receive(o)
    \/ \E o, p \in Objects :
         MergeFrom(o, p) \/ CopyFrom(o, p) \/ Swap(o, p) \/ Send(o, p)

Spec == Init /\ [][Next]_vars

-----------------------------------------------------------------------------
(***************************************************************************)
(* Properties                                                              *)
(***************************************************************************)
\* A field that is not the default has its bit set (the assertion behind
\* CheckHasBitConsistency): otherwise its value is kept, but neither sent nor
\* merged nor cleared.  One bit shared by two fields is enough to break it.
HasBitsCover ==
    \A o \in Objects, f \in Fields : obj[o].val[f] # <<>> => Has(obj[o], f)

\* Two messages sent back to back are parsed as their merge: a field the
\* second one leaves at its default keeps the value of the first one.
ConcatIsMerge ==
    \A o, p \in Objects :
      LET x == Parsed(New, Serialized(obj[o]) \o Serialized(obj[p]))
          y == Merged(obj[o], obj[p])
      IN  x.val = y.val /\ x.extra = y.extra

\* The serializer writes into a buffer ByteSizeLong has sized beforehand: the
\* two pass over the fields separately and must agree.
SizeMatches ==
    \A o \in Objects : ByteSize(obj[o]) = Size(Serialized(obj[o]))

\* An object is a value per field and nothing else, and what a peer parses is
\* what was sent: whatever calls came before (a mutable_ that wrote nothing, a
\* Clear, a copy into a reused object), the has-bits never show.
MessageImplemented == Msg!Spec
=============================================================================
