------------------------------- MODULE Message -------------------------------
(***************************************************************************)
(* What a protobuf message promises to the handlers that use it: a value   *)
(* per field and nothing else, and at the receiver the fields the sender   *)
(* had.  GeneratedMessage implements this.                                 *)
(*                                                                         *)
(* The content of a field is a sequence: <<>> for the default value of a   *)
(* singular field, <<v>> for another value v, the elements of a repeated   *)
(* field.                                                                  *)
(***************************************************************************)
EXTENDS Integers, Sequences

CONSTANTS
    Classes,   \* the message classes
    Objects,   \* the objects of one class
    Values,    \* the values of a field; 0 is the default one
    MaxNumber  \* no field has a higher number

VARIABLES
    class,  \* the class: kind, number and has-bit of every field
    val,    \* object -> field -> content
    extra   \* object -> records <<number, value>> of unknown fields

vars == <<class, val, extra>>

Fields      == DOMAIN class.kind
Repeated(f) == class.kind[f] = "repeated"
Default     == [f \in Fields |-> <<>>]
Content(v)  == IF v = 0 THEN <<>> ELSE <<v>>

\* What b adds to a: the value of b counts unless it is the default.
Joined(f, a, b) ==
    IF Repeated(f) THEN a \o b ELSE IF b = <<>> THEN a ELSE b
Join(a, b) == [f \in Fields |-> Joined(f, a[f], b[f])]

-----------------------------------------------------------------------------
Init ==
    /\ class \in Classes
    /\ val = [o \in Objects |-> Default]
    /\ extra = [o \in Objects |-> <<>>]

Assign(o, f, c) ==
    /\ val' = [val EXCEPT ![o] = [@ EXCEPT ![f] = c]]
    /\ UNCHANGED <<class, extra>>

Write(o, f, v) == Assign(o, f, IF Repeated(f) THEN Append(val[o][f], v)
                               ELSE Content(v))

ClearField(o, f) == Assign(o, f, <<>>)

Clear(o) ==
    /\ val' = [val EXCEPT ![o] = Default]
    /\ extra' = [extra EXCEPT ![o] = <<>>]
    /\ UNCHANGED class

MergeFrom(o, p) ==
    /\ val' = [val EXCEPT ![o] = Join(@, val[p])]
    /\ extra' = [extra EXCEPT ![o] = @ \o extra[p]]
    /\ UNCHANGED class

\* A copy, or a message sent and received.
CopyFrom(o, p) ==
    /\ val' = [val EXCEPT ![o] = val[p]]
    /\ extra' = [extra EXCEPT ![o] = extra[p]]
    /\ UNCHANGED class

Swap(o, p) ==
    /\ val' = [val EXCEPT ![o] = val[p], ![p] = val[o]]
    /\ extra' = [extra EXCEPT ![o] = extra[p], ![p] = extra[o]]
    /\ UNCHANGED class

\* One record of another writer comes in: of a field of the class, where the
\* last one counts, or of a field it does not know, which is kept.
Receive(o, n, v) ==
    IF \E f \in Fields : class.num[f] = n
    THEN \E f \in Fields : class.num[f] = n /\ Write(o, f, v)
    ELSE /\ extra' = [extra EXCEPT ![o] = Append(@, <<n, v>>)]
         /\ UNCHANGED <<class, val>>

Next ==
    \/ \E o \in Objects, f \in Fields : ClearField(o, f) \/ \E v \in Values : Write(o, f, v)
    \/ \E o \in Objects : Clear(o)
    \/ \E o, p \in Objects : MergeFrom(o, p) \/ CopyFrom(o, p) \/ Swap(o, p)
    \/ \E o \in Objects, n \in 1 .. MaxNumber + 1, v \in Values : Receive(o, n, v)

Spec == Init /\ [][Next]_vars
=============================================================================
