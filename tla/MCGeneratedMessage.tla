-------------------------- MODULE MCGeneratedMessage --------------------------
(***************************************************************************)
(* Instances of GeneratedMessage for TLC: the classes of basecamp.pb.* and *)
(* topology.pb.*, two objects of one class and its fields two by two.  The *)
(* objects are alike, and no property is a liveness one.                   *)
(***************************************************************************)
EXTENDS GeneratedMessage, BasecampMessages, TLC

AlikeObjects == Permutations(Objects)
=============================================================================
