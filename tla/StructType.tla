----------------------------- MODULE StructType -----------------------------
(***************************************************************************)
(* Struct types, as reflection shows them (reflect.StructField, and        *)
(* parseTag, reflect.go).                                                  *)
(*                                                                         *)
(* A field is a record: its Go name, the name in its json tag (parseTag; <<>>*)
(* for none) and its omitempty (omit), whether the tag is "-" (skip),      *)
(* whether it is exported and embedded, and its type: a kind, or a struct  *)
(* type of Structs, with ptr when it is a pointer to that.                 *)
(***************************************************************************)
EXTENDS Integers, SequencesExt

CONSTANT Structs    \* the fields of every struct type, in declaration order

\* A struct has some number of fields.
ASSUME StructsAssumption == \A t \in DOMAIN Structs : Structs[t] \in Seq(Range(Structs[t]))

NameOf(f) == IF f.tag = <<>> THEN f.name ELSE f.tag
=============================================================================
