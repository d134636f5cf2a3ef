---------------------------- MODULE MCJtonObject ----------------------------
(***************************************************************************)
(* Four keys against a scan limit of two: objects on both sides of the     *)
(* limit, rows longer than it, and header lists on both sides of the       *)
(* pairwise limit of headersUnique.                                        *)
(***************************************************************************)
EXTENDS JtonObject
=============================================================================
