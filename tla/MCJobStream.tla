----------------------------- MODULE MCJobStream -----------------------------
(***************************************************************************)
(* Instances of JobStream for TLC: one tab whose connections come and go.  *)
(***************************************************************************)
EXTENDS JobStream

CONSTANT t1
=============================================================================
