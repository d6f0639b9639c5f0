---------------------------- MODULE MCQueryTable ----------------------------
(* QueryTable with small dials and short texts.                            *)
EXTENDS QueryTable
=============================================================================
