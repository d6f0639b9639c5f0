----------------------------- MODULE MCSession -----------------------------
(* Session with a short day.                                               *)
EXTENDS Session
=============================================================================
