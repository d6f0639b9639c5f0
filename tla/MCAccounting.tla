---------------------------- MODULE MCAccounting ----------------------------
(* Accounting with few workers and short loops.                            *)
EXTENDS Accounting, TLC

MCOneWindow == {{0}}
=============================================================================
