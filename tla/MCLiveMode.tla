----------------------------- MODULE MCLiveMode -----------------------------
(* LiveMode with more plans than widgets.                                  *)
EXTENDS LiveMode
=============================================================================
