---------------------------- MODULE MCStreamViews ----------------------------
(* Two overlapping streams; two requests in flight, for one channel or all.  *)
EXTENDS StreamViews, TLC
=============================================================================
