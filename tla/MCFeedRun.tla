----------------------------- MODULE MCFeedRun -----------------------------
(***************************************************************************)
(* A small instance of FeedRun for TLC: two workers with up to two ticks   *)
(* each, moments they share, and batches that two ticks fill.              *)
(***************************************************************************)
EXTENDS FeedRun
=============================================================================
