--------------------------- MODULE MCScheduledWork ---------------------------
(* An instance of ScheduledWork for TLC: the requests of MCScheduler, with *)
(* adapters that may fail at any token and whose prompts may be cached.    *)
EXTENDS ScheduledWork, MCScheduler

Failures == {"error", "close"}
=============================================================================
