----------------------------- MODULE MCBatchApply -----------------------------
(* Three managers and two planning threads, so that one manager is queued    *)
(* while an interruption can still come from another.                        *)
EXTENDS BatchApply

MCResults == ManagerResults
MCStopResults == StopOnInterruption
=============================================================================
