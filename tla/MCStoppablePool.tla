---------------------------- MODULE MCStoppablePool ----------------------------
(* Four jobs for three workers, so that jobs queue up; the caller may cancel. *)
EXTENDS StoppablePool

MCResults == {"plan", "interrupted"}
MCStopResults == {"interrupted"}
=============================================================================
