------------------------- MODULE MCInteractiveSession -------------------------
(* Two managers on two workers with plans of at most one item: the workers    *)
(* report in either order, either may fail, panic or be interrupted, and the  *)
(* loop reads the first events before the last ones are sent.                 *)
EXTENDS InteractiveSession

MCResults == JobResults
MCStopResults == StopOnInterruption
=============================================================================
