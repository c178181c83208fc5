---------------------------- MODULE MCAuditService ----------------------------
(* Two calls over three package versions in batches of two: a call needs one *)
(* or two batches, the last of them smaller, and shares none, some or all of *)
(* its queries with the other call.                                          *)
EXTENDS AuditService
=============================================================================
