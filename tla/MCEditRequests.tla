--------------------------- MODULE MCEditRequests ---------------------------
(***************************************************************************)
(* The edit requests on small instances.                                   *)
(***************************************************************************)
EXTENDS EditRequests
=============================================================================
