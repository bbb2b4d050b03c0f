--------------------------- MODULE MCAwsConnector ---------------------------
(***************************************************************************)
(* The connector with the queue size of the code (5).  The model is finite *)
(* as it stands: the queue is bounded by the code, and so are the phases.  *)
(***************************************************************************)
EXTENDS AwsConnector
=============================================================================
