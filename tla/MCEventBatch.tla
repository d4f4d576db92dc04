---------------------------- MODULE MCEventBatch ----------------------------
(***************************************************************************)
(* An instance of EventBatch for model checking: all messages of up to     *)
(* MaxItems items over two records, two users and both event types.        *)
(***************************************************************************)
EXTENDS EventBatch

MCValues == {1}

=============================================================================
