-------------------------- MODULE MCServiceProcess --------------------------
(***************************************************************************)
(* An instance of ServiceProcess for model checking: each service, runner  *)
(* and file is an initial state.                                           *)
(***************************************************************************)
EXTENDS ServiceProcess

=============================================================================
