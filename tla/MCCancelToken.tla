---------------------------- MODULE MCCancelToken ----------------------------
(***************************************************************************)
(* A small instance of CancelToken for TLC.                                *)
(***************************************************************************)
EXTENDS CancelToken

CONSTANTS t1, t2
=============================================================================
