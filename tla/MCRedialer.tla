---------------------------- MODULE MCRedialer ----------------------------
(***************************************************************************)
(* Instances of Redialer for TLC.  A call redials once at most, so that a  *)
(* connection for each call and the first one are all that is ever made.   *)
(***************************************************************************)
EXTENDS Redialer

CONSTANTS c1, c2
=============================================================================
