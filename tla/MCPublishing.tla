---------------------------- MODULE MCPublishing ----------------------------
(* Publishing on small instances.                                          *)
EXTENDS Publishing
=============================================================================
