---------------------------- MODULE MCTestDouble ----------------------------
(* Three calls, an inspector, and up to two set-ups of two answers.        *)
EXTENDS TestDouble
=============================================================================
