------------------------------ MODULE MCSender ------------------------------
(* Files of up to three blocks, so that gzip holds back none, some or all  *)
(* of them when an error strikes.                                          *)
EXTENDS Sender
=============================================================================
