--------------------------- MODULE MCUsageService ---------------------------
(* The usage service collector with a timeout of two ticks and tokens that *)
(* live three: shorter than the whole collection, not than one request.    *)
EXTENDS UsageService
=============================================================================
