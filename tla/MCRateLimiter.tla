--------------------------- MODULE MCRateLimiter ---------------------------
(* A small instance: without or with a master key, two tokens of burst,    *)
(* half a token a tick.                                                    *)
EXTENDS RateLimiter, TLC

CONSTANTS k1, k2

MCHeaders == {EmptyKey, k1, k2}
MCMasterKeys == {NoMaster, k1}
=============================================================================
