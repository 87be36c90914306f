---------------------------- MODULE MCRateLimiter ----------------------------
(* RateLimiter has only finite constants; its runs need no definitions.       *)
EXTENDS RateLimiter
=============================================================================
