----------------------------- MODULE MCRequests -----------------------------
EXTENDS Requests, TLC

CONSTANTS p1, p2, r1, r2

\* Two processes of one host: a repeat can ask whether the claimant lives
OneHost == (p1 :> p1) @@ (p2 :> p1)
=============================================================================
