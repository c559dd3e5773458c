----------------------------- MODULE MCSettleWait -----------------------------
EXTENDS SettleWait

CONSTANTS r1, r2, none
=============================================================================
