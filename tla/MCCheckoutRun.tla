---------------------------- MODULE MCCheckoutRun ----------------------------
EXTENDS CheckoutRun

CONSTANTS r1, r2, r3, none
=============================================================================
