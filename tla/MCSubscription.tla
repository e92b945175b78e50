--------------------------- MODULE MCSubscription ---------------------------
EXTENDS Subscription, TLC

CONSTANT b1
=============================================================================
