--------------------------- MODULE MCForkProcess ---------------------------
EXTENDS ForkProcess
=============================================================================
