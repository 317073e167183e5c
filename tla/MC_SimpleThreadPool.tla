------------------------- MODULE MC_SimpleThreadPool -------------------------
EXTENDS SimpleThreadPool
==============================================================================
