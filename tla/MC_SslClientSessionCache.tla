---------------------- MODULE MC_SslClientSessionCache ----------------------
EXTENDS SslClientSessionCache
==============================================================================
