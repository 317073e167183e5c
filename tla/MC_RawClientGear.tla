-------------------------- MODULE MC_RawClientGear --------------------------
EXTENDS RawClientGear

\* Chromium's QuicCryptoClientStream::kMaxClientHellos; the header is not
\* in the repository.
MCMaxClientHellos == 3

\* The crypto stream tests num_client_hellos_ > kMaxClientHellos before it
\* increments, so one session sends up to kMaxClientHellos + 1 hellos.
MCPerSessionHellos == MCMaxClientHellos + 1
====
