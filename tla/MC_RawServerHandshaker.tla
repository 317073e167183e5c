------------------------ MODULE MC_RawServerHandshaker ------------------------
(* Client messages for model checking RawServerHandshaker: a full CHLO     *)
(* (with a PUBS value), an inchoate CHLO whose validation found a server   *)
(* nonce, and a handshake message other than CHLO.                         *)
EXTENDS RawServerHandshaker

FullChlo == [tag |-> "CHLO", srej |-> FALSE, pubs |-> TRUE, nonce |-> FALSE]
InchoateChlo == [tag |-> "CHLO", srej |-> FALSE, pubs |-> FALSE, nonce |-> TRUE]
OtherMessage == [tag |-> "SCFG", srej |-> FALSE, pubs |-> FALSE, nonce |-> FALSE]

MCClientMessages == {FullChlo, InchoateChlo, OtherMessage}
=============================================================================
