--------------------------- MODULE MCTlsHandshake ---------------------------
(* The handshake with three changes on the way: a second one can hide, or    *)
(* fail to hide, what the first did.                                         *)
EXTENDS TlsHandshake

MCMaxNoise == 3
=============================================================================
