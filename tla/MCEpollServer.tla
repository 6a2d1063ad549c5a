--------------------------- MODULE MCEpollServer ---------------------------
(* EpollServer on small instances; the cfg files give the constants.       *)
EXTENDS EpollServer
=============================================================================
