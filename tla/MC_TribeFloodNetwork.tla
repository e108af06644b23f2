------------------------ MODULE MC_TribeFloodNetwork ------------------------
(***************************************************************************)
(* Instance of TribeFloodNetwork for TLC.                                  *)
(***************************************************************************)
EXTENDS TribeFloodNetwork

\* No limit, the limit 0, and limits of one and of several packets.
LimitValues == {-1, 0, 1, 3}
=============================================================================
