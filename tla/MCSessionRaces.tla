--------------------------- MODULE MCSessionRaces ---------------------------
(* Small instances of SessionRaces for TLC. *)
EXTENDS SessionRaces, TLC

CONSTANTS h1, h2

MCHandlers == {h1, h2}
HandlerSymmetry == Permutations(MCHandlers)
=============================================================================
