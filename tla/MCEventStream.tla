--------------------------- MODULE MCEventStream ---------------------------
(* One board that is its own carrier, or two with a handoff between them. *)
EXTENDS EventStream, TLC

CONSTANTS b1, b2, c1, c2, w1, w2, artifact, proposal

OneBoard == {b1}
TwoBoards == {b1, b2}
OneCard == {c1}
TwoCards == {c1, c2}
OneWriter == {w1}
TwoWriters == {w1, w2}
OneKind == {artifact}
TwoKinds == {artifact, proposal}
LimitOne == {1}
LimitsOneTwo == {1, 2}
CardSymmetry == Permutations({c1, c2})
=============================================================================
