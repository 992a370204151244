----------------------------- MODULE MCTTSQueue -----------------------------
(* TTSQueue for TLC: one player, two books, and an order of books that     *)
(* changes.                                                                *)
EXTENDS TTSQueue, TLC

CONSTANTS j1, j2, p1, p2, live, bookA, bookB

MCJobs == {j1, j2}
MCPaths == {p1, p2}
MCOwners == {live}

OneChapter == [p \in Paths |-> "chapter"]
TwoBooks   == [p \in Paths |-> IF p = p1 THEN bookA ELSE bookB]

(* What the player asks for: a lookahead or a download of any path.        *)
LookaheadAndDownload ==
  [o \in Owners |-> [path : Paths, priority : {"lookahead", "download"}]]

MCSymmetry == Permutations(Jobs)
=============================================================================
