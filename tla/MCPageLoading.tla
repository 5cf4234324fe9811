--------------------------- MODULE MCPageLoading ---------------------------
(* Two chunks: the second also needs page 1, or page 3, which is not      *)
(* stored; a lease on page 1 warms page 2 with it.                         *)
EXTENDS PageLoading

TwoChunks == 1 :> {{1}} @@ 2 :> {{1, 2}, {2, 3}}

OneNeighbour == 1 :> {2} @@ 2 :> {} @@ 3 :> {}
=============================================================================
