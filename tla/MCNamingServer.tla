--------------------------- MODULE MCNamingServer ---------------------------
(* The instances of NamingServer that TLC checks. *)
EXTENDS NamingServer, TLC

CONSTANTS r1, r2

MCLists == {<<r1>>, <<r1, r2>>, <<r2, r2>>}
MCSymmetry ==
  Permutations(Uris) \cup Permutations(Authors) \cup Permutations(Publishers)
=============================================================================
