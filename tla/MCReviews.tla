----------------------------- MODULE MCReviews -----------------------------
(* The instance of Reviews that TLC checks: the second key is ranked first, *)
(* the first is a moderator, the second known to the trust store.           *)
EXTENDS Reviews

MCRank == (1 :> 2) @@ (2 :> 1) @@ (3 :> 3) @@ (9 :> 0)
MCPolicy ==
  [severity |-> [ok |-> 0, warn |-> 10, reject |-> 30],
   max_weight |-> 20, default_weight |-> 1, learning_rate |-> 1,
   moderators |-> (1 :> 50)]
MCPeers == (2 :> [explicit |-> None, confirmed |-> 3, disputed |-> 1])
=============================================================================
