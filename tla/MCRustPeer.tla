----------------------------- MODULE MCRustPeer -----------------------------
(* The tasks and subjects of RustPeer, from its other constants. *)
EXTENDS RustPeer

CONSTANTS g1, s1, s2, s3, m, blog, news, wiki

MCGuests == {g1}
MCSeeders == {s1, s2, s3}
MCTasks == {m} \cup MCGuests \cup MCSeeders
MCThings == MCSeeders \cup {blog, news, wiki}
=============================================================================
