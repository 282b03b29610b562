-------------------------- MODULE MCReviewerDaemon --------------------------
(* The instances of ReviewerDaemon that TLC checks. *)
EXTENDS ReviewerDaemon

MCLists == {<<me>>}
=============================================================================
