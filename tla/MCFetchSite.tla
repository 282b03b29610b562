---------------------------- MODULE MCFetchSite ----------------------------
(* The instances of FetchSite and RustFetch that TLC checks. *)
EXTENDS RustFetch, TLC

CONSTANTS u1, u2, ann, bob, cal, x, y

Signed(u, k, files, t) ==
  [uri |-> u, public_key |-> k, timestamp |-> t,
   manifest_ref |-> [uri |-> u, public_key |-> k, files |-> files]]

\* ann publishes u1 three times, the third time with the files of the first;
\* bob signs one record for u1 as well, dated between ann's.
ThreeVersions ==
  {Signed(u1, ann, x, 1), Signed(u1, ann, y, 2), Signed(u1, ann, x, 4),
   Signed(u1, bob, x, 3)}

AllVersions == ThreeVersions \cup {Signed(u2, bob, y, 2), Signed(u2, ann, y, 3)}

\* Two versions of u1, and the other name.
TwoNames ==
  {Signed(u1, ann, x, 1), Signed(u1, ann, y, 2), Signed(u2, bob, x, 1)}

\* Two authors claim u1; cal gives a version of u1 the name u2.
TwoAuthors ==
  {Signed(u1, ann, x, 1), Signed(u1, bob, y, 2),
   [Signed(u1, cal, y, 2) EXCEPT !.uri = u2]}

\* The clients that run the same program are alike.
MCSymmetry ==
  Permutations(Clients \ RustClients) \cup Permutations(RustClients)
=============================================================================
