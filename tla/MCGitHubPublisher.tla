------------------------- MODULE MCGitHubPublisher -------------------------
(* Three publications: two of one scope overlap or follow each other while one *)
(* of the same or the other scope runs in between, and two of them find the    *)
(* inline comments of a third to delete.                                       *)
EXTENDS GitHubPublisher, TLC

\* Publishers differ only by their scope and findings, which every initial state
\* assigns in all ways.
PublisherSymmetry == Permutations(Publishers)
=============================================================================
