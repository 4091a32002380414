--------------------------- MODULE MCPolicyIndex ---------------------------
(***************************************************************************)
(* Two users of the index, two versions of the folder with one chunk in    *)
(* common.                                                                 *)
(***************************************************************************)
EXTENDS PolicyIndex

CONSTANTS a, b, c

Folder == {<<a, b>>, <<b, c>>}
=============================================================================
