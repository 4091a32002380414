--------------------------- MODULE MCPromptBatches ---------------------------
(* The unit is 2000 characters of patch: the budgets of a failure review, 4000  *)
(* a file, 6000 a batch and 12000 in all, are exactly 2, 3 and 6.  Patches are  *)
(* missing, short, long enough, or cut, and then may lose their signal word.    *)
EXTENDS PromptBatches

MCFiles ==
    {[risk |-> f[1], size |-> f[2], signal |-> f[3], lines |-> f[4]] :
        f \in {<<FALSE, 0, 0, 3>>, <<FALSE, 1, 0, 1>>, <<FALSE, 2, 1, 2>>,
               <<FALSE, 3, 0, 3>>, <<FALSE, 3, 3, 3>>,
               <<TRUE, 0, 0, 0>>, <<TRUE, 1, 0, 1>>, <<TRUE, 3, 3, 3>>}}
=============================================================================
