------------------------------- MODULE Routing -------------------------------
(***************************************************************************)
(* Which way a pull request is reviewed (backend/app/core/routing.py):     *)
(* the features the choice looks at, and the choice.  Confidence, reasons  *)
(* and the model tier of a route are shown to people only and left out.    *)
(***************************************************************************)

Kinds == {"syntax", "lint", "test"}
Failure == "simple_failure_review"
Standard == "policy_context_review"
Deep == "deep_quality_review"
RouteNames == {Failure, Standard, Deep}
ReviewModes == {"auto", Deep}

\* A CI check: the kinds its name contains and how it ended.
CheckResults == [kinds : SUBSET Kinds, result : {"failed", "passed", "other"}]

StatusFor(checks, kind) ==
    LET matched == {c \in checks : kind \in c.kinds} IN
    IF matched = {} THEN "unknown"
    ELSE IF \E c \in matched : c.result = "failed" THEN "failed"
    ELSE IF \E c \in matched : c.result = "passed" THEN "passed"
    ELSE "skipped"

ExtractFeatures(checks, available) ==
    [status |-> [kind \in Kinds |-> StatusFor(checks, kind)],
     policy_available |-> available]

\* Failed checks come first, then the wish for a deep review.
SelectRoute(features, mode) ==
    IF \E kind \in Kinds : features.status[kind] = "failed"
      THEN [name |-> Failure, use_rag |-> FALSE]
      ELSE [name |-> IF mode = Deep THEN Deep ELSE Standard,
            use_rag |-> features.policy_available]
=============================================================================
