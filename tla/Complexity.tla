----------------------------- MODULE Complexity -----------------------------
(***************************************************************************)
(* How much more complex a deep review finds the Python functions of a     *)
(* pull request: which files are downloaded                                *)
(* (backend/app/services/github_app.py, _attach_python_sources) and what   *)
(* Radon measures in them before and after the change                      *)
(* (review_harness/scripts/complexity_metrics.py).                         *)
(*                                                                         *)
(* A source is [readable, functions]: its functions and their complexity,  *)
(* and whether Radon can read it (it is there, not too long and parses).   *)
(***************************************************************************)
EXTENDS Integers, FiniteSets

CONSTANTS
    SourceLimit,   \* files whose sources are downloaded, 8
    Threshold      \* PYTHON_CYCLOMATIC_COMPLEXITY_THRESHOLD, 15

\* _complexity_source_priority: the control flow in the patch, then the changed lines.
Above(file, other) ==
    \/ file.control_flow > other.control_flow
    \/ file.control_flow = other.control_flow /\ file.changed > other.changed

\* The Python files that come first in this order; equals in the order of the request.
Attached(files) ==
    LET python == {i \in DOMAIN files : files[i].python}
        ahead(i, j) == \/ Above(files[i], files[j])
                       \/ ~ Above(files[j], files[i]) /\ i < j
    IN  {i \in python : Cardinality({j \in python : ahead(j, i)}) < SourceLimit}

PythonFunctions(source) == IF source.readable THEN source.functions ELSE [s \in {} |-> 0]

ComplexityOf(functions, symbol) ==
    IF symbol \in DOMAIN functions THEN functions[symbol] ELSE 0

\* The functions of the file in a place that have become more or less complex.
AnalyzePythonFile(files, place) ==
    LET before == PythonFunctions(files[place].base)
        after == PythonFunctions(files[place].head)
    IN  {[file |-> place, symbol |-> symbol, before |-> ComplexityOf(before, symbol),
          after |-> after[symbol]] :
            symbol \in {s \in DOMAIN after : after[s] # ComplexityOf(before, s)}}

AnalyzeComplexity(files) == UNION {AnalyzePythonFile(files, place) : place \in Attached(files)}

Exceeded(metric) == metric.after > Threshold
Regressed(metric) == Exceeded(metric) /\ metric.after > metric.before
=============================================================================
