--------------------------- MODULE PromptBatches ---------------------------
(***************************************************************************)
(* From the changed files of a pull request to the files each model call   *)
(* is shown (backend/app/services/prompt_builder.py): the files are put in *)
(* the order of their review priority and cut to the budget of the route,  *)
(* grouped into batches, and written into the message of each batch under  *)
(* the budget of a batch.                                                  *)
(*                                                                         *)
(* A step is one turn of one of the loops.  A patch is its length; the     *)
(* priority of a file depends on its path, on words in the part of the     *)
(* patch that is still there, and on its changed lines.                    *)
(***************************************************************************)
EXTENDS Integers, Sequences, FiniteSets, Ordering

CONSTANTS
    Files,        \* the files a pull request may change
    MaxFiles,     \* bound: changed files of a request
    RouteFiles,   \* ROUTE_PROMPT_BUDGETS of the route: files,
    RouteChars,   \*   and characters of patch
    BatchFiles,   \* ROUTE_BATCH_BUDGETS of the route: files,
    BatchChars,   \*   and characters of patch
    FileChars     \* characters of one patch, 4000

\* A file: its path is one of risk or not, its patch has size characters, the first
\* of the signal words in it ends with character number signal (0: there is none).
ASSUME FilesAssumption ==
    Files \subseteq [risk : BOOLEAN, size : Nat, signal : Nat, lines : Nat]
ASSUME BudgetAssumption ==
    /\ {MaxFiles, RouteFiles, RouteChars, BatchFiles, BatchChars, FileChars}
          \subseteq Nat \ {0}
    /\ FileChars <= BatchChars

VARIABLES
    files,      \* request.changed_files
    phase,      \* the loop that runs
    queue,      \* what it has still to walk through
    budget,     \* remaining_patch_chars
    selected,   \* selected
    groups,     \* file_groups
    group,      \* current
    snapshots,  \* snapshots of the batch that is being written
    messages    \* the changed_files of the message of each batch

vars == <<files, phase, queue, budget, selected, groups, group, snapshots, messages>>

\* A file on its way into a prompt: its place in the request, and how many characters
\* of its patch are left.
Entries == [file : 1 .. MaxFiles, chars : Nat]
Snapshots == [file : 1 .. MaxFiles, chars : Nat, patch_truncated : BOOLEAN]

TypeOK ==
    /\ files \in Seq(Files) /\ Len(files) <= MaxFiles
    /\ phase \in {"sort", "select", "group", "write", "show", "done"}
    /\ budget \in Nat
    /\ {queue, selected, group} \subseteq Seq(Entries)
    /\ groups \in Seq(Seq(Entries))
    /\ snapshots \in Seq(Snapshots)
    /\ messages \in Seq(Seq(Snapshots))

Init ==
    /\ files \in UNION {[1 .. n -> Files] : n \in 0 .. MaxFiles}
    /\ phase = "sort"
    /\ queue = <<>>
    /\ budget = RouteChars
    /\ selected = <<>>
    /\ groups = <<>>
    /\ group = <<>>
    /\ snapshots = <<>>
    /\ messages = <<>>

Least(a, b) == IF a <= b THEN a ELSE b

\* The sum of a sequence of numbers is the number of all the units of all of them.
Total(sizes) == Cardinality(UNION {{i} \X (1 .. sizes[i]) : i \in DOMAIN sizes})
CharsOf(list) == Total([i \in DOMAIN list |-> list[i].chars])

\* The tuple of _file_review_priority as a comparison.
HasSignal(e) == files[e.file].signal \in 1 .. e.chars
Above(d, e) ==
    LET f == files[d.file]  g == files[e.file] IN
    \/ f.risk /\ ~g.risk
    \/ f.risk = g.risk /\ HasSignal(d) /\ ~HasSignal(e)
    \/ f.risk = g.risk /\ HasSignal(d) = HasSignal(e) /\ f.lines > g.lines

\* The files in the order GitHub lists them.
SortedAsListed(list) == list

\* sorted(..., reverse=True), which keeps the order of equals.
Precedes(list, i, j) ==
    Above(list[i], list[j]) \/ (~Above(list[j], list[i]) /\ i < j)
Sorted(list) ==
    LET order == InOrder([j \in DOMAIN list |-> {i \in DOMAIN list : Precedes(list, i, j)}])
    IN  [k \in DOMAIN list |-> list[order[k]]]

Whole(i) == [file |-> i, chars |-> files[i].size]

-----------------------------------------------------------------------------
(* _selected_files_for_review *)

Sort ==
    /\ phase = "sort"
    /\ queue' = FirstOf(Sorted([i \in DOMAIN files |-> Whole(i)]), RouteFiles)
    /\ phase' = "select"
    /\ UNCHANGED <<files, budget, selected, groups, group, snapshots, messages>>

\* A selection that cuts a patch to the limit of a file only.
SelectOverdrawn ==
    /\ phase = "select"
    /\ queue # <<>>
    /\ LET entry == Head(queue)
           chars == Least(entry.chars, FileChars)
       IN  /\ selected' = Append(selected, [entry EXCEPT !.chars = chars])
           /\ budget' = budget - chars
    /\ queue' = Tail(queue)
    /\ UNCHANGED <<files, phase, groups, group, snapshots, messages>>

Select ==
    /\ phase = "select"
    /\ queue # <<>>
    /\ LET entry == Head(queue)
           chars == Least(entry.chars, Least(FileChars, budget))
       IN  IF entry.chars > 0 /\ budget = 0
             THEN UNCHANGED <<selected, budget>>
             ELSE /\ selected' = Append(selected, [entry EXCEPT !.chars = chars])
                  /\ budget' = budget - chars
    /\ queue' = Tail(queue)
    /\ UNCHANGED <<files, phase, groups, group, snapshots, messages>>

EndSelect ==
    /\ phase = "select"
    /\ queue = <<>>
    /\ queue' = selected
    /\ phase' = "group"
    /\ UNCHANGED <<files, budget, selected, groups, group, snapshots, messages>>

-----------------------------------------------------------------------------
(* _group_files *)

\* A comparison that only counts files.
FullByCount(list, entry) == Len(list) >= BatchFiles

Full(list, entry) ==
    Len(list) >= BatchFiles \/ CharsOf(list) + entry.chars > BatchChars

Group ==
    /\ phase = "group"
    /\ queue # <<>>
    /\ IF group # <<>> /\ Full(group, Head(queue))
         THEN groups' = Append(groups, group) /\ group' = <<Head(queue)>>
         ELSE group' = Append(group, Head(queue)) /\ UNCHANGED groups
    /\ queue' = Tail(queue)
    /\ UNCHANGED <<files, phase, budget, selected, snapshots, messages>>

WithLast == IF group = <<>> THEN groups ELSE Append(groups, group)

\* A pull request without files still makes one batch, an empty one.
EndGroup ==
    /\ phase = "group"
    /\ queue = <<>>
    /\ groups' = IF WithLast = <<>> THEN << <<>> >> ELSE WithLast
    /\ group' = <<>>
    /\ phase' = "write"
    /\ UNCHANGED <<files, queue, budget, selected, snapshots, messages>>

-----------------------------------------------------------------------------
(* build_review_messages: the loop of _changed_file_snapshot over each batch *)

StartBatch ==
    /\ phase = "write"
    /\ Len(messages) < Len(groups)
    /\ queue' = FirstOf(Sorted(groups[Len(messages) + 1]), BatchFiles)
    /\ budget' = BatchChars
    /\ snapshots' = <<>>
    /\ phase' = "show"
    /\ UNCHANGED <<files, selected, groups, group, messages>>

Snapshot(entry, chars) ==
    [file |-> entry.file, chars |-> chars, patch_truncated |-> chars < entry.chars]

\* The loop ends as soon as the budget of the batch is used up.
Show ==
    /\ phase = "show"
    /\ queue # <<>>
    /\ LET entry == Head(queue)
           chars == Least(entry.chars, Least(FileChars, budget))
       IN  /\ snapshots' = Append(snapshots, Snapshot(entry, chars))
           /\ budget' = budget - chars
           /\ queue' = IF budget = chars THEN <<>> ELSE Tail(queue)
    /\ UNCHANGED <<files, phase, selected, groups, group, messages>>

EndBatch ==
    /\ phase = "show"
    /\ queue = <<>>
    /\ messages' = Append(messages, snapshots)
    /\ phase' = "write"
    /\ UNCHANGED <<files, queue, budget, selected, groups, group, snapshots>>

Finish ==
    /\ phase = "write"
    /\ Len(messages) = Len(groups)
    /\ phase' = "done"
    /\ UNCHANGED <<files, queue, budget, selected, groups, group, snapshots, messages>>

Next == \/ Sort \/ Select \/ EndSelect
        \/ Group \/ EndGroup
        \/ StartBatch \/ Show \/ EndBatch \/ Finish

Spec == Init /\ [][Next]_vars

-----------------------------------------------------------------------------
(* Properties *)

\* How many files the batches before number i have.
Before(i) == Total([j \in 1 .. i - 1 |-> Len(groups[j])])

\* Cutting the files into batches loses none and shows none to two model calls: no file
\* is selected twice, and the batches one after the other are the selected files.  The
\* selection keeps to the budget of the route, each batch to its own.  The message of a
\* batch shows every file with the patch it was selected with: the second budget never
\* cuts what the first one has let through, and the files it leaves out have no patch
\* and share their batch with patches that use up its budget
\* (_selected_files_for_review, _group_files, build_review_messages).
BatchesShowSelection ==
    /\ phase \in {"write", "show", "done"} =>
          /\ Before(Len(groups) + 1) = Len(selected)
          /\ \A i \in DOMAIN groups : \A k \in DOMAIN groups[i] :
                groups[i][k] = selected[Before(i) + k]
    /\ \A j, k \in DOMAIN selected : selected[j].file = selected[k].file => j = k
    /\ Len(selected) <= RouteFiles /\ CharsOf(selected) <= RouteChars
    /\ \A i \in DOMAIN groups :
          Len(groups[i]) <= BatchFiles /\ CharsOf(groups[i]) <= BatchChars
    /\ \A m \in DOMAIN messages : \A i \in DOMAIN groups[m] :
          LET entry == groups[m][i] IN
          \/ \E k \in DOMAIN messages[m] :
                messages[m][k].file = entry.file /\ messages[m][k].chars = entry.chars
          \/ entry.chars = 0 /\ CharsOf(groups[m]) = BatchChars

\* When the budget runs out it is the files of lowest priority that are left out:
\* no file that is left out stands above one that takes up patch budget.
BestFilesSelected ==
    phase \in {"group", "write", "show", "done"} =>
        \A i \in DOMAIN files :
            (\A k \in DOMAIN selected : selected[k].file # i) =>
               \A k \in DOMAIN selected :
                  selected[k].chars > 0 => ~Above(Whole(i), Whole(selected[k].file))

\* prompt_builder.py:189: patch_truncated says whether the patch was cut, that is,
\* whether it is shorter than the original one.
CutsAreMarked ==
    \A m \in DOMAIN messages : \A k \in DOMAIN messages[m] :
        LET shown == messages[m][k] IN
        shown.patch_truncated <=> shown.chars < files[shown.file].size
=============================================================================
