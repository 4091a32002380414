---------------------------- MODULE PolicyRanking ----------------------------
(***************************************************************************)
(* Which sections of the policies go with a pull request                   *)
(* (backend/app/services/rag.py, rank_policy_chunks): those that share     *)
(* words with it, with a bonus for the repository's own policy.            *)
(*                                                                         *)
(* A chunk is [source, section, type, words].  Its score is the number of  *)
(* shared words divided by the root of the number of its words, rounded,   *)
(* plus ten for the repository's own policy.  It counts in units of the    *)
(* last digit that is kept.                                                *)
(***************************************************************************)
EXTENDS Ordering

CONSTANTS
    RepositoryPolicy,   \* .github/ai-review-policy.md
    Bonus,              \* what its sections score for being its own, 10
    Precision,          \* units of a score in 1: four digits are kept, 10000
    QueryFiles          \* the files whose patches are part of the query, 10

\* The title and the checks of the request, all paths, and the patches of the first
\* files; files is a sequence.
QueryWords(words, files) ==
    words
    \cup UNION {files[i].path : i \in DOMAIN files}
    \cup UNION {files[i].patch \cup files[i].removed :
                   i \in {j \in DOMAIN files : j <= QueryFiles}}

Shared(chunk, query) == Cardinality(chunk.words \cap query)
IsOwn(chunk) == chunk.source = RepositoryPolicy

\* The repository's own policy passes the filter by type like any other.
RelevantByType(chunk, query, types) ==
    /\ types = {} \/ chunk.type \in types
    /\ Shared(chunk, query) > 0

Relevant(chunk, query, types) ==
    /\ types = {} \/ chunk.type \in types \/ IsOwn(chunk)
    /\ Shared(chunk, query) > 0

\* The score without the bonus.  It is rounded to the number of units m for which
\* m - 1/2 is not above Precision times the shared words over the root of the words.
WordScore(chunk, query) ==
    LET most == Precision * Shared(chunk, query)
    IN  Cardinality({m \in 1 .. most :
            (2 * m - 1) * (2 * m - 1) * Cardinality(chunk.words) <= 4 * most * most})

Score(chunk, query) ==
    WordScore(chunk, query) + (IF IsOwn(chunk) THEN Bonus * Precision ELSE 0)

\* rank_policy_chunks; equals stay in the order they came in.
RankPolicyChunks(chunks, query, top, types) ==
    LET relevant == {i \in DOMAIN chunks : Relevant(chunks[i], query, types)}
        score(i) == Score(chunks[i], query)
        ahead(i, j) == score(i) > score(j) \/ (score(i) = score(j) /\ i < j)
        ranked == InOrder([i \in relevant |-> {j \in relevant : ahead(j, i)}])
        taken == FirstOf(ranked, top)
    IN  [k \in DOMAIN taken |-> chunks[taken[k]]]
=============================================================================
