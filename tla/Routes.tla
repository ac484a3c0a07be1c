------------------------------- MODULE Routes -------------------------------
(***************************************************************************)
(* The route planner (route.rs): decide ranks the candidates that passed   *)
(* their hard constraints by a weighted score, and verify_integrity checks *)
(* a decision that comes from elsewhere.                                   *)
(*                                                                         *)
(* Route ids and rejections are numbers in the order of the strings, 0 the *)
(* empty one; a digest is the content that it is computed from.            *)
(***************************************************************************)
EXTENDS Naturals, FiniteSets, Sequences, SequencesExt

CONSTANTS
    Metrics,        \* what a candidate is measured by, apart from its semantic loss
    MaxMetric,      \* 10_000: the top of a weight, a metric or a loss
    Loss            \* the name of the term of the semantic loss

RouteBounds == MaxMetric \in Nat \ {0} /\ Loss \notin Metrics

Terms == Metrics \cup {Loss}
MaxTerm == MaxMetric * MaxMetric
Failed == [status |-> "error"]

NoTerms == <<>>

-----------------------------------------------------------------------------
(* Scores                                                                  *)

\* ScoreTerms::total fails when a term is above MAX_SCORE_TERM.
InRange(terms) == \A t \in DOMAIN terms : terms[t] <= MaxTerm
Total(terms) == SumFunction(terms)

Score(candidate, weights) ==
    [t \in Terms |->
        weights[t] * (IF t = Loss THEN candidate.loss ELSE candidate.metric[t])]

\* The lexicographic order of (score, route id).
Before(a, b) == a[1] < b[1] \/ (a[1] = b[1] /\ a[2] < b[2])
First(ranked) == CHOOSE a \in ranked : \A b \in ranked \ {a} : Before(a, b)

\* A set of numbers in order.
Ascending(numbers) ==
    [i \in 1..Cardinality(numbers) |->
        CHOOSE n \in numbers : Cardinality({m \in numbers : m < n}) = i - 1]

Canonical(rejections) == Ascending(ToSet(rejections))

\* Candidates in the order of their ids, of which no two are the same.
SortedById(candidates) ==
    LET ids == Ascending({c.id : c \in ToSet(candidates)}) IN
    [i \in DOMAIN ids |-> CHOOSE c \in ToSet(candidates) : c.id = ids[i]]

-----------------------------------------------------------------------------
(* decide                                                                  *)

Content(d) == [d EXCEPT !.digest = <<>>]
Sealed(d) == [d EXCEPT !.digest = Content(d)]

Rejected(candidates, weights) ==
    \/ \E t \in Terms : weights[t] > MaxMetric
    \/ \E i \in DOMAIN candidates :
          \/ candidates[i].loss > MaxMetric
          \/ candidates[i].id = 0
          \/ \E j \in DOMAIN candidates \ {i} : candidates[j].id = candidates[i].id
          \/ /\ ~candidates[i].allowed
             /\ candidates[i].rejections = <<>> \/ 0 \in ToSet(candidates[i].rejections)
          \/ /\ candidates[i].allowed
             /\ \E t \in Metrics : candidates[i].metric[t] > MaxMetric

\* Mutant: reasons are kept in the order they were given in.
ExplainedAsGiven(candidate, weights) ==
    [id |-> candidate.id,
     allowed |-> candidate.allowed,
     rejections |-> candidate.rejections,
     terms |-> IF candidate.allowed THEN Score(candidate, weights) ELSE NoTerms]

\* What a decision says of a candidate.
Explained(candidate, weights) ==
    [id |-> candidate.id,
     allowed |-> candidate.allowed,
     rejections |-> IF candidate.allowed THEN <<>> ELSE Canonical(candidate.rejections),
     terms |-> IF candidate.allowed THEN Score(candidate, weights) ELSE NoTerms]

Decision(explanations, chosen) ==
    Sealed([status |-> IF chosen = <<>> THEN "denied" ELSE "selected",
            version |-> 1,
            selected |-> IF chosen = <<>> THEN 0 ELSE chosen[2],
            explained |-> IF chosen = <<>> THEN 0 ELSE chosen[2],
            score |-> IF chosen = <<>> THEN 0 ELSE chosen[1],
            candidates |-> explanations,
            digest |-> <<>>])

Decide(candidates, weights) ==
    LET sorted == SortedById(candidates)
        explanations == [i \in DOMAIN sorted |-> Explained(sorted[i], weights)]
        ranked == {<<Total(Score(c, weights)), c.id>> : c \in {c \in ToSet(sorted) : c.allowed}}
    IN  IF Rejected(candidates, weights) THEN Failed
        ELSE Decision(explanations, IF ranked = {} THEN <<>> ELSE First(ranked))

-----------------------------------------------------------------------------
(* verify_integrity                                                        *)

Rising(numbers) == \A i \in 1..(Len(numbers) - 1) : numbers[i] < numbers[i + 1]

ExplanationsValid(explanations, allDenied) ==
    /\ Rising([i \in DOMAIN explanations |-> explanations[i].id])
    /\ \A i \in DOMAIN explanations :
          LET c == explanations[i] IN
          /\ c.id # 0
          /\ c.allowed => ~allDenied /\ c.rejections = <<>> /\ c.terms # NoTerms
          /\ ~c.allowed =>
                /\ c.terms = NoTerms
                /\ c.rejections # <<>> /\ 0 \notin ToSet(c.rejections) /\ Rising(c.rejections)

\* Mutant: the score is compared with the selected candidate's own alone.
SelectionValidAlone(d) ==
    /\ d.selected = d.explained
    /\ \E i \in DOMAIN d.candidates :
          LET c == d.candidates[i] IN
          /\ c.id = d.selected
          /\ c.terms # NoTerms /\ c.allowed /\ c.rejections = <<>>
          /\ InRange(c.terms) /\ Total(c.terms) = d.score

\* The selected candidate is the first of those that have terms.
SelectionValid(d) ==
    LET scored == {c \in ToSet(d.candidates) : c.terms # NoTerms}
        ranked == {<<Total(c.terms), c.id>> : c \in scored}
    IN  /\ d.selected = d.explained
        /\ \E c \in scored : c.id = d.selected /\ c.allowed /\ c.rejections = <<>>
        /\ \A c \in scored : InRange(c.terms)
        /\ <<d.score, d.selected>> \in ranked
        /\ \A other \in ranked \ {<<d.score, d.selected>>} : Before(<<d.score, d.selected>>, other)

VerifyIntegrity(d) ==
    /\ d.digest = Content(d)
    /\ d.version = 1
    /\ d.status = "selected" => SelectionValid(d)
    /\ ExplanationsValid(d.candidates, d.status = "denied")
=============================================================================
