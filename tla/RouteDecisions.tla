--------------------------- MODULE RouteDecisions ---------------------------
(***************************************************************************)
(* The life of a route decision: candidates and weights are decided on,    *)
(* the decision leaves the gateway, somebody may edit it and compute its   *)
(* digest anew, which takes no key, and it is validated.                   *)
(***************************************************************************)
EXTENDS Routes

CONSTANTS
    Pool,           \* the candidates there can be
    WeightPool,     \* the weights
    Edits,          \* explanations that an edit may put in
    MaxCandidates

RouteValues ==
    /\ IsFiniteSet(Metrics) /\ MaxCandidates \in Nat
    /\ Pool \subseteq [id : Nat, allowed : BOOLEAN, rejections : Seq(Nat),
                       metric : [Metrics -> Nat], loss : Nat]
    /\ WeightPool \subseteq [Terms -> Nat]
    /\ Edits \subseteq [id : Nat, allowed : BOOLEAN, rejections : Seq(Nat),
                        terms : [Terms -> Nat] \cup {NoTerms}]

VARIABLES
    candidates,
    weights,
    decision,
    step            \* "ask", "decided", "edited"

vars == <<candidates, weights, decision, step>>

Init ==
    /\ candidates \in UNION {[1..n -> Pool] : n \in 0..MaxCandidates}
    /\ weights \in WeightPool
    /\ decision = Failed
    /\ step = "ask"

\* decide, as route explain and execute call it.
Ask ==
    /\ step = "ask"
    /\ decision' = Decide(candidates, weights)
    /\ step' = "decided"
    /\ UNCHANGED <<candidates, weights>>

\* Another explanation at one place, with the old score or the one that belongs to it.
Shows(d, i, e) == [d EXCEPT !.candidates[i] = e]
Scored(d, e) == [d EXCEPT !.score = IF e.terms = NoTerms THEN @ ELSE Total(e.terms)]
Shown(d) == {Shows(d, i, e) : i \in DOMAIN d.candidates, e \in Edits}
ShownScored(d) == {Scored(Shows(d, i, e), e) : i \in DOMAIN d.candidates, e \in Edits}

\* One field of the file is changed, and the digest follows or not.
Edited(d) ==
    UNION {
        Shown(d), ShownScored(d),
        {[d EXCEPT !.selected = id, !.explained = id] : id \in 0..MaxCandidates},
        {[d EXCEPT !.selected = id] : id \in 0..MaxCandidates},
        {[d EXCEPT !.score = s] : s \in 0..MaxTerm},
        {[d EXCEPT !.status = s] : s \in {"selected", "denied"}},
        {[d EXCEPT !.candidates = Reverse(@)], [d EXCEPT !.version = 2]}}

Edit ==
    /\ step = "decided" /\ decision # Failed
    /\ \E d \in Edited(decision) : decision' \in {d, Sealed(d)}
    /\ step' = "edited"
    /\ UNCHANGED <<candidates, weights>>

Next == Ask \/ Edit

Spec == Init /\ [][Next]_vars

-----------------------------------------------------------------------------
\* What the planner decides passes its own validation, whatever the candidates: the
\* planner and the verifier agree on order, reasons, scores and ties.
DecisionVerifies == step = "decided" /\ decision # Failed => VerifyIntegrity(decision)

\* A decision that validates, edited or not, selects the best of the candidates that it
\* shows as allowed and nothing when it shows none, and gives a reason for the others.
VerifiedIsBest ==
    decision # Failed /\ VerifyIntegrity(decision) =>
        LET shown == ToSet(decision.candidates)
            allowed == {c \in shown : c.allowed}
        IN  /\ decision.status = "selected" <=> allowed # {}
            /\ \A c \in shown \ allowed : c.rejections # <<>>
            /\ decision.status = "selected" => \E c \in allowed :
                  /\ c.id = decision.selected
                  /\ \A other \in allowed \ {c} :
                        Before(<<Total(c.terms), c.id>>, <<Total(other.terms), other.id>>)

\* Planner and verifier agree: what is decided verifies, what verifies is the best.
PlanAndProofAgree == DecisionVerifies /\ VerifiedIsBest
=============================================================================
