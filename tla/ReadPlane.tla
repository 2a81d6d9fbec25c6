----------------------------- MODULE ReadPlane -----------------------------
(***************************************************************************)
(* The read plane: what a participant is shown of a tree.  Views resolve   *)
(* to stored participant combinations, and a bundle splits the tree into   *)
(* floors that no budget touches, candidates that fit an approximate token *)
(* budget, omissions that say what did not, and evaluated obligations.     *)
(*                                                                         *)
(* Pure functions of one tree.  What every tree carries alike is left out: *)
(* the governance and constitution floors, the objective, which no         *)
(* operation sets, and the two fixed constraints.  So is the rendering.    *)
(***************************************************************************)
EXTENDS CognitionTree

\* The view stored under an id, and why there is none.
resolve_view(tree, viewId) ==
    LET found == findFirst(tree.views, viewId)
    IN  IF found = <<>> THEN [kind |-> "NotFound", view |-> <<>>]
        ELSE IF \/ found[1].profileRefs = <<>>
                \/ \E ref \in ToSet(found[1].profileRefs) : findProfile(tree, ref) = <<>>
             THEN [kind |-> "InvalidRefs", view |-> <<>>]
             ELSE [kind |-> "None", view |-> found]

---------------------------------------------------------------------------
(* The bundle. *)

IsFloor(record) == record.kind = "NegativeKnowledge"

\* Mutant: only conflicts without a scope are shown.
OpenConflicts_Global(tree) ==
    {[id |-> c.id, description |-> c.description] :
       c \in {k \in ToSet(tree.conflicts) : k.status = "Open" /\ k.scope = <<>>}}

OpenConflicts(tree) ==
    {[id |-> c.id, description |-> c.description] :
       c \in {k \in ToSet(tree.conflicts) : k.status = "Open"}}

\* What is shown whatever the budget: the next boundary, every open conflict and
\* all negative knowledge.
MandatoryInputs(tree) ==
    LET boundary == IF tree.nextBoundaryRef = <<>> THEN <<>>
                    ELSE findObligation(tree, tree.nextBoundaryRef[1])
        negative == Kept(tree.memory, {m \in ToSet(tree.memory) : IsFloor(m)})
    IN  [boundary  |-> [i \in DOMAIN boundary |-> boundary[i].statement],
         conflicts |-> OpenConflicts(tree),
         negative  |-> [i \in DOMAIN negative |-> negative[i].statement]]

\* One constraint for every operation class that needs a review.
ProtectedConstraints(tree) ==
    LET handoff == PolicyTable(tree).handoff
    IN  {class \in DOMAIN handoff : handoff[class] = "H2_Review"}

\* Every decision, then every memory record that is not a floor.
Listed(tree) ==
    LET decision(d) == [kind |-> "decision", id |-> d.id,
                        summary |-> (IF d.status = "Accepted" THEN "accepted: " ELSE "lifecycle: ")
                                       \o d.title]
        memory      == Kept(tree.memory, {m \in ToSet(tree.memory) : ~IsFloor(m)})
    IN  [i \in DOMAIN tree.decisions |-> decision(tree.decisions[i])]
          \o [i \in DOMAIN memory |->
                 [kind |-> "memory", id |-> memory[i].title, summary |-> memory[i].statement]]

TokenBudget(budget) == IF budget = 0 THEN 512 ELSE budget

Estimate(text) == (Len(text) + 3) \div 4

Taken(chosen, candidate) ==
    [candidates |-> Append(chosen.candidates, candidate), omissions |-> chosen.omissions,
     used       |-> chosen.used + Estimate(candidate.summary)]

Fits(chosen, candidate, budget) == chosen.used + Estimate(candidate.summary) <= budget

\* Mutant: what does not fit is dropped without a word.
Select_Silent(chosen, candidate, budget) ==
    IF Fits(chosen, candidate, budget) THEN Taken(chosen, candidate) ELSE chosen

\* A candidate is taken while it fits what is left of the budget, else explained.
Select(chosen, candidate, budget) ==
    IF Fits(chosen, candidate, budget) THEN Taken(chosen, candidate)
    ELSE [chosen EXCEPT !.omissions = Append(@, candidate)]

Evaluation(status) ==
    CASE status \in {"Done", "Cancelled", "Superseded"} -> "Met"
      [] status \in {"Open", "Deferred"}                -> "Unknown"
      [] status = "Blocked"                             -> "Unmet"

NothingChosen == [candidates |-> <<>>, omissions |-> <<>>, used |-> 0]

Chosen(listed, budget) ==
    LET chosen[n \in 0..Len(listed)] ==  \* after the first n of what is listed
          IF n = 0 THEN NothingChosen ELSE Select(chosen[n - 1], listed[n], budget)
    IN  chosen[Len(listed)]

build_bundle(tree, tokenBudget) ==
    LET chosen == Chosen(Listed(tree), TokenBudget(tokenBudget))
    IN  [mandatoryInputs      |-> MandatoryInputs(tree),
         protectedConstraints |-> ProtectedConstraints(tree),
         candidates           |-> chosen.candidates,
         omissions            |-> chosen.omissions,
         obligations          |-> [i \in DOMAIN tree.obligations |->
                                     [id |-> tree.obligations[i].id,
                                      evaluation |-> Evaluation(tree.obligations[i].status)]]]
=============================================================================
