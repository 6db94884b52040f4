------------------------- MODULE MCFindingPromotion -------------------------
(* Instantiates FindingPromotion: x1 and x2 support the diagnostic claim, x3    *)
(* contradicts it, x4 and x5 support a claim of an HTTP class.                  *)
EXTENDS FindingPromotion, TLC

CONSTANTS x1, x2, x3, x4, x5

MCClass == [x \in Experiments |->
              IF x \in {x4, x5} THEN "HTTP_AUTHORIZATION_DIFFERENTIAL" ELSE "DIAGNOSTIC_PLUMBING"]

MCShows == [x \in Experiments |-> IF x = x3 THEN "CONTRADICTING" ELSE "SUPPORTING"]

\* A second candidate is explored among the experiments of the diagnostic claim only.
Bounded ==
    (\A c \in Candidates : candidate[c] # "NONE")
    => /\ \A c \in Candidates : origin[c] \notin {x4, x5}
       /\ \A v \in Verifications : verification[v].reproduction \notin {x4, x5}

Symmetry == Permutations(Actors) \cup Permutations(Candidates)
                \cup Permutations(Verifications) \cup Permutations(Proposals)
=============================================================================
