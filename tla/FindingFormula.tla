--------------------------- MODULE FindingFormula ---------------------------
(***************************************************************************)
(* What promotion promises, in the words of the locked formula of the      *)
(* repository's decisions: VALIDATED Candidate + FindingProposal + Human   *)
(* Review + Core Approval = Finding.  A proposal is made for a candidate   *)
(* that a verification has validated, reviewed once, decided once, as the  *)
(* review says, and a finding is what an approving decision makes.         *)
(*                                                                         *)
(* The promise names no processes and no lifecycle states: those may go    *)
(* astray when processes race, the promise may not.                        *)
(***************************************************************************)
CONSTANTS Candidates, Proposals, NoCandidate

VARIABLES
    validated,   \* candidates some verification has validated
    about,       \* candidate of each proposal, NoCandidate until it is made
    reviewed,    \* "NONE", "APPROVE" or "REJECT": the recorded review
    decided,     \* the same for the recorded approval
    found        \* proposals with a finding

vars == <<validated, about, reviewed, decided, found>>

Init ==
    /\ validated = {}
    /\ about = [p \in Proposals |-> NoCandidate]
    /\ reviewed = [p \in Proposals |-> "NONE"]
    /\ decided = [p \in Proposals |-> "NONE"]
    /\ found = {}

Validate(c) ==
    /\ validated' = validated \cup {c}
    /\ UNCHANGED <<about, reviewed, decided, found>>

Propose(p, c) ==
    /\ about[p] = NoCandidate
    /\ c \in validated
    /\ about' = [about EXCEPT ![p] = c]
    /\ UNCHANGED <<validated, reviewed, decided, found>>

Review(p, decision) ==
    /\ about[p] # NoCandidate
    /\ reviewed[p] = "NONE"
    /\ reviewed' = [reviewed EXCEPT ![p] = decision]
    /\ UNCHANGED <<validated, about, decided, found>>

\* The decision, and the finding of an approval, in one step.
Decide(p) ==
    /\ reviewed[p] # "NONE"
    /\ decided[p] = "NONE"
    /\ decided' = [decided EXCEPT ![p] = reviewed[p]]
    /\ found' = IF reviewed[p] = "APPROVE" THEN found \cup {p} ELSE found
    /\ UNCHANGED <<validated, about, reviewed>>

Next ==
    \/ \E c \in Candidates : Validate(c)
    \/ \E p \in Proposals :
          \/ \E c \in Candidates : Propose(p, c)
          \/ \E decision \in {"APPROVE", "REJECT"} : Review(p, decision)
          \/ Decide(p)

Spec == Init /\ [][Next]_vars
=============================================================================
