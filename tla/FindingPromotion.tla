-------------------------- MODULE FindingPromotion --------------------------
(***************************************************************************)
(* From admitted evidence to a finding: the use cases of application that  *)
(* propose and verify a candidate, submit a finding proposal, review it    *)
(* and finalize it.                                                        *)
(*                                                                         *)
(* Each use case is one transaction.  It reads its rows statement by       *)
(* statement at READ COMMITTED, decides, and writes at the end; the        *)
(* set_state of a candidate or proposal row tests nothing, so another      *)
(* transaction may have moved the row since it was read.  The writes of a  *)
(* transaction and its commit are one step here: a second writer of the    *)
(* same row, or of the same unique key, waits for that commit.             *)
(***************************************************************************)
CONSTANTS
    Actors,          \* processes that run use cases, on behalf of operators
    Experiments,     \* finished experiments, each with at most one evidence
    Class,           \* classification of each experiment's claim
    Shows,           \* what the evidence of each experiment says
    ControlsHeld,    \* experiments whose negative control held
    Candidates,      \* the opaque ids that may still be drawn, ...
    Verifications,
    Proposals,
    NoCandidate, NoExperiment, NoProposal

Showings == {"SUPPORTING", "CONTRADICTING", "NOTHING", "UNUSABLE"}

ASSUME PromotionAssumption ==
    /\ NoCandidate \notin Candidates /\ NoExperiment \notin Experiments
    /\ NoProposal \notin Proposals
    /\ Shows \in [Experiments -> Showings]

VARIABLES
    candidate,       \* candidate.state, "NONE" while there is no row
    origin,          \* experiment of the candidate's originating evidence
    verification,    \* append-only verification rows
    proposal,        \* finding_proposal rows
    reviews,         \* append-only human_review rows
    approvals,       \* append-only approval rows
    findings,        \* append-only finding rows
    tx,              \* open transaction of each actor
    answer           \* the last answer FinalizeFinding gave

rows == <<candidate, origin, verification, proposal, reviews, approvals, findings>>
vars == <<rows, tx, answer>>

\* Core's approval check reads neither of the catalogues.
Core == INSTANCE CoreAuthorization WITH WorkerRegistry <- <<>>, IntegrationAllowlist <- <<>>

TERMINAL_CANDIDATE_STATES ==
    {"VALIDATED", "REJECTED", "INCONCLUSIVE", "DUPLICATE", "OUT_OF_SCOPE"}

CandidateStates == {"OPEN", "VERIFYING"} \cup TERMINAL_CANDIDATE_STATES
ProposalStates  == {"PROPOSED", "HUMAN_REVIEW", "APPROVED", "REJECTED"}
Reviews         == {"APPROVE", "REJECT"}

LEGAL_CANDIDATE_TRANSITIONS ==
    {<<"OPEN", "VERIFYING">>, <<"OPEN", "OUT_OF_SCOPE">>, <<"OPEN", "DUPLICATE">>}
    \cup {"VERIFYING"} \X TERMINAL_CANDIDATE_STATES

LEGAL_FINDING_PROPOSAL_TRANSITIONS ==
    {<<"PROPOSED", "HUMAN_REVIEW">>, <<"HUMAN_REVIEW", "APPROVED">>,
     <<"HUMAN_REVIEW", "REJECTED">>}

NoRow == [state |-> "NONE", candidate |-> NoCandidate, verifications |-> {}]

\* What the transaction has read; "at" names the statement that is next.
Idle == [at |-> "idle", candidate |-> NoCandidate, proposal |-> NoProposal,
         candidate_state |-> "NONE", proposal_state |-> "NONE", verifications |-> {},
         decision |-> "NONE"]

Init ==
    /\ candidate = [c \in Candidates |-> "NONE"]
    /\ origin = [c \in Candidates |-> NoExperiment]
    /\ verification = [v \in Verifications |->
                         [candidate |-> NoCandidate, outcome |-> "NONE",
                          reproduction |-> NoExperiment]]
    /\ proposal = [p \in Proposals |-> NoRow]
    /\ reviews = {}
    /\ approvals = {}
    /\ findings = {}
    /\ tx = [a \in Actors |-> Idle]
    /\ answer = "NONE"

Begin(a, local) == tx[a] = Idle /\ tx' = [tx EXCEPT ![a] = local]
Read(a, local)  == tx' = [tx EXCEPT ![a] = local]
Return(a)       == tx' = [tx EXCEPT ![a] = Idle]

VerificationsOf(c) == {v \in Verifications : verification[v].candidate = c}
ReviewOf(p)   == {r \in reviews : r.proposal = p}
ApprovalOf(p) == {d \in approvals : d.proposal = p}
FindingOf(p)  == {f \in findings : f.proposal = p}

-----------------------------------------------------------------------------
(* The verifiers: what a completed verification says of its candidate.     *)

VerificationCommands ==
    [out_of_scope: BOOLEAN, duplicate: Candidates \cup {NoCandidate},
     reproduction: Experiments \cup {NoExperiment}, control: Experiments \cup {NoExperiment}]

HasEvidence(x) == x # NoExperiment /\ Shows[x] \in {"SUPPORTING", "CONTRADICTING"}

\* Mutant: evidence may reproduce itself.
IndependentOfNothing(original, reproduction) == reproduction # NoExperiment

\* Evidence, request and observations of a reproduction are its experiment's own.
Independent(original, reproduction) ==
    reproduction # NoExperiment /\ reproduction # original

\* A control experiment without evidence counts as no control.
ControlUsable(original, command) ==
    HasEvidence(command.control) =>
        /\ Shows[command.control] = "CONTRADICTING"
        /\ Class[command.control] = "DIAGNOSTIC_PLUMBING"
        /\ Independent(original, command.control)
        /\ command.control # command.reproduction

SupportsClaim(x, class) == Shows[x] = "SUPPORTING" /\ Class[x] = class /\ x \in ControlsHeld

EvaluateDiagnostic(original, command, known_duplicate) ==
    LET x == command.reproduction IN
    IF command.out_of_scope THEN "OUT_OF_SCOPE"
    ELSE IF command.duplicate # NoCandidate
         THEN IF known_duplicate THEN "DUPLICATE" ELSE "INCONCLUSIVE"
    ELSE IF ~Independent(original, x) \/ ~HasEvidence(x) THEN "INCONCLUSIVE"
    ELSE IF Shows[x] = "CONTRADICTING" /\ Class[x] = "DIAGNOSTIC_PLUMBING" THEN "REJECTED"
    ELSE IF SupportsClaim(x, "DIAGNOSTIC_PLUMBING") /\ ControlUsable(original, command)
         THEN "VALIDATED" ELSE "INCONCLUSIVE"

\* The HTTP verifiers look at neither the duplicate nor the control experiment.
EvaluateDifferential(original, command) ==
    LET x == command.reproduction IN
    IF command.out_of_scope THEN "OUT_OF_SCOPE"
    ELSE IF ~Independent(original, x) \/ Shows[x] = "UNUSABLE" THEN "INCONCLUSIVE"
    ELSE IF SupportsClaim(x, Class[original]) THEN "VALIDATED"
    ELSE IF Shows[x] = "CONTRADICTING" THEN "REJECTED"
    ELSE "INCONCLUSIVE"

EvaluateVerification(original, command, known_duplicate) ==
    IF Class[original] = "DIAGNOSTIC_PLUMBING"
    THEN EvaluateDiagnostic(original, command, known_duplicate)
    ELSE EvaluateDifferential(original, command)

-----------------------------------------------------------------------------
(* Candidates.                                                             *)

\* Evidence is append-only and one evidence may seed several candidates.
ProposeCandidate(c, x) ==
    /\ candidate[c] = "NONE"
    /\ Shows[x] = "SUPPORTING"
    /\ candidate' = [candidate EXCEPT ![c] = "OPEN"]
    /\ origin' = [origin EXCEPT ![c] = x]
    /\ UNCHANGED <<verification, proposal, reviews, approvals, findings, tx, answer>>

StartVerificationRead(a, c) ==
    /\ <<candidate[c], "VERIFYING">> \in LEGAL_CANDIDATE_TRANSITIONS
    /\ Begin(a, [Idle EXCEPT !.at = "start verification", !.candidate = c])
    /\ UNCHANGED <<rows, answer>>

StartVerificationWrite(a) ==
    /\ tx[a].at = "start verification"
    /\ candidate' = [candidate EXCEPT ![tx[a].candidate] = "VERIFYING"]
    /\ Return(a)
    /\ UNCHANGED <<origin, verification, proposal, reviews, approvals, findings, answer>>

CompleteVerificationRead(a, c) ==
    /\ candidate[c] # "NONE"
    /\ Begin(a, [Idle EXCEPT !.at = "complete verification", !.candidate = c,
                             !.candidate_state = candidate[c]])
    /\ UNCHANGED <<rows, answer>>

Outcome(a, command) ==
    EvaluateVerification(origin[tx[a].candidate], command,
        \E d \in Candidates : d = command.duplicate /\ candidate[d] # "NONE")

RecordVerification(v, row) == verification' = [verification EXCEPT ![v] = row]

\* The transition is judged by the state that was read, and rolls back if illegal.
CompleteVerificationWrite(a, v, command) ==
    /\ tx[a].at = "complete verification"
    /\ verification[v].candidate = NoCandidate
    /\ <<tx[a].candidate_state, Outcome(a, command)>> \in LEGAL_CANDIDATE_TRANSITIONS
    /\ candidate' = [candidate EXCEPT ![tx[a].candidate] = Outcome(a, command)]
    /\ RecordVerification(v, [candidate |-> tx[a].candidate, outcome |-> Outcome(a, command),
                              reproduction |-> command.reproduction])
    /\ Return(a)
    /\ UNCHANGED <<origin, proposal, reviews, approvals, findings, answer>>

-----------------------------------------------------------------------------
(* The finding proposal and its review.                                    *)

\* Mutant: any candidate with verifications may be proposed.
SubmitReadAnyCandidate(a, c) ==
    /\ candidate[c] # "NONE"
    /\ Begin(a, [Idle EXCEPT !.at = "submit: verifications", !.candidate = c])
    /\ UNCHANGED <<rows, answer>>

SubmitReadCandidate(a, c) ==
    /\ candidate[c] = "VALIDATED"
    /\ Begin(a, [Idle EXCEPT !.at = "submit: verifications", !.candidate = c])
    /\ UNCHANGED <<rows, answer>>

SubmitReadVerifications(a) ==
    /\ tx[a].at = "submit: verifications"
    /\ VerificationsOf(tx[a].candidate) # {}
    /\ Read(a, [tx[a] EXCEPT !.at = "submit: insert",
                             !.verifications = VerificationsOf(tx[a].candidate)])
    /\ UNCHANGED <<rows, answer>>

\* Taken when the validation tiers (of an HTTP class) and the impact chains of
\* the draft pass; a proposal that they reject leaves no row but an audit event.
SubmitInsert(a, p) ==
    /\ tx[a].at = "submit: insert"
    /\ proposal[p].state = "NONE"
    /\ proposal' = [proposal EXCEPT ![p] =
                      [state |-> "PROPOSED", candidate |-> tx[a].candidate,
                       verifications |-> tx[a].verifications]]
    /\ Return(a)
    /\ UNCHANGED <<candidate, origin, verification, reviews, approvals, findings, answer>>

StartReviewRead(a, p) ==
    /\ <<proposal[p].state, "HUMAN_REVIEW">> \in LEGAL_FINDING_PROPOSAL_TRANSITIONS
    /\ Begin(a, [Idle EXCEPT !.at = "start review", !.proposal = p])
    /\ UNCHANGED <<rows, answer>>

StartReviewWrite(a) ==
    /\ tx[a].at = "start review"
    /\ proposal' = [proposal EXCEPT ![tx[a].proposal].state = "HUMAN_REVIEW"]
    /\ Return(a)
    /\ UNCHANGED <<candidate, origin, verification, reviews, approvals, findings, answer>>

RecordReviewRead(a, p) ==
    /\ proposal[p].state = "HUMAN_REVIEW"
    /\ Begin(a, [Idle EXCEPT !.at = "record review", !.proposal = p])
    /\ UNCHANGED <<rows, answer>>

\* An existing review is returned, and the unique key of human_review stops a
\* racing second one: either way at most this actor's local state changes.
RecordReviewInsert(a, decision, actor_type) ==
    /\ tx[a].at = "record review"
    /\ actor_type = "HUMAN_OPERATOR"
    /\ ReviewOf(tx[a].proposal) = {}
    /\ reviews' = reviews \cup {[proposal |-> tx[a].proposal, decision |-> decision]}
    /\ Return(a)
    /\ UNCHANGED <<candidate, origin, verification, proposal, approvals, findings, answer>>

-----------------------------------------------------------------------------
(* Finalization: Core's approval and the finding.                          *)

EvaluateRecordedApproval(approval, subject) ==
    LET check == Core!CheckApproval(approval, subject)
    IN  [valid_record |-> check.authorizes \/ check.reason = "APPROVAL_REJECTED",
         authorizes   |-> check.authorizes]

\* The next state of the proposal, or "REFUSED" when finalization raises.  The
\* approval is built from the review's decision; title, claim and fingerprint of
\* a proposal never change, so its review always matches it.
EvaluateFindingCreation(candidate_state, proposal_state, p, decision, actor_type) ==
    LET approval == EvaluateRecordedApproval(
            [recorded |-> TRUE, actor_type |-> actor_type, subject |-> p,
             decision |-> decision], p)
    IN  IF \/ candidate_state # "VALIDATED"
           \/ proposal_state # "HUMAN_REVIEW"
           \/ decision = "NONE"
           \/ actor_type # "HUMAN_OPERATOR"
           \/ ~approval.valid_record
        THEN "REFUSED"
        ELSE IF decision = "REJECT" \/ ~approval.authorizes THEN "REJECTED" ELSE "APPROVED"

FinalizeReadProposal(a, p) ==
    /\ proposal[p].state # "NONE"
    /\ Begin(a, [Idle EXCEPT !.at = "finalize: finding", !.proposal = p,
                             !.proposal_state = proposal[p].state])
    /\ UNCHANGED <<rows, answer>>

\* A finding, or a rejection, is answered again; an approved proposal without a
\* finding raises.  The proposal was read before the finding.
FinalizeReadFinding(a) ==
    /\ tx[a].at = "finalize: finding"
    /\ IF FindingOf(tx[a].proposal) # {}
       THEN Return(a) /\ answer' = "EXISTING_FINDING"
       ELSE CASE tx[a].proposal_state = "REJECTED" -> Return(a) /\ answer' = "REJECTED_PROPOSAL"
              [] tx[a].proposal_state = "APPROVED" -> Return(a) /\ answer' = "MISSING_PROVENANCE"
              [] OTHER -> /\ Read(a, [tx[a] EXCEPT !.at = "finalize: candidate"])
                          /\ UNCHANGED answer
    /\ UNCHANGED rows

FinalizeReadCandidate(a) ==
    /\ tx[a].at = "finalize: candidate"
    /\ Read(a, [tx[a] EXCEPT !.at = "finalize: review",
                   !.candidate_state = candidate[proposal[tx[a].proposal].candidate]])
    /\ UNCHANGED <<rows, answer>>

\* Without a review, finalization raises.
FinalizeReadReview(a) ==
    /\ tx[a].at = "finalize: review"
    /\ \E r \in ReviewOf(tx[a].proposal) :
          Read(a, [tx[a] EXCEPT !.at = "finalize: write", !.decision = r.decision])
    /\ UNCHANGED <<rows, answer>>

\* Mutant: approval.subject_reference has no unique key.
InsertApprovalAnyway(p, decision, a) ==
    approvals' = approvals \cup {[proposal |-> p, decision |-> decision, decided_by |-> a]}

InsertApproval(p, decision, a) ==
    /\ ApprovalOf(p) = {}
    /\ approvals' = approvals \cup {[proposal |-> p, decision |-> decision, decided_by |-> a]}

InsertFinding(p, a) ==
    /\ FindingOf(p) = {}
    /\ findings' = findings \cup {[proposal |-> p, decided_by |-> a,
                                   candidate |-> proposal[p].candidate]}

\* Approval, proposal state and finding commit together.
FinalizeWrite(a, actor_type) ==
    LET p    == tx[a].proposal
        next == EvaluateFindingCreation(tx[a].candidate_state, tx[a].proposal_state, p,
                                        tx[a].decision, actor_type)
    IN  /\ tx[a].at = "finalize: write"
        /\ next # "REFUSED"
        /\ <<tx[a].proposal_state, next>> \in LEGAL_FINDING_PROPOSAL_TRANSITIONS
        /\ InsertApproval(p, tx[a].decision, a)
        /\ proposal' = [proposal EXCEPT ![p].state = next]
        /\ IF next = "APPROVED" THEN InsertFinding(p, a) ELSE UNCHANGED findings
        /\ answer' = IF next = "APPROVED" THEN "CREATED" ELSE "REJECTED_PROPOSAL"
        /\ Return(a)
        /\ UNCHANGED <<candidate, origin, verification, reviews>>

\* The unique key raises PersistenceConflictError, which finalize does not catch.
FinalizeConflict(a) ==
    /\ tx[a].at = "finalize: write"
    /\ ApprovalOf(tx[a].proposal) # {}
    /\ EvaluateFindingCreation(tx[a].candidate_state, tx[a].proposal_state, tx[a].proposal,
                               tx[a].decision, "HUMAN_OPERATOR") # "REFUSED"
    /\ answer' = "CONFLICT"
    /\ Return(a)
    /\ UNCHANGED rows

\* A transaction raises, has nothing to write, or dies with its process.
Rollback(a) ==
    /\ tx[a] # Idle
    /\ Return(a)
    /\ UNCHANGED <<rows, answer>>

Next ==
    \/ \E c \in Candidates, x \in Experiments : ProposeCandidate(c, x)
    \/ \E a \in Actors :
          \/ \E c \in Candidates :
                StartVerificationRead(a, c) \/ CompleteVerificationRead(a, c)
                    \/ SubmitReadCandidate(a, c)
          \/ StartVerificationWrite(a)
          \/ \E v \in Verifications, command \in VerificationCommands :
                CompleteVerificationWrite(a, v, command)
          \/ SubmitReadVerifications(a)
          \/ \E p \in Proposals :
                SubmitInsert(a, p) \/ StartReviewRead(a, p) \/ RecordReviewRead(a, p)
                    \/ FinalizeReadProposal(a, p)
          \/ StartReviewWrite(a)
          \/ \E decision \in Reviews, actor_type \in Core!ActorTypes :
                RecordReviewInsert(a, decision, actor_type)
          \/ FinalizeReadFinding(a)
          \/ FinalizeReadCandidate(a)
          \/ FinalizeReadReview(a)
          \/ \E actor_type \in Core!ActorTypes : FinalizeWrite(a, actor_type)
          \/ FinalizeConflict(a)
          \/ Rollback(a)

Spec == Init /\ [][Next]_vars

-----------------------------------------------------------------------------
(* Properties.                                                             *)

Answers == {"NONE", "EXISTING_FINDING", "REJECTED_PROPOSAL", "MISSING_PROVENANCE",
            "CREATED", "CONFLICT"}

Statements == {"idle", "start verification", "complete verification",
    "submit: verifications", "submit: insert", "start review", "record review",
    "finalize: finding", "finalize: candidate", "finalize: review", "finalize: write"}

Local == [at: Statements, candidate: Candidates \cup {NoCandidate},
          proposal: Proposals \cup {NoProposal},
          candidate_state: CandidateStates \cup {"NONE"},
          proposal_state: ProposalStates \cup {"NONE"},
          verifications: SUBSET Verifications, decision: Reviews \cup {"NONE"}]

\* The type invariant: every row and every local value is one the code can hold.
TypeOK ==
    /\ candidate \in [Candidates -> CandidateStates \cup {"NONE"}]
    /\ origin \in [Candidates -> Experiments \cup {NoExperiment}]
    /\ verification \in [Verifications ->
          [candidate: Candidates \cup {NoCandidate}, reproduction: Experiments \cup {NoExperiment},
           outcome: TERMINAL_CANDIDATE_STATES \cup {"NONE"}]]
    /\ proposal \in [Proposals ->
          [state: ProposalStates \cup {"NONE"}, candidate: Candidates \cup {NoCandidate},
           verifications: SUBSET Verifications]]
    /\ reviews \subseteq [proposal: Proposals, decision: Reviews]
    /\ approvals \subseteq [proposal: Proposals, decision: Reviews, decided_by: Actors]
    /\ findings \subseteq [proposal: Proposals, candidate: Candidates, decided_by: Actors]
    /\ tx \in [Actors -> Local]
    /\ answer \in Answers

\* v validated c, by another experiment than the one that seeded c.
Validates(v, c) ==
    /\ verification[v].candidate = c
    /\ verification[v].outcome = "VALIDATED"
    /\ verification[v].reproduction \in Experiments \ {origin[c]}
    /\ Shows[verification[v].reproduction] = "SUPPORTING"

ValidatedOnce == {c \in Candidates : \E v \in Verifications : Validates(v, c)}

HasProvenance(f) ==
    /\ proposal[f.proposal].candidate = f.candidate
    /\ \E v \in proposal[f.proposal].verifications : Validates(v, f.candidate)
    /\ [proposal |-> f.proposal, decision |-> "APPROVE"] \in reviews
    /\ [proposal |-> f.proposal, decision |-> "APPROVE", decided_by |-> f.decided_by]
          \in approvals

\* Every finding has the provenance the formula asks for, however the use cases
\* raced: the candidate of its proposal, an independent validation among the
\* verifications the proposal lists, an approving review and the approval that
\* was made with it (admit_finding_proposal, evaluate_finding_creation).
FindingProvenance == \A f \in findings : HasProvenance(f)

\* A proposal is decided once, by the one review it has: two racing finalizations
\* never leave two approvals, nor an approval that says otherwise than the review,
\* nor a finding beside a rejection.
OneDecision ==
    /\ \A d, e \in approvals : d.proposal = e.proposal => d = e
    /\ \A r, q \in reviews : r.proposal = q.proposal => r = q
    /\ \A d \in approvals : [proposal |-> d.proposal, decision |-> d.decision] \in reviews
    /\ \A d \in approvals : FindingOf(d.proposal) # {} <=> d.decision = "APPROVE"

\* A final state is never claimed without the record it stands for: a verification
\* with that outcome, a finding, a recorded rejection.
StatesBacked ==
    /\ \A c \in Candidates : candidate[c] \in TERMINAL_CANDIDATE_STATES =>
          \E v \in Verifications : /\ verification[v].candidate = c
                                   /\ verification[v].outcome = candidate[c]
    /\ \A p \in Proposals :
          /\ proposal[p].state = "APPROVED" => FindingOf(p) # {}
          /\ proposal[p].state = "REJECTED" =>
                \E d \in ApprovalOf(p) : d.decision = "REJECT"

\* "approved proposal is missing Finding provenance" is never raised: finalize
\* reads the proposal before the finding, and both were committed together.
NoMissingProvenance == answer # "MISSING_PROVENANCE"

\* What the statement a transaction has reached says about the rows.
ReviewStatements ==
    {"start review", "record review", "finalize: finding", "finalize: candidate",
     "finalize: review", "finalize: write"}

LocalOK(a) ==
    /\ tx[a].at \in {"start verification", "complete verification"} =>
          tx[a].candidate \in Candidates /\ candidate[tx[a].candidate] # "NONE"
    /\ tx[a].at \in {"submit: verifications", "submit: insert"} =>
          tx[a].candidate \in ValidatedOnce
    /\ tx[a].at = "submit: insert" =>
          \E v \in tx[a].verifications : Validates(v, tx[a].candidate)
    /\ tx[a].at \in ReviewStatements =>
          tx[a].proposal \in Proposals /\ proposal[tx[a].proposal].state # "NONE"
    /\ tx[a].at = "finalize: finding" /\ tx[a].proposal_state = "APPROVED" =>
          FindingOf(tx[a].proposal) # {}
    /\ tx[a].at = "finalize: write" =>
          [proposal |-> tx[a].proposal, decision |-> tx[a].decision] \in reviews

LocalsMatchRows == \A a \in Actors : LocalOK(a)

\* A row is only written on the strength of another one that is there.
RowsBacked ==
    /\ \A v \in Verifications : verification[v].candidate # NoCandidate =>
          candidate[verification[v].candidate] # "NONE"
    /\ \A c \in Candidates : candidate[c] = "VALIDATED" => c \in ValidatedOnce
    /\ \A p \in Proposals : proposal[p].state = "NONE" => proposal[p].candidate = NoCandidate
    /\ \A p \in Proposals : proposal[p].state # "NONE" =>
          /\ proposal[p].candidate \in Candidates
          /\ \E v \in proposal[p].verifications : Validates(v, proposal[p].candidate)
    /\ \A r \in reviews : proposal[r.proposal].state # "NONE"

\* The inductive invariant: what every transaction may rely on at its next
\* statement, and what every committed row stands for, whoever else commits.
PromotionInvariant ==
    TypeOK /\ LocalsMatchRows /\ RowsBacked /\ FindingProvenance /\ OneDecision
        /\ StatesBacked /\ NoMissingProvenance

\* The promise, with process, state and transaction forgotten.
DecisionIn(records, p) ==
    IF \E r \in records : r.proposal = p
    THEN (CHOOSE r \in records : r.proposal = p).decision ELSE "NONE"

Promise == INSTANCE FindingFormula WITH
    validated <- ValidatedOnce,
    about     <- [p \in Proposals |-> proposal[p].candidate],
    reviewed  <- [p \in Proposals |-> DecisionIn(reviews, p)],
    decided   <- [p \in Proposals |-> DecisionIn(approvals, p)],
    found     <- {p \in Proposals : FindingOf(p) # {}}

\* Promotion implements FindingFormula.
KeepsFormula == Promise!Spec
=============================================================================
