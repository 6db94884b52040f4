----------------------- MODULE FindingPromotionProofs -----------------------
(***************************************************************************)
(* The inductive invariant of FindingPromotion and that it implements      *)
(* FindingFormula, for every set of processes, experiments and ids.        *)
(***************************************************************************)
EXTENDS FindingPromotion, TLAPS

(* A verifier answers with a terminal state, and VALIDATED only by an        *)
(* experiment that supports the claim and is not the one that seeded it      *)
(* (evaluate_diagnostic_verification and its HTTP siblings).                 *)
LEMMA VerdictFacts ==
    ASSUME NEW original, NEW known_duplicate, NEW command \in VerificationCommands
    PROVE  LET verdict == EvaluateVerification(original, command, known_duplicate) IN
           /\ verdict \in TERMINAL_CANDIDATE_STATES
           /\ verdict = "VALIDATED" =>
                 /\ command.reproduction \in Experiments \ {original}
                 /\ Shows[command.reproduction] = "SUPPORTING"
<1>1. command.reproduction \in Experiments \cup {NoExperiment}
  BY DEF VerificationCommands
<1>2. LET verdict == EvaluateDiagnostic(original, command, known_duplicate) IN
      /\ verdict \in TERMINAL_CANDIDATE_STATES
      /\ verdict = "VALIDATED" =>
            /\ command.reproduction \in Experiments \ {original}
            /\ Shows[command.reproduction] = "SUPPORTING"
  BY <1>1 DEF EvaluateDiagnostic, Independent, SupportsClaim, TERMINAL_CANDIDATE_STATES
<1>3. LET verdict == EvaluateDifferential(original, command) IN
      /\ verdict \in TERMINAL_CANDIDATE_STATES
      /\ verdict = "VALIDATED" =>
            /\ command.reproduction \in Experiments \ {original}
            /\ Shows[command.reproduction] = "SUPPORTING"
  BY <1>1 DEF EvaluateDifferential, Independent, SupportsClaim, TERMINAL_CANDIDATE_STATES
<1>4. QED
  BY <1>2, <1>3 DEF EvaluateVerification

(* Finalization refuses, or follows the review (evaluate_finding_creation).  *)
LEMMA CreationFacts ==
    ASSUME NEW candidate_state, NEW proposal_state, NEW p, NEW actor_type,
           NEW decision \in Reviews \cup {"NONE"}
    PROVE  LET next == EvaluateFindingCreation(candidate_state, proposal_state, p,
                                               decision, actor_type) IN
           \/ next = "REFUSED"
           \/ next = "REJECTED" /\ decision = "REJECT"
           \/ next = "APPROVED" /\ decision = "APPROVE"
<1> DEFINE approval == [recorded |-> TRUE, actor_type |-> actor_type, subject |-> p,
                        decision |-> decision]
<1>1. CASE decision = "APPROVE" /\ actor_type = "HUMAN_OPERATOR"
  <2>1. EvaluateRecordedApproval(approval, p).valid_record =>
            EvaluateRecordedApproval(approval, p).authorizes
    BY <1>1 DEF EvaluateRecordedApproval, Core!CheckApproval
  <2>2. QED
    BY <1>1, <2>1 DEF EvaluateFindingCreation, Reviews
<1>2. CASE ~(decision = "APPROVE" /\ actor_type = "HUMAN_OPERATOR")
  BY <1>2 DEF EvaluateFindingCreation, Reviews
<1>3. QED
  BY <1>1, <1>2

-----------------------------------------------------------------------------
(* What no commit takes away.                                              *)

RowsKept ==
    /\ \A v \in Verifications : verification[v].candidate # NoCandidate =>
          verification'[v] = verification[v]
    /\ \A c \in Candidates : candidate[c] # "NONE" =>
          candidate'[c] # "NONE" /\ origin'[c] = origin[c]
    /\ \A p \in Proposals : proposal[p].state # "NONE" =>
          /\ proposal'[p].state # "NONE"
          /\ proposal'[p].candidate = proposal[p].candidate
          /\ proposal'[p].verifications = proposal[p].verifications
    /\ reviews \subseteq reviews'
    /\ approvals \subseteq approvals'
    /\ findings \subseteq findings'

(* A validation, once recorded, stays one.                                   *)
LEMMA ValidatesKept ==
    ASSUME TypeOK, RowsBacked, RowsKept,
           NEW v \in Verifications, NEW c \in Candidates, Validates(v, c)
    PROVE  Validates(v, c)'
<1>1. verification[v].candidate = c /\ c # NoCandidate
  BY PromotionAssumption DEF Validates
<1>2. candidate[c] # "NONE"
  BY <1>1 DEF RowsBacked
<1>3. verification'[v] = verification[v] /\ origin'[c] = origin[c]
  BY <1>1, <1>2 DEF RowsKept
<1>4. QED
  BY <1>3 DEF Validates

LEMMA ValidatedOnceKept ==
    ASSUME TypeOK, RowsBacked, RowsKept
    PROVE  ValidatedOnce \subseteq ValidatedOnce'
BY ValidatesKept DEF ValidatedOnce

(* The other transactions may go on relying on what they have read.          *)
LEMMA OthersKeep ==
    ASSUME TypeOK, RowsBacked, RowsKept,
           NEW b \in Actors, LocalOK(b), tx'[b] = tx[b]
    PROVE  LocalOK(b)'
<1>1. tx[b] \in Local
  BY DEF TypeOK
<1>2. tx'[b].at \in {"start verification", "complete verification"} =>
          tx'[b].candidate \in Candidates /\ candidate'[tx'[b].candidate] # "NONE"
  BY DEF LocalOK, RowsKept
<1>3. tx'[b].at \in {"submit: verifications", "submit: insert"} =>
          tx'[b].candidate \in ValidatedOnce'
  BY ValidatedOnceKept DEF LocalOK
<1>4. tx'[b].at = "submit: insert" =>
          \E v \in tx'[b].verifications : Validates(v, tx[b].candidate)'
  <2>1. SUFFICES ASSUME tx[b].at = "submit: insert"
                 PROVE  \E v \in tx'[b].verifications : Validates(v, tx[b].candidate)'
    OBVIOUS
  <2>2. PICK c \in Candidates : c = tx[b].candidate
    BY <2>1 DEF LocalOK, ValidatedOnce
  <2>3. PICK v \in tx[b].verifications : Validates(v, c)
    BY <2>1, <2>2 DEF LocalOK
  <2>4. v \in Verifications
    BY <1>1, <2>3 DEF Local
  <2>5. Validates(v, c)'
    BY <2>3, <2>4, ValidatesKept
  <2>6. QED
    BY <2>2, <2>3, <2>5 DEF Validates
<1>5. tx'[b].at \in ReviewStatements =>
          tx'[b].proposal \in Proposals /\ proposal'[tx'[b].proposal].state # "NONE"
  BY DEF LocalOK, RowsKept
<1>6. tx'[b].at = "finalize: finding" /\ tx'[b].proposal_state = "APPROVED" =>
          FindingOf(tx[b].proposal)' # {}
  BY DEF LocalOK, RowsKept, FindingOf
<1>7. tx'[b].at = "finalize: write" =>
          [proposal |-> tx'[b].proposal, decision |-> tx'[b].decision] \in reviews'
  BY DEF LocalOK, RowsKept
<1>8. QED
  BY <1>2, <1>3, <1>4, <1>5, <1>6, <1>7 DEF LocalOK, Validates, FindingOf

LEMMA IdleKeeps ==
    ASSUME NEW b \in Actors, tx'[b] = Idle
    PROVE  LocalOK(b)'
BY DEF LocalOK, Idle, ReviewStatements, FindingOf, Validates

-----------------------------------------------------------------------------
(* Type correctness.                                                       *)

LEMMA InitType == Init => TypeOK
BY PromotionAssumption
   DEF Init, TypeOK, Idle, NoRow, Local, Statements, Answers

\* A local record stays one when a statement stores what it has read.
LEMMA LocalType ==
    ASSUME TypeOK, NEW a \in Actors, NEW local \in Local, tx' = [tx EXCEPT ![a] = local]
    PROVE  tx' \in [Actors -> Local]
BY DEF TypeOK

LEMMA IdleType == Idle \in Local
BY DEF Idle, Local, Statements

LEMMA ReadType ==
    ASSUME TypeOK, NEW local \in Local, NEW a \in Actors, tx' = [tx EXCEPT ![a] = local],
           UNCHANGED rows, answer' \in Answers
    PROVE  TypeOK'
BY LocalType DEF TypeOK, rows

\* Every step keeps the type invariant, one case for each action.
LEMMA NextType ==
    ASSUME TypeOK, RowsBacked, LocalsMatchRows, [Next]_vars
    PROVE  TypeOK'
<1>1. (\A b \in Actors : tx[b] \in Local) /\ Idle \in Local
  BY IdleType DEF TypeOK
<1>2. ASSUME NEW c \in Candidates, NEW x \in Experiments, ProposeCandidate(c, x)
      PROVE  TypeOK'
  BY <1>2 DEF TypeOK, ProposeCandidate, CandidateStates
<1>3. ASSUME NEW a \in Actors, NEW c \in Candidates, StartVerificationRead(a, c)
      PROVE  TypeOK'
  <2>1. [Idle EXCEPT !.at = "start verification", !.candidate = c] \in Local
    BY DEF Idle, Local, Statements
  <2>2. QED
    BY <1>3, <2>1, ReadType DEF StartVerificationRead, Begin, TypeOK
<1>4. ASSUME NEW a \in Actors, StartVerificationWrite(a)
      PROVE  TypeOK'
  <2>1. tx' \in [Actors -> Local]
    BY <1>1, <1>4, LocalType DEF StartVerificationWrite, Return
  <2>2. QED
    BY <1>4, <2>1 DEF TypeOK, StartVerificationWrite, CandidateStates
<1>5. ASSUME NEW a \in Actors, NEW c \in Candidates, CompleteVerificationRead(a, c)
      PROVE  TypeOK'
  <2>1. [Idle EXCEPT !.at = "complete verification", !.candidate = c,
                     !.candidate_state = candidate[c]] \in Local
    BY DEF Idle, Local, Statements, TypeOK
  <2>2. QED
    BY <1>5, <2>1, ReadType DEF CompleteVerificationRead, Begin, TypeOK
<1>6. ASSUME NEW a \in Actors, NEW v \in Verifications, NEW command \in VerificationCommands,
             CompleteVerificationWrite(a, v, command)
      PROVE  TypeOK'
  <2>1. tx' \in [Actors -> Local]
    BY <1>1, <1>6, LocalType DEF CompleteVerificationWrite, Return
  <2>2. Outcome(a, command) \in TERMINAL_CANDIDATE_STATES
    BY VerdictFacts DEF Outcome
  <2>3. tx[a].candidate \in Candidates \cup {NoCandidate}
    BY <1>1 DEF Local
  <2>4. command.reproduction \in Experiments \cup {NoExperiment}
    BY DEF VerificationCommands
  <2>5. QED
    BY <1>6, <2>1, <2>2, <2>3, <2>4
       DEF TypeOK, CompleteVerificationWrite, RecordVerification, CandidateStates
<1>7. ASSUME NEW a \in Actors, NEW c \in Candidates, SubmitReadCandidate(a, c)
      PROVE  TypeOK'
  <2>1. [Idle EXCEPT !.at = "submit: verifications", !.candidate = c] \in Local
    BY DEF Idle, Local, Statements
  <2>2. QED
    BY <1>7, <2>1, ReadType DEF SubmitReadCandidate, Begin, TypeOK
<1>8. ASSUME NEW a \in Actors, SubmitReadVerifications(a)
      PROVE  TypeOK'
  <2>1. [tx[a] EXCEPT !.at = "submit: insert",
                      !.verifications = VerificationsOf(tx[a].candidate)] \in Local
    BY <1>1 DEF Local, Statements, VerificationsOf
  <2>2. QED
    BY <1>8, <2>1, ReadType DEF SubmitReadVerifications, Read, TypeOK
<1>9. ASSUME NEW a \in Actors, NEW p \in Proposals, SubmitInsert(a, p)
      PROVE  TypeOK'
  <2>1. tx' \in [Actors -> Local]
    BY <1>1, <1>9, LocalType DEF SubmitInsert, Return
  <2>2. QED
    BY <1>1, <1>9, <2>1 DEF TypeOK, SubmitInsert, ProposalStates, Local
<1>10. ASSUME NEW a \in Actors, NEW p \in Proposals, StartReviewRead(a, p)
       PROVE  TypeOK'
  <2>1. [Idle EXCEPT !.at = "start review", !.proposal = p] \in Local
    BY DEF Idle, Local, Statements
  <2>2. QED
    BY <1>10, <2>1, ReadType DEF StartReviewRead, Begin, TypeOK
<1>11. ASSUME NEW a \in Actors, StartReviewWrite(a)
       PROVE  TypeOK'
  <2>1. tx' \in [Actors -> Local]
    BY <1>1, <1>11, LocalType DEF StartReviewWrite, Return
  <2>2. PICK q \in Proposals : q = tx[a].proposal
    BY <1>11 DEF StartReviewWrite, LocalsMatchRows, LocalOK, ReviewStatements
  <2>3. proposal' = [proposal EXCEPT ![q].state = "HUMAN_REVIEW"]
    BY <1>11, <2>2 DEF StartReviewWrite
  <2>4. proposal' \in [Proposals ->
          [state: ProposalStates \cup {"NONE"}, candidate: Candidates \cup {NoCandidate},
           verifications: SUBSET Verifications]]
    BY <2>3 DEF TypeOK, ProposalStates
  <2>5. QED
    BY <1>11, <2>1, <2>4 DEF TypeOK, StartReviewWrite
<1>12. ASSUME NEW a \in Actors, NEW p \in Proposals, RecordReviewRead(a, p)
       PROVE  TypeOK'
  <2>1. [Idle EXCEPT !.at = "record review", !.proposal = p] \in Local
    BY DEF Idle, Local, Statements
  <2>2. QED
    BY <1>12, <2>1, ReadType DEF RecordReviewRead, Begin, TypeOK
<1>13. ASSUME NEW a \in Actors, NEW decision \in Reviews, NEW actor_type,
              RecordReviewInsert(a, decision, actor_type)
       PROVE  TypeOK'
  <2>1. tx' \in [Actors -> Local]
    BY <1>1, <1>13, LocalType DEF RecordReviewInsert, Return
  <2>2. tx[a].proposal \in Proposals
    BY <1>13 DEF RecordReviewInsert, LocalsMatchRows, LocalOK, ReviewStatements
  <2>3. [proposal |-> tx[a].proposal, decision |-> decision]
            \in [proposal: Proposals, decision: Reviews]
    BY <2>2
  <2>4. reviews' \subseteq [proposal: Proposals, decision: Reviews]
    BY <1>13, <2>3 DEF TypeOK, RecordReviewInsert
  <2>5. QED
    BY <1>13, <2>1, <2>4 DEF TypeOK, RecordReviewInsert
<1>14. ASSUME NEW a \in Actors, NEW p \in Proposals, FinalizeReadProposal(a, p)
       PROVE  TypeOK'
  <2>1. [Idle EXCEPT !.at = "finalize: finding", !.proposal = p,
                     !.proposal_state = proposal[p].state] \in Local
    BY DEF Idle, Local, Statements, TypeOK
  <2>2. QED
    BY <1>14, <2>1, ReadType DEF FinalizeReadProposal, Begin, TypeOK
<1>15. ASSUME NEW a \in Actors, FinalizeReadFinding(a)
       PROVE  TypeOK'
  <2>1. [tx[a] EXCEPT !.at = "finalize: candidate"] \in Local
    BY <1>1 DEF Local, Statements
  <2>2. /\ UNCHANGED rows
        /\ answer' \in Answers
        /\ \/ tx' = [tx EXCEPT ![a] = Idle]
           \/ tx' = [tx EXCEPT ![a] = [tx[a] EXCEPT !.at = "finalize: candidate"]]
    BY <1>15 DEF FinalizeReadFinding, Return, Read, Answers, TypeOK
  <2>3. QED
    BY <1>1, <2>1, <2>2, ReadType
<1>16. ASSUME NEW a \in Actors, FinalizeReadCandidate(a)
       PROVE  TypeOK'
  <2>1. PICK q \in Proposals : q = tx[a].proposal /\ proposal[q].candidate \in Candidates
    BY <1>16 DEF FinalizeReadCandidate, LocalsMatchRows, LocalOK, ReviewStatements, RowsBacked
  <2>2. candidate[proposal[q].candidate] \in CandidateStates \cup {"NONE"}
    BY <2>1 DEF TypeOK
  <2>3. [tx[a] EXCEPT !.at = "finalize: review",
                      !.candidate_state = candidate[proposal[tx[a].proposal].candidate]]
            \in Local
    BY <1>1, <2>1, <2>2 DEF Local, Statements
  <2>4. QED
    BY <1>16, <2>3, ReadType DEF FinalizeReadCandidate, Read, TypeOK
<1>17. ASSUME NEW a \in Actors, FinalizeReadReview(a)
       PROVE  TypeOK'
  <2>1. PICK r \in ReviewOf(tx[a].proposal) :
            tx' = [tx EXCEPT ![a] = [tx[a] EXCEPT !.at = "finalize: write",
                                                  !.decision = r.decision]]
    BY <1>17 DEF FinalizeReadReview, Read
  <2>2. r.decision \in Reviews
    BY <2>1 DEF ReviewOf, TypeOK
  <2>3. [tx[a] EXCEPT !.at = "finalize: write", !.decision = r.decision] \in Local
    BY <1>1, <2>2 DEF Local, Statements
  <2>4. QED
    BY <1>17, <2>1, <2>3, ReadType DEF FinalizeReadReview, TypeOK
<1>18. ASSUME NEW a \in Actors, NEW actor_type, FinalizeWrite(a, actor_type)
       PROVE  TypeOK'
  <2> DEFINE next == EvaluateFindingCreation(tx[a].candidate_state, tx[a].proposal_state,
                                             tx[a].proposal, tx[a].decision, actor_type)
  <2>1. tx' \in [Actors -> Local]
    BY <1>1, <1>18, LocalType DEF FinalizeWrite, Return
  <2>2. PICK q \in Proposals :
            q = tx[a].proposal /\ proposal[q].candidate \in Candidates
    BY <1>18 DEF FinalizeWrite, LocalsMatchRows, LocalOK, ReviewStatements, RowsBacked
  <2>3. tx[a].decision \in Reviews \cup {"NONE"}
    BY <1>1 DEF Local
  <2>4. next \in {"REJECTED", "APPROVED"} /\ tx[a].decision \in Reviews
    <3>1. next # "REFUSED"
      BY <1>18 DEF FinalizeWrite
    <3>2. \/ next = "REFUSED"
          \/ next = "REJECTED" /\ tx[a].decision = "REJECT"
          \/ next = "APPROVED" /\ tx[a].decision = "APPROVE"
      BY <2>3, CreationFacts
    <3>3. QED
      BY <3>1, <3>2 DEF Reviews
  <2>5. /\ proposal' = [proposal EXCEPT ![q].state = next]
        /\ approvals' = approvals \cup
              {[proposal |-> q, decision |-> tx[a].decision, decided_by |-> a]}
        /\ findings' \subseteq findings \cup
              {[proposal |-> q, decided_by |-> a, candidate |-> proposal[q].candidate]}
        /\ answer' \in {"CREATED", "REJECTED_PROPOSAL"}
        /\ UNCHANGED <<candidate, origin, verification, reviews>>
    BY <1>18, <2>2 DEF FinalizeWrite, InsertApproval, InsertFinding
  <2> HIDE DEF next
  <2>6. proposal' \in [Proposals ->
          [state: ProposalStates \cup {"NONE"}, candidate: Candidates \cup {NoCandidate},
           verifications: SUBSET Verifications]]
    BY <2>4, <2>5 DEF TypeOK, ProposalStates
  <2>7. approvals' \subseteq [proposal: Proposals, decision: Reviews, decided_by: Actors]
    BY <2>4, <2>5 DEF TypeOK
  <2>8. findings' \subseteq [proposal: Proposals, candidate: Candidates, decided_by: Actors]
    BY <2>2, <2>5 DEF TypeOK
  <2>9. /\ candidate' = candidate /\ origin' = origin /\ verification' = verification
        /\ reviews' = reviews /\ answer' \in Answers
    BY <2>5 DEF Answers
  <2>10. QED
    BY <2>1, <2>6, <2>7, <2>8, <2>9 DEF TypeOK
<1>19. ASSUME NEW a \in Actors, FinalizeConflict(a)
       PROVE  TypeOK'
  BY <1>1, <1>19, ReadType DEF FinalizeConflict, Return, Answers
<1>20. ASSUME NEW a \in Actors, Rollback(a)
       PROVE  TypeOK'
  BY <1>1, <1>20, ReadType DEF Rollback, Return, TypeOK
<1>21. CASE UNCHANGED vars
  BY <1>21 DEF vars, rows, TypeOK
<1>22. QED
  BY <1>2, <1>3, <1>4, <1>5, <1>6, <1>7, <1>8, <1>9, <1>10, <1>11, <1>12, <1>13,
     <1>14, <1>15, <1>16, <1>17, <1>18, <1>19, <1>20, <1>21
     DEF Next

-----------------------------------------------------------------------------
(* What was backed stays backed.                                           *)

LEMMA ProvenanceKept ==
    ASSUME TypeOK, RowsBacked, RowsKept, NEW f \in findings, HasProvenance(f)
    PROVE  HasProvenance(f)'
<1>1. f.proposal \in Proposals /\ f.candidate \in Candidates
  BY DEF TypeOK
<1>2. proposal[f.proposal].state # "NONE"
  <2>1. [proposal |-> f.proposal, decision |-> "APPROVE"] \in reviews
    BY DEF HasProvenance
  <2>2. QED
    BY <2>1 DEF RowsBacked
<1>3. /\ proposal'[f.proposal].candidate = f.candidate
      /\ proposal'[f.proposal].verifications = proposal[f.proposal].verifications
  BY <1>1, <1>2 DEF RowsKept, HasProvenance
<1>4. PICK v \in proposal[f.proposal].verifications : Validates(v, f.candidate)
  BY DEF HasProvenance
<1>5. v \in Verifications
  BY <1>1, <1>4 DEF TypeOK
<1>6. Validates(v, f.candidate)'
  BY <1>1, <1>4, <1>5, ValidatesKept
<1>7. QED
  BY <1>3, <1>4, <1>6 DEF HasProvenance, RowsKept

\* A proposal that is there keeps a validation among its verifications.
LEMMA ProposalKept ==
    ASSUME TypeOK, RowsBacked, RowsKept, NEW p \in Proposals, proposal[p].state # "NONE"
    PROVE  /\ proposal'[p].candidate \in Candidates
           /\ \E v \in proposal'[p].verifications : Validates(v, proposal[p].candidate)'
<1>1. PICK c \in Candidates : c = proposal[p].candidate
  BY DEF RowsBacked
<1>2. PICK v \in proposal[p].verifications : Validates(v, c)
  BY <1>1 DEF RowsBacked
<1>3. v \in Verifications
  BY <1>2 DEF TypeOK
<1>4. Validates(v, c)'
  BY <1>2, <1>3, ValidatesKept
<1>5. /\ proposal'[p].candidate = c
      /\ proposal'[p].verifications = proposal[p].verifications
  BY <1>1 DEF RowsKept
<1>6. QED
  BY <1>1, <1>2, <1>4, <1>5 DEF Validates

CandidateBacked(c) ==
    candidate[c] \in TERMINAL_CANDIDATE_STATES =>
        \E v \in Verifications : /\ verification[v].candidate = c
                                 /\ verification[v].outcome = candidate[c]

LEMMA CandidateKept ==
    ASSUME TypeOK, RowsKept, StatesBacked, NEW c \in Candidates, candidate'[c] = candidate[c]
    PROVE  CandidateBacked(c)'
<1>1. SUFFICES ASSUME candidate[c] \in TERMINAL_CANDIDATE_STATES
               PROVE  \E v \in Verifications : /\ verification'[v].candidate = c
                                               /\ verification'[v].outcome = candidate[c]
  BY DEF CandidateBacked
<1>2. PICK v \in Verifications : /\ verification[v].candidate = c
                                 /\ verification[v].outcome = candidate[c]
  BY <1>1 DEF StatesBacked
<1>3. verification'[v] = verification[v]
  BY <1>2, PromotionAssumption DEF RowsKept
<1>4. QED
  BY <1>2, <1>3

LEMMA ReadsKeepRows ==
    ASSUME RowsBacked, FindingProvenance, OneDecision, StatesBacked, UNCHANGED rows
    PROVE  (RowsBacked /\ FindingProvenance /\ OneDecision /\ StatesBacked)' /\ RowsKept
<1>1. /\ candidate' = candidate /\ origin' = origin /\ verification' = verification
      /\ proposal' = proposal /\ reviews' = reviews /\ approvals' = approvals
      /\ findings' = findings
  BY DEF rows
<1>2. QED
  BY <1>1 DEF RowsBacked, FindingProvenance, HasProvenance, OneDecision, StatesBacked,
              RowsKept, Validates, ValidatedOnce, FindingOf, ApprovalOf

LEMMA LocalsStep ==
    ASSUME TypeOK, RowsBacked, RowsKept, LocalsMatchRows,
           NEW a \in Actors, NEW local, tx' = [tx EXCEPT ![a] = local], LocalOK(a)'
    PROVE  LocalsMatchRows'
<1>1. SUFFICES ASSUME NEW b \in Actors PROVE LocalOK(b)'
  BY DEF LocalsMatchRows
<1>2. CASE b = a
  BY <1>2
<1>3. CASE b # a
  <2>1. tx'[b] = tx[b] /\ LocalOK(b)
    BY <1>3 DEF TypeOK, LocalsMatchRows
  <2>2. QED
    BY <2>1, OthersKeep
<1>4. QED
  BY <1>2, <1>3

LEMMA ReturnKeeps ==
    ASSUME TypeOK, RowsBacked, RowsKept, LocalsMatchRows, NEW a \in Actors, Return(a)
    PROVE  LocalsMatchRows'
<1>1. tx'[a] = Idle /\ tx' = [tx EXCEPT ![a] = Idle]
  BY DEF Return, TypeOK
<1>2. QED
  BY <1>1, IdleKeeps, LocalsStep

-----------------------------------------------------------------------------
(* One lemma for each action that writes rows.                             *)

RowsInvariant == RowsBacked /\ FindingProvenance /\ OneDecision /\ StatesBacked

\* All that a write to candidates may do to the rows that other tables hold.
LEMMA CandidateWrite ==
    ASSUME TypeOK, RowsInvariant, RowsKept,
           UNCHANGED <<proposal, reviews, approvals, findings>>,
           \A c \in Candidates : CandidateBacked(c)',
           \A c \in Candidates : candidate'[c] = "VALIDATED" => c \in ValidatedOnce',
           \A v \in Verifications : verification'[v].candidate # NoCandidate =>
              candidate'[verification'[v].candidate] # "NONE"
    PROVE  RowsInvariant'
<1>1. RowsBacked'
  <2>1. \A p \in Proposals : proposal[p].state # "NONE" =>
            /\ proposal'[p].candidate \in Candidates
            /\ \E v \in proposal'[p].verifications : Validates(v, proposal[p].candidate)'
    BY ProposalKept DEF RowsInvariant
  <2>2. QED
    BY <2>1 DEF RowsInvariant, RowsBacked, Validates
<1>2. FindingProvenance'
  BY ProvenanceKept DEF RowsInvariant, FindingProvenance
<1>3. OneDecision'
  BY DEF RowsInvariant, OneDecision, FindingOf
<1>4. StatesBacked'
  BY DEF RowsInvariant, StatesBacked, CandidateBacked, FindingOf, ApprovalOf
<1>5. QED
  BY <1>1, <1>2, <1>3, <1>4 DEF RowsInvariant

\* A candidate that becomes OPEN or VERIFYING claims nothing.
LEMMA UnclaimedCandidate ==
    ASSUME TypeOK, RowsInvariant, RowsKept, NEW c \in Candidates,
           NEW state \in {"OPEN", "VERIFYING"}, candidate' = [candidate EXCEPT ![c] = state],
           UNCHANGED <<verification, proposal, reviews, approvals, findings>>
    PROVE  RowsInvariant'
<1>1. ASSUME NEW d \in Candidates PROVE CandidateBacked(d)'
  <2>1. CASE d = c
    BY <2>1 DEF CandidateBacked, TERMINAL_CANDIDATE_STATES, TypeOK
  <2>2. CASE d # c
    BY <2>2, CandidateKept DEF TypeOK, RowsInvariant
  <2>3. QED
    BY <2>1, <2>2
<1>2. \A d \in Candidates : candidate'[d] = "VALIDATED" => d \in ValidatedOnce'
  BY ValidatedOnceKept DEF TypeOK, RowsInvariant, RowsBacked
<1>3. \A v \in Verifications : verification'[v].candidate # NoCandidate =>
          candidate'[verification'[v].candidate] # "NONE"
  BY DEF TypeOK, RowsInvariant, RowsBacked
<1>4. QED
  BY <1>1, <1>2, <1>3, CandidateWrite

LEMMA ProposeCandidateKeeps ==
    ASSUME PromotionInvariant, NEW c \in Candidates, NEW x \in Experiments,
           ProposeCandidate(c, x)
    PROVE  RowsInvariant' /\ LocalsMatchRows'
<1>1. TypeOK /\ RowsInvariant /\ LocalsMatchRows
  BY DEF PromotionInvariant, RowsInvariant
<1>2. RowsKept
  BY <1>1 DEF ProposeCandidate, RowsKept, TypeOK
<1>3. RowsInvariant'
  BY <1>1, <1>2, UnclaimedCandidate DEF ProposeCandidate
<1>4. LocalsMatchRows'
  BY <1>1, <1>2, OthersKeep DEF ProposeCandidate, LocalsMatchRows, RowsInvariant
<1>5. QED
  BY <1>3, <1>4

LEMMA StartVerificationKeeps ==
    ASSUME PromotionInvariant, NEW a \in Actors, StartVerificationWrite(a)
    PROVE  RowsInvariant' /\ LocalsMatchRows'
<1>1. TypeOK /\ RowsInvariant /\ LocalsMatchRows
  BY DEF PromotionInvariant, RowsInvariant
<1>2. PICK c \in Candidates : c = tx[a].candidate /\ candidate[c] # "NONE"
  BY <1>1 DEF StartVerificationWrite, LocalsMatchRows, LocalOK
<1>3. candidate' = [candidate EXCEPT ![c] = "VERIFYING"]
  BY <1>2 DEF StartVerificationWrite
<1>4. RowsKept
  BY <1>1, <1>3 DEF StartVerificationWrite, RowsKept, TypeOK
<1>5. RowsInvariant'
  BY <1>1, <1>3, <1>4, UnclaimedCandidate DEF StartVerificationWrite
<1>6. QED
  BY <1>1, <1>4, <1>5, ReturnKeeps DEF StartVerificationWrite, RowsInvariant

LEMMA CompleteVerificationKeeps ==
    ASSUME PromotionInvariant, NEW a \in Actors, NEW v \in Verifications,
           NEW command \in VerificationCommands, CompleteVerificationWrite(a, v, command)
    PROVE  RowsInvariant' /\ LocalsMatchRows'
<1>1. TypeOK /\ RowsInvariant /\ LocalsMatchRows
  BY DEF PromotionInvariant, RowsInvariant
<1>2. PICK c \in Candidates : c = tx[a].candidate /\ candidate[c] # "NONE"
  BY <1>1 DEF CompleteVerificationWrite, LocalsMatchRows, LocalOK
<1>3. PICK outcome \in TERMINAL_CANDIDATE_STATES :
          /\ outcome = Outcome(a, command)
          /\ outcome = "VALIDATED" =>
                /\ command.reproduction \in Experiments \ {origin[c]}
                /\ Shows[command.reproduction] = "SUPPORTING"
  <2>1. PICK x : x = origin[c]
    OBVIOUS
  <2>2. PICK known \in BOOLEAN :
            known = (\E d \in Candidates : d = command.duplicate /\ candidate[d] # "NONE")
    OBVIOUS
  <2>3. Outcome(a, command) = EvaluateVerification(x, command, known)
    BY <1>2, <2>1, <2>2 DEF Outcome
  <2>4. /\ EvaluateVerification(x, command, known) \in TERMINAL_CANDIDATE_STATES
        /\ EvaluateVerification(x, command, known) = "VALIDATED" =>
              /\ command.reproduction \in Experiments \ {x}
              /\ Shows[command.reproduction] = "SUPPORTING"
    BY VerdictFacts
  <2>5. QED
    BY <2>1, <2>3, <2>4
<1>4. /\ verification[v].candidate = NoCandidate
      /\ candidate' = [candidate EXCEPT ![c] = outcome]
      /\ verification' = [verification EXCEPT ![v] =
            [candidate |-> c, outcome |-> outcome, reproduction |-> command.reproduction]]
      /\ UNCHANGED <<origin, proposal, reviews, approvals, findings>>
      /\ Return(a)
  BY <1>2, <1>3 DEF CompleteVerificationWrite, RecordVerification
<1>5. verification'[v] =
          [candidate |-> c, outcome |-> outcome, reproduction |-> command.reproduction]
  BY <1>1, <1>4 DEF TypeOK
<1>6. RowsKept
  BY <1>1, <1>3, <1>4 DEF RowsKept, TypeOK, TERMINAL_CANDIDATE_STATES
<1>7. outcome = "VALIDATED" => Validates(v, c)'
  BY <1>3, <1>4, <1>5 DEF Validates
<1>8. ASSUME NEW d \in Candidates PROVE CandidateBacked(d)'
  <2>1. CASE d = c
    BY <1>1, <1>4, <1>5, <2>1 DEF CandidateBacked, TypeOK
  <2>2. CASE d # c
    BY <1>1, <1>4, <1>6, <2>2, CandidateKept DEF TypeOK, RowsInvariant
  <2>3. QED
    BY <2>1, <2>2
<1>9. ASSUME NEW d \in Candidates, candidate'[d] = "VALIDATED" PROVE d \in ValidatedOnce'
  <2>1. CASE d = c
    BY <1>1, <1>4, <1>7, <1>9, <2>1 DEF ValidatedOnce, TypeOK
  <2>2. CASE d # c
    BY <1>1, <1>4, <1>6, <1>9, <2>2, ValidatedOnceKept DEF TypeOK, RowsInvariant, RowsBacked
  <2>3. QED
    BY <2>1, <2>2
<1>10. ASSUME NEW w \in Verifications, verification'[w].candidate # NoCandidate
       PROVE  candidate'[verification'[w].candidate] # "NONE"
  <2>1. CASE w = v
    BY <1>1, <1>4, <1>5, <2>1 DEF TypeOK, TERMINAL_CANDIDATE_STATES
  <2>2. CASE w # v
    BY <1>1, <1>4, <1>6, <1>10, <2>2 DEF TypeOK, RowsInvariant, RowsBacked, RowsKept
  <2>3. QED
    BY <2>1, <2>2
<1>11. RowsInvariant'
  BY <1>1, <1>4, <1>6, <1>8, <1>9, <1>10, CandidateWrite
<1>12. QED
  BY <1>1, <1>4, <1>6, <1>11, ReturnKeeps DEF RowsInvariant

\* What a write to the proposals, reviews and decisions leaves of the candidates.
LEMMA CandidatesUntouched ==
    ASSUME TypeOK, RowsInvariant, RowsKept, UNCHANGED <<candidate, origin, verification>>
    PROVE  /\ \A v \in Verifications : verification'[v].candidate # NoCandidate =>
                 candidate'[verification'[v].candidate] # "NONE"
           /\ \A c \in Candidates : candidate'[c] = "VALIDATED" => c \in ValidatedOnce'
           /\ \A c \in Candidates : CandidateBacked(c)'
<1>1. \A c \in Candidates : candidate'[c] = "VALIDATED" => c \in ValidatedOnce'
  BY ValidatedOnceKept DEF RowsInvariant, RowsBacked
<1>2. \A c \in Candidates : CandidateBacked(c)'
  BY CandidateKept DEF RowsInvariant
<1>3. QED
  BY <1>1, <1>2 DEF RowsInvariant, RowsBacked

LEMMA SubmitInsertKeeps ==
    ASSUME PromotionInvariant, NEW a \in Actors, NEW p \in Proposals, SubmitInsert(a, p)
    PROVE  RowsInvariant' /\ LocalsMatchRows'
<1>1. TypeOK /\ RowsInvariant /\ LocalsMatchRows
  BY DEF PromotionInvariant, RowsInvariant
<1>2. PICK c \in Candidates : c = tx[a].candidate
  BY <1>1 DEF SubmitInsert, LocalsMatchRows, LocalOK, ValidatedOnce
<1>3. PICK v \in tx[a].verifications : Validates(v, c)
  BY <1>1, <1>2 DEF SubmitInsert, LocalsMatchRows, LocalOK
<1>4. /\ proposal[p].state = "NONE"
      /\ proposal'[p] = [state |-> "PROPOSED", candidate |-> c,
                         verifications |-> tx[a].verifications]
      /\ \A q \in Proposals \ {p} : proposal'[q] = proposal[q]
  BY <1>1, <1>2 DEF SubmitInsert, TypeOK
<1>5. RowsKept
  BY <1>1, <1>4 DEF RowsKept, SubmitInsert, TypeOK
<1>6. Validates(v, c)'
  BY <1>3 DEF Validates, SubmitInsert
<1>7. RowsBacked'
  <2>1. ASSUME NEW q \in Proposals, proposal'[q].state # "NONE"
        PROVE  /\ proposal'[q].candidate \in Candidates
               /\ \E w \in proposal'[q].verifications : Validates(w, proposal[q].candidate)'
    <3>1. CASE q = p
      BY <1>3, <1>4, <1>6, <3>1 DEF Validates
    <3>2. CASE q # p
      <4>1. proposal'[q] = proposal[q]
        BY <1>4, <3>2
      <4>2. QED
        BY <1>1, <1>5, <2>1, <4>1, ProposalKept DEF RowsInvariant
    <3>3. QED
      BY <3>1, <3>2
  <2>2. \A q \in Proposals : proposal'[q].state = "NONE" => proposal'[q].candidate = NoCandidate
    BY <1>1, <1>4 DEF TypeOK, RowsInvariant, RowsBacked
  <2>3. \A r \in reviews' : proposal'[r.proposal].state # "NONE"
    BY <1>1, <1>5 DEF SubmitInsert, TypeOK, RowsInvariant, RowsBacked, RowsKept
  <2>4. QED
    BY <1>1, <1>5, <2>1, <2>2, <2>3, CandidatesUntouched
       DEF SubmitInsert, RowsBacked
<1>8. FindingProvenance'
  BY <1>1, <1>5, ProvenanceKept DEF SubmitInsert, RowsInvariant, FindingProvenance
<1>9. OneDecision'
  BY <1>1 DEF SubmitInsert, RowsInvariant, OneDecision, FindingOf
<1>10. StatesBacked'
  <2>1. \A c1 \in Candidates : CandidateBacked(c1)'
    BY <1>1, <1>5, CandidatesUntouched DEF SubmitInsert
  <2>2. \A q \in Proposals : /\ proposal'[q].state = "APPROVED" => FindingOf(q)' # {}
                             /\ proposal'[q].state = "REJECTED" =>
                                   \E d \in ApprovalOf(q)' : d.decision = "REJECT"
    BY <1>1, <1>4 DEF SubmitInsert, TypeOK, RowsInvariant, StatesBacked, FindingOf, ApprovalOf
  <2>3. QED
    BY <2>1, <2>2 DEF StatesBacked, CandidateBacked, FindingOf, ApprovalOf
<1>11. QED
  BY <1>1, <1>5, <1>7, <1>8, <1>9, <1>10, ReturnKeeps DEF SubmitInsert, RowsInvariant

LEMMA StartReviewKeeps ==
    ASSUME PromotionInvariant, NEW a \in Actors, StartReviewWrite(a)
    PROVE  RowsInvariant' /\ LocalsMatchRows'
<1>1. TypeOK /\ RowsInvariant /\ LocalsMatchRows
  BY DEF PromotionInvariant, RowsInvariant
<1>2. PICK p \in Proposals : p = tx[a].proposal /\ proposal[p].state # "NONE"
  BY <1>1 DEF StartReviewWrite, LocalsMatchRows, LocalOK, ReviewStatements
<1>3. \A q \in Proposals :
          /\ proposal'[q].candidate = proposal[q].candidate
          /\ proposal'[q].verifications = proposal[q].verifications
          /\ proposal'[q].state = IF q = p THEN "HUMAN_REVIEW" ELSE proposal[q].state
  <2>1. proposal' = [proposal EXCEPT ![p].state = "HUMAN_REVIEW"]
    BY <1>2 DEF StartReviewWrite
  <2>2. QED
    BY <1>1, <2>1 DEF TypeOK
<1>4. RowsKept
  <2>1. UNCHANGED <<candidate, origin, verification, reviews, approvals, findings>>
    BY DEF StartReviewWrite
  <2>2. QED
    BY <1>2, <1>3, <2>1 DEF RowsKept
<1>5. RowsBacked'
  <2>1. ASSUME NEW q \in Proposals, proposal'[q].state # "NONE"
        PROVE  /\ proposal'[q].candidate \in Candidates
               /\ \E w \in proposal'[q].verifications : Validates(w, proposal[q].candidate)'
    <3>1. proposal[q].state # "NONE" /\ proposal'[q].candidate = proposal[q].candidate
      BY <1>1, <1>2, <1>3, <2>1 DEF TypeOK
    <3>2. QED
      BY <1>1, <1>4, <3>1, ProposalKept DEF RowsInvariant
  <2>2. \A q \in Proposals : proposal'[q].state = "NONE" => proposal'[q].candidate = NoCandidate
    BY <1>1, <1>3 DEF TypeOK, RowsInvariant, RowsBacked
  <2>3. \A r \in reviews' : proposal'[r.proposal].state # "NONE"
    BY <1>1, <1>4 DEF StartReviewWrite, TypeOK, RowsInvariant, RowsBacked, RowsKept
  <2>4. QED
    BY <1>1, <1>4, <2>1, <2>2, <2>3, CandidatesUntouched
       DEF StartReviewWrite, RowsBacked
<1>6. FindingProvenance'
  BY <1>1, <1>4, ProvenanceKept DEF StartReviewWrite, RowsInvariant, FindingProvenance
<1>7. OneDecision'
  BY <1>1 DEF StartReviewWrite, RowsInvariant, OneDecision, FindingOf
<1>8. StatesBacked'
  <2>1. \A c \in Candidates : CandidateBacked(c)'
    BY <1>1, <1>4, CandidatesUntouched DEF StartReviewWrite
  <2>2. \A q \in Proposals : /\ proposal'[q].state = "APPROVED" => FindingOf(q)' # {}
                             /\ proposal'[q].state = "REJECTED" =>
                                   \E d \in ApprovalOf(q)' : d.decision = "REJECT"
    <3>1. findings' = findings /\ approvals' = approvals
      BY DEF StartReviewWrite
    <3>2. QED
      BY <1>1, <1>3, <3>1 DEF RowsInvariant, StatesBacked, FindingOf, ApprovalOf
  <2>3. QED
    BY <2>1, <2>2 DEF StatesBacked, CandidateBacked, FindingOf, ApprovalOf
<1>9. QED
  BY <1>1, <1>4, <1>5, <1>6, <1>7, <1>8, ReturnKeeps DEF StartReviewWrite, RowsInvariant

LEMMA RecordReviewKeeps ==
    ASSUME PromotionInvariant, NEW a \in Actors, NEW decision \in Reviews, NEW actor_type,
           RecordReviewInsert(a, decision, actor_type)
    PROVE  RowsInvariant' /\ LocalsMatchRows'
<1>1. TypeOK /\ RowsInvariant /\ LocalsMatchRows
  BY DEF PromotionInvariant, RowsInvariant
<1>2. PICK p \in Proposals : p = tx[a].proposal /\ proposal[p].state # "NONE"
  BY <1>1 DEF RecordReviewInsert, LocalsMatchRows, LocalOK, ReviewStatements
<1>3. /\ \A r \in reviews : r.proposal # p
      /\ reviews' = reviews \cup {[proposal |-> p, decision |-> decision]}
      /\ UNCHANGED <<candidate, origin, verification, proposal, approvals, findings>>
      /\ Return(a)
  BY <1>2 DEF RecordReviewInsert, ReviewOf
<1>4. RowsKept
  BY <1>3 DEF RowsKept
<1>5. RowsBacked'
  BY <1>1, <1>2, <1>3 DEF RowsInvariant, RowsBacked, Validates, ValidatedOnce
<1>6. FindingProvenance'
  BY <1>1, <1>3, <1>4, ProvenanceKept DEF RowsInvariant, FindingProvenance
<1>7. OneDecision'
  BY <1>1, <1>3 DEF RowsInvariant, OneDecision, FindingOf
<1>8. StatesBacked'
  BY <1>1, <1>3 DEF RowsInvariant, StatesBacked, FindingOf, ApprovalOf
<1>9. QED
  BY <1>1, <1>3, <1>4, <1>5, <1>6, <1>7, <1>8, ReturnKeeps DEF RowsInvariant

\* What a finalization that commits writes: a first approval, as the review says,
\* and a finding exactly when the review approves.
FinalizeEffect(a, p, decision) ==
    /\ decision \in Reviews
    /\ [proposal |-> p, decision |-> decision] \in reviews
    /\ \A d \in approvals : d.proposal # p
    /\ \A d : d \in approvals' <=>
          d \in approvals \/ d = [proposal |-> p, decision |-> decision, decided_by |-> a]
    /\ \A f : f \in findings' <=>
          \/ f \in findings
          \/ /\ decision = "APPROVE"
             /\ f = [proposal |-> p, decided_by |-> a, candidate |-> proposal[p].candidate]

LEMMA FinalizeFacts ==
    ASSUME TypeOK, LocalsMatchRows, NEW a \in Actors, NEW actor_type,
           FinalizeWrite(a, actor_type), NEW p \in Proposals, p = tx[a].proposal,
           NEW decision, decision = tx[a].decision
    PROVE  /\ FinalizeEffect(a, p, decision)
           /\ \E state \in {"APPROVED", "REJECTED"} :
                 /\ proposal' = [proposal EXCEPT ![p].state = state]
                 /\ state = "APPROVED" <=> decision = "APPROVE"
<1> DEFINE next == EvaluateFindingCreation(tx[a].candidate_state, tx[a].proposal_state, p,
                                           decision, actor_type)
<1>1. decision \in Reviews \cup {"NONE"}
  BY DEF TypeOK, Local
<1>2. \/ next = "REFUSED"
      \/ next = "REJECTED" /\ decision = "REJECT"
      \/ next = "APPROVED" /\ decision = "APPROVE"
  BY <1>1, CreationFacts
<1>3. /\ next # "REFUSED"
      /\ proposal' = [proposal EXCEPT ![p].state = next]
      /\ InsertApproval(p, decision, a)
      /\ next = "APPROVED" => InsertFinding(p, a)
      /\ next # "APPROVED" => findings' = findings
  BY DEF FinalizeWrite
<1>4. [proposal |-> p, decision |-> decision] \in reviews
  BY DEF FinalizeWrite, LocalsMatchRows, LocalOK
<1> HIDE DEF next
<1>5. FinalizeEffect(a, p, decision)
  BY <1>2, <1>3, <1>4 DEF FinalizeEffect, InsertApproval, InsertFinding, ApprovalOf, Reviews
<1>6. QED
  BY <1>2, <1>3, <1>5

LEMMA FinalizeKeeps ==
    ASSUME PromotionInvariant, NEW a \in Actors, NEW actor_type, FinalizeWrite(a, actor_type)
    PROVE  RowsInvariant' /\ LocalsMatchRows'
<1>1. TypeOK /\ RowsInvariant /\ LocalsMatchRows
  BY DEF PromotionInvariant, RowsInvariant
<1>2. PICK p \in Proposals : p = tx[a].proposal /\ proposal[p].state # "NONE"
  BY <1>1 DEF FinalizeWrite, LocalsMatchRows, LocalOK, ReviewStatements
<1>3. PICK decision : decision = tx[a].decision /\ FinalizeEffect(a, p, decision)
  BY <1>1, <1>2, FinalizeFacts
<1>4. UNCHANGED <<candidate, origin, verification, reviews>> /\ Return(a)
  BY DEF FinalizeWrite
<1>5. PICK state \in {"APPROVED", "REJECTED"} :
          /\ proposal' = [proposal EXCEPT ![p].state = state]
          /\ state = "APPROVED" <=> decision = "APPROVE"
  BY <1>1, <1>2, <1>3, FinalizeFacts
<1>6. \A q \in Proposals :
          /\ proposal'[q].candidate = proposal[q].candidate
          /\ proposal'[q].verifications = proposal[q].verifications
          /\ proposal'[q].state = IF q = p THEN state ELSE proposal[q].state
  BY <1>1, <1>5 DEF TypeOK
<1>7. RowsKept
  BY <1>3, <1>4, <1>2, <1>6 DEF RowsKept, FinalizeEffect
<1>8. RowsBacked'
  <2>1. ASSUME NEW q \in Proposals, proposal'[q].state # "NONE"
        PROVE  /\ proposal'[q].candidate \in Candidates
               /\ \E w \in proposal'[q].verifications : Validates(w, proposal[q].candidate)'
    <3>1. proposal[q].state # "NONE" /\ proposal'[q].candidate = proposal[q].candidate
      BY <1>2, <1>6, <2>1
    <3>2. QED
      BY <1>1, <1>7, <3>1, ProposalKept DEF RowsInvariant
  <2>2. \A q \in Proposals : proposal'[q].state = "NONE" => proposal'[q].candidate = NoCandidate
    BY <1>1, <1>6 DEF RowsInvariant, RowsBacked
  <2>3. \A r \in reviews' : proposal'[r.proposal].state # "NONE"
    BY <1>1, <1>4, <1>7 DEF TypeOK, RowsInvariant, RowsBacked, RowsKept
  <2>4. QED
    BY <1>1, <1>4, <1>7, <2>1, <2>2, <2>3, CandidatesUntouched DEF RowsBacked
<1>9. FindingProvenance'
  <2>1. SUFFICES ASSUME NEW f \in findings' PROVE HasProvenance(f)'
    BY DEF FindingProvenance
  <2>2. CASE f \in findings
    BY <1>1, <1>7, <2>2, ProvenanceKept DEF RowsInvariant, FindingProvenance
  <2>3. CASE f \notin findings
    <3>1. /\ f = [proposal |-> p, decided_by |-> a, candidate |-> proposal[p].candidate]
          /\ [proposal |-> p, decision |-> "APPROVE"] \in reviews'
          /\ [proposal |-> p, decision |-> "APPROVE", decided_by |-> a] \in approvals'
      BY <1>3, <1>4, <2>1, <2>3 DEF FinalizeEffect
    <3>2. /\ proposal'[p].candidate = proposal[p].candidate
          /\ \E v \in proposal'[p].verifications : Validates(v, proposal[p].candidate)'
      BY <1>1, <1>2, <1>6, <1>7, ProposalKept DEF RowsInvariant
    <3>3. QED
      BY <3>1, <3>2 DEF HasProvenance, Validates
  <2>4. QED
    BY <2>2, <2>3
<1>10. OneDecision'
  <2>1. \A f \in findings : f.proposal # p
    BY <1>1, <1>3 DEF RowsInvariant, FindingProvenance, HasProvenance, FinalizeEffect
  <2>2. \A d \in approvals' : FindingOf(d.proposal)' # {} <=> d.decision = "APPROVE"
    <3>1. SUFFICES ASSUME NEW d \in approvals'
                   PROVE  (\E f \in findings' : f.proposal = d.proposal) <=> d.decision = "APPROVE"
      BY DEF FindingOf
    <3>2. CASE d \in approvals
      <4>1. d.proposal # p /\ ((\E f \in findings : f.proposal = d.proposal)
                                 <=> d.decision = "APPROVE")
        <5>1. FindingOf(d.proposal) # {} <=> d.decision = "APPROVE"
          BY <1>1, <3>2 DEF RowsInvariant, OneDecision
        <5>2. QED
          BY <1>3, <3>2, <5>1 DEF FindingOf, FinalizeEffect
      <4>2. QED
        BY <1>3, <4>1 DEF FinalizeEffect, Reviews
    <3>3. CASE d \notin approvals
      <4>1. d.proposal = p /\ d.decision = decision
        BY <1>3, <3>1, <3>3 DEF FinalizeEffect
      <4>2. (\E f \in findings' : f.proposal = p) <=> decision = "APPROVE"
        <5>1. ASSUME decision = "APPROVE" PROVE \E f \in findings' : f.proposal = p
          <6>1. [proposal |-> p, decided_by |-> a, candidate |-> proposal[p].candidate]
                    \in findings'
            BY <1>3, <5>1 DEF FinalizeEffect
          <6>2. QED
            BY <6>1
        <5>2. ASSUME NEW f \in findings', f.proposal = p PROVE decision = "APPROVE"
          BY <1>3, <2>1, <5>2 DEF FinalizeEffect
        <5>3. QED
          BY <5>1, <5>2
      <4>3. QED
        BY <4>1, <4>2
    <3>4. QED
      BY <3>2, <3>3
  <2>3. \A d, e \in approvals' : d.proposal = e.proposal => d = e
    <3>1. \A d, e \in approvals : d.proposal = e.proposal => d = e
      BY <1>1 DEF RowsInvariant, OneDecision
    <3>2. \A d \in approvals' : d \in approvals \/ d.proposal = p
      BY <1>3 DEF FinalizeEffect
    <3>3. \A d \in approvals : d.proposal # p
      BY <1>3 DEF FinalizeEffect
    <3>4. \A d, e \in approvals' \ approvals : d = e
      BY <1>3 DEF FinalizeEffect
    <3>5. QED
      BY <3>1, <3>2, <3>3, <3>4
  <2>4. ASSUME NEW d \in approvals'
        PROVE  [proposal |-> d.proposal, decision |-> d.decision] \in reviews'
    <3>1. CASE d \in approvals
      BY <1>1, <1>4, <3>1 DEF RowsInvariant, OneDecision
    <3>2. CASE d \notin approvals
      <4>1. d.proposal = p /\ d.decision = decision
        BY <1>3, <2>4, <3>2 DEF FinalizeEffect
      <4>2. QED
        BY <1>3, <1>4, <4>1 DEF FinalizeEffect
    <3>3. QED
      BY <3>1, <3>2
  <2>5. QED
    BY <1>1, <1>4, <2>2, <2>3, <2>4 DEF RowsInvariant, OneDecision, FindingOf
<1>11. StatesBacked'
  <2>1. \A c \in Candidates : CandidateBacked(c)'
    BY <1>1, <1>4, <1>7, CandidatesUntouched
  <2>2. ASSUME NEW q \in Proposals
        PROVE  /\ proposal'[q].state = "APPROVED" => \E f \in findings' : f.proposal = q
               /\ proposal'[q].state = "REJECTED" =>
                     \E d \in approvals' : d.proposal = q /\ d.decision = "REJECT"
    <3>1. CASE q = p
      <4>1. proposal'[q].state = state
        BY <1>6, <3>1
      <4>2. CASE state = "APPROVED"
        <5>1. [proposal |-> p, decided_by |-> a, candidate |-> proposal[p].candidate]
                  \in findings'
          BY <1>3, <1>5, <4>2 DEF FinalizeEffect
        <5>2. QED
          BY <3>1, <4>1, <4>2, <5>1
      <4>3. CASE state = "REJECTED"
        <5>1. [proposal |-> p, decision |-> "REJECT", decided_by |-> a] \in approvals'
          BY <1>3, <1>5, <4>3 DEF FinalizeEffect, Reviews
        <5>2. QED
          BY <3>1, <4>1, <4>3, <5>1
      <4>4. QED
        BY <4>2, <4>3
    <3>2. CASE q # p
      <4>1. /\ proposal[q].state = "APPROVED" => \E f \in findings : f.proposal = q
            /\ proposal[q].state = "REJECTED" =>
                  \E d \in approvals : d.proposal = q /\ d.decision = "REJECT"
        BY <1>1 DEF RowsInvariant, StatesBacked, FindingOf, ApprovalOf
      <4>2. QED
        BY <1>6, <1>7, <3>2, <4>1 DEF RowsKept
    <3>3. QED
      BY <3>1, <3>2
  <2>3. QED
    BY <2>1, <2>2 DEF StatesBacked, CandidateBacked, FindingOf, ApprovalOf
<1>12. QED
  BY <1>1, <1>4, <1>7, <1>8, <1>9, <1>10, <1>11, ReturnKeeps DEF RowsInvariant

-----------------------------------------------------------------------------
(* The statements that only read: what they store agrees with the rows.    *)

LEMMA ReadKeeps ==
    ASSUME PromotionInvariant, NEW a \in Actors, NEW local,
           tx' = [tx EXCEPT ![a] = local], UNCHANGED rows,
           tx'[a] = local => LocalOK(a)'
    PROVE  RowsInvariant' /\ LocalsMatchRows'
<1>1. TypeOK /\ RowsInvariant /\ LocalsMatchRows
  BY DEF PromotionInvariant, RowsInvariant
<1>2. RowsInvariant' /\ RowsKept
  BY <1>1, ReadsKeepRows DEF RowsInvariant
<1>3. tx'[a] = local
  BY <1>1 DEF TypeOK
<1>4. QED
  BY <1>1, <1>2, <1>3, LocalsStep DEF RowsInvariant

LEMMA CandidateReadsKeep ==
    ASSUME PromotionInvariant, NEW a \in Actors, NEW c \in Candidates,
           \/ StartVerificationRead(a, c)
           \/ CompleteVerificationRead(a, c)
           \/ SubmitReadCandidate(a, c)
           \/ SubmitReadVerifications(a)
    PROVE  RowsInvariant' /\ LocalsMatchRows'
<1>1. TypeOK /\ RowsBacked /\ LocalsMatchRows
  BY DEF PromotionInvariant
<1>2. CASE StartVerificationRead(a, c)
  <2>1. candidate'[c] # "NONE" /\ UNCHANGED rows
    BY <1>2 DEF StartVerificationRead, LEGAL_CANDIDATE_TRANSITIONS,
                TERMINAL_CANDIDATE_STATES, rows
  <2>2. PICK local : /\ local = [Idle EXCEPT !.at = "start verification", !.candidate = c]
                     /\ tx' = [tx EXCEPT ![a] = local]
    BY <1>2 DEF StartVerificationRead, Begin
  <2>3. tx'[a] = local => LocalOK(a)'
    <3>1. local.at = "start verification" /\ local.candidate = c
      BY <2>2 DEF Idle
    <3>2. QED
      BY <2>1, <3>1 DEF LocalOK, ReviewStatements, FindingOf, Validates
  <2>4. QED
    BY <2>1, <2>2, <2>3, ReadKeeps
<1>3. CASE CompleteVerificationRead(a, c)
  <2>1. candidate'[c] # "NONE" /\ UNCHANGED rows
    BY <1>3 DEF CompleteVerificationRead, rows
  <2>2. PICK local : /\ local = [Idle EXCEPT !.at = "complete verification", !.candidate = c,
                                             !.candidate_state = candidate[c]]
                     /\ tx' = [tx EXCEPT ![a] = local]
    BY <1>3 DEF CompleteVerificationRead, Begin
  <2>3. tx'[a] = local => LocalOK(a)'
    <3>1. local.at = "complete verification" /\ local.candidate = c
      BY <2>2 DEF Idle
    <3>2. QED
      BY <2>1, <3>1 DEF LocalOK, ReviewStatements, FindingOf, Validates
  <2>4. QED
    BY <2>1, <2>2, <2>3, ReadKeeps
<1>4. CASE SubmitReadCandidate(a, c)
  <2>1. UNCHANGED rows
    BY <1>4 DEF SubmitReadCandidate
  <2>2. c \in ValidatedOnce'
    <3>1. c \in ValidatedOnce
      BY <1>1, <1>4 DEF SubmitReadCandidate, RowsBacked
    <3>2. QED
      BY <2>1, <3>1 DEF ValidatedOnce, Validates, rows
  <2>3. PICK local : /\ local = [Idle EXCEPT !.at = "submit: verifications", !.candidate = c]
                     /\ tx' = [tx EXCEPT ![a] = local]
    BY <1>4 DEF SubmitReadCandidate, Begin
  <2>4. tx'[a] = local => LocalOK(a)'
    <3>1. local.at = "submit: verifications" /\ local.candidate = c
      BY <2>3 DEF Idle
    <3>2. QED
      BY <2>2, <3>1 DEF LocalOK, ReviewStatements, FindingOf, Validates
  <2>5. QED
    BY <2>1, <2>3, <2>4, ReadKeeps
<1>5. CASE SubmitReadVerifications(a)
  <2>1. UNCHANGED rows
    BY <1>5 DEF SubmitReadVerifications
  <2>2. PICK d \in Candidates : d = tx[a].candidate /\ d \in ValidatedOnce
    BY <1>1, <1>5 DEF SubmitReadVerifications, LocalsMatchRows, LocalOK, ValidatedOnce
  <2>3. PICK v \in VerificationsOf(d) : Validates(v, d)
    BY <2>2 DEF ValidatedOnce, VerificationsOf, Validates
  <2>4. Validates(v, d)' /\ d \in ValidatedOnce'
    BY <2>1, <2>3 DEF VerificationsOf, ValidatedOnce, Validates, rows
  <2>5. PICK local : /\ local = [tx[a] EXCEPT !.at = "submit: insert",
                                              !.verifications = VerificationsOf(d)]
                     /\ tx' = [tx EXCEPT ![a] = local]
    BY <1>5, <2>2 DEF SubmitReadVerifications, Read
  <2>6. /\ local.at = "submit: insert" /\ local.candidate = d
        /\ v \in local.verifications
    BY <1>1, <2>2, <2>3, <2>5 DEF TypeOK, Local
  <2>7. tx'[a] = local => LocalOK(a)'
    BY <2>4, <2>6 DEF LocalOK, ReviewStatements, FindingOf, Validates
  <2>8. QED
    BY <2>1, <2>5, <2>7, ReadKeeps
<1>6. QED
  BY <1>2, <1>3, <1>4, <1>5

LEMMA ProposalReadsKeep ==
    ASSUME PromotionInvariant, NEW a \in Actors, NEW p \in Proposals,
           \/ StartReviewRead(a, p)
           \/ RecordReviewRead(a, p)
           \/ FinalizeReadProposal(a, p)
    PROVE  RowsInvariant' /\ LocalsMatchRows'
<1>1. TypeOK /\ StatesBacked
  BY DEF PromotionInvariant
<1>2. CASE StartReviewRead(a, p)
  <2>1. proposal'[p].state # "NONE" /\ UNCHANGED rows
    BY <1>2 DEF StartReviewRead, LEGAL_FINDING_PROPOSAL_TRANSITIONS, rows
  <2>2. PICK local : /\ local = [Idle EXCEPT !.at = "start review", !.proposal = p]
                     /\ tx' = [tx EXCEPT ![a] = local]
    BY <1>2 DEF StartReviewRead, Begin
  <2>3. tx'[a] = local => LocalOK(a)'
    <3>1. local.at = "start review" /\ local.proposal = p
      BY <2>2 DEF Idle
    <3>2. QED
      BY <2>1, <3>1 DEF LocalOK, ReviewStatements, FindingOf, Validates
  <2>4. QED
    BY <2>1, <2>2, <2>3, ReadKeeps
<1>3. CASE RecordReviewRead(a, p)
  <2>1. proposal'[p].state # "NONE" /\ UNCHANGED rows
    BY <1>3 DEF RecordReviewRead, rows
  <2>2. PICK local : /\ local = [Idle EXCEPT !.at = "record review", !.proposal = p]
                     /\ tx' = [tx EXCEPT ![a] = local]
    BY <1>3 DEF RecordReviewRead, Begin
  <2>3. tx'[a] = local => LocalOK(a)'
    <3>1. local.at = "record review" /\ local.proposal = p
      BY <2>2 DEF Idle
    <3>2. QED
      BY <2>1, <3>1 DEF LocalOK, ReviewStatements, FindingOf, Validates
  <2>4. QED
    BY <2>1, <2>2, <2>3, ReadKeeps
<1>4. CASE FinalizeReadProposal(a, p)
  <2>1. proposal'[p].state # "NONE" /\ UNCHANGED rows
    BY <1>4 DEF FinalizeReadProposal, rows
  <2>2. PICK local : /\ local = [Idle EXCEPT !.at = "finalize: finding", !.proposal = p,
                                             !.proposal_state = proposal[p].state]
                     /\ tx' = [tx EXCEPT ![a] = local]
    BY <1>4 DEF FinalizeReadProposal, Begin
  <2>3. proposal[p].state = "APPROVED" => \E f \in findings' : f.proposal = p
    BY <1>1, <2>1 DEF StatesBacked, FindingOf, rows
  <2>4. tx'[a] = local => LocalOK(a)'
    <3>1. local.at = "finalize: finding" /\ local.proposal = p /\ local.proposal_state = proposal[p].state
      BY <2>2 DEF Idle
    <3>2. QED
      BY <2>1, <2>3, <3>1 DEF LocalOK, ReviewStatements, FindingOf, Validates
  <2>5. QED
    BY <2>1, <2>2, <2>4, ReadKeeps
<1>5. QED
  BY <1>2, <1>3, <1>4

LEMMA FinalizeReadsKeep ==
    ASSUME PromotionInvariant, NEW a \in Actors,
           \/ FinalizeReadFinding(a)
           \/ FinalizeReadCandidate(a)
           \/ FinalizeReadReview(a)
           \/ FinalizeConflict(a)
           \/ Rollback(a)
    PROVE  RowsInvariant' /\ LocalsMatchRows'
<1>1. TypeOK /\ LocalsMatchRows /\ tx[a] \in Local /\ LocalOK(a)
  BY DEF PromotionInvariant, TypeOK, LocalsMatchRows
<1>2. ASSUME UNCHANGED rows, Return(a) PROVE RowsInvariant' /\ LocalsMatchRows'
  <2>1. PICK local : local = Idle
    OBVIOUS
  <2>2. tx' = [tx EXCEPT ![a] = local]
    BY <1>2, <2>1 DEF Return
  <2>3. tx'[a] = local => LocalOK(a)'
    BY <2>1, IdleKeeps
  <2>4. QED
    BY <1>2, <2>2, <2>3, ReadKeeps
<1>3. ASSUME NEW at \in {"finalize: candidate", "finalize: review"},
             NEW local \in Local, local.at = at, local.proposal = tx[a].proposal,
             tx[a].at \in ReviewStatements, tx' = [tx EXCEPT ![a] = local], UNCHANGED rows
      PROVE  RowsInvariant' /\ LocalsMatchRows'
  <2>1. tx[a].proposal \in Proposals /\ proposal'[tx[a].proposal].state # "NONE"
    BY <1>1, <1>3 DEF LocalOK, rows
  <2>2. tx'[a] = local => LocalOK(a)'
    BY <1>3, <2>1 DEF LocalOK, ReviewStatements, FindingOf, Validates
  <2>3. QED
    BY <1>3, <2>2, ReadKeeps
<1>4. CASE FinalizeReadFinding(a)
  <2>1. CASE Return(a)
    BY <1>2, <1>4, <2>1 DEF FinalizeReadFinding
  <2>2. CASE Read(a, [tx[a] EXCEPT !.at = "finalize: candidate"])
    <3>1. PICK local \in Local : local = [tx[a] EXCEPT !.at = "finalize: candidate"]
      BY <1>1 DEF Local, Statements
    <3>2. local.at = "finalize: candidate" /\ local.proposal = tx[a].proposal
      BY <1>1, <3>1 DEF Local
    <3>3. QED
      BY <1>3, <1>4, <2>2, <3>1, <3>2 DEF FinalizeReadFinding, Read, ReviewStatements
  <2>3. QED
    BY <1>4, <2>1, <2>2 DEF FinalizeReadFinding
<1>5. CASE FinalizeReadCandidate(a)
  <2>1. PICK local : /\ local = [tx[a] EXCEPT !.at = "finalize: review",
                            !.candidate_state = candidate[proposal[tx[a].proposal].candidate]]
                     /\ tx' = [tx EXCEPT ![a] = local]
    BY <1>5 DEF FinalizeReadCandidate, Read
  <2>2. local.at = "finalize: review" /\ local.proposal = tx[a].proposal
    BY <1>1, <2>1 DEF Local
  <2>3. tx[a].proposal \in Proposals /\ proposal'[tx[a].proposal].state # "NONE"
    BY <1>1, <1>5 DEF FinalizeReadCandidate, LocalOK, ReviewStatements, rows
  <2>4. tx'[a] = local => LocalOK(a)'
    BY <2>2, <2>3 DEF LocalOK, ReviewStatements, FindingOf, Validates
  <2>5. QED
    BY <1>5, <2>1, <2>4, ReadKeeps DEF FinalizeReadCandidate
<1>6. CASE FinalizeReadReview(a)
  <2>1. PICK p \in Proposals : p = tx[a].proposal /\ proposal'[p].state # "NONE"
    BY <1>1, <1>6 DEF FinalizeReadReview, LocalOK, ReviewStatements, rows
  <2>2. PICK r \in reviews : /\ r.proposal = p
                             /\ tx' = [tx EXCEPT ![a] = [tx[a] EXCEPT
                                          !.at = "finalize: write", !.decision = r.decision]]
    BY <1>6, <2>1 DEF FinalizeReadReview, Read, ReviewOf
  <2>3. PICK local : local = [tx[a] EXCEPT !.at = "finalize: write", !.decision = r.decision]
    OBVIOUS
  <2>4. local.at = "finalize: write" /\ local.proposal = p /\ local.decision = r.decision
    BY <1>1, <2>1, <2>3 DEF Local
  <2>5. [proposal |-> p, decision |-> r.decision] \in reviews'
    <3>1. r = [proposal |-> p, decision |-> r.decision]
      BY <1>1, <2>2 DEF TypeOK
    <3>2. QED
      BY <1>6, <3>1 DEF FinalizeReadReview, rows
  <2>6. tx'[a] = local => LocalOK(a)'
    BY <2>1, <2>4, <2>5 DEF LocalOK, ReviewStatements, FindingOf, Validates
  <2>7. QED
    BY <1>6, <2>2, <2>3, <2>6, ReadKeeps DEF FinalizeReadReview
<1>7. CASE FinalizeConflict(a)
  BY <1>2, <1>7 DEF FinalizeConflict
<1>8. CASE Rollback(a)
  BY <1>2, <1>8 DEF Rollback
<1>9. QED
  BY <1>4, <1>5, <1>6, <1>7, <1>8

-----------------------------------------------------------------------------
(* The theorems of the invariant.                                          *)

LEMMA NextRows ==
    ASSUME PromotionInvariant, [Next]_vars
    PROVE  RowsInvariant' /\ LocalsMatchRows'
<1>1. TypeOK /\ RowsInvariant /\ LocalsMatchRows /\ RowsBacked
  BY DEF PromotionInvariant, RowsInvariant
<1> DEFINE Kept == RowsInvariant' /\ LocalsMatchRows'
<1>2. ASSUME NEW c \in Candidates, NEW x \in Experiments, ProposeCandidate(c, x)
      PROVE  Kept
  BY <1>2, ProposeCandidateKeeps
<1>3. ASSUME NEW a \in Actors, NEW c \in Candidates,
             \/ StartVerificationRead(a, c)
             \/ CompleteVerificationRead(a, c)
             \/ SubmitReadCandidate(a, c)
      PROVE  Kept
  BY <1>3, CandidateReadsKeep
<1>4. ASSUME NEW a \in Actors, StartVerificationWrite(a) PROVE Kept
  BY <1>4, StartVerificationKeeps
<1>5. ASSUME NEW a \in Actors, NEW v \in Verifications, NEW command \in VerificationCommands,
             CompleteVerificationWrite(a, v, command)
      PROVE  Kept
  BY <1>5, CompleteVerificationKeeps
<1>6. ASSUME NEW a \in Actors, SubmitReadVerifications(a) PROVE Kept
  <2>1. PICK c \in Candidates : c = tx[a].candidate
    BY <1>1, <1>6 DEF SubmitReadVerifications, LocalsMatchRows, LocalOK, ValidatedOnce
  <2>2. QED
    BY <1>6, <2>1, CandidateReadsKeep
<1>7. ASSUME NEW a \in Actors, NEW p \in Proposals, SubmitInsert(a, p) PROVE Kept
  BY <1>7, SubmitInsertKeeps
<1>8. ASSUME NEW a \in Actors, NEW p \in Proposals,
             \/ StartReviewRead(a, p)
             \/ RecordReviewRead(a, p)
             \/ FinalizeReadProposal(a, p)
      PROVE  Kept
  BY <1>8, ProposalReadsKeep
<1>9. ASSUME NEW a \in Actors, StartReviewWrite(a) PROVE Kept
  BY <1>9, StartReviewKeeps
<1>10. ASSUME NEW a \in Actors, NEW decision \in Reviews, NEW actor_type,
              RecordReviewInsert(a, decision, actor_type)
       PROVE  Kept
  BY <1>10, RecordReviewKeeps
<1>11. ASSUME NEW a \in Actors, NEW actor_type, FinalizeWrite(a, actor_type) PROVE Kept
  BY <1>11, FinalizeKeeps
<1>12. ASSUME NEW a \in Actors,
              \/ FinalizeReadFinding(a)
              \/ FinalizeReadCandidate(a)
              \/ FinalizeReadReview(a)
              \/ FinalizeConflict(a)
              \/ Rollback(a)
       PROVE  Kept
  BY <1>12, FinalizeReadsKeep
<1>13. CASE UNCHANGED vars
  <2>1. UNCHANGED rows /\ tx' = tx
    BY <1>13 DEF vars
  <2>2. RowsInvariant' /\ RowsKept
    BY <1>1, <2>1, ReadsKeepRows DEF RowsInvariant
  <2>3. \A b \in Actors : LocalOK(b)'
    BY <1>1, <2>1, <2>2, OthersKeep DEF LocalsMatchRows
  <2>4. QED
    BY <2>2, <2>3 DEF LocalsMatchRows
<1>14. QED
  BY <1>2, <1>3, <1>4, <1>5, <1>6, <1>7, <1>8, <1>9, <1>10, <1>11, <1>12, <1>13 DEF Next

\* Only the read of the finding can report a missing one, and then it is there.
LEMMA NextAnswer ==
    ASSUME PromotionInvariant, [Next]_vars
    PROVE  NoMissingProvenance'
<1>1. LocalsMatchRows /\ answer # "MISSING_PROVENANCE"
  BY DEF PromotionInvariant, NoMissingProvenance
<1>2. ASSUME NEW a \in Actors, FinalizeReadFinding(a) PROVE NoMissingProvenance'
  <2>1. tx[a].proposal_state = "APPROVED" => FindingOf(tx[a].proposal) # {}
    BY <1>1, <1>2 DEF FinalizeReadFinding, LocalsMatchRows, LocalOK
  <2>2. QED
    BY <1>1, <1>2, <2>1 DEF FinalizeReadFinding, NoMissingProvenance
<1>3. ASSUME answer' \in {answer, "CREATED", "REJECTED_PROPOSAL", "CONFLICT"}
      PROVE  NoMissingProvenance'
  BY <1>1, <1>3 DEF NoMissingProvenance
<1>4. \/ \E a \in Actors : FinalizeReadFinding(a)
      \/ answer' \in {answer, "CREATED", "REJECTED_PROPOSAL", "CONFLICT"}
  BY DEF Next, vars, ProposeCandidate, StartVerificationRead, CompleteVerificationRead,
         SubmitReadCandidate, StartVerificationWrite, CompleteVerificationWrite,
         SubmitReadVerifications, SubmitInsert, StartReviewRead, RecordReviewRead,
         FinalizeReadProposal, StartReviewWrite, RecordReviewInsert, FinalizeReadCandidate,
         FinalizeReadReview, FinalizeWrite, FinalizeConflict, Rollback
<1>5. QED
  BY <1>2, <1>3, <1>4

LEMMA NextInvariant == PromotionInvariant /\ [Next]_vars => PromotionInvariant'
<1>1. SUFFICES ASSUME PromotionInvariant, [Next]_vars PROVE PromotionInvariant'
  OBVIOUS
<1>2. TypeOK'
  BY <1>1, NextType DEF PromotionInvariant
<1>3. QED
  BY <1>1, <1>2, NextRows, NextAnswer DEF PromotionInvariant, RowsInvariant

LEMMA InitInvariant == Init => PromotionInvariant
<1>1. SUFFICES ASSUME Init PROVE PromotionInvariant
  OBVIOUS
<1>2. TypeOK
  BY <1>1, InitType
<1>3. LocalsMatchRows
  BY <1>1 DEF Init, LocalsMatchRows, LocalOK, Idle, ReviewStatements
<1>4. RowsBacked
  BY <1>1 DEF Init, RowsBacked, NoRow
<1>5. FindingProvenance /\ OneDecision /\ NoMissingProvenance
  BY <1>1 DEF Init, FindingProvenance, OneDecision, NoMissingProvenance
<1>6. StatesBacked
  BY <1>1 DEF Init, StatesBacked, NoRow, TERMINAL_CANDIDATE_STATES
<1>7. QED
  BY <1>2, <1>3, <1>4, <1>5, <1>6 DEF PromotionInvariant

\* Every committed row is backed and every open transaction may rely on what it
\* has read, however many processes run the use cases and however they interleave.
THEOREM PromotionCorrect == Spec => []PromotionInvariant
<1>1. Init => PromotionInvariant
  BY InitInvariant
<1>2. PromotionInvariant /\ [Next]_vars => PromotionInvariant'
  BY NextInvariant
<1>3. QED
  BY <1>1, <1>2, PTL DEF Spec

\* No finding without a validated candidate, a proposal that lists an independent
\* validation, an approving review and Core's approval.
THEOREM ProvenanceCorrect == Spec => []FindingProvenance
<1>1. PromotionInvariant => FindingProvenance
  BY DEF PromotionInvariant
<1>2. QED
  BY <1>1, PromotionCorrect, PTL

\* One approval of one review for each proposal, and its finding if it approves.
THEOREM DecisionCorrect == Spec => []OneDecision
<1>1. PromotionInvariant => OneDecision
  BY DEF PromotionInvariant
<1>2. QED
  BY <1>1, PromotionCorrect, PTL

-----------------------------------------------------------------------------
(* Promotion implements FindingFormula.                                    *)

About == [p \in Proposals |-> proposal[p].candidate]
Reviewed == [p \in Proposals |-> DecisionIn(reviews, p)]
Decided == [p \in Proposals |-> DecisionIn(approvals, p)]
Found == {p \in Proposals : FindingOf(p) # {}}

\* What the mapping reads off a set of records, when each proposal has at most one.
LEMMA DecisionRead ==
    ASSUME NEW records, NEW p
    PROVE  /\ (\A r \in records : r.proposal # p) => DecisionIn(records, p) = "NONE"
           /\ \A r \in records :
                 r.proposal = p /\ (\A q \in records : q.proposal = p => q = r)
                    => DecisionIn(records, p) = r.decision
<1>1. ASSUME \A r \in records : r.proposal # p PROVE DecisionIn(records, p) = "NONE"
  BY <1>1 DEF DecisionIn
<1>2. ASSUME NEW r \in records, r.proposal = p, \A q \in records : q.proposal = p => q = r
      PROVE  DecisionIn(records, p) = r.decision
  <2>1. (CHOOSE q \in records : q.proposal = p) = r
    BY <1>2
  <2>2. QED
    BY <1>2, <2>1 DEF DecisionIn
<1>3. QED
  BY <1>1, <1>2

\* Recording one more decision changes what is read of its proposal alone.
LEMMA DecisionRecorded ==
    ASSUME NEW records, NEW later, NEW new, NEW p \in Proposals, new.proposal = p,
           \A r \in records : r.proposal # p,
           \A r : r \in later <=> r \in records \/ r = new
    PROVE  /\ DecisionIn(records, p) = "NONE"
           /\ DecisionIn(later, p) = new.decision
           /\ \A q \in Proposals : q # p => DecisionIn(later, q) = DecisionIn(records, q)
<1>1. DecisionIn(records, p) = "NONE"
  BY DecisionRead
<1>2. DecisionIn(later, p) = new.decision
  BY DecisionRead
<1>3. ASSUME NEW q \in Proposals, q # p PROVE DecisionIn(later, q) = DecisionIn(records, q)
  <2>1. \A r : (r \in later /\ r.proposal = q) <=> (r \in records /\ r.proposal = q)
    BY <1>3
  <2>2. (CHOOSE r \in later : r.proposal = q) = (CHOOSE r \in records : r.proposal = q)
    BY <2>1, Zenon
  <2>3. QED
    BY <2>1, <2>2 DEF DecisionIn
<1>4. QED
  BY <1>1, <1>2, <1>3

\* A row of another table leaves the mapped state as it was.
LEMMA Stutter ==
    ASSUME ValidatedOnce' = ValidatedOnce, About' = About,
           reviews' = reviews, approvals' = approvals, findings' = findings
    PROVE  UNCHANGED Promise!vars
BY DEF Promise!vars, About, DecisionIn, FindingOf

LEMMA ValidatedUnchanged ==
    ASSUME origin' = origin, verification' = verification
    PROVE  ValidatedOnce' = ValidatedOnce
BY DEF ValidatedOnce, Validates

LEMMA ProposeCandidateMaps ==
    ASSUME PromotionInvariant, NEW c \in Candidates, NEW x \in Experiments,
           ProposeCandidate(c, x)
    PROVE  UNCHANGED Promise!vars
<1>1. \A v \in Verifications : verification[v].candidate # c
  BY PromotionAssumption DEF PromotionInvariant, RowsBacked, ProposeCandidate
<1>2. /\ \A d \in Candidates : d # c => origin'[d] = origin[d]
      /\ verification' = verification
  BY DEF ProposeCandidate, PromotionInvariant, TypeOK
<1>3. ValidatedOnce' = ValidatedOnce
  BY <1>1, <1>2 DEF ValidatedOnce, Validates
<1>4. QED
  BY <1>3, Stutter DEF ProposeCandidate, About

LEMMA CompleteVerificationMaps ==
    ASSUME PromotionInvariant, NEW a \in Actors, NEW v \in Verifications,
           NEW command \in VerificationCommands, CompleteVerificationWrite(a, v, command)
    PROVE  [Promise!Next]_(Promise!vars)
<1>1. TypeOK /\ LocalsMatchRows
  BY DEF PromotionInvariant
<1>2. PICK c \in Candidates : c = tx[a].candidate
  BY <1>1 DEF CompleteVerificationWrite, LocalsMatchRows, LocalOK
<1>3. /\ verification[v].candidate = NoCandidate
      /\ verification'[v].candidate = c
      /\ \A w \in Verifications : w # v => verification'[w] = verification[w]
      /\ UNCHANGED <<origin, proposal, reviews, approvals, findings>>
  BY <1>1, <1>2 DEF CompleteVerificationWrite, RecordVerification, TypeOK
<1>4. \A w \in Verifications, d \in Candidates :
          w # v => (Validates(w, d)' <=> Validates(w, d))
  BY <1>3 DEF Validates
<1>5. \A d \in Candidates : ~Validates(v, d) /\ (Validates(v, d)' => d = c)
  BY <1>3, PromotionAssumption DEF Validates
<1>6. CASE Validates(v, c)'
  <2>1. ValidatedOnce' = ValidatedOnce \cup {c}
    BY <1>4, <1>5, <1>6 DEF ValidatedOnce
  <2>2. Promise!Validate(c)
    BY <1>3, <2>1 DEF Promise!Validate, DecisionIn, FindingOf
  <2>3. QED
    BY <2>2 DEF Promise!Next
<1>7. CASE ~Validates(v, c)'
  <2>1. ValidatedOnce' = ValidatedOnce
    BY <1>4, <1>5, <1>7 DEF ValidatedOnce
  <2>2. QED
    BY <1>3, <2>1, Stutter DEF About
<1>8. QED
  BY <1>6, <1>7

LEMMA SubmitInsertMaps ==
    ASSUME PromotionInvariant, NEW a \in Actors, NEW p \in Proposals, SubmitInsert(a, p)
    PROVE  Promise!Next
<1>1. TypeOK /\ LocalsMatchRows /\ RowsBacked
  BY DEF PromotionInvariant
<1>2. PICK c \in Candidates : c = tx[a].candidate /\ c \in ValidatedOnce
  BY <1>1 DEF SubmitInsert, LocalsMatchRows, LocalOK, ValidatedOnce
<1>3. About[p] = NoCandidate
  BY <1>1 DEF SubmitInsert, RowsBacked, About
<1>4. About' = [About EXCEPT ![p] = c]
  BY <1>1, <1>2 DEF SubmitInsert, About, TypeOK
<1>5. UNCHANGED <<origin, verification, reviews, approvals, findings>>
  BY DEF SubmitInsert
<1>6. ValidatedOnce' = ValidatedOnce
  BY <1>5, ValidatedUnchanged
<1>7. Promise!Propose(p, c)
  BY <1>2, <1>3, <1>4, <1>5, <1>6 DEF Promise!Propose, About, DecisionIn, FindingOf
<1>8. QED
  BY <1>7 DEF Promise!Next

LEMMA StartReviewMaps ==
    ASSUME PromotionInvariant, NEW a \in Actors, StartReviewWrite(a)
    PROVE  UNCHANGED Promise!vars
<1>1. TypeOK /\ LocalsMatchRows
  BY DEF PromotionInvariant
<1>2. PICK p \in Proposals : p = tx[a].proposal
  BY <1>1 DEF StartReviewWrite, LocalsMatchRows, LocalOK, ReviewStatements
<1>3. About' = About
  BY <1>1, <1>2 DEF StartReviewWrite, About, TypeOK
<1>4. QED
  BY <1>3, ValidatedUnchanged, Stutter DEF StartReviewWrite

LEMMA RecordReviewMaps ==
    ASSUME PromotionInvariant, NEW a \in Actors, NEW decision \in Reviews, NEW actor_type,
           RecordReviewInsert(a, decision, actor_type)
    PROVE  Promise!Next
<1>1. TypeOK /\ LocalsMatchRows /\ RowsBacked
  BY DEF PromotionInvariant
<1>2. PICK p \in Proposals : p = tx[a].proposal /\ proposal[p].state # "NONE"
  BY <1>1 DEF RecordReviewInsert, LocalsMatchRows, LocalOK, ReviewStatements
<1>3. PICK new : new = [proposal |-> p, decision |-> decision]
  OBVIOUS
<1>4. /\ \A r \in reviews : r.proposal # p
      /\ \A r : r \in reviews' <=> r \in reviews \/ r = new
      /\ UNCHANGED <<origin, verification, proposal, approvals, findings>>
  BY <1>2, <1>3 DEF RecordReviewInsert, ReviewOf
<1>5. Reviewed[p] = "NONE" /\ Reviewed' = [Reviewed EXCEPT ![p] = decision]
  <2>1. new.proposal = p /\ new.decision = decision
    BY <1>3
  <2>2. /\ DecisionIn(reviews, p) = "NONE"
        /\ DecisionIn(reviews', p) = new.decision
        /\ \A q \in Proposals : q # p => DecisionIn(reviews', q) = DecisionIn(reviews, q)
    <3>1. PICK records, later : records = reviews /\ later = reviews'
      OBVIOUS
    <3>2. /\ \A r \in records : r.proposal # p
          /\ \A r : r \in later <=> r \in records \/ r = new
      BY <1>4, <2>1, <3>1
    <3>3. /\ DecisionIn(records, p) = "NONE"
          /\ DecisionIn(later, p) = new.decision
          /\ \A q \in Proposals : q # p => DecisionIn(later, q) = DecisionIn(records, q)
      BY <2>1, <3>2, DecisionRecorded
    <3>4. QED
      BY <3>1, <3>3
  <2>3. Reviewed' = [q \in Proposals |-> DecisionIn(reviews', q)]
    BY DEF Reviewed, DecisionIn
  <2>4. QED
    BY <2>1, <2>2, <2>3 DEF Reviewed
<1>6. About[p] # NoCandidate
  BY <1>1, <1>2, PromotionAssumption DEF RowsBacked, About
<1>7. ValidatedOnce' = ValidatedOnce
  BY <1>4, ValidatedUnchanged
<1>8. Promise!Review(p, decision)
  BY <1>4, <1>5, <1>6, <1>7 DEF Promise!Review, About, Reviewed, DecisionIn, FindingOf
<1>9. QED
  BY <1>8 DEF Promise!Next, Reviews

LEMMA FinalizeMaps ==
    ASSUME PromotionInvariant, NEW a \in Actors, NEW actor_type, FinalizeWrite(a, actor_type)
    PROVE  Promise!Next
<1>1. TypeOK /\ LocalsMatchRows /\ OneDecision
  BY DEF PromotionInvariant
<1>2. PICK p \in Proposals : p = tx[a].proposal
  BY <1>1 DEF FinalizeWrite, LocalsMatchRows, LocalOK, ReviewStatements
<1>3. PICK decision : decision = tx[a].decision /\ FinalizeEffect(a, p, decision)
  BY <1>1, <1>2, FinalizeFacts
<1>4. PICK state \in {"APPROVED", "REJECTED"} : proposal' = [proposal EXCEPT ![p].state = state]
  BY <1>1, <1>2, <1>3, FinalizeFacts
<1>5. About' = About
  BY <1>1, <1>4 DEF About, TypeOK
<1>6. UNCHANGED <<origin, verification, reviews>>
  BY DEF FinalizeWrite
<1>7. ValidatedOnce' = ValidatedOnce
  BY <1>6, ValidatedUnchanged
<1>8. Reviewed' = Reviewed /\ Reviewed[p] = decision
  <2>1. PICK r : r = [proposal |-> p, decision |-> decision] /\ r \in reviews
    BY <1>3 DEF FinalizeEffect
  <2>2. \A q \in reviews : q.proposal = p => q = r
    BY <1>1, <2>1 DEF OneDecision
  <2>3. DecisionIn(reviews, p) = decision
    BY <2>1, <2>2, DecisionRead
  <2>4. QED
    BY <1>6, <2>3 DEF Reviewed, DecisionIn
<1>9. Decided[p] = "NONE" /\ Decided' = [Decided EXCEPT ![p] = decision]
  <2>1. PICK new : new = [proposal |-> p, decision |-> decision, decided_by |-> a]
    OBVIOUS
  <2>2. new.proposal = p /\ new.decision = decision
    BY <2>1
  <2>3. /\ \A d \in approvals : d.proposal # p
        /\ \A d : d \in approvals' <=> d \in approvals \/ d = new
    BY <1>3, <2>1 DEF FinalizeEffect
  <2>4. /\ DecisionIn(approvals, p) = "NONE"
        /\ DecisionIn(approvals', p) = new.decision
        /\ \A q \in Proposals : q # p => DecisionIn(approvals', q) = DecisionIn(approvals, q)
    <3>1. PICK records, later : records = approvals /\ later = approvals'
      OBVIOUS
    <3>2. /\ \A r \in records : r.proposal # p
          /\ \A r : r \in later <=> r \in records \/ r = new
      BY <2>2, <2>3, <3>1
    <3>3. /\ DecisionIn(records, p) = "NONE"
          /\ DecisionIn(later, p) = new.decision
          /\ \A q \in Proposals : q # p => DecisionIn(later, q) = DecisionIn(records, q)
      BY <2>2, <3>2, DecisionRecorded
    <3>4. QED
      BY <3>1, <3>3
  <2>5. Decided' = [q \in Proposals |-> DecisionIn(approvals', q)]
    BY DEF Decided, DecisionIn
  <2>6. QED
    BY <2>2, <2>4, <2>5 DEF Decided
<1>10. Found' = IF decision = "APPROVE" THEN Found \cup {p} ELSE Found
  <2>1. CASE decision = "APPROVE"
    <3>1. PICK f : f = [proposal |-> p, decided_by |-> a, candidate |-> proposal[p].candidate]
      OBVIOUS
    <3>2. f.proposal = p
      BY <3>1
    <3>3. \A g : g \in findings' <=> g \in findings \/ g = f
      BY <1>3, <2>1, <3>1 DEF FinalizeEffect
    <3>4. \A q \in Proposals : FindingOf(q)' # {} <=> FindingOf(q) # {} \/ q = p
      BY <3>2, <3>3 DEF FindingOf
    <3>5. QED
      BY <2>1, <3>4 DEF Found
  <2>2. CASE decision # "APPROVE"
    <3>1. findings' = findings
      BY <1>3, <2>2 DEF FinalizeEffect
    <3>2. QED
      BY <2>2, <3>1 DEF Found, FindingOf
  <2>3. QED
    BY <2>1, <2>2
<1>11. decision # "NONE"
  BY <1>3 DEF FinalizeEffect, Reviews
<1>12. Promise!Decide(p)
  BY <1>5, <1>7, <1>8, <1>9, <1>10, <1>11
     DEF Promise!Decide, About, Reviewed, Decided, Found, DecisionIn, FindingOf
<1>13. QED
  BY <1>12 DEF Promise!Next

\* A statement that only reads, a conflict and a rollback map to a stutter.
LEMMA RowsMap ==
    ASSUME UNCHANGED rows
    PROVE  UNCHANGED Promise!vars
BY ValidatedUnchanged, Stutter DEF rows, About

\* Every step is a step of the promise or a stutter.
LEMMA NextMaps == PromotionInvariant /\ [Next]_vars => [Promise!Next]_(Promise!vars)
<1>1. SUFFICES ASSUME PromotionInvariant, [Next]_vars PROVE [Promise!Next]_(Promise!vars)
  OBVIOUS
<1> DEFINE Mapped == [Promise!Next]_(Promise!vars)
<1>2. ASSUME NEW c \in Candidates, NEW x \in Experiments, ProposeCandidate(c, x) PROVE Mapped
  BY <1>1, <1>2, ProposeCandidateMaps
<1>3. ASSUME NEW a \in Actors, StartVerificationWrite(a) PROVE Mapped
  BY <1>3, ValidatedUnchanged, Stutter DEF StartVerificationWrite, About
<1>4. ASSUME NEW a \in Actors, NEW v \in Verifications, NEW command \in VerificationCommands,
             CompleteVerificationWrite(a, v, command)
      PROVE  Mapped
  BY <1>1, <1>4, CompleteVerificationMaps
<1>5. ASSUME NEW a \in Actors, NEW p \in Proposals, SubmitInsert(a, p) PROVE Mapped
  BY <1>1, <1>5, SubmitInsertMaps
<1>6. ASSUME NEW a \in Actors, StartReviewWrite(a) PROVE Mapped
  BY <1>1, <1>6, StartReviewMaps
<1>7. ASSUME NEW a \in Actors, NEW decision \in Reviews, NEW actor_type,
             RecordReviewInsert(a, decision, actor_type)
      PROVE  Mapped
  BY <1>1, <1>7, RecordReviewMaps
<1>8. ASSUME NEW a \in Actors, NEW actor_type, FinalizeWrite(a, actor_type) PROVE Mapped
  BY <1>1, <1>8, FinalizeMaps
<1>9. ASSUME UNCHANGED rows PROVE Mapped
  BY <1>9, RowsMap
<1> HIDE DEF Mapped
<1>10. Mapped
  BY <1>1, <1>2, <1>3, <1>4, <1>5, <1>6, <1>7, <1>8, <1>9
     DEF Next, vars, StartVerificationRead, CompleteVerificationRead, SubmitReadCandidate,
         SubmitReadVerifications, StartReviewRead, RecordReviewRead, FinalizeReadProposal,
         FinalizeReadFinding, FinalizeReadCandidate, FinalizeReadReview, FinalizeConflict,
         Rollback
<1>11. QED
  BY <1>10 DEF Mapped

LEMMA InitMaps == Init => Promise!Init
<1>1. SUFFICES ASSUME Init PROVE Promise!Init
  OBVIOUS
<1>2. ValidatedOnce = {}
  BY <1>1, PromotionAssumption DEF Init, ValidatedOnce, Validates
<1>3. About = [p \in Proposals |-> NoCandidate]
  BY <1>1 DEF Init, About, NoRow
<1>4. Reviewed = [p \in Proposals |-> "NONE"] /\ Decided = [p \in Proposals |-> "NONE"]
  BY <1>1 DEF Init, Reviewed, Decided, DecisionIn
<1>5. Found = {}
  BY <1>1 DEF Init, Found, FindingOf
<1>6. QED
  BY <1>2, <1>3, <1>4, <1>5
     DEF Promise!Init, About, Reviewed, Decided, Found, DecisionIn, FindingOf

\* Whatever the races do to the lifecycle states, what is promised of findings
\* holds: promotion implements the formula.
THEOREM PromotionKeepsFormula == Spec => KeepsFormula
<1>1. Init => Promise!Init
  BY InitMaps
<1>2. PromotionInvariant /\ [Next]_vars => [Promise!Next]_(Promise!vars)
  BY NextMaps
<1>3. Spec => Promise!Init /\ [][Promise!Next]_(Promise!vars)
  BY <1>1, <1>2, PromotionCorrect, PTL DEF Spec
<1>4. QED
  BY <1>3 DEF KeepsFormula, Promise!Spec
=============================================================================
