--------------------------- MODULE ReasoningRules ---------------------------
(***************************************************************************)
(* What goes into a reasoning call and what its answers are worth: the     *)
(* bounded context, the two structured outputs, the admission of a         *)
(* hypothesis and its plan.  Operators only.                               *)
(*                                                                         *)
(* An id is [run, kind, n]; no text is modelled but for what a rule tells  *)
(* apart.  Ids are opaque, so which of them a sorted prefix holds is       *)
(* chance: a context is built for a choice of the ids that are kept.       *)
(***************************************************************************)
EXTENDS ModelRuntimes

Id(run, kind, n) == [run |-> run, kind |-> kind, n |-> n]

ContextItem(id, class, references) == [id |-> id, class |-> class, references |-> references]

NegativeExperimentStates == {"EXECUTION_FAILED", "BLOCKED", "BUDGET_EXHAUSTED"}

\* The class an item of the command's focus has in a context.
FocusClass(kind) ==
    IF kind \in {"differential", "change"} THEN "DERIVED_FACT" ELSE "HYPOTHESIS"

\* _sorted_take: the choices of at most limit ids; what is not kept is omitted.
Takes(ids, limit) ==
    kSubset(IF Cardinality(ids) < limit THEN Cardinality(ids) ELSE limit, ids)

\* The experiments whose end counts as negative evidence.
Negatives(sources) == {x \in sources.experiments : x.state \in NegativeExperimentStates}

\* External texts, [id, length], are taken in order until the characters run out: the
\* room there is for each of them.
TextRoom(external, characters) ==
    LET before[i \in 0..Len(external)] ==
            IF i = 0 THEN 0 ELSE before[i - 1] + external[i].length
    IN [i \in DOMAIN external |-> characters - before[i - 1]]

\* ResearchContextBuilder.build of the sources of a run, for a choice kept of ids; the
\* fingerprint of a context stands for its items and its omissions.
BuildContext(run, sources, kept, budget) ==
    LET own(kind) == Id(run, kind, 0)
        of(ids, class) == {ContextItem(i, class, {i}) : i \in ids}
        derived == {ContextItem([x.id EXCEPT !.kind = "der"], "DERIVED_FACT", {x.id, x.hypothesis}) :
                       x \in sources.experiments}
        negative == {ContextItem([x.id EXCEPT !.kind = "neg"], "NEGATIVE_EVIDENCE", {x.id, x.hypothesis}) :
                        x \in {y \in Negatives(sources) : y.id \in kept.negatives}}
        room == TextRoom(sources.external, budget.characters)
        external == {ContextItem(sources.external[i].id, "UNTRUSTED_EXTERNAL", {}) :
                        i \in {j \in DOMAIN room : room[j] > 0}}
    IN [items |->
            {ContextItem(own("run"), "AUTHORITATIVE_FACT", {own("run")}),
             ContextItem(own("question"), "PROCEDURAL", {own("run")})}
            \cup of(kept.observations, "OBSERVATION")
            \cup of(kept.hypotheses, "HYPOTHESIS")
            \cup derived \cup negative
            \cup of(sources.inferences, "INFERRED")
            \cup {ContextItem(f, FocusClass(f.kind), {f}) : f \in sources.focus}
            \cup external,
        omitted |->
            (sources.observations \ kept.observations)
            \cup (sources.hypotheses \ kept.hypotheses)
            \cup {[x.id EXCEPT !.kind = "neg"] : x \in {y \in Negatives(sources) : y.id \notin kept.negatives}}
            \cup {sources.external[i].id : i \in {j \in DOMAIN room : room[j] <= 0}},
        truncated |->
            {sources.external[i].id :
                i \in {j \in DOMAIN room : room[j] \in 1..(sources.external[j].length - 1)}}]

\* The choices of what a context keeps of its sources.
Keeps(sources, budget) ==
    [observations: Takes(sources.observations, budget.observations),
     hypotheses: Takes(sources.hypotheses, budget.hypotheses),
     negatives: Takes({x.id : x \in Negatives(sources)}, budget.negatives)]

IsPartial(context) == context.omitted \cup context.truncated # {}

ResolvableSourceIds(context) == {i.id : i \in context.items}

\* The items a reference names; ids of different classes never collide.
ItemsById(context, id) == {i \in context.items : i.id = id}

-----------------------------------------------------------------------------
(* The outputs.  keys tells which keys a mapping has beside the expected   *)
(* ones, complete whether each text it must have is there.                 *)

\* parse_novelty_basis: whatever the model claims, a zero day is never among it.
ParseNoveltyBasis(claimed) ==
    IF claimed \in {None, "N4", "N4_ZERO_DAY", "ZERO_DAY"} THEN "UNCLASSIFIED" ELSE claimed

\* The error of parse_hypothesis_proposal or parse_hypothesis_challenge, None if there is none.
ParseError(output) ==
    IF "authority" \in output.keys THEN "ProposalAuthorityError"
    ELSE IF "unknown" \in output.keys \/ ~output.complete THEN "ResearchInputError" ELSE None

ParseHypothesisProposal(output) ==
    [claim |-> output.claim, references |-> output.references,
     capability |-> output.capability, novelty |-> ParseNoveltyBasis(output.novelty)]

ParseHypothesisChallenge(output) == [alternatives |-> output.alternatives]

-----------------------------------------------------------------------------
(* admit_hypothesis: the first objection decides.                          *)

AdmissionDecision(outcome, reason) == [outcome |-> outcome, reason |-> reason]
Rejected == AdmissionDecision("REJECTED_UNTESTABLE", "INVALID_STRUCTURED_OUTPUT")
PolicyConflict == AdmissionDecision("REJECTED_POLICY_CONFLICT", "POLICY_CONFLICT")

\* Mutant: what a proposal refers to need not be in the context.
AdmitsUnresolved(context, proposal, challenge) ==
    IF proposal.claim = "policy" THEN PolicyConflict
    ELSE IF proposal.references = {}
    THEN AdmissionDecision("REJECTED_UNSUPPORTED", "NO_SOURCE_REFERENCES")
    ELSE IF challenge.alternatives = 0
    THEN AdmissionDecision("REJECTED_UNTESTABLE", "MISSING_ALTERNATIVE_EXPLANATION")
    ELSE AdmissionDecision("ADMITTED", "ADMITTED")

\* A text that is blank was refused when it was parsed, so those objections of the code
\* (EMPTY_CLAIM, MISSING_DISCONFIRMING_TEST and two more) cannot come up here.
AdmitHypothesis(context, proposal, challenge) ==
    LET supporting == {r \in proposal.references :
                          \E i \in ItemsById(context, r) : i.class # "UNTRUSTED_EXTERNAL"} IN
    IF proposal.claim = "policy" THEN PolicyConflict
    ELSE IF proposal.references = {}
    THEN AdmissionDecision("REJECTED_UNSUPPORTED", "NO_SOURCE_REFERENCES")
    ELSE IF ~(proposal.references \subseteq ResolvableSourceIds(context))
    THEN AdmissionDecision("NEEDS_MORE_CONTEXT", "HALLUCINATED_SOURCE")
    ELSE IF supporting = {}
    THEN AdmissionDecision("REJECTED_UNSUPPORTED", "UNSUPPORTED_CONTEXT")
    ELSE IF challenge.alternatives = 0
    THEN AdmissionDecision("REJECTED_UNTESTABLE", "MISSING_ALTERNATIVE_EXPLANATION")
    ELSE AdmissionDecision("ADMITTED", "ADMITTED")

-----------------------------------------------------------------------------
(* The plan of an admitted hypothesis.                                     *)

CapabilityAction(id, level, required) == [id |-> id, level |-> level, required |-> required]

\* The catalogue under resources/capabilities: the actions of each worker capability with
\* their level and the arguments they require.
CapabilityRegistry ==
    [c \in {"diagnostic.echo", "http.authentication", "http.authorization.differential",
            "http.state_transition", "http.transaction", "browser.page"} |->
        CASE c = "diagnostic.echo" -> {CapabilityAction("echo", 0, {"message"})}
          [] c = "http.authentication" ->
                {CapabilityAction("login", 1, {"authorized_origin", "path", "username",
                    "username_field", "password_secret_name", "session_cookie_name",
                    "session_context_id"})}
          [] c = "http.authorization.differential" ->
                {CapabilityAction("probe", 0, {"authorized_origin", "actor", "own_object",
                    "cross_object", "mode"})}
          [] c = "http.state_transition" ->
                {CapabilityAction("probe", 1, {"authorized_origin", "actor", "resource_id",
                    "transition", "area"})}
          [] c = "http.transaction" ->
                {CapabilityAction(a, IF a = "read" THEN 0 ELSE 1,
                                  {"authorized_origin", "method", "path"}) : a \in {"read", "mutate"}}
          [] c = "browser.page" ->
                {CapabilityAction(a, IF a = "interact" THEN 1 ELSE 0,
                                  {"authorized_origin", "path"}) :
                    a \in {"observe", "navigate", "interact"}}]

\* compile_experiment_intent with the arguments given: the reason it raises, or None.
CompileError(action, arguments) ==
    IF ~(action.required \subseteq arguments) THEN "MISSING_REQUIRED_ARGUMENT"
    ELSE IF ~(arguments \subseteq action.required) THEN "UNEXPECTED_ARGUMENT" ELSE None

\* plan_admitted_hypothesis: [error, capability, level].  Only a message is ever filled in.
PlanAdmittedHypothesis(capability) ==
    LET refused(error) == [error |-> error, capability |-> None, level |-> None] IN
    IF capability \notin DOMAIN CapabilityRegistry THEN refused("unknown capability")
    ELSE IF Cardinality(CapabilityRegistry[capability]) # 1 THEN refused("ambiguous action")
    ELSE LET action == CHOOSE a \in CapabilityRegistry[capability] : TRUE
             error == CompileError(action, action.required \cap {"message"})
         IN IF error # None THEN refused(error)
            ELSE [error |-> None, capability |-> capability, level |-> action.level]
=============================================================================
