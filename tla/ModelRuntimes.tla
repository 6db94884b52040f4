--------------------------- MODULE ModelRuntimes ---------------------------
(***************************************************************************)
(* The runtimes that may complete a model call: who they are, how they are *)
(* probed and discovered, what one call of each gives or raises, and how   *)
(* the routing policy picks one of them and falls back to another.         *)
(* Operators only: no call here changes a row.                             *)
(***************************************************************************)
EXTENDS Integers, FiniteSets, SequencesExt

CONSTANT None      \* Python's None

Cheap == "cheap"
Expensive == "expensive"
Inference == "INFERENCE_RUNTIME"
Agent == "AGENT_RUNTIME"

RuntimeOutcomes ==
    {"COMPLETED", "UNAVAILABLE", "AUTH_FAILED", "RATE_LIMITED", "TIMED_OUT",
     "PROCESS_FAILED", "PROTOCOL_ERROR", "STRUCTURED_OUTPUT_INVALID",
     "CONTENT_POLICY_BLOCKED", "ESCALATION_NEEDED", "CANCELLED"}

-----------------------------------------------------------------------------
(* Identities.  A fingerprint is the payload it is the digest of; no       *)
(* constructor in the repository sets a price class, so all are cheap.     *)

ModelRuntimeIdentity(kind, class, adapter, id, fingerprint) ==
    [kind |-> kind, class |-> class, adapter |-> adapter, id |-> id,
     fingerprint |-> fingerprint, price |-> Cheap]

ApiIdentity(adapter, id) ==
    ModelRuntimeIdentity("API", Inference, adapter, id, <<adapter, id>>)

CliAdapter == "codex.cli.session"

CliIdentity(configuration, executable, version) ==
    ModelRuntimeIdentity("CLI_SESSION", Agent, CliAdapter, configuration.id,
                         <<configuration.id, version, configuration.model, executable>>)

LocalIdentity(endpoint) ==
    ModelRuntimeIdentity("LOCAL_MODEL", Inference, "local.model.contract", "local-model",
                         <<endpoint # None>>)

ExternalAgentIdentity(capabilities) ==
    ModelRuntimeIdentity("EXTERNAL_AGENT", Agent, "external.agent.contract",
                         "external-agent", <<capabilities>>)

-----------------------------------------------------------------------------
(* ModelCallResult, or the class of the error that came instead of it.  An *)
(* adapter answers in the role it was asked, names its model, and may tell *)
(* what the provider counted: in the telemetry, which is for reading only, *)
(* or in prompt and completion, which a budget is charged by.              *)

Raises(error) ==
    [error |-> error, output |-> None, model |-> None,
     prompt |-> None, completion |-> None, telemetry |-> None]
Answers(output) == [Raises(None) EXCEPT !.output = output]

RuntimeOutcomeFromException(error) ==
    CASE error = "ContentPolicyBlockedError"      -> "CONTENT_POLICY_BLOCKED"
      [] error = "ProviderAuthError"              -> "AUTH_FAILED"
      [] error = "ProviderRateLimitError"         -> "RATE_LIMITED"
      [] error = "ProviderTimeoutError"           -> "TIMED_OUT"
      [] error = "RuntimeUnavailableError"        -> "UNAVAILABLE"
      [] error = "RuntimeCancelledError"          -> "CANCELLED"
      [] error = "StructuredOutputTransportError" -> "STRUCTURED_OUTPUT_INVALID"
      [] error = "ModelPortError"                 -> "PROTOCOL_ERROR"
      [] error \in {"RuntimeProcessError", "ProviderRuntimeError"} -> "PROCESS_FAILED"

StopReasonForRuntimeOutcome(outcome) ==
    CASE outcome = "CONTENT_POLICY_BLOCKED" -> "CONTENT_POLICY_BLOCKED"
      [] outcome = "UNAVAILABLE"            -> "NO_COMPATIBLE_RUNTIME"
      [] outcome = "AUTH_FAILED"            -> "AUTH_REQUIRED"
      [] outcome = "RATE_LIMITED"           -> "RATE_LIMITED"
      [] outcome = "CANCELLED"              -> "CANCELLED"
      [] OTHER                              -> "OPERATIONAL_FAILURE"

-----------------------------------------------------------------------------
(* One run of a command line.  A supervised process is what the process    *)
(* tree supervisor saw of it: the fault that kept it from starting, how it *)
(* ended, and what it wrote.  stdout is a sequence of lines, stderr the    *)
(* set of markers the text holds.                                          *)

Supervised == [fault |-> None, ended |-> "exited", exit |-> 0, overflow |-> FALSE,
               stdout |-> <<>>, words |-> {}]

RunArgv(p) ==
    LET result(status, stdout) == [status |-> status, stdout |-> stdout, words |-> p.words] IN
    CASE p.fault \in {"no_executable", "not_found"} -> result("UNAVAILABLE", <<>>)
      [] p.fault = "os_error"      -> [result("PROCESS_FAILED", <<>>) EXCEPT !.words = {}]
      [] p.ended = "timed_out"     -> result("TIMED_OUT", p.stdout)
      [] p.ended = "cancelled"     -> result("CANCELLED", p.stdout)
      [] p.ended = "exited" /\ p.overflow -> result("PROTOCOL_ERROR", <<>>)
      [] p.ended = "exited" /\ ~p.overflow /\ p.exit # 0 -> result("PROCESS_FAILED", p.stdout)
      [] OTHER                     -> result("COMPLETED", p.stdout)

\* A line of stdout: text, a JSON value, or an outer object with its result_json.
Text == [json |-> "none", result |-> None]
Value == [json |-> "value", result |-> None]
Outer(result) == [json |-> "object", result |-> result]

\* _load_json_object: all of stdout, or else the last of its lines that is an object.
LoadJsonObject(lines) ==
    LET objects == SelectSeq(lines, LAMBDA l : l.json = "object") IN
    IF Len(lines) = 1 /\ lines[1].json # "none"
    THEN IF lines[1].json = "object" THEN lines[1] ELSE None
    ELSE IF objects = <<>> THEN None ELSE Last(objects)

\* _parse_structured_stdout; result_json is a record [is, value], None an outer object
\* with other keys.
ParseStructuredStdout(lines) ==
    LET outer == LoadJsonObject(lines) IN
    IF outer = None \/ (outer # None /\ (outer.result = None \/ outer.result.is # "object"))
    THEN Raises("StructuredOutputTransportError")
    ELSE Answers(outer.result.value)

\* _result_from_process.
ResultFromProcess(result) ==
    CASE result.status = "UNAVAILABLE" -> Raises("RuntimeUnavailableError")
      [] result.status = "TIMED_OUT"   -> Raises("ProviderTimeoutError")
      [] result.status = "CANCELLED"   -> Raises("RuntimeCancelledError")
      [] result.status = "PROCESS_FAILED" ->
            Raises(IF "usage" \in result.words THEN "ProviderRateLimitError"
                   ELSE IF "login" \in result.words THEN "ProviderAuthError"
                   ELSE IF "policy" \in result.words THEN "ContentPolicyBlockedError"
                   ELSE "RuntimeProcessError")
      [] OTHER -> IF result.stdout = <<>> THEN Raises("StructuredOutputTransportError")
                  ELSE ParseStructuredStdout(result.stdout)

CliMarkers == {"*", "all", "unrestricted", "shell", "yolo", "danger-full-access"}
AgentMarkers == {"*", "all", "unrestricted", "shell", "any"}
UnrestrictedMarkers == CliMarkers \cup AgentMarkers
StructuredOutput == "codex.structured_output"

\* CodexCliSessionAdapter.complete, with the capabilities and the model it was made with.
CompleteByCli(capabilities, model, process) ==
    IF StructuredOutput \notin capabilities \/ model = None THEN Raises("ModelPortError")
    ELSE IF process.fault = "no_executable" THEN Raises("RuntimeUnavailableError")
    ELSE LET result == ResultFromProcess(RunArgv(process)) IN
         IF result.error = None THEN [result EXCEPT !.model = model] ELSE result

\* CodexCliSessionAdapter and ExternalAgentRuntimeAdapter are made of a closed set only.
MayBeAgent(capabilities, markers) == capabilities # {} /\ capabilities \cap markers = {}

\* LocalModelRuntimeAdapter and ExternalAgentRuntimeAdapter: contracts without transport.
CompleteByContract == Raises("RuntimeUnavailableError")

-----------------------------------------------------------------------------
(* API adapters.  An SDK exception is the kind its class name shows, its   *)
(* error code, its HTTP status and the markers its text holds.             *)

PolicyCodes ==
    {"content_filter", "content_policy", "content_policy_violation",
     "content_policy_blocked", "safety", "safety_violation", "refusal", "moderation"}
AuthCodes ==
    {"invalid_api_key", "authentication_error", "invalid_authentication",
     "permission_error", "unauthorized", "unauthenticated"}
RateCodes ==
    {"rate_limit", "rate_limit_error", "insufficient_quota", "overloaded_error",
     "overloaded", "quota_exceeded"}

LooksLikePolicy(exc) == exc.code \in PolicyCodes \/ "policy" \in exc.words

\* classify_provider_exception: the class name first, then the code, then the status
\* and the text.
ClassifyProviderException(exc) ==
    CASE exc.class = "policy" -> "ContentPolicyBlockedError"
      [] exc.class = "auth" /\ ~LooksLikePolicy(exc) -> "ProviderAuthError"
      [] exc.class = "rate" -> "ProviderRateLimitError"
      [] exc.class = "timeout" -> "ProviderTimeoutError"
      [] exc.class \in {"auth", "other"} /\ LooksLikePolicy(exc) -> "ContentPolicyBlockedError"
      [] OTHER ->
            IF exc.code \in AuthCodes THEN "ProviderAuthError"
            ELSE IF exc.code \in RateCodes \/ exc.status = 429 \/ "rate" \in exc.words
                 THEN "ProviderRateLimitError"
            ELSE IF exc.status = 408 \/ "timeout" \in exc.words THEN "ProviderTimeoutError"
            ELSE IF exc.status = 401 \/ "auth" \in exc.words THEN "ProviderAuthError"
            ELSE "ProviderRuntimeError"

\* parse_structured_object: what a provider's text is.
ParseStructuredObject(text) ==
    IF text = None \/ (text # None /\ text.is # "object")
    THEN Raises("StructuredOutputTransportError") ELSE Answers(text.value)

\* JsonSchemaModelAdapter.complete over a transport: a transport raises an SDK
\* exception, or returns a text and the tokens [in, out] the provider counted.  They go
\* into the telemetry, and nowhere else.
CompleteByApi(adapter, response) ==
    CASE ~adapter.sdk \/ ~adapter.credential -> Raises("ProviderRuntimeError")
      [] adapter.sdk /\ adapter.credential /\ response.exception # None ->
            Raises(ClassifyProviderException(response.exception))
      [] OTHER ->
            LET result == ParseStructuredObject(response.text) IN
            IF result.error # None THEN result
            ELSE [result EXCEPT !.model = response.model, !.telemetry = response.tokens]

LiveAdapters == {"openai", "anthropic", "gemini"}

\* probe_live_adapter: why an adapter cannot be used, AVAILABLE if it can.
ProbeLiveAdapter(id, adapter) ==
    CASE id \notin LiveAdapters -> "UNKNOWN_ADAPTER"
      [] id \in LiveAdapters /\ ~adapter.sdk -> "MISSING_SDK"
      [] id \in LiveAdapters /\ adapter.sdk /\ ~adapter.credential -> "MISSING_CREDENTIAL"
      [] OTHER -> IF adapter.model = None THEN "MISSING_MODEL_ID" ELSE "AVAILABLE"

\* resolve_live_adapter: the identity of the port, None when there is none.
ResolveLiveAdapter(id, adapter) ==
    IF ProbeLiveAdapter(id, adapter) = "AVAILABLE" THEN ApiIdentity(id, id) ELSE None

-----------------------------------------------------------------------------
(* The Codex command line: its configurations and its probe.               *)

\* parse_codex_model_configurations of entries [id, model]: None when it raises.  An
\* entry without an id gets one derived from its model.
ParseCodexConfigurations(entries) ==
    LET named == [i \in DOMAIN entries |->
                      [id |-> IF entries[i].id = None THEN <<"codex-cli", entries[i].model>>
                              ELSE entries[i].id,
                       model |-> entries[i].model]]
        blank == \E i \in DOMAIN named : named[i].model = None
        twice == \E i, j \in DOMAIN named :
                    i < j /\ (named[i].id = named[j].id \/ named[i].model = named[j].model)
    IN IF blank \/ twice \/ entries = <<>> THEN None ELSE named

NotReady ==
    [installed |-> FALSE, version_known |-> FALSE, auth_ready |-> FALSE,
     dependencies_ready |-> FALSE, diagnostic_ready |-> FALSE,
     modelport_compatible |-> FALSE, benchmark_compatible |-> FALSE]

\* readiness_from_flags.
ReadinessStage(f) ==
    CASE ~f.installed                              -> "NOT_INSTALLED"
      [] f.installed /\ f.benchmark_compatible     -> "BENCHMARK_COMPATIBLE"
      [] OTHER -> IF f.modelport_compatible THEN "MODELPORT_COMPATIBLE"
                  ELSE IF f.diagnostic_ready THEN "DIAGNOSTIC_READY"
                  ELSE IF f.dependencies_ready THEN "DEPENDENCIES_READY"
                  ELSE IF f.auth_ready THEN "AUTH_READY"
                  ELSE IF f.version_known THEN "VERSION_KNOWN" ELSE "INSTALLED"

\* _probe_model_exec: the outcome of a call that asks for {"diagnostic": true}.
ProbeModelExec(configuration, process) ==
    LET call == CompleteByCli({StructuredOutput}, configuration.model, process) IN
    CASE call.error = "ModelPortError" -> "PROCESS_FAILED"
      [] call.error \notin {None, "ModelPortError"} -> RuntimeOutcomeFromException(call.error)
      [] OTHER -> IF call.output = "diagnostic" THEN "COMPLETED"
                  ELSE "STRUCTURED_OUTPUT_INVALID"

\* probe_codex_cli on a machine: whether codex is on the path, and what --version,
\* login status and a request-consuming exec of the configuration did.
ProbeCodexCli(configuration, machine, live) ==
    LET version == RunArgv(machine.version)
        auth    == RunArgv(machine.login).status = "COMPLETED"
        exec    == IF live /\ auth
                   THEN ProbeModelExec(configuration, machine.exec[configuration.model])
                   ELSE IF auth THEN "COMPLETED" ELSE "AUTH_FAILED"
        proven  == live /\ auth /\ exec = "COMPLETED"
        result(outcome, executable, flags) ==
            [available |-> flags.benchmark_compatible, outcome |-> outcome,
             executable |-> executable, stage |-> ReadinessStage(flags),
             benchmark_compatible |-> flags.benchmark_compatible,
             identity |-> CliIdentity(configuration, "codex",
                                      IF executable /\ version.status = "COMPLETED"
                                      THEN "version" ELSE None)]
    IN CASE ~machine.path -> result("UNAVAILABLE", FALSE, NotReady)
         [] machine.path /\ version.status = "UNAVAILABLE" -> result("UNAVAILABLE", TRUE, NotReady)
         [] machine.path /\ version.status = "TIMED_OUT" ->
               result("TIMED_OUT", TRUE, [NotReady EXCEPT !.installed = TRUE])
         [] machine.path /\ version.status \notin {"UNAVAILABLE", "TIMED_OUT", "COMPLETED"} ->
               result("PROCESS_FAILED", TRUE, [NotReady EXCEPT !.installed = TRUE])
         [] OTHER ->
               result(exec, TRUE,
                      [installed |-> TRUE, version_known |-> TRUE, auth_ready |-> auth,
                       dependencies_ready |-> auth, diagnostic_ready |-> proven,
                       modelport_compatible |-> proven, benchmark_compatible |-> proven])
-----------------------------------------------------------------------------
(* Discovery of the configured runtimes in an environment.                 *)

RuntimeDiscoveryEntry(kind, id, readiness, counts) ==
    [kind |-> kind, id |-> id, readiness |-> readiness, counts |-> counts]

ApiEntry(id, adapter) ==
    LET reason == ProbeLiveAdapter(id, adapter) IN
    RuntimeDiscoveryEntry("API", id,
        CASE reason = "AVAILABLE" -> "AVAILABLE"
          [] reason \in {"MISSING_CREDENTIAL", "MISSING_MODEL_ID"} -> "CONFIGURED_NOT_READY"
          [] OTHER -> "UNAVAILABLE",
        TRUE)

\* A command line counts as a runtime only once a call of it has been seen to work.
CliEntries(entries, machine, live) ==
    LET configurations == ParseCodexConfigurations(entries)
        entry(configuration) ==
            LET probe == ProbeCodexCli(configuration, machine, live) IN
            RuntimeDiscoveryEntry("CLI_SESSION", configuration.id,
                IF probe.benchmark_compatible THEN "AVAILABLE"
                ELSE IF probe.executable THEN "CONFIGURED_NOT_READY" ELSE "UNAVAILABLE",
                probe.benchmark_compatible)
    IN IF configurations = None
       THEN {RuntimeDiscoveryEntry("CLI_SESSION", "codex-cli", "CONFIGURED_NOT_READY", FALSE)}
       ELSE {entry(configurations[i]) : i \in DOMAIN configurations}

\* A runtime without transport is never AVAILABLE, whatever endpoint is configured.
ContractEntry(kind, id, endpoint) ==
    RuntimeDiscoveryEntry(kind, id,
        IF endpoint # None THEN "CONFIGURED_NOT_READY" ELSE "UNAVAILABLE", TRUE)

StrixEntry(strix) ==
    RuntimeDiscoveryEntry("STRIX", "strix",
        IF strix.healthy THEN "AVAILABLE"
        ELSE IF strix.installed THEN "CONFIGURED_NOT_READY" ELSE "UNAVAILABLE", FALSE)

DiscoverConfiguredRuntimes(env, live) ==
    {ApiEntry(id, env.api[id]) : id \in LiveAdapters}
    \cup {RuntimeDiscoveryEntry("SUBSCRIPTION_OAUTH", "subscription-oauth", "UNAVAILABLE", TRUE)}
    \cup CliEntries(env.codex, env.machine, live)
    \cup {ContractEntry("LOCAL_MODEL", "local-model", env.local),
          ContractEntry("EXTERNAL_AGENT", "external-agent", env.external),
          StrixEntry(env.strix)}

AvailableModelConfigurations(report) ==
    {e.id : e \in {r \in report : r.counts /\ r.readiness = "AVAILABLE"}}
=============================================================================
