------------------------ MODULE BrowserWorkerProcess ------------------------
(***************************************************************************)
(* PersistentBrowserWorkerAdapter, the browser worker it keeps alive across *)
(* calls, and the kernel boundary around the worker's process tree: an     *)
(* owned cgroup on Linux, a job object on Windows.                         *)
(*                                                                         *)
(* A generation is one spawn: its processes (the spawned root, the worker, *)
(* which is the root or the child of a launcher, and Chromium, which the   *)
(* worker creates), who of them is inside the boundary, and the pipes.     *)
(* Processes die at any moment; a process SIGKILL was sent to is doomed: it *)
(* runs no more code, but may take longer to go than the adapter waits.    *)
(* invoke and shutdown hold the adapter's lock, so one call is under way   *)
(* at a time.  A request the contract validator refuses, or one with no    *)
(* time left, returns before the lock and changes nothing: left out.       *)
(***************************************************************************)
EXTENDS Integers, Sequences, FiniteSets

CONSTANTS
    MaxCalls,       \* bound: calls of invoke
    MaxSpawns       \* bound: worker processes started

ASSUME WorkerAssumption == MaxCalls \in Nat /\ MaxSpawns \in Nat

VARIABLES
    host,       \* mechanism, whether the executable is a launcher, cgroup.kill
    gens,       \* the generations, in the order they were spawned
    adapter     \* the adapter's fields and where the call under way stands

vars == <<host, gens, adapter>>

Hosts == [mechanism : {"cgroup", "job"}, launcher : BOOLEAN, kill : BOOLEAN]
Root == IF host.launcher THEN "launcher" ELSE "worker"
Current == gens[adapter.gen]

\* A process that still runs code.
Runs(gen, role) == role \in gen.alive \ gen.doomed

\* A pipe end is held by the processes that inherited it: Chromium did not.
PipeHeld(gen) == gen.alive \cap {"launcher", "worker"} # {}

\* Stdin's lines: the acknowledgement, a request (its call), the shutdown.
Line(kind, call) == [kind |-> kind, call |-> call]

-----------------------------------------------------------------------------
(* The adapter. *)

Goto(pc) == adapter' = [adapter EXCEPT !.pc = pc]
Return(status) == adapter' = [adapter EXCEPT !.pc = "idle", !.status = status]

\* _kill, and then the call returns status, or goes on when status is "".
KillThen(status) == adapter' = [adapter EXCEPT !.pc = "kill", !.status = status]

At(pc) == adapter.pc = pc /\ UNCHANGED host
SetCurrent(gen) == gens' = [gens EXCEPT ![adapter.gen] = gen]

Invoke ==
    /\ At("idle") /\ adapter.call < MaxCalls
    /\ adapter' = [adapter EXCEPT !.pc = "ensure", !.call = @ + 1, !.status = ""]
    /\ UNCHANGED gens

\* _ensure_process: the process there is, if it lives.
Reuse ==
    /\ At("ensure") /\ adapter.gen # 0 /\ Root \in Current.alive
    /\ Goto("write")
    /\ UNCHANGED gens

Replace ==
    /\ At("ensure") /\ adapter.gen # 0 /\ Root \notin Current.alive
    /\ KillThen("")
    /\ UNCHANGED gens

\* Whether a worker may be started at all: never again after a failed cleanup.
MayStart == adapter.gen = 0 /\ ~adapter.failed

\* readiness, prepare or the spawn itself fails, or a cleanup did.
RefuseStart ==
    /\ At("ensure") /\ adapter.gen = 0
    /\ Return("START_FAILED")
    /\ UNCHANGED gens

\* spawn_supervised.  A job object takes the suspended root before it runs, or
\* could not be assigned; a cgroup takes nobody yet.
Start ==
    /\ At("ensure") /\ MayStart /\ Len(gens) < MaxSpawns
    /\ \E bound \in {{}} \cup (IF host.mechanism = "job" THEN {{Root}} ELSE {}) :
          gens' = Append(gens,
                    [alive |-> {Root}, doomed |-> {}, bound |-> bound, open |-> TRUE,
                     stdin |-> <<>>, stdout |-> <<>>, on |-> 0,
                     doing |-> IF host.launcher THEN "unborn" ELSE "new"])
    /\ adapter' = [adapter EXCEPT !.pc = "hello", !.gen = Len(gens) + 1]

Hello ==
    /\ At("hello") /\ Current.stdout # <<>>
    /\ SetCurrent([Current EXCEPT !.stdout = Tail(@)])
    /\ Goto("contain")

\* HANDSHAKE_TIMEOUT_SECONDS pass, or the pipe ends.
HelloLost ==
    /\ At("hello") /\ KillThen("START_FAILED") /\ UNCHANGED gens

\* posix_tree_members: who descends from a root that lives.  Chromium is a child
\* of the worker, and an orphan once the worker is gone.
Tree(gen) ==
    IF Root \notin gen.alive THEN {}
    ELSE {r \in gen.alive : r = "chromium" => "worker" \in gen.alive}

\* Mutant: only the spawned process is moved into the cgroup.
AttachedRootOnly(gen) == {Root}

\* The processes confirm_containment writes to cgroup.procs; a job's members
\* are members already.
Attached(gen) == {Root, "worker"}

\* confirm_containment.
Contain ==
    /\ At("contain")
    /\ LET worker == "worker" \in Tree(Current)
           inside == IF host.mechanism = "cgroup" THEN Attached(Current) ELSE Current.bound
       IN \/ /\ worker /\ Root \in inside
             /\ SetCurrent([Current EXCEPT !.bound = inside])
             /\ Goto("ack")
          \/ /\ \E some \in SUBSET inside :
                   SetCurrent([Current EXCEPT !.bound = IF worker THEN @ \cup some ELSE @])
             /\ KillThen("START_FAILED")

Ack ==
    /\ At("ack")
    /\ IF PipeHeld(Current)
       THEN /\ SetCurrent([Current EXCEPT !.stdin = Append(@, Line("ack", 0))])
            /\ Goto("write")
       ELSE KillThen("START_FAILED") /\ UNCHANGED gens

Write ==
    /\ At("write")
    /\ IF PipeHeld(Current)
       THEN /\ SetCurrent([Current EXCEPT !.stdin = Append(@, Line("request", adapter.call))])
            /\ Goto("read")
       ELSE KillThen("PROCESS_FAILED") /\ UNCHANGED gens

\* A line came: too long, not a WorkerResult of this request, or the result.
Read ==
    /\ At("read") /\ Current.stdout # <<>>
    /\ LET line == Head(Current.stdout)
       IN /\ SetCurrent([Current EXCEPT !.stdout = Tail(@)])
          /\ CASE line.kind = "oversize" -> KillThen("PROTOCOL_ERROR")
               [] line.kind = "invalid" \/ line.call # adapter.call -> Return("CONTRACT_INVALID")
               [] OTHER -> Return("COMPLETED")

ReadEnd ==
    /\ At("read") /\ Current.stdout = <<>> /\ ~PipeHeld(Current)
    /\ \E status \in {"PROCESS_FAILED", "PROTOCOL_ERROR"} : KillThen(status)
    /\ UNCHANGED gens

\* Mutant: no timeout at all.
NoTimeout == At("read") /\ FALSE /\ UNCHANGED <<gens, adapter>>

Timeout == At("read") /\ KillThen("TIMED_OUT") /\ UNCHANGED gens

Shutdown ==
    /\ At("idle") /\ adapter.gen # 0
    /\ IF Root \in Current.alive /\ PipeHeld(Current)
       THEN /\ SetCurrent([Current EXCEPT !.stdin = Append(@, Line("shutdown", 0))])
            /\ Goto("closing")
       ELSE KillThen("CLOSED") /\ UNCHANGED gens

\* The root exited, or SHUTDOWN_WAIT_SECONDS passed.
ShutdownEnd == At("closing") /\ KillThen("CLOSED") /\ UNCHANGED gens

-----------------------------------------------------------------------------
(* _kill: the tree, the pipes, the boundary. *)

\* gen after the processes of hit were killed, those of left still there.
Killed(gen, hit, left) ==
    [gen EXCEPT !.alive = @ \ (hit \ left), !.doomed = @ \cup left]

\* Whom terminate_tree kills.  A root that has exited leaves it nothing to do,
\* except that closing a job ends every member.
Hit(gen) ==
    IF host.mechanism = "job" /\ gen.bound # {} THEN gen.alive \cap gen.bound
    ELSE IF host.mechanism = "job" THEN gen.alive \cap {Root}
    ELSE Tree(gen)

\* cleanup_failed: a process it tracked is still alive, or the job was never
\* assigned.
KillTree ==
    /\ At("kill")
    /\ \E left \in SUBSET Hit(Current) :
          /\ SetCurrent([Killed(Current, Hit(Current), left) EXCEPT !.open = FALSE])
          /\ adapter' = [adapter EXCEPT
                !.pc = "reap",
                !.failed = \/ @
                           \/ host.mechanism = "cgroup" /\ left # {}
                           \/ host.mechanism = "job" /\ Root \in left
                           \/ host.mechanism = "job" /\ Current.bound = {}]

Released(failure) ==
    adapter' = [adapter EXCEPT !.gen = 0, !.failed = @ \/ failure,
                               !.pc = IF adapter.status = "" THEN "ensure" ELSE "idle"]

\* Mutant: the cgroup is left alone; terminate_tree was enough.
ReapNothing == At("reap") /\ Released(FALSE) /\ UNCHANGED gens

\* kill_contained and cleanup.  Without cgroup.kill (an older kernel) nobody is
\* killed; a cgroup that does not empty in time, or cannot be removed, is a
\* failure.
Reap ==
    /\ At("reap")
    /\ LET inside == IF host.mechanism = "cgroup" THEN Current.alive \cap Current.bound ELSE {}
           hit    == IF host.kill THEN inside ELSE inside \cap Current.doomed
       IN \E left \in SUBSET hit :
             /\ SetCurrent(Killed(Current, hit, left))
             /\ \/ Released((inside \ hit) \cup left # {})
                \/ host.mechanism = "cgroup" /\ Current.bound # {} /\ Released(TRUE)

-----------------------------------------------------------------------------
(* The processes of generation g. *)

Set(g, gen) == gens' = [gens EXCEPT ![g] = gen] /\ UNCHANGED <<host, adapter>>

\* The worker exits; shutdown_engine closes Chromium, if it can.
Exit(g) ==
    \E gone \in {{"worker"}, {"worker", "chromium"}} :
        Set(g, [gens[g] EXCEPT !.alive = @ \ gone, !.stdin = <<>>])

\* Children are born inside the boundary of their parent.
Born(g, child, parent) ==
    [gens[g] EXCEPT !.alive = @ \cup {child},
                    !.bound = IF parent \in @ THEN @ \cup {child} ELSE @]

Launch(g) ==
    /\ gens[g].doing = "unborn" /\ Runs(gens[g], "launcher")
    /\ Set(g, [Born(g, "worker", "launcher") EXCEPT !.doing = "new"])

\* A launcher waits for the worker it started.
LauncherEnds(g) ==
    /\ Runs(gens[g], "launcher") /\ gens[g].doing # "unborn" /\ "worker" \notin gens[g].alive
    /\ Set(g, [gens[g] EXCEPT !.alive = @ \ {"launcher"}])

Working(g, doing) == Runs(gens[g], "worker") /\ gens[g].doing = doing

\* _handshake's hello.  The pipe of a generation that was killed is closed.
Announce(g) ==
    /\ Working(g, "new")
    /\ IF gens[g].open
       THEN Set(g, [gens[g] EXCEPT !.doing = "hello", !.stdout = Append(@, Line("hello", 0))])
       ELSE Exit(g)

\* The acknowledgement is accepted, or refused: a ceiling above the declared one.
TakeAck(g) ==
    /\ Working(g, "hello") /\ gens[g].stdin # <<>>
    /\ \/ /\ Head(gens[g].stdin).kind = "ack"
          /\ Set(g, [gens[g] EXCEPT !.doing = "idle", !.stdin = Tail(@)])
       \/ Exit(g)

TakeRequest(g) ==
    /\ Working(g, "idle") /\ gens[g].stdin # <<>>
    /\ IF Head(gens[g].stdin).kind = "request"
       THEN Set(g, [gens[g] EXCEPT !.doing = "busy", !.on = Head(gens[g].stdin).call,
                                   !.stdin = Tail(@)])
       ELSE Exit(g)

EndOfInput(g) ==
    /\ Working(g, "hello") \/ Working(g, "idle")
    /\ gens[g].stdin = <<>> /\ ~gens[g].open
    /\ Exit(g)

\* _production_engine: the first browser.page request starts Chromium.
StartChromium(g) ==
    /\ Working(g, "busy") /\ "chromium" \notin gens[g].alive
    /\ Set(g, Born(g, "chromium", "worker"))

\* The result, one that breaks the contract, one beyond max_stdout_bytes; or
\* build_result or the write raises.
Answer(g) ==
    /\ Working(g, "busy")
    /\ \/ /\ gens[g].open
          /\ \E kind \in {"ok", "invalid", "oversize"} :
                Set(g, [gens[g] EXCEPT !.doing = "idle",
                                       !.stdout = Append(@, Line(kind, gens[g].on))])
       \/ Exit(g)

\* Any process may be killed from outside (OOM), and a doomed one goes at last.
Die(g) == \E r \in gens[g].alive : Set(g, [gens[g] EXCEPT !.alive = @ \ {r}])

-----------------------------------------------------------------------------
Init ==
    /\ host \in Hosts
    /\ gens = <<>>
    /\ adapter = [pc |-> "idle", call |-> 0, gen |-> 0, failed |-> FALSE, status |-> ""]

AdapterStep ==
    \/ Reuse \/ Replace \/ RefuseStart \/ Start \/ Hello \/ HelloLost \/ Contain \/ Ack
    \/ Write \/ Read \/ ReadEnd \/ Timeout \/ ShutdownEnd \/ KillTree \/ Reap

ProcessStep(g) ==
    \/ Launch(g) \/ LauncherEnds(g) \/ Announce(g) \/ TakeAck(g) \/ TakeRequest(g)
    \/ EndOfInput(g) \/ StartChromium(g) \/ Answer(g) \/ Die(g)

Next == Invoke \/ Shutdown \/ AdapterStep \/ \E g \in DOMAIN gens : ProcessStep(g)

Spec == Init /\ [][Next]_vars

\* The thread that holds the lock runs on, and every wait for a line or for the end of
\* a process has a deadline; a worker may hang for ever.  That a write to its stdin
\* returns is assumed: the code gives it no deadline, and here the pipe takes the line.
FairSpec == Spec /\ WF_vars(AdapterStep)

-----------------------------------------------------------------------------
(* Properties *)

\* When a new worker is started, nothing of an older tree runs any more, but for a
\* worker that was never acknowledged and can create no browser: the contained
\* trees do not add up beyond one ceiling.
OneTree ==
    \A g \in DOMAIN gens : g < Len(gens) =>
        /\ ~Runs(gens[g], "chromium")
        /\ Runs(gens[g], "worker") => gens[g].doing \in {"new", "hello"}

\* Chromium runs inside the kernel boundary or not at all, whoever of launcher
\* and worker died in between, and there is one such tree at a time:
\* platform/persistent_browser_worker.py _complete_containment_handshake ("Contain
\* the Worker pid before it is permitted to create Chromium").
ChromiumContained ==
    /\ \A g \in DOMAIN gens : "chromium" \in gens[g].alive => "chromium" \in gens[g].bound
    /\ OneTree

\* Between calls no worker acts on a request, none waits in its stdin and no
\* answer waits unread, so the next call reads its own answer: a timeout, a crash
\* or a broken answer cannot shift the conversation by one line.  Only an adapter
\* whose cleanup failed can leave one, and it never starts another worker.
InStep ==
    adapter.pc = "idle" /\ ~adapter.failed =>
        \A g \in DOMAIN gens : Runs(gens[g], "worker") =>
            /\ gens[g].doing # "busy"
            /\ \A i \in DOMAIN gens[g].stdin : gens[g].stdin[i].kind # "request"
            /\ g = adapter.gen => gens[g].stdout = <<>>

\* Every call returns, however the worker hangs: where the code waits for what the
\* worker says or for its end it has a deadline, and the pipe takes what it writes.
CallReturns == adapter.pc # "idle" ~> adapter.pc = "idle"
=============================================================================
