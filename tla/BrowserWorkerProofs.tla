------------------------ MODULE BrowserWorkerProofs ------------------------
(***************************************************************************)
(* The browser worker, for any number of calls and spawns, on either       *)
(* platform: Chromium never runs outside the kernel boundary, one contained *)
(* tree at a time, and every call reads its own answer.                    *)
(***************************************************************************)
EXTENDS BrowserWorkerProcess, SequenceTheorems, TLAPS

-----------------------------------------------------------------------------
(* Types.                                                                  *)

Roles  == {"launcher", "worker", "chromium"}
Doings == {"unborn", "new", "hello", "idle", "busy"}
Lines  == [kind: {"hello", "ack", "request", "shutdown", "ok", "invalid", "oversize"}, call: Nat]
Gens   == [alive: SUBSET Roles, doomed: SUBSET Roles, bound: SUBSET Roles, open: BOOLEAN,
           stdin: Seq(Lines), stdout: Seq(Lines), on: Nat, doing: Doings]
Pcs    == {"idle", "ensure", "hello", "contain", "ack", "write", "read", "closing", "kill", "reap"}
Statuses == {"", "START_FAILED", "PROCESS_FAILED", "PROTOCOL_ERROR", "CONTRACT_INVALID",
             "COMPLETED", "TIMED_OUT", "CLOSED"}
Adapters == [pc: Pcs, call: Nat, gen: Nat, failed: BOOLEAN, status: Statuses]

TypeOK ==
    /\ host \in Hosts
    /\ gens \in Seq(Gens)
    /\ adapter \in Adapters
    /\ adapter.gen \in {0, Len(gens)}
    /\ adapter.pc \notin {"idle", "ensure"} => adapter.gen # 0

-----------------------------------------------------------------------------
(* The invariant: what holds of each generation, and what the adapter knows *)
(* of the one it talks to.                                                 *)

Acknowledged(gen) == gen.doing \in {"idle", "busy"} \/ gen.stdin # <<>>

\* A worker that may be told to work is inside the boundary, and so is what it
\* starts; in a job the processes are members from the start.
Sound(gen) ==
    /\ "chromium" \in gen.alive => "chromium" \in gen.bound /\ gen.doing \in {"idle", "busy"}
    /\ Acknowledged(gen) => "worker" \in gen.bound
    /\ gen.doing \in {"unborn", "new"} => gen.stdin = <<>> /\ gen.stdout = <<>>
    /\ gen.doing = "unborn" => Root = "launcher" /\ "worker" \notin gen.alive
    /\ host.mechanism = "job" /\ gen.bound # {} =>
          Root \in gen.bound /\ (gen.doing # "unborn" => "worker" \in gen.bound)

\* What is left of a generation whose cleanup succeeded can do no work.
Quiet(gen) ==
    /\ ~gen.open
    /\ ~Runs(gen, "chromium")
    /\ Runs(gen, "worker") => gen.doing \in {"new", "hello"} /\ gen.stdin = <<>>

\* Before the hello, or with the hello in the pipe.
Greeting(gen) ==
    /\ gen.stdin = <<>>
    /\ gen.doing \in {"unborn", "new"} \/ (gen.doing = "hello" /\ Len(gen.stdout) <= 1)

Greeted(gen) == gen.doing = "hello" /\ gen.stdin = <<>> /\ gen.stdout = <<>>

\* One line to the worker, which it has not read, and no answer of it.
Sent(gen, kind) ==
    gen.doing = "hello" /\ Len(gen.stdin) = 1 /\ gen.stdin[1].kind = kind /\ gen.stdout = <<>>

Waiting(gen) == gen.doing = "idle" /\ gen.stdin = <<>> /\ gen.stdout = <<>>

\* The request of the call under way: after the acknowledgement, in the pipe, in
\* work, or answered.
Asked(gen) ==
    \/ /\ gen.doing = "hello" /\ Len(gen.stdin) = 2 /\ gen.stdin[1].kind = "ack"
       /\ gen.stdin[2].kind = "request" /\ gen.stdout = <<>>
    \/ /\ gen.doing = "idle" /\ Len(gen.stdin) = 1 /\ gen.stdin[1].kind = "request"
       /\ gen.stdout = <<>>
    \/ gen.doing = "busy" /\ gen.stdin = <<>> /\ gen.stdout = <<>>
    \/ gen.doing = "idle" /\ gen.stdin = <<>> /\ Len(gen.stdout) = 1

\* Where the conversation stands with a worker that runs.
Talk(gen, pc) ==
    CASE pc = "hello" -> Greeting(gen)
      [] pc \in {"contain", "ack"} -> Greeted(gen)
      [] pc = "write" -> Sent(gen, "ack") \/ Waiting(gen)
      [] pc = "read" -> Asked(gen)
      [] pc \in {"idle", "ensure"} -> Waiting(gen)
      [] OTHER -> TRUE

\* What the adapter may rely on of its generation.
InTouch(gen, pc) ==
    /\ Runs(gen, "worker") \/ pc = "hello" => Talk(gen, pc)
    /\ pc \in {"hello", "contain", "ack"} => gen.stdin = <<>> /\ gen.doing \notin {"idle", "busy"}
    /\ pc \in {"contain", "ack", "write", "read", "idle", "ensure", "closing"} =>
          gen.doing \notin {"unborn", "new"}
    /\ pc \in {"ack", "write", "read", "idle", "ensure", "closing"} => "worker" \in gen.bound
    /\ pc = "reap" => ~gen.open

OldQuiet ==
    \A g \in DOMAIN gens :
        g < Len(gens) \/ (adapter.gen = 0 /\ ~adapter.failed) => Quiet(gens[g])

Inv ==
    /\ TypeOK
    /\ \A g \in DOMAIN gens : Sound(gens[g])
    /\ OldQuiet
    /\ adapter.gen # 0 => InTouch(Current, adapter.pc)
    /\ adapter.pc = "reap" /\ host.mechanism = "job" /\ ~adapter.failed => Quiet(Current)

-----------------------------------------------------------------------------
(* Lemmas.                                                                 *)

LEMMA RootIs == host \in Hosts => Root \in {"launcher", "worker"}
BY DEF Root, Hosts

LEMMA CurrentIs ==
    ASSUME TypeOK, adapter.gen # 0
    PROVE  /\ adapter.gen = Len(gens) /\ adapter.gen \in DOMAIN gens /\ Current \in Gens
           /\ Len(gens) \in Nat /\ DOMAIN gens = 1..Len(gens)
<1>1. gens \in Seq(Gens) /\ adapter.gen = Len(gens)
  BY DEF TypeOK
<1>2. Len(gens) \in Nat /\ DOMAIN gens = 1..Len(gens)
  BY <1>1
<1>3. adapter.gen \in DOMAIN gens
  BY <1>1, <1>2
<1> QED
  BY <1>1, <1>2, <1>3 DEF Current

\* The adapter takes a step with its generation.
LEMMA AdapterTouch ==
    ASSUME Inv, host' = host, adapter.gen # 0,
           NEW new \in Gens, gens' = [gens EXCEPT ![adapter.gen] = new], Sound(new),
           adapter' \in Adapters, adapter'.gen = adapter.gen, InTouch(new, adapter'.pc),
           adapter'.pc = "reap" /\ host.mechanism = "job" /\ ~adapter'.failed => Quiet(new)
    PROVE  Inv'
<1> DEFINE n == Len(gens)
<1>1. /\ adapter.gen = n /\ n \in DOMAIN gens /\ n \in Nat /\ DOMAIN gens = 1..n
      /\ gens \in Seq(Gens)
  BY CurrentIs DEF Inv, TypeOK
<1> HIDE DEF n
<1>2. /\ gens' \in Seq(Gens) /\ Len(gens') = n /\ gens'[n] = new
      /\ DOMAIN gens' = DOMAIN gens /\ \A g \in DOMAIN gens \ {n} : gens'[g] = gens[g]
  BY <1>1 DEF n
<1>3. TypeOK'
  BY <1>1, <1>2 DEF Inv, TypeOK
<1>4. \A gen : Sound(gen)' = Sound(gen)
  BY DEF Sound, Root, Acknowledged
<1>5. (\A g \in DOMAIN gens : Sound(gens[g]))'
  <2> SUFFICES ASSUME NEW g \in DOMAIN gens', NEW gen, gen = gens'[g]
               PROVE  Sound(gen)'
    BY DEF Sound, Acknowledged
  <2>1. Sound(gen)
    BY <1>2 DEF Inv
  <2> QED
    BY <1>4, <2>1
<1>6. \A g \in DOMAIN gens : g < n => Quiet(gens[g])
  BY <1>1 DEF Inv, OldQuiet, n
<1>7. OldQuiet'
  <2>1. \A g \in DOMAIN gens' : g < n => Quiet(gens'[g])
    BY <1>1, <1>2, <1>6
  <2>2. Len(gens') = n /\ adapter'.gen # 0
    BY <1>2
  <2> QED
    BY <2>1, <2>2 DEF OldQuiet, Quiet, Runs
<1>8. gens'[adapter'.gen] = new
  BY <1>1, <1>2
<1>9. (adapter.gen # 0 => InTouch(Current, adapter.pc))'
  BY <1>8 DEF Current, InTouch, Talk, Greeting, Greeted, Sent, Waiting, Asked, Runs
<1>10. (adapter.pc = "reap" /\ host.mechanism = "job" /\ ~adapter.failed => Quiet(Current))'
  BY <1>8 DEF Current, Quiet, Runs
<1> QED
  BY <1>3, <1>5, <1>7, <1>9, <1>10 DEF Inv

\* The adapter takes a step that leaves its generation alone.
LEMMA AdapterAlone ==
    ASSUME Inv, UNCHANGED <<host, gens>>, adapter' \in Adapters,
           adapter'.gen = adapter.gen, adapter'.failed = adapter.failed,
           adapter'.pc \notin {"idle", "ensure"} => adapter.gen # 0,
           adapter'.pc # "reap", adapter.gen # 0 => InTouch(Current, adapter'.pc)
    PROVE  Inv'
<1>1. TypeOK'
  BY DEF Inv, TypeOK
<1>2. OldQuiet'
  BY DEF Inv, OldQuiet, Quiet, Runs
<1>3. (\A g \in DOMAIN gens : Sound(gens[g]))'
  BY DEF Inv, Sound, Root, Acknowledged
<1>4. Current' = Current
  BY DEF Current
<1>5. (adapter.gen # 0 => InTouch(Current, adapter.pc))'
  BY <1>4 DEF InTouch, Talk, Greeting, Greeted, Sent, Waiting, Asked, Runs
<1> QED
  BY <1>1, <1>2, <1>3, <1>5 DEF Inv

\* The adapter kills its generation: nothing is relied on any more.
LEMMA AdapterKills ==
    ASSUME Inv, UNCHANGED <<host, gens>>, adapter.gen # 0, NEW status \in Statuses,
           KillThen(status)
    PROVE  Inv'
<1>1. adapter' \in Adapters /\ adapter'.gen = adapter.gen /\ adapter'.failed = adapter.failed
      /\ adapter'.pc = "kill"
  BY DEF Inv, TypeOK, Adapters, KillThen, Pcs
<1>2. InTouch(Current, "kill")
  BY DEF InTouch, Talk
<1> QED
  BY <1>1, <1>2, AdapterAlone

LEMMA AdapterMoves ==
    ASSUME Inv, UNCHANGED <<host, gens>>, NEW pc \in Pcs \ {"reap"}, NEW status \in Statuses,
           adapter' = [adapter EXCEPT !.pc = pc, !.status = status],
           adapter.gen # 0 => InTouch(Current, pc),
           pc \notin {"idle", "ensure"} => adapter.gen # 0
    PROVE  Inv'
<1>1. adapter' \in Adapters /\ adapter'.gen = adapter.gen /\ adapter'.failed = adapter.failed
      /\ adapter'.pc = pc
  BY DEF Inv, TypeOK, Adapters
<1> QED
  BY <1>1, AdapterAlone

-----------------------------------------------------------------------------
(* The steps of the adapter.                                               *)

LEMMA InvokeStep ==
    ASSUME Inv, Invoke
    PROVE  Inv'
<1>1. /\ UNCHANGED <<host, gens>> /\ adapter.pc = "idle"
      /\ adapter' = [adapter EXCEPT !.pc = "ensure", !.call = @ + 1, !.status = ""]
  BY DEF Invoke, At
<1>2. /\ adapter' \in Adapters /\ adapter'.gen = adapter.gen /\ adapter'.failed = adapter.failed
      /\ adapter'.pc = "ensure"
  <2>1. adapter \in Adapters
    BY DEF Inv, TypeOK
  <2> DEFINE n == adapter.call + 1
  <2>2. n \in Nat
    BY <2>1 DEF Adapters
  <2>3. adapter' = [adapter EXCEPT !.pc = "ensure", !.call = n, !.status = ""]
    BY <1>1, <2>1 DEF Adapters
  <2> HIDE DEF n
  <2> QED
    BY <2>1, <2>2, <2>3 DEF Adapters, Pcs, Statuses
<1>3. adapter.gen # 0 => InTouch(Current, "ensure")
  BY <1>1 DEF Inv, InTouch, Talk
<1> QED
  BY <1>1, <1>2, <1>3, AdapterAlone

LEMMA QuietAdapterSteps ==
    ASSUME Inv, Reuse \/ Replace \/ RefuseStart \/ HelloLost \/ ReadEnd \/ Timeout \/ ShutdownEnd
    PROVE  Inv'
<1>1. UNCHANGED <<host, gens>>
  BY DEF Reuse, Replace, RefuseStart, HelloLost, ReadEnd, Timeout, ShutdownEnd, At
<1>2. adapter \in Adapters /\ adapter.status \in Statuses
  BY DEF Inv, TypeOK, Adapters
<1>3. CASE Reuse
  <2>1. adapter.pc = "ensure" /\ adapter.gen # 0 /\ adapter' = [adapter EXCEPT !.pc = "write"]
    BY <1>3 DEF Reuse, At, Goto
  <2>2. InTouch(Current, "write")
    BY <2>1 DEF Inv, InTouch, Talk
  <2>3. adapter' \in Adapters /\ adapter'.gen = adapter.gen /\ adapter'.failed = adapter.failed
        /\ adapter'.pc = "write"
    BY <1>2, <2>1 DEF Adapters, Pcs
  <2> QED
    BY <1>1, <2>1, <2>2, <2>3, AdapterAlone
<1>4. CASE Replace \/ HelloLost \/ ReadEnd \/ Timeout \/ ShutdownEnd
  <2>1. adapter.gen # 0
    BY <1>4 DEF Replace, HelloLost, ReadEnd, Timeout, ShutdownEnd, At, Inv, TypeOK
  <2>2. \E status \in Statuses : KillThen(status)
    BY <1>4 DEF Replace, HelloLost, ReadEnd, Timeout, ShutdownEnd, Statuses
  <2> QED
    BY <1>1, <2>1, <2>2, AdapterKills
<1>5. CASE RefuseStart
  <2>1. adapter.gen = 0 /\ adapter' = [adapter EXCEPT !.pc = "idle", !.status = "START_FAILED"]
    BY <1>5 DEF RefuseStart, Return
  <2> QED
    BY <1>1, <2>1, AdapterMoves DEF Pcs, Statuses
<1> QED
  BY <1>3, <1>4, <1>5

\* A new worker is started only where nothing of the older ones can work.
LEMMA StartStep ==
    ASSUME Inv, Start
    PROVE  Inv'
<1>1. /\ host' = host /\ adapter.gen = 0 /\ ~adapter.failed
      /\ adapter' = [adapter EXCEPT !.pc = "hello", !.gen = Len(gens) + 1]
  BY DEF Start, At, MayStart
<1>2. PICK bound \in SUBSET {Root} :
         /\ gens' = Append(gens,
                      [alive |-> {Root}, doomed |-> {}, bound |-> bound, open |-> TRUE,
                       stdin |-> <<>>, stdout |-> <<>>, on |-> 0,
                       doing |-> IF host.launcher THEN "unborn" ELSE "new"])
         /\ bound # {} => host.mechanism = "job"
  BY DEF Start
<1> DEFINE new == [alive |-> {Root}, doomed |-> {}, bound |-> bound, open |-> TRUE,
                   stdin |-> <<>>, stdout |-> <<>>, on |-> 0,
                   doing |-> IF host.launcher THEN "unborn" ELSE "new"]
           n == Len(gens) + 1
<1>3. Root \in Roles /\ host \in Hosts /\ gens \in Seq(Gens) /\ adapter \in Adapters
  BY RootIs DEF Inv, TypeOK, Roles
<1>4. new \in Gens
  BY <1>3 DEF Gens, Roles, Doings
<1>5. /\ new.alive = {Root} /\ new.bound = bound /\ new.stdin = <<>> /\ new.stdout = <<>>
      /\ new.doing = IF host.launcher THEN "unborn" ELSE "new"
  OBVIOUS
<1>6. gens' = Append(gens, new)
  BY <1>2
<1> HIDE DEF new
<1>7. Sound(new)
  <2>1. CASE host.launcher
    <3>1. Root = "launcher"
      BY <2>1 DEF Root
    <3> QED
      BY <1>2, <1>5, <2>1, <3>1 DEF Sound, Acknowledged
  <2>2. CASE ~host.launcher
    <3>1. Root = "worker"
      BY <2>2 DEF Root
    <3> QED
      BY <1>2, <1>5, <2>2, <3>1 DEF Sound, Acknowledged
  <2> QED
    BY <2>1, <2>2
<1>8. InTouch(new, "hello")
  BY <1>5 DEF InTouch, Talk, Greeting
<1>9. /\ n \in Nat /\ n # 0 /\ Len(gens') = n /\ gens' \in Seq(Gens) /\ gens'[n] = new
      /\ DOMAIN gens' = DOMAIN gens \cup {n} /\ n \notin DOMAIN gens
      /\ \A g \in DOMAIN gens : gens'[g] = gens[g] /\ g < n
  BY <1>3, <1>4, <1>6
<1> HIDE DEF n
<1>10. /\ adapter' \in Adapters /\ adapter'.gen = n /\ adapter'.pc = "hello"
  BY <1>1, <1>3, <1>9 DEF Adapters, Pcs, n
<1>11. TypeOK'
  BY <1>1, <1>3, <1>9, <1>10 DEF TypeOK
<1>12. \A gen : Sound(gen)' = Sound(gen)
  BY <1>1 DEF Sound, Root, Acknowledged
<1>13. (\A g \in DOMAIN gens : Sound(gens[g]))'
  <2> SUFFICES ASSUME NEW g \in DOMAIN gens', NEW gen, gen = gens'[g]
               PROVE  Sound(gen)'
    BY DEF Sound, Acknowledged
  <2>1. Sound(gen)
    BY <1>7, <1>9 DEF Inv
  <2> QED
    BY <1>12, <2>1
<1>14. OldQuiet'
  <2>1. \A g \in DOMAIN gens : Quiet(gens[g])
    BY <1>1 DEF Inv, OldQuiet
  <2>2. \A g \in DOMAIN gens' : g < n => Quiet(gens'[g])
    BY <1>9, <2>1
  <2>3. Len(gens') = n /\ adapter'.gen # 0
    BY <1>9, <1>10
  <2> QED
    BY <2>2, <2>3 DEF OldQuiet, Quiet, Runs
<1>15. gens'[adapter'.gen] = new
  BY <1>9, <1>10
<1>16. (adapter.gen # 0 => InTouch(Current, adapter.pc))'
  BY <1>8, <1>10, <1>15 DEF Current, InTouch, Talk, Greeting, Greeted, Sent, Waiting, Asked, Runs
<1> QED
  BY <1>10, <1>11, <1>13, <1>14, <1>16 DEF Inv

\* What a step of the adapter with its generation starts from.
LEMMA InHand ==
    ASSUME Inv, adapter.gen # 0
    PROVE  /\ Current \in Gens /\ Sound(Current) /\ InTouch(Current, adapter.pc)
           /\ adapter \in Adapters /\ host \in Hosts
BY CurrentIs DEF Inv, TypeOK, Current

LEMMA HelloStep ==
    ASSUME Inv, Hello
    PROVE  Inv'
<1> DEFINE gen == Current
           new == [gen EXCEPT !.stdout = Tail(@)]
<1>1. /\ host' = host /\ adapter.pc = "hello" /\ adapter.gen # 0 /\ gen.stdout # <<>>
      /\ gens' = [gens EXCEPT ![adapter.gen] = new] /\ adapter' = [adapter EXCEPT !.pc = "contain"]
  BY DEF Hello, At, SetCurrent, Goto, Inv, TypeOK
<1>2. gen \in Gens /\ Sound(gen) /\ InTouch(gen, "hello") /\ adapter \in Adapters
  BY <1>1, InHand
<1>3. gen.stdout \in Seq(Lines)
  BY <1>2 DEF Gens
<1> HIDE DEF gen
<1>4. Tail(gen.stdout) \in Seq(Lines) /\ Len(Tail(gen.stdout)) = Len(gen.stdout) - 1
      /\ Len(gen.stdout) \in Nat
  BY <1>1, <1>3
<1>5. /\ new \in Gens /\ new.stdout = Tail(gen.stdout) /\ new.stdin = gen.stdin
      /\ new.doing = gen.doing /\ new.alive = gen.alive /\ new.bound = gen.bound
      /\ new.doomed = gen.doomed
  BY <1>2, <1>4 DEF Gens
<1> HIDE DEF new
<1>6. gen.doing \notin {"unborn", "new"}
  BY <1>1, <1>2 DEF Sound
<1>7. Sound(new)
  BY <1>2, <1>5, <1>6 DEF Sound, Acknowledged
<1>8. gen.doing = "hello" /\ Len(gen.stdout) <= 1 /\ gen.stdin = <<>>
  BY <1>2, <1>6 DEF InTouch, Talk, Greeting
<1>9. new.stdout = <<>>
  BY <1>4, <1>5, <1>8, EmptySeq
<1>10. InTouch(new, "contain")
  BY <1>5, <1>8, <1>9 DEF InTouch, Talk, Greeted
<1>11. adapter' \in Adapters /\ adapter'.gen = adapter.gen /\ adapter'.pc = "contain"
  BY <1>1, <1>2 DEF Adapters, Pcs
<1> QED
  BY <1>1, <1>5, <1>7, <1>10, <1>11, AdapterTouch

\* confirm_containment: after it the worker is inside the boundary.
LEMMA ContainStep ==
    ASSUME Inv, Contain
    PROVE  Inv'
<1> DEFINE gen == Current
           worker == "worker" \in Tree(gen)
           inside == IF host.mechanism = "cgroup" THEN Attached(gen) ELSE gen.bound
<1>1. /\ host' = host /\ adapter.pc = "contain" /\ adapter.gen # 0
  BY DEF Contain, At, Inv, TypeOK
<1>2. /\ gen \in Gens /\ Sound(gen) /\ InTouch(gen, "contain") /\ adapter \in Adapters
      /\ host \in Hosts
  BY <1>1, InHand
<1>3. Root \in {"launcher", "worker"} /\ gen.bound \subseteq Roles
  BY <1>2, RootIs DEF Gens
<1>4. \/ /\ worker /\ Root \in inside
         /\ gens' = [gens EXCEPT ![adapter.gen] = [gen EXCEPT !.bound = inside]]
         /\ adapter' = [adapter EXCEPT !.pc = "ack"]
      \/ /\ \E some \in SUBSET inside :
               gens' = [gens EXCEPT ![adapter.gen] =
                          [gen EXCEPT !.bound = IF worker THEN @ \cup some ELSE @]]
         /\ KillThen("START_FAILED")
  BY DEF Contain, SetCurrent, Goto
<1>5. inside \subseteq Roles
  BY <1>3 DEF Attached, Roles
<1>6. worker => "worker" \in gen.alive
  BY DEF Tree
<1>7. /\ gen.stdin = <<>> /\ gen.doing \notin {"idle", "busy", "unborn", "new"}
      /\ "chromium" \notin gen.alive
  BY <1>2 DEF InTouch, Sound
<1>8. host.mechanism = "job" => inside = gen.bound
  BY DEF Hosts
<1>9. host.mechanism # "job" => inside = {Root, "worker"}
  BY <1>2 DEF Hosts, Attached
<1>10. ASSUME NEW bound \in SUBSET Roles
       PROVE  LET new == [gen EXCEPT !.bound = bound]
              IN /\ new \in Gens /\ new.bound = bound /\ new.stdin = gen.stdin
                 /\ new.stdout = gen.stdout /\ new.doing = gen.doing
                 /\ new.alive = gen.alive /\ new.doomed = gen.doomed
  BY <1>2 DEF Gens
<1> HIDE DEF gen, worker, inside
<1>11. ASSUME NEW bound \in SUBSET Roles, host.mechanism = "job" => bound = gen.bound
       PROVE  Sound([gen EXCEPT !.bound = bound])
  <2> DEFINE new == [gen EXCEPT !.bound = bound]
  <2>1. /\ new.bound = bound /\ new.stdin = gen.stdin /\ new.stdout = gen.stdout
        /\ new.doing = gen.doing /\ new.alive = gen.alive
    BY <1>10
  <2> HIDE DEF new
  <2>2. Sound(new)
    BY <1>2, <1>7, <1>11, <2>1 DEF Sound, Acknowledged
  <2> QED
    BY <2>2 DEF new
<1>12. CASE /\ worker /\ Root \in inside
            /\ gens' = [gens EXCEPT ![adapter.gen] = [gen EXCEPT !.bound = inside]]
            /\ adapter' = [adapter EXCEPT !.pc = "ack"]
  <2> DEFINE new == [gen EXCEPT !.bound = inside]
  <2>1. /\ new \in Gens /\ new.bound = inside /\ new.stdin = gen.stdin /\ new.stdout = gen.stdout
        /\ new.doing = gen.doing /\ new.alive = gen.alive /\ new.doomed = gen.doomed
    BY <1>5, <1>10
  <2>2. Sound(new)
    BY <1>5, <1>8, <1>11
  <2> HIDE DEF new
  <2>3. "worker" \in inside
    BY <1>2, <1>7, <1>8, <1>9, <1>12 DEF Sound
  <2>4. InTouch(new, "ack")
    BY <1>2, <1>7, <2>1, <2>3 DEF InTouch, Talk, Greeted, Runs
  <2>5. adapter' \in Adapters /\ adapter'.gen = adapter.gen /\ adapter'.pc = "ack"
    BY <1>2, <1>12 DEF Adapters, Pcs
  <2>6. gens' = [gens EXCEPT ![adapter.gen] = new]
    BY <1>12 DEF new
  <2> QED
    BY <1>1, <2>1, <2>2, <2>4, <2>5, <2>6, AdapterTouch
<1>13. ASSUME NEW some \in SUBSET inside,
              gens' = [gens EXCEPT ![adapter.gen] =
                         [gen EXCEPT !.bound = IF worker THEN @ \cup some ELSE @]],
              KillThen("START_FAILED")
       PROVE  Inv'
  <2> DEFINE bound == IF worker THEN gen.bound \cup some ELSE gen.bound
             new == [gen EXCEPT !.bound = bound]
  <2>1. bound \in SUBSET Roles /\ (host.mechanism = "job" => bound = gen.bound)
    BY <1>3, <1>5, <1>8 DEF gen
  <2>2. new \in Gens /\ Sound(new)
    BY <1>10, <1>11, <2>1
  <2>3. gens' = [gens EXCEPT ![adapter.gen] = new]
    BY <1>2, <1>13 DEF Gens
  <2> HIDE DEF new
  <2>4. InTouch(new, "kill")
    BY DEF InTouch, Talk
  <2>5. adapter' \in Adapters /\ adapter'.gen = adapter.gen /\ adapter'.pc = "kill"
    BY <1>2, <1>13 DEF Adapters, Pcs, Statuses, KillThen
  <2> QED
    BY <1>1, <2>2, <2>3, <2>4, <2>5, AdapterTouch
<1> QED
  BY <1>4, <1>12, <1>13

\* The generation with another line for the worker.
LEMMA LineSent ==
    ASSUME NEW gen \in Gens, NEW line \in Lines, NEW new, new = [gen EXCEPT !.stdin = Append(@, line)]
    PROVE  /\ new \in Gens /\ new.stdout = gen.stdout /\ new.doing = gen.doing
           /\ new.alive = gen.alive /\ new.bound = gen.bound /\ new.doomed = gen.doomed
           /\ new.open = gen.open
           /\ gen.stdin \in Seq(Lines) /\ new.stdin = Append(gen.stdin, line)
           /\ new.stdin # <<>> /\ Len(gen.stdin) \in Nat
           /\ Len(new.stdin) = Len(gen.stdin) + 1 /\ new.stdin[Len(gen.stdin) + 1] = line
           /\ \A i \in 1..Len(gen.stdin) : new.stdin[i] = gen.stdin[i]
<1>1. gen.stdin \in Seq(Lines)
  BY DEF Gens
<1>2. /\ Append(gen.stdin, line) \in Seq(Lines) /\ Append(gen.stdin, line) # <<>>
      /\ Len(gen.stdin) \in Nat /\ Len(Append(gen.stdin, line)) = Len(gen.stdin) + 1
      /\ Append(gen.stdin, line)[Len(gen.stdin) + 1] = line
      /\ \A i \in 1..Len(gen.stdin) : Append(gen.stdin, line)[i] = gen.stdin[i]
  BY <1>1, AppendProperties
<1> DEFINE more == Append(gen.stdin, line)
<1>3. new = [gen EXCEPT !.stdin = more]
  OBVIOUS
<1> HIDE DEF more
<1>4. /\ more \in Seq(Lines)
  BY <1>2 DEF more
<1>5. /\ new \in Gens /\ new.stdout = gen.stdout /\ new.doing = gen.doing
      /\ new.alive = gen.alive /\ new.bound = gen.bound /\ new.doomed = gen.doomed
      /\ new.open = gen.open /\ new.stdin = more
  BY <1>3, <1>4 DEF Gens
<1> QED
  BY <1>1, <1>2, <1>5 DEF more

LEMMA AckStep ==
    ASSUME Inv, Ack
    PROVE  Inv'
<1> DEFINE gen == Current
           new == [gen EXCEPT !.stdin = Append(@, Line("ack", 0))]
<1>1. host' = host /\ adapter.pc = "ack" /\ adapter.gen # 0
  BY DEF Ack, At, Inv, TypeOK
<1>2. gen \in Gens /\ Sound(gen) /\ InTouch(gen, "ack") /\ adapter \in Adapters
  BY <1>1, InHand
<1>3. CASE ~PipeHeld(gen)
  <2>1. KillThen("START_FAILED") /\ gens' = gens
    BY <1>3 DEF Ack
  <2> QED
    BY <1>1, <2>1, AdapterKills DEF Statuses
<1>4. CASE PipeHeld(gen)
  <2>1. gens' = [gens EXCEPT ![adapter.gen] = new] /\ adapter' = [adapter EXCEPT !.pc = "write"]
    BY <1>4 DEF Ack, SetCurrent, Goto
  <2>2. Line("ack", 0) \in Lines /\ Line("ack", 0).kind = "ack"
    BY DEF Line, Lines
  <2> DEFINE line == Line("ack", 0)
  <2> HIDE DEF line, gen
  <2>3. new = [gen EXCEPT !.stdin = Append(@, line)]
    BY DEF line
  <2> HIDE DEF new
  <2>4. /\ new \in Gens /\ new.stdout = gen.stdout /\ new.doing = gen.doing
        /\ new.alive = gen.alive /\ new.bound = gen.bound /\ new.doomed = gen.doomed
        /\ new.stdin # <<>> /\ Len(new.stdin) = Len(gen.stdin) + 1
        /\ new.stdin[Len(gen.stdin) + 1] = line
    BY <1>2, <2>2, <2>3, LineSent DEF line
  <2>5. gen.stdin = <<>> /\ gen.doing \notin {"unborn", "new"} /\ "worker" \in gen.bound
    BY <1>2 DEF InTouch
  <2>6. Len(new.stdin) = 1 /\ new.stdin[1].kind = "ack"
    BY <2>2, <2>4, <2>5 DEF line
  <2>7. Sound(new)
    BY <1>2, <2>4, <2>5 DEF Sound, Acknowledged
  <2>8. InTouch(new, "write")
    BY <1>2, <2>4, <2>5, <2>6 DEF InTouch, Talk, Greeted, Sent, Runs
  <2>9. adapter' \in Adapters /\ adapter'.gen = adapter.gen /\ adapter'.pc = "write"
    BY <1>2, <2>1 DEF Adapters, Pcs
  <2> QED
    BY <1>1, <2>1, <2>4, <2>7, <2>8, <2>9, AdapterTouch
<1> QED
  BY <1>3, <1>4

LEMMA WriteStep ==
    ASSUME Inv, Write
    PROVE  Inv'
<1> DEFINE gen == Current
           line == Line("request", adapter.call)
           new == [gen EXCEPT !.stdin = Append(@, line)]
<1>1. host' = host /\ adapter.pc = "write" /\ adapter.gen # 0
  BY DEF Write, At, Inv, TypeOK
<1>2. gen \in Gens /\ Sound(gen) /\ InTouch(gen, "write") /\ adapter \in Adapters
  BY <1>1, InHand
<1>3. CASE ~PipeHeld(gen)
  <2>1. KillThen("PROCESS_FAILED") /\ gens' = gens
    BY <1>3 DEF Write
  <2> QED
    BY <1>1, <2>1, AdapterKills DEF Statuses
<1>4. CASE PipeHeld(gen)
  <2>1. gens' = [gens EXCEPT ![adapter.gen] = new] /\ adapter' = [adapter EXCEPT !.pc = "read"]
    BY <1>4 DEF Write, SetCurrent, Goto
  <2>2. line \in Lines /\ line.kind = "request"
    BY <1>2 DEF Line, Lines, Adapters
  <2> HIDE DEF line, gen, new
  <2>4. /\ new \in Gens /\ new.stdout = gen.stdout /\ new.doing = gen.doing
        /\ new.alive = gen.alive /\ new.bound = gen.bound /\ new.doomed = gen.doomed
        /\ new.stdin # <<>> /\ Len(new.stdin) = Len(gen.stdin) + 1
        /\ new.stdin[Len(gen.stdin) + 1] = line /\ Len(gen.stdin) \in Nat
        /\ \A i \in 1..Len(gen.stdin) : new.stdin[i] = gen.stdin[i]
    BY <1>2, <2>2, LineSent DEF new
  <2>5. gen.doing \notin {"unborn", "new"} /\ "worker" \in gen.bound
    BY <1>2 DEF InTouch
  <2>6. Sound(new)
    BY <1>2, <2>4, <2>5 DEF Sound, Acknowledged
  <2>7. Runs(new, "worker") => Asked(new)
    <3> SUFFICES ASSUME Runs(gen, "worker") PROVE Asked(new)
      BY <2>4 DEF Runs
    <3>1. CASE Sent(gen, "ack")
      <4>1. Len(gen.stdin) = 1 /\ gen.stdin[1].kind = "ack" /\ gen.doing = "hello"
            /\ gen.stdout = <<>>
        BY <3>1 DEF Sent
      <4>2. Len(new.stdin) = 2 /\ new.stdin[1].kind = "ack" /\ new.stdin[2].kind = "request"
        BY <2>2, <2>4, <4>1
      <4> QED
        BY <2>4, <4>1, <4>2 DEF Asked
    <3>2. CASE Waiting(gen)
      <4>1. gen.stdin = <<>> /\ gen.doing = "idle" /\ gen.stdout = <<>>
        BY <3>2 DEF Waiting
      <4>2. Len(new.stdin) = 1 /\ new.stdin[1].kind = "request"
        BY <2>2, <2>4, <4>1
      <4> QED
        BY <2>4, <4>1, <4>2 DEF Asked
    <3> QED
      BY <1>2, <3>1, <3>2 DEF InTouch, Talk
  <2>8. InTouch(new, "read")
    BY <2>4, <2>5, <2>7 DEF InTouch, Talk
  <2>9. adapter' \in Adapters /\ adapter'.gen = adapter.gen /\ adapter'.pc = "read"
    BY <1>2, <2>1 DEF Adapters, Pcs
  <2> QED
    BY <1>1, <2>1, <2>4, <2>6, <2>8, <2>9, AdapterTouch
<1> QED
  BY <1>3, <1>4

LEMMA ReadStep ==
    ASSUME Inv, Read
    PROVE  Inv'
<1> DEFINE gen == Current
           new == [gen EXCEPT !.stdout = Tail(@)]
<1>1. /\ host' = host /\ adapter.pc = "read" /\ adapter.gen # 0 /\ gen.stdout # <<>>
      /\ gens' = [gens EXCEPT ![adapter.gen] = new]
  BY DEF Read, At, SetCurrent, Inv, TypeOK
<1>2. gen \in Gens /\ Sound(gen) /\ InTouch(gen, "read") /\ adapter \in Adapters
  BY <1>1, InHand
<1>3. KillThen("PROTOCOL_ERROR") \/ Return("CONTRACT_INVALID") \/ Return("COMPLETED")
  BY DEF Read
<1>4. PICK pc \in {"kill", "idle"} :
         adapter' \in Adapters /\ adapter'.gen = adapter.gen /\ adapter'.pc = pc
  BY <1>2, <1>3 DEF KillThen, Return, Adapters, Pcs, Statuses
<1> HIDE DEF gen
<1>5. gen.stdout \in Seq(Lines)
  BY <1>2 DEF Gens
<1>6. Tail(gen.stdout) \in Seq(Lines) /\ Len(Tail(gen.stdout)) = Len(gen.stdout) - 1
      /\ Len(gen.stdout) \in Nat
  BY <1>1, <1>5
<1>7. /\ new \in Gens /\ new.stdout = Tail(gen.stdout) /\ new.stdin = gen.stdin
      /\ new.doing = gen.doing /\ new.alive = gen.alive /\ new.bound = gen.bound
      /\ new.doomed = gen.doomed
  BY <1>2, <1>6 DEF Gens
<1> HIDE DEF new
<1>8. gen.doing \notin {"unborn", "new"} /\ "worker" \in gen.bound
  BY <1>2 DEF InTouch
<1>9. Sound(new)
  BY <1>2, <1>7, <1>8 DEF Sound, Acknowledged
<1>10. Runs(new, "worker") => Waiting(new)
  <2> SUFFICES ASSUME Runs(gen, "worker") PROVE Waiting(new)
    BY <1>7 DEF Runs
  <2>1. Asked(gen)
    BY <1>2 DEF InTouch, Talk
  <2>2. gen.doing = "idle" /\ gen.stdin = <<>> /\ Len(gen.stdout) = 1
    BY <1>1, <2>1 DEF Asked
  <2>3. new.stdout = <<>>
    <3>1. Len(Tail(gen.stdout)) = 0
      BY <1>6, <2>2
    <3> QED
      BY <1>6, <1>7, <3>1, EmptySeq
  <2> QED
    BY <1>7, <2>2, <2>3 DEF Waiting
<1>11. InTouch(new, pc)
  BY <1>7, <1>8, <1>10 DEF InTouch, Talk
<1>12. pc # "reap"
  OBVIOUS
<1> QED
  BY <1>1, <1>4, <1>7, <1>9, <1>11, <1>12, AdapterTouch

LEMMA ShutdownStep ==
    ASSUME Inv, Shutdown
    PROVE  Inv'
<1> DEFINE gen == Current
           line == Line("shutdown", 0)
           new == [gen EXCEPT !.stdin = Append(@, line)]
<1>1. host' = host /\ adapter.pc = "idle" /\ adapter.gen # 0
  BY DEF Shutdown, At
<1>2. gen \in Gens /\ Sound(gen) /\ InTouch(gen, "idle") /\ adapter \in Adapters
  BY <1>1, InHand
<1>3. CASE ~(Root \in gen.alive /\ PipeHeld(gen))
  <2>1. KillThen("CLOSED") /\ gens' = gens
    BY <1>3 DEF Shutdown
  <2> QED
    BY <1>1, <2>1, AdapterKills DEF Statuses
<1>4. CASE Root \in gen.alive /\ PipeHeld(gen)
  <2>1. gens' = [gens EXCEPT ![adapter.gen] = new] /\ adapter' = [adapter EXCEPT !.pc = "closing"]
    BY <1>4 DEF Shutdown, SetCurrent, Goto
  <2>2. line \in Lines
    BY DEF Line, Lines
  <2> HIDE DEF line, gen, new
  <2>3. /\ new \in Gens /\ new.stdout = gen.stdout /\ new.doing = gen.doing
        /\ new.alive = gen.alive /\ new.bound = gen.bound /\ new.doomed = gen.doomed
        /\ new.stdin # <<>>
    BY <1>2, <2>2, LineSent DEF new
  <2>4. gen.doing \notin {"unborn", "new"} /\ "worker" \in gen.bound
    BY <1>2 DEF InTouch
  <2>5. Sound(new)
    BY <1>2, <2>3, <2>4 DEF Sound, Acknowledged
  <2>6. InTouch(new, "closing")
    BY <2>3, <2>4 DEF InTouch, Talk
  <2>7. adapter' \in Adapters /\ adapter'.gen = adapter.gen /\ adapter'.pc = "closing"
    BY <1>2, <2>1 DEF Adapters, Pcs
  <2> QED
    BY <1>1, <2>1, <2>3, <2>5, <2>6, <2>7, AdapterTouch
<1> QED
  BY <1>3, <1>4

\* A generation of which some processes were killed, and some are only doomed.
LEMMA KilledIs ==
    ASSUME NEW gen \in Gens, NEW hit, NEW left \in SUBSET hit, hit \subseteq gen.alive,
           NEW new, new = Killed(gen, hit, left)
    PROVE  /\ new \in Gens /\ new.alive = gen.alive \ (hit \ left)
           /\ new.doomed = gen.doomed \cup left /\ new.bound = gen.bound
           /\ new.stdin = gen.stdin /\ new.stdout = gen.stdout /\ new.doing = gen.doing
           /\ new.open = gen.open
           /\ \A role : Runs(new, role) => Runs(gen, role) /\ role \notin hit
           /\ Sound(gen) => Sound(new)
<1> DEFINE alive == gen.alive \ (hit \ left)
           doomed == gen.doomed \cup left
<1>1. alive \in SUBSET Roles /\ doomed \in SUBSET Roles
  BY DEF Gens
<1>2. new = [gen EXCEPT !.alive = alive, !.doomed = doomed]
  BY DEF Killed, Gens
<1> HIDE DEF alive, doomed
<1>3. /\ new \in Gens /\ new.alive = alive /\ new.doomed = doomed /\ new.bound = gen.bound
      /\ new.stdin = gen.stdin /\ new.stdout = gen.stdout /\ new.doing = gen.doing
      /\ new.open = gen.open
  BY <1>1, <1>2 DEF Gens
<1>4. \A role : Runs(new, role) => Runs(gen, role) /\ role \notin hit
  BY <1>3 DEF Runs, alive, doomed
<1>5. Sound(gen) => Sound(new)
  BY <1>3 DEF Sound, Acknowledged, alive
<1> QED
  BY <1>3, <1>4, <1>5 DEF alive, doomed

LEMMA HitAlive ==
    ASSUME NEW gen
    PROVE  Hit(gen) \subseteq gen.alive
BY DEF Hit, Tree

LEMMA KillTreeStep ==
    ASSUME Inv, KillTree
    PROVE  Inv'
<1> DEFINE gen == Current
           hit == Hit(gen)
<1>1. host' = host /\ adapter.pc = "kill" /\ adapter.gen # 0
  BY DEF KillTree, At, Inv, TypeOK
<1>2. gen \in Gens /\ Sound(gen) /\ adapter \in Adapters /\ host \in Hosts
  BY <1>1, InHand
<1>3. PICK left \in SUBSET hit :
         /\ gens' = [gens EXCEPT ![adapter.gen] = [Killed(gen, hit, left) EXCEPT !.open = FALSE]]
         /\ adapter' = [adapter EXCEPT
               !.pc = "reap",
               !.failed = \/ @
                          \/ host.mechanism = "cgroup" /\ left # {}
                          \/ host.mechanism = "job" /\ Root \in left
                          \/ host.mechanism = "job" /\ gen.bound = {}]
  BY DEF KillTree, SetCurrent
<1>4. hit \subseteq gen.alive
  BY HitAlive
<1>5. host.mechanism = "job" /\ gen.bound # {} => hit = gen.alive \cap gen.bound
  BY DEF Hit
<1> DEFINE killed == Killed(gen, hit, left)
           new == [killed EXCEPT !.open = FALSE]
<1> HIDE DEF gen, hit, killed
<1>6. /\ killed \in Gens /\ killed.doing = gen.doing /\ killed.stdin = gen.stdin
      /\ killed.bound = gen.bound /\ Sound(killed) /\ killed.alive = gen.alive \ (hit \ left)
      /\ \A role : Runs(killed, role) => Runs(gen, role) /\ role \notin hit
  BY <1>2, <1>4, KilledIs DEF killed
<1>7. /\ new \in Gens /\ new.doing = killed.doing /\ new.stdin = killed.stdin
      /\ new.stdout = killed.stdout /\ new.bound = killed.bound /\ new.alive = killed.alive
      /\ new.doomed = killed.doomed /\ new.open = FALSE
  BY <1>6 DEF Gens
<1> HIDE DEF new
<1>8. Sound(new)
  BY <1>6, <1>7 DEF Sound, Acknowledged
<1>9. InTouch(new, "reap")
  BY <1>7 DEF InTouch, Talk
<1> DEFINE failed == \/ adapter.failed
                     \/ host.mechanism = "cgroup" /\ left # {}
                     \/ host.mechanism = "job" /\ Root \in left
                     \/ host.mechanism = "job" /\ gen.bound = {}
<1>10. adapter' = [adapter EXCEPT !.pc = "reap", !.failed = failed]
  BY <1>2, <1>3 DEF Adapters
<1>11. failed \in BOOLEAN
  BY <1>2 DEF Adapters
<1>12. failed \/ host.mechanism # "job" \/ gen.bound # {}
  OBVIOUS
<1> HIDE DEF failed
<1>13. adapter' \in Adapters /\ adapter'.gen = adapter.gen /\ adapter'.pc = "reap"
       /\ adapter'.failed = failed
  BY <1>2, <1>10, <1>11 DEF Adapters, Pcs
<1>14. ASSUME host.mechanism = "job", ~failed
       PROVE  Quiet(new)
  <2>1. hit = gen.alive \cap gen.bound
    BY <1>5, <1>12, <1>14
  <2>2. \A role : Runs(new, role) => role \in gen.alive /\ role \notin gen.bound
    BY <1>6, <1>7, <2>1 DEF Runs
  <2>3. ~Runs(new, "chromium")
    BY <1>2, <2>2 DEF Sound
  <2>4. Runs(new, "worker") => new.doing \in {"new", "hello"} /\ new.stdin = <<>>
    <3> SUFFICES ASSUME Runs(new, "worker")
                 PROVE  new.doing \in {"new", "hello"} /\ new.stdin = <<>>
      OBVIOUS
    <3>1. "worker" \in gen.alive /\ "worker" \notin gen.bound
      BY <2>2
    <3>2. gen.stdin = <<>> /\ gen.doing \notin {"idle", "busy", "unborn"}
      BY <1>2, <3>1 DEF Sound, Acknowledged
    <3>3. gen.doing \in Doings
      BY <1>2 DEF Gens
    <3> QED
      BY <1>6, <1>7, <3>2, <3>3 DEF Doings
  <2> QED
    BY <1>7, <2>3, <2>4 DEF Quiet
<1>15. gens' = [gens EXCEPT ![adapter.gen] = new]
  BY <1>3 DEF new, killed
<1> QED
  BY <1>1, <1>7, <1>8, <1>9, <1>13, <1>14, <1>15, AdapterTouch

\* kill_contained and cleanup: when neither fails, nothing inside the boundary is
\* left.
LEMMA ReapStep ==
    ASSUME Inv, Reap
    PROVE  Inv'
<1> DEFINE gen == Current
           n == Len(gens)
           inside == IF host.mechanism = "cgroup" THEN gen.alive \cap gen.bound ELSE {}
           hit == IF host.kill THEN inside ELSE inside \cap gen.doomed
<1>1. host' = host /\ adapter.pc = "reap" /\ adapter.gen # 0
  BY DEF Reap, At, Inv, TypeOK
<1>2. /\ gen \in Gens /\ Sound(gen) /\ InTouch(gen, "reap") /\ adapter \in Adapters
      /\ host \in Hosts
  BY <1>1, InHand
<1>3. /\ adapter.gen = n /\ n \in DOMAIN gens /\ n \in Nat /\ DOMAIN gens = 1..n
      /\ gens \in Seq(Gens)
  BY <1>1, CurrentIs DEF Inv, TypeOK
<1>4. host.mechanism = "job" /\ ~adapter.failed => Quiet(gen)
  BY <1>1 DEF Inv
<1>5. PICK left \in SUBSET hit :
         /\ gens' = [gens EXCEPT ![adapter.gen] = Killed(gen, hit, left)]
         /\ \/ Released((inside \ hit) \cup left # {})
            \/ host.mechanism = "cgroup" /\ gen.bound # {} /\ Released(TRUE)
  BY DEF Reap, SetCurrent
<1>6. hit \subseteq gen.alive
  OBVIOUS
<1> DEFINE new == Killed(gen, hit, left)
<1>7. PICK failure \in BOOLEAN :
         /\ Released(failure)
         /\ ~failure => inside \subseteq hit /\ left = {}
  BY <1>5
<1>8. host.mechanism = "cgroup" => inside = gen.alive \cap gen.bound
  OBVIOUS
<1>9. host.mechanism # "cgroup" => host.mechanism = "job"
  BY <1>2 DEF Hosts
<1> HIDE DEF gen, hit, inside, new, n
<1>10. /\ new \in Gens /\ new.bound = gen.bound /\ new.stdin = gen.stdin
       /\ new.doing = gen.doing /\ new.open = gen.open /\ Sound(new)
       /\ \A role : Runs(new, role) => Runs(gen, role) /\ role \notin hit
  BY <1>2, <1>6, KilledIs DEF new
<1>11. ~new.open
  BY <1>2, <1>10 DEF InTouch
<1>12. ASSUME ~failure, ~adapter.failed
       PROVE  Quiet(new)
  <2>1. CASE host.mechanism = "job"
    <3>1. Quiet(gen)
      BY <1>4, <1>12, <2>1
    <3> QED
      BY <1>10, <3>1 DEF Quiet
  <2>2. CASE host.mechanism = "cgroup"
    <3>1. \A role : Runs(new, role) => role \in gen.alive /\ role \notin gen.bound
      BY <1>7, <1>8, <1>10, <1>12, <2>2 DEF Runs
    <3>2. ~Runs(new, "chromium")
      BY <1>2, <3>1 DEF Sound
    <3>3. ASSUME Runs(new, "worker")
          PROVE  new.doing \in {"new", "hello"} /\ new.stdin = <<>>
      <4>1. "worker" \in gen.alive /\ "worker" \notin gen.bound
        BY <3>1, <3>3
      <4>2. gen.stdin = <<>> /\ gen.doing \notin {"idle", "busy", "unborn"}
        BY <1>2, <4>1 DEF Sound, Acknowledged
      <4>3. gen.doing \in Doings
        BY <1>2 DEF Gens
      <4> QED
        BY <1>10, <4>2, <4>3 DEF Doings
    <3> QED
      BY <1>11, <3>2, <3>3 DEF Quiet
  <2> QED
    BY <1>9, <2>1, <2>2
<1>13. /\ adapter' \in Adapters /\ adapter'.gen = 0 /\ adapter'.pc \in {"idle", "ensure"}
       /\ adapter'.failed = (adapter.failed \/ failure)
  <2> DEFINE failed == adapter.failed \/ failure
             pc == IF adapter.status = "" THEN "ensure" ELSE "idle"
  <2>1. failed \in BOOLEAN /\ pc \in {"idle", "ensure"}
    BY <1>2 DEF Adapters
  <2>2. adapter' = [adapter EXCEPT !.gen = 0, !.failed = failed, !.pc = pc]
    BY <1>2, <1>7 DEF Released, Adapters
  <2> HIDE DEF failed, pc
  <2>3. adapter' \in Adapters /\ adapter'.gen = 0 /\ adapter'.pc = pc /\ adapter'.failed = failed
    BY <1>2, <2>1, <2>2 DEF Adapters, Pcs
  <2> QED
    BY <2>1, <2>3 DEF failed
<1>14. /\ gens' \in Seq(Gens) /\ Len(gens') = n /\ gens'[n] = new
       /\ DOMAIN gens' = DOMAIN gens /\ \A g \in DOMAIN gens \ {n} : gens'[g] = gens[g]
  <2>1. gens' = [gens EXCEPT ![n] = new] /\ Len(gens) = n
    BY <1>3, <1>5 DEF new, n
  <2> QED
    BY <1>3, <1>10, <2>1
<1>15. TypeOK'
  BY <1>1, <1>2, <1>13, <1>14 DEF TypeOK
<1>16. (\A g \in DOMAIN gens : Sound(gens[g]))'
  <2>1. \A gen2 : Sound(gen2)' = Sound(gen2)
    BY <1>1 DEF Sound, Root, Acknowledged
  <2> SUFFICES ASSUME NEW g \in DOMAIN gens', NEW gen2, gen2 = gens'[g]
               PROVE  Sound(gen2)'
    BY DEF Sound, Acknowledged
  <2>2. Sound(gen2)
    BY <1>10, <1>14 DEF Inv
  <2> QED
    BY <2>1, <2>2
<1>17. OldQuiet'
  <2>1. \A g \in DOMAIN gens : g < n => Quiet(gens[g])
    BY DEF Inv, OldQuiet, n
  <2>2. \A g \in DOMAIN gens' : g < n => Quiet(gens'[g])
    BY <1>3, <1>14, <2>1
  <2>3. \A g \in DOMAIN gens' : g < n \/ g = n
    BY <1>3, <1>14
  <2>4. ~adapter'.failed => Quiet(gens'[n])
    BY <1>12, <1>13, <1>14
  <2>5. Len(gens') = n
    BY <1>14
  <2>6. \A g \in DOMAIN gens' : g < Len(gens') \/ ~adapter'.failed => Quiet(gens'[g])
    BY <2>2, <2>3, <2>4, <2>5
  <2> QED
    BY <2>6 DEF OldQuiet, Quiet, Runs
<1> QED
  BY <1>13, <1>15, <1>16, <1>17 DEF Inv

-----------------------------------------------------------------------------
(* The steps of the processes.                                             *)

\* What a process may do to its generation: whatever the adapter relied on at
\* any point of a call, it may still rely on.
Follows(old, new) ==
    /\ new \in Gens /\ Sound(new)
    /\ Quiet(old) => Quiet(new)
    /\ \A pc \in Pcs : InTouch(old, pc) => InTouch(new, pc)

LEMMA ProcessTouch ==
    ASSUME Inv, UNCHANGED <<host, adapter>>, NEW g \in DOMAIN gens, NEW new,
           gens' = [gens EXCEPT ![g] = new], Follows(gens[g], new)
    PROVE  Inv'
<1> DEFINE n == Len(gens)
<1>1. gens \in Seq(Gens) /\ n \in Nat /\ DOMAIN gens = 1..n /\ new \in Gens
  BY DEF Inv, TypeOK, Follows
<1>2. /\ gens' \in Seq(Gens) /\ Len(gens') = n /\ gens'[g] = new
      /\ DOMAIN gens' = DOMAIN gens /\ \A k \in DOMAIN gens \ {g} : gens'[k] = gens[k]
  BY <1>1
<1>3. TypeOK'
  BY <1>2 DEF Inv, TypeOK
<1>4. (\A k \in DOMAIN gens : Sound(gens[k]))'
  <2>1. \A gen : Sound(gen)' = Sound(gen)
    BY DEF Sound, Root, Acknowledged
  <2> SUFFICES ASSUME NEW k \in DOMAIN gens', NEW gen, gen = gens'[k]
               PROVE  Sound(gen)'
    BY DEF Sound, Acknowledged
  <2>2. Sound(gen)
    BY <1>2 DEF Inv, Follows
  <2> QED
    BY <2>1, <2>2
<1>5. \A k \in DOMAIN gens : Quiet(gens[k]) => Quiet(gens'[k])
  BY <1>2 DEF Follows
<1>6. OldQuiet'
  <2>1. \A k \in DOMAIN gens' : k < Len(gens') \/ (adapter.gen = 0 /\ ~adapter.failed)
          => Quiet(gens'[k])
    BY <1>2, <1>5 DEF Inv, OldQuiet
  <2> QED
    BY <2>1 DEF OldQuiet, Quiet, Runs
<1>7. ASSUME adapter.gen # 0
      PROVE  /\ InTouch(gens'[adapter.gen], adapter.pc)
             /\ Quiet(gens[adapter.gen]) => Quiet(gens'[adapter.gen])
  <2>1. adapter.gen \in DOMAIN gens /\ InTouch(gens[adapter.gen], adapter.pc)
    BY <1>7, CurrentIs DEF Inv, Current
  <2>2. adapter.pc \in Pcs
    BY DEF Inv, TypeOK, Adapters
  <2>3. CASE adapter.gen = g
    BY <1>2, <1>5, <2>1, <2>2, <2>3 DEF Follows
  <2>4. CASE adapter.gen # g
    BY <1>2, <2>1, <2>4
  <2> QED
    BY <2>3, <2>4
<1>8. (adapter.gen # 0 => InTouch(Current, adapter.pc))'
  BY <1>7 DEF Current, InTouch, Talk, Greeting, Greeted, Sent, Waiting, Asked, Runs
<1>9. (adapter.pc = "reap" /\ host.mechanism = "job" /\ ~adapter.failed => Quiet(Current))'
  <2>1. adapter.pc = "reap" => adapter.gen # 0
    BY DEF Inv, TypeOK
  <2>2. adapter.pc = "reap" /\ host.mechanism = "job" /\ ~adapter.failed
          => Quiet(gens'[adapter.gen])
    BY <1>7, <2>1 DEF Inv, Current
  <2> QED
    BY <2>2 DEF Current, Quiet, Runs
<1> QED
  BY <1>3, <1>4, <1>6, <1>8, <1>9 DEF Inv

LEMMA GenIs ==
    ASSUME Inv, NEW g \in DOMAIN gens
    PROVE  gens[g] \in Gens /\ Sound(gens[g])
BY DEF Inv, TypeOK

\* Processes end; the worker's stdin goes with it.
LEMMA Loses ==
    ASSUME NEW old \in Gens, Sound(old), NEW dead, NEW stdin,
           stdin = old.stdin \/ (stdin = <<>> /\ "worker" \in dead)
    PROVE  Follows(old, [old EXCEPT !.alive = @ \ dead, !.stdin = stdin])
<1> DEFINE alive == old.alive \ dead
           new == [old EXCEPT !.alive = alive, !.stdin = stdin]
<1>1. /\ alive \in SUBSET Roles /\ alive \subseteq old.alive /\ stdin \in Seq(Lines)
      /\ stdin = old.stdin \/ (stdin = <<>> /\ "worker" \notin alive)
  <2>1. old.alive \in SUBSET Roles /\ old.stdin \in Seq(Lines)
    BY DEF Gens
  <2>2. <<>> \in Seq(Lines)
    OBVIOUS
  <2> QED
    BY <2>1, <2>2
<1>2. new = [old EXCEPT !.alive = @ \ dead, !.stdin = stdin]
  BY DEF Gens
<1> HIDE DEF alive
<1>3. /\ new \in Gens /\ new.alive = alive /\ new.stdin = stdin /\ new.stdout = old.stdout
      /\ new.bound = old.bound /\ new.doomed = old.doomed /\ new.open = old.open
      /\ new.doing = old.doing
  BY <1>1 DEF Gens
<1> HIDE DEF new
<1>4. Sound(new)
  BY <1>1, <1>3 DEF Sound, Acknowledged
<1>5. Quiet(old) => Quiet(new)
  BY <1>1, <1>3 DEF Quiet, Runs
<1>6. \A pc \in Pcs : InTouch(old, pc) => InTouch(new, pc)
  <2> SUFFICES ASSUME NEW pc \in Pcs, InTouch(old, pc)
               PROVE  InTouch(new, pc)
    OBVIOUS
  <2>1. Runs(new, "worker") => Runs(old, "worker") /\ stdin = old.stdin
    BY <1>1, <1>3 DEF Runs
  <2>2. stdin = old.stdin => Talk(new, pc) = Talk(old, pc)
    BY <1>3 DEF Talk, Greeting, Greeted, Sent, Waiting, Asked
  <2>3. pc = "hello" => Talk(new, pc)
    <3>1. pc = "hello" => Greeting(old)
      BY DEF InTouch, Talk
    <3>2. pc = "hello" => Greeting(new)
      BY <1>1, <1>3, <3>1 DEF Greeting
    <3> QED
      BY <3>2 DEF Talk
  <2>4. Runs(new, "worker") => Talk(new, pc)
    BY <2>1, <2>2 DEF InTouch
  <2>5. pc \in {"hello", "contain", "ack"} => stdin = <<>>
    BY <1>1 DEF InTouch
  <2> QED
    BY <1>3, <2>3, <2>4, <2>5 DEF InTouch
<1> QED
  BY <1>2, <1>3, <1>4, <1>5, <1>6 DEF Follows

LEMMA ExitStep ==
    ASSUME Inv, NEW g \in DOMAIN gens, Exit(g)
    PROVE  Inv'
<1>1. PICK gone \in {{"worker"}, {"worker", "chromium"}} :
         Set(g, [gens[g] EXCEPT !.alive = @ \ gone, !.stdin = <<>>])
  BY DEF Exit
<1>2. Follows(gens[g], [gens[g] EXCEPT !.alive = @ \ gone, !.stdin = <<>>])
  BY GenIs, Loses
<1> QED
  BY <1>1, <1>2, ProcessTouch DEF Set

LEMMA EndStep ==
    ASSUME Inv, NEW g \in DOMAIN gens, LauncherEnds(g) \/ Die(g)
    PROVE  Inv'
<1>1. PICK dead : Set(g, [gens[g] EXCEPT !.alive = @ \ dead])
  <2>1. CASE LauncherEnds(g)
    BY <2>1 DEF LauncherEnds
  <2>2. CASE Die(g)
    BY <2>2 DEF Die
  <2> QED
    BY <2>1, <2>2
<1>2. gens[g] \in Gens /\ Sound(gens[g])
  BY GenIs
<1>3. [gens[g] EXCEPT !.alive = @ \ dead]
        = [gens[g] EXCEPT !.alive = @ \ dead, !.stdin = gens[g].stdin]
  BY <1>2 DEF Gens
<1>4. Follows(gens[g], [gens[g] EXCEPT !.alive = @ \ dead, !.stdin = gens[g].stdin])
  BY <1>2, Loses
<1> QED
  BY <1>1, <1>3, <1>4, ProcessTouch DEF Set

LEMMA LaunchStep ==
    ASSUME Inv, NEW g \in DOMAIN gens, Launch(g)
    PROVE  Inv'
<1> DEFINE old == gens[g]
           bound == IF "launcher" \in old.bound THEN old.bound \cup {"worker"} ELSE old.bound
           new == [old EXCEPT !.alive = @ \cup {"worker"}, !.bound = bound, !.doing = "new"]
<1>1. old \in Gens /\ Sound(old)
  BY GenIs
<1>2. old.doing = "unborn"
  BY DEF Launch
<1>3. bound \in SUBSET Roles
  BY <1>1 DEF Gens, Roles
<1>4. [Born(g, "worker", "launcher") EXCEPT !.doing = "new"] = new
  BY <1>1 DEF Born, Gens
<1>5. gens' = [gens EXCEPT ![g] = new] /\ UNCHANGED <<host, adapter>>
  BY <1>4 DEF Launch, Set
<1> DEFINE alive == old.alive \cup {"worker"}
<1>6. alive \in SUBSET Roles
  BY <1>1 DEF Gens, Roles
<1>7. new = [old EXCEPT !.alive = alive, !.bound = bound, !.doing = "new"]
  BY <1>1 DEF Gens
<1>8. \/ "launcher" \notin old.bound /\ bound = old.bound
      \/ "launcher" \in old.bound /\ bound = old.bound \cup {"worker"}
  OBVIOUS
<1>9. alive \ {"worker"} \subseteq old.alive
  OBVIOUS
<1> HIDE DEF alive, bound, old
<1>10. /\ new \in Gens /\ new.alive = alive /\ new.bound = bound /\ new.doing = "new"
       /\ new.stdin = old.stdin /\ new.stdout = old.stdout /\ new.doomed = old.doomed
       /\ new.open = old.open
  BY <1>1, <1>3, <1>6, <1>7 DEF Gens, Doings
<1> HIDE DEF new
<1>11. old.stdin = <<>> /\ old.stdout = <<>> /\ Root = "launcher" /\ "chromium" \notin old.alive
  BY <1>1, <1>2 DEF Sound
<1>12. "chromium" \notin new.alive
  BY <1>9, <1>10, <1>11
<1>13. Sound(new)
  <2>1. host.mechanism = "job" /\ new.bound # {} => "launcher" \in new.bound /\ "worker" \in new.bound
    BY <1>1, <1>8, <1>10, <1>11 DEF Sound
  <2> QED
    BY <1>10, <1>11, <1>12, <2>1 DEF Sound, Acknowledged
<1>14. Quiet(old) => Quiet(new)
  BY <1>10, <1>11, <1>12 DEF Quiet, Runs
<1>15. \A pc \in Pcs : InTouch(old, pc) => InTouch(new, pc)
  <2> SUFFICES ASSUME NEW pc \in Pcs, InTouch(old, pc)
               PROVE  InTouch(new, pc)
    OBVIOUS
  <2>1. pc \in {"hello", "kill", "reap"}
    BY <1>2 DEF InTouch, Pcs
  <2>2. Talk(new, pc)
    BY <1>10, <1>11, <2>1 DEF Talk, Greeting
  <2> QED
    BY <1>10, <1>11, <2>1, <2>2 DEF InTouch
<1>16. Follows(old, new)
  BY <1>10, <1>13, <1>14, <1>15 DEF Follows
<1> QED
  BY <1>5, <1>16, ProcessTouch DEF old

LEMMA AnnounceStep ==
    ASSUME Inv, NEW g \in DOMAIN gens, Announce(g)
    PROVE  Inv'
<1>1. CASE gens[g].open
  <2> DEFINE old == gens[g]
             stdout == Append(old.stdout, Line("hello", 0))
             new == [old EXCEPT !.doing = "hello", !.stdout = stdout]
  <2>1. old \in Gens /\ Sound(old)
    BY GenIs
  <2>2. /\ old.doing = "new" /\ old.open
        /\ gens' = [gens EXCEPT ![g] = new] /\ UNCHANGED <<host, adapter>>
    BY <1>1, <2>1 DEF Announce, Working, Set, Gens
  <2>3. Line("hello", 0) \in Lines
    BY DEF Line, Lines
  <2>4. old.stdin = <<>> /\ old.stdout = <<>> /\ "chromium" \notin old.alive
    BY <2>1, <2>2 DEF Sound
  <2>5. stdout \in Seq(Lines) /\ Len(stdout) = 1
    BY <2>3, <2>4
  <2> HIDE DEF stdout, old
  <2>6. /\ new \in Gens /\ new.alive = old.alive /\ new.bound = old.bound /\ new.doing = "hello"
        /\ new.stdin = old.stdin /\ new.stdout = stdout /\ new.open
    BY <2>1, <2>2, <2>5 DEF Gens, Doings
  <2> HIDE DEF new
  <2>7. Sound(new)
    BY <2>1, <2>2, <2>4, <2>6 DEF Sound, Acknowledged
  <2>8. ~Quiet(old)
    BY <2>2 DEF Quiet
  <2>9. \A pc \in Pcs : InTouch(old, pc) => InTouch(new, pc)
    <3> SUFFICES ASSUME NEW pc \in Pcs, InTouch(old, pc)
                 PROVE  InTouch(new, pc)
      OBVIOUS
    <3>1. pc \in {"hello", "kill"}
      BY <2>2 DEF InTouch, Pcs
    <3>2. Greeting(new)
      <4>1. new.stdout = stdout
        BY <2>6
      <4>2. Len(new.stdout) = 1
        BY <2>5, <4>1
      <4>3. Len(new.stdout) <= 1
        BY <4>2
      <4> QED
        BY <2>4, <2>6, <4>3 DEF Greeting
    <3>3. Talk(new, pc)
      BY <3>1, <3>2 DEF Talk
    <3> QED
      BY <2>4, <2>6, <3>1, <3>3 DEF InTouch
  <2>10. Follows(old, new)
    BY <2>6, <2>7, <2>8, <2>9 DEF Follows
  <2> QED
    BY <2>2, <2>10, ProcessTouch DEF old
<1>2. CASE ~gens[g].open
  BY <1>2, ExitStep DEF Announce
<1> QED
  BY <1>1, <1>2

LEMMA ChromiumStep ==
    ASSUME Inv, NEW g \in DOMAIN gens, StartChromium(g)
    PROVE  Inv'
<1> DEFINE old == gens[g]
           alive == old.alive \cup {"chromium"}
           bound == old.bound \cup {"chromium"}
           new == [old EXCEPT !.alive = alive, !.bound = bound]
<1>1. old \in Gens /\ Sound(old)
  BY GenIs
<1>2. old.doing = "busy" /\ Runs(old, "worker")
  BY DEF StartChromium, Working
<1>3. "worker" \in old.bound
  BY <1>1, <1>2 DEF Sound, Acknowledged
<1>4. Born(g, "chromium", "worker") = new
  BY <1>1, <1>3 DEF Born, Gens
<1>5. gens' = [gens EXCEPT ![g] = new] /\ UNCHANGED <<host, adapter>>
  BY <1>4 DEF StartChromium, Set
<1>6. alive \in SUBSET Roles /\ bound \in SUBSET Roles
  BY <1>1 DEF Gens, Roles
<1>7. \A r : r # "chromium" => (r \in alive <=> r \in old.alive) /\ (r \in bound <=> r \in old.bound)
  OBVIOUS
<1>8. "chromium" \in bound
  OBVIOUS
<1> HIDE DEF alive, bound, old
<1>9. /\ new \in Gens /\ new.alive = alive /\ new.bound = bound /\ new.doing = old.doing
      /\ new.stdin = old.stdin /\ new.stdout = old.stdout /\ new.doomed = old.doomed
      /\ new.open = old.open
  BY <1>1, <1>6 DEF Gens
<1> HIDE DEF new
<1>10. Sound(new)
  <2>1. host.mechanism = "job" => Root \in old.bound
    BY <1>1, <1>3 DEF Sound
  <2>2. Root # "chromium"
    BY RootIs DEF Inv, TypeOK
  <2> QED
    BY <1>1, <1>2, <1>3, <1>7, <1>8, <1>9, <2>1, <2>2 DEF Sound, Acknowledged
<1>11. ~Quiet(old)
  BY <1>2 DEF Quiet
<1>12. \A pc \in Pcs : InTouch(old, pc) => InTouch(new, pc)
  <2> SUFFICES ASSUME NEW pc \in Pcs, InTouch(old, pc)
               PROVE  InTouch(new, pc)
    OBVIOUS
  <2>1. Talk(new, pc) = Talk(old, pc)
    BY <1>9 DEF Talk, Greeting, Greeted, Sent, Waiting, Asked
  <2>2. Runs(new, "worker") = Runs(old, "worker")
    BY <1>7, <1>9 DEF Runs
  <2>3. "worker" \in new.bound <=> "worker" \in old.bound
    BY <1>7, <1>9
  <2> QED
    BY <1>9, <2>1, <2>2, <2>3 DEF InTouch
<1>13. Follows(old, new)
  BY <1>9, <1>10, <1>11, <1>12 DEF Follows
<1> QED
  BY <1>5, <1>13, ProcessTouch DEF old

\* The first line leaves stdin: of a generation that was told something.
LEMMA Taken ==
    ASSUME NEW old \in Gens, Sound(old), old.stdin # <<>>
    PROVE  /\ Head(old.stdin) \in Lines /\ Tail(old.stdin) \in Seq(Lines)
           /\ Head(old.stdin) = old.stdin[1]
           /\ Len(old.stdin) = 1 => Tail(old.stdin) = <<>>
           /\ Len(old.stdin) = 2 => /\ Len(Tail(old.stdin)) = 1
                                    /\ Tail(old.stdin)[1] = old.stdin[2]
           /\ "worker" \in old.bound
<1>1. old.stdin \in Seq(Lines)
  BY DEF Gens
<1>2. Head(old.stdin) \in Lines /\ Tail(old.stdin) \in Seq(Lines) /\ Head(old.stdin) = old.stdin[1]
  BY <1>1
<1>3. Len(old.stdin) \in Nat /\ Len(Tail(old.stdin)) = Len(old.stdin) - 1
  BY <1>1
<1>4. Len(old.stdin) = 1 => Tail(old.stdin) = <<>>
  <2>1. Len(old.stdin) = 1 => Len(Tail(old.stdin)) = 0
    BY <1>3
  <2> QED
    BY <1>2, <2>1, EmptySeq
<1>5. Len(old.stdin) = 2 => Len(Tail(old.stdin)) = 1 /\ Tail(old.stdin)[1] = old.stdin[2]
  BY <1>1, <1>3
<1> QED
  BY <1>2, <1>4, <1>5 DEF Sound, Acknowledged

LEMMA TakeAckStep ==
    ASSUME Inv, NEW g \in DOMAIN gens, TakeAck(g)
    PROVE  Inv'
<1>1. CASE Exit(g)
  BY <1>1, ExitStep
<1>2. CASE /\ Head(gens[g].stdin).kind = "ack"
           /\ Set(g, [gens[g] EXCEPT !.doing = "idle", !.stdin = Tail(@)])
  <2> DEFINE old == gens[g]
             stdin == Tail(old.stdin)
             new == [old EXCEPT !.doing = "idle", !.stdin = stdin]
  <2>1. old \in Gens /\ Sound(old)
    BY GenIs
  <2>2. /\ old.doing = "hello" /\ Runs(old, "worker") /\ old.stdin # <<>>
        /\ Head(old.stdin).kind = "ack"
        /\ gens' = [gens EXCEPT ![g] = new] /\ UNCHANGED <<host, adapter>>
    BY <1>2, <2>1 DEF TakeAck, Working, Set, Gens
  <2>3. /\ stdin \in Seq(Lines) /\ old.stdin[1].kind = "ack" /\ "worker" \in old.bound
        /\ Len(old.stdin) = 1 => stdin = <<>>
        /\ Len(old.stdin) = 2 => Len(stdin) = 1 /\ stdin[1] = old.stdin[2]
    BY <2>1, <2>2, Taken
  <2> HIDE DEF stdin, old
  <2>4. /\ new \in Gens /\ new.alive = old.alive /\ new.bound = old.bound /\ new.doing = "idle"
        /\ new.stdin = stdin /\ new.stdout = old.stdout /\ new.doomed = old.doomed
        /\ new.open = old.open
    BY <2>1, <2>3 DEF Gens, Doings
  <2> HIDE DEF new
  <2>5. Sound(new)
    BY <2>1, <2>2, <2>3, <2>4 DEF Sound, Acknowledged
  <2>6. ~Quiet(old)
    BY <2>2 DEF Quiet
  <2>7. \A pc \in Pcs : InTouch(old, pc) => InTouch(new, pc)
    <3> SUFFICES ASSUME NEW pc \in Pcs, InTouch(old, pc)
                 PROVE  InTouch(new, pc)
      OBVIOUS
    <3>1. Talk(old, pc) /\ pc \notin {"hello", "contain", "ack"}
      BY <2>2 DEF InTouch
    <3>2. pc = "write" => Sent(old, "ack")
      BY <2>2, <3>1 DEF Talk, Waiting
    <3>3. pc = "write" => Waiting(new)
      BY <2>3, <2>4, <3>2 DEF Sent, Waiting
    <3>4. pc = "read" => Asked(old)
      BY <3>1 DEF Talk
    <3>5. pc = "read" => Asked(new)
      BY <2>2, <2>3, <2>4, <3>4 DEF Asked
    <3>6. pc \notin {"idle", "ensure"}
      BY <2>2, <3>1 DEF Talk, Waiting
    <3>7. Talk(new, pc)
      BY <3>1, <3>3, <3>5, <3>6 DEF Talk
    <3> QED
      BY <2>3, <2>4, <3>1, <3>7 DEF InTouch
  <2>8. Follows(old, new)
    BY <2>4, <2>5, <2>6, <2>7 DEF Follows
  <2> QED
    BY <2>2, <2>8, ProcessTouch DEF old
<1> QED
  BY <1>1, <1>2 DEF TakeAck

LEMMA TakeRequestStep ==
    ASSUME Inv, NEW g \in DOMAIN gens, TakeRequest(g)
    PROVE  Inv'
<1>1. CASE Head(gens[g].stdin).kind # "request"
  BY <1>1, ExitStep DEF TakeRequest
<1>2. CASE Head(gens[g].stdin).kind = "request"
  <2> DEFINE old == gens[g]
             stdin == Tail(old.stdin)
             on == Head(old.stdin).call
             new == [old EXCEPT !.doing = "busy", !.on = on, !.stdin = stdin]
  <2>1. old \in Gens /\ Sound(old)
    BY GenIs
  <2>2. /\ old.doing = "idle" /\ Runs(old, "worker") /\ old.stdin # <<>>
        /\ gens' = [gens EXCEPT ![g] = new] /\ UNCHANGED <<host, adapter>>
    BY <1>2, <2>1 DEF TakeRequest, Working, Set, Gens
  <2>3. /\ stdin \in Seq(Lines) /\ Head(old.stdin) \in Lines /\ "worker" \in old.bound
        /\ Len(old.stdin) = 1 => stdin = <<>>
    BY <2>1, <2>2, Taken
  <2>4. on \in Nat
    BY <2>3 DEF Lines
  <2> HIDE DEF stdin, old, on
  <2>5. /\ new \in Gens /\ new.alive = old.alive /\ new.bound = old.bound /\ new.doing = "busy"
        /\ new.stdin = stdin /\ new.stdout = old.stdout /\ new.doomed = old.doomed
        /\ new.open = old.open
    BY <2>1, <2>3, <2>4 DEF Gens, Doings
  <2> HIDE DEF new
  <2>6. Sound(new)
    BY <2>1, <2>2, <2>3, <2>5 DEF Sound, Acknowledged
  <2>7. ~Quiet(old)
    BY <2>2 DEF Quiet
  <2>8. \A pc \in Pcs : InTouch(old, pc) => InTouch(new, pc)
    <3> SUFFICES ASSUME NEW pc \in Pcs, InTouch(old, pc)
                 PROVE  InTouch(new, pc)
      OBVIOUS
    <3>1. Talk(old, pc) /\ pc \notin {"hello", "contain", "ack"}
      BY <2>2 DEF InTouch
    <3>2. pc \notin {"write", "idle", "ensure"}
      BY <2>2, <3>1 DEF Talk, Sent, Waiting
    <3>3. pc = "read" => Asked(old)
      BY <3>1 DEF Talk
    <3>4. pc = "read" => Asked(new)
      BY <2>2, <2>3, <2>5, <3>3 DEF Asked
    <3>5. Talk(new, pc)
      BY <3>1, <3>2, <3>4 DEF Talk
    <3> QED
      BY <2>3, <2>5, <3>1, <3>5 DEF InTouch
  <2>9. Follows(old, new)
    BY <2>5, <2>6, <2>7, <2>8 DEF Follows
  <2> QED
    BY <2>2, <2>9, ProcessTouch DEF old
<1> QED
  BY <1>1, <1>2

LEMMA AnswerStep ==
    ASSUME Inv, NEW g \in DOMAIN gens, Answer(g)
    PROVE  Inv'
<1>1. CASE Exit(g)
  BY <1>1, ExitStep
<1>2. CASE ~Exit(g)
  <2> DEFINE old == gens[g]
  <2>1. old \in Gens /\ Sound(old)
    BY GenIs
  <2>2. PICK kind \in {"ok", "invalid", "oversize"} :
          Set(g, [old EXCEPT !.doing = "idle", !.stdout = Append(@, Line(kind, old.on))])
    BY <1>2 DEF Answer
  <2> DEFINE line == Line(kind, old.on)
             stdout == Append(old.stdout, line)
             new == [old EXCEPT !.doing = "idle", !.stdout = stdout]
  <2>3. /\ old.doing = "busy" /\ Runs(old, "worker") /\ old.open
        /\ gens' = [gens EXCEPT ![g] = new] /\ UNCHANGED <<host, adapter>>
    BY <1>2, <2>1, <2>2 DEF Answer, Working, Set, Gens
  <2>4. line \in Lines
    BY <2>1, <2>2 DEF Line, Lines, Gens
  <2> HIDE DEF line
  <2>5. stdout \in Seq(Lines) /\ (old.stdout = <<>> => Len(stdout) = 1)
    BY <2>1, <2>4 DEF Gens
  <2> HIDE DEF stdout, old
  <2>6. /\ new \in Gens /\ new.alive = old.alive /\ new.bound = old.bound /\ new.doing = "idle"
        /\ new.stdin = old.stdin /\ new.stdout = stdout /\ new.doomed = old.doomed
        /\ new.open = old.open
    BY <2>1, <2>5 DEF Gens, Doings
  <2> HIDE DEF new
  <2>7. Sound(new)
    BY <2>1, <2>3, <2>6 DEF Sound, Acknowledged
  <2>8. ~Quiet(old)
    BY <2>3 DEF Quiet
  <2>9. \A pc \in Pcs : InTouch(old, pc) => InTouch(new, pc)
    <3> SUFFICES ASSUME NEW pc \in Pcs, InTouch(old, pc)
                 PROVE  InTouch(new, pc)
      OBVIOUS
    <3>1. Talk(old, pc) /\ pc \notin {"hello", "contain", "ack"}
      BY <2>3 DEF InTouch
    <3>2. pc \notin {"write", "idle", "ensure"}
      BY <2>3, <3>1 DEF Talk, Sent, Waiting
    <3>3. pc = "read" => Asked(old)
      BY <3>1 DEF Talk
    <3>4. pc = "read" => Asked(new)
      BY <2>3, <2>5, <2>6, <3>3 DEF Asked
    <3>5. Talk(new, pc)
      BY <3>1, <3>2, <3>4 DEF Talk
    <3> QED
      BY <2>6, <3>1, <3>5 DEF InTouch
  <2>10. Follows(old, new)
    BY <2>6, <2>7, <2>8, <2>9 DEF Follows
  <2> QED
    BY <2>3, <2>10, ProcessTouch DEF old
<1> QED
  BY <1>1, <1>2

-----------------------------------------------------------------------------
(* The theorems.                                                           *)

LEMMA InitInv == Init => Inv
<1> SUFFICES ASSUME Init
             PROVE  Inv
  OBVIOUS
<1>1. gens = <<>> /\ gens \in Seq(Gens) /\ Len(gens) = 0 /\ DOMAIN gens = {}
  <2>1. gens = <<>>
    BY DEF Init
  <2>2. gens \in Seq(Gens) /\ Len(gens) = 0
    BY <2>1
  <2>3. DOMAIN gens = 1..0
    BY <2>2
  <2> QED
    BY <2>1, <2>2, <2>3
<1>2. adapter \in Adapters /\ adapter.gen = 0 /\ adapter.pc = "idle"
  BY DEF Init, Adapters, Pcs, Statuses
<1>3. TypeOK
  BY <1>1, <1>2 DEF TypeOK, Init
<1> QED
  BY <1>1, <1>2, <1>3 DEF Inv, OldQuiet

LEMMA NextInv ==
    ASSUME Inv, [Next]_vars
    PROVE  Inv'
<1>1. CASE Invoke
  BY <1>1, InvokeStep
<1>2. CASE Shutdown
  BY <1>2, ShutdownStep
<1>3. CASE AdapterStep
  <2>1. CASE Start
    BY <2>1, StartStep
  <2>2. CASE Hello
    BY <2>2, HelloStep
  <2>3. CASE Contain
    BY <2>3, ContainStep
  <2>4. CASE Ack
    BY <2>4, AckStep
  <2>5. CASE Write
    BY <2>5, WriteStep
  <2>6. CASE Read
    BY <2>6, ReadStep
  <2>7. CASE KillTree
    BY <2>7, KillTreeStep
  <2>8. CASE Reap
    BY <2>8, ReapStep
  <2>9. CASE Reuse \/ Replace \/ RefuseStart \/ HelloLost \/ ReadEnd \/ Timeout \/ ShutdownEnd
    BY <2>9, QuietAdapterSteps
  <2> QED
    BY <1>3, <2>1, <2>2, <2>3, <2>4, <2>5, <2>6, <2>7, <2>8, <2>9 DEF AdapterStep
<1>4. CASE \E g \in DOMAIN gens : ProcessStep(g)
  <2>1. PICK g \in DOMAIN gens : ProcessStep(g)
    BY <1>4
  <2>2. CASE Launch(g)
    BY <2>2, LaunchStep
  <2>3. CASE LauncherEnds(g) \/ Die(g)
    BY <2>3, EndStep
  <2>4. CASE Announce(g)
    BY <2>4, AnnounceStep
  <2>5. CASE TakeAck(g)
    BY <2>5, TakeAckStep
  <2>6. CASE TakeRequest(g)
    BY <2>6, TakeRequestStep
  <2>7. CASE EndOfInput(g)
    BY <2>7, ExitStep DEF EndOfInput
  <2>8. CASE StartChromium(g)
    BY <2>8, ChromiumStep
  <2>9. CASE Answer(g)
    BY <2>9, AnswerStep
  <2> QED
    BY <2>1, <2>2, <2>3, <2>4, <2>5, <2>6, <2>7, <2>8, <2>9 DEF ProcessStep
<1>5. CASE UNCHANGED vars
  <2>1. host' = host /\ gens' = gens /\ adapter' = adapter
    BY <1>5 DEF vars
  <2>2. TypeOK'
    BY <2>1 DEF Inv, TypeOK
  <2>3. OldQuiet'
    BY <2>1 DEF Inv, OldQuiet, Quiet, Runs
  <2>4. (\A g \in DOMAIN gens : Sound(gens[g]))'
    BY <2>1 DEF Inv, Sound, Root, Acknowledged
  <2>5. Current' = Current
    BY <2>1 DEF Current
  <2>6. (adapter.gen # 0 => InTouch(Current, adapter.pc))'
    BY <2>1, <2>5 DEF Inv, InTouch, Talk, Greeting, Greeted, Sent, Waiting, Asked, Runs
  <2>7. (adapter.pc = "reap" /\ host.mechanism = "job" /\ ~adapter.failed => Quiet(Current))'
    BY <2>1, <2>5 DEF Inv, Quiet, Runs
  <2> QED
    BY <2>2, <2>3, <2>4, <2>6, <2>7 DEF Inv
<1> QED
  BY <1>1, <1>2, <1>3, <1>4, <1>5 DEF Next

\* The invariant holds: what the adapter relies on at each point of a call, and
\* that a generation it let go of can do no work (_kill, kill_contained).
THEOREM InvariantHolds == Spec => []Inv
BY InitInv, NextInv, PTL DEF Spec

LEMMA InvContained ==
    ASSUME Inv
    PROVE  ChromiumContained
<1>1. \A g \in DOMAIN gens : "chromium" \in gens[g].alive => "chromium" \in gens[g].bound
  BY DEF Inv, Sound
<1>2. OneTree
  BY DEF Inv, OldQuiet, Quiet, OneTree
<1> QED
  BY <1>1, <1>2 DEF ChromiumContained

\* Chromium never runs outside the kernel boundary, and no older tree is left when
\* a new worker is started: _complete_containment_handshake.
THEOREM ContainedTheorem == Spec => []ChromiumContained
BY InvariantHolds, InvContained, PTL

\* Only one contained tree runs at a time: _kill before every new spawn.
THEOREM OneTreeTheorem == Spec => []OneTree
<1>1. ChromiumContained => OneTree
  BY DEF ChromiumContained
<1> QED
  BY <1>1, ContainedTheorem, PTL

LEMMA InvInStep ==
    ASSUME Inv
    PROVE  InStep
<1> SUFFICES ASSUME adapter.pc = "idle", ~adapter.failed,
                    NEW g \in DOMAIN gens, Runs(gens[g], "worker")
             PROVE  /\ gens[g].doing # "busy"
                    /\ \A i \in DOMAIN gens[g].stdin : gens[g].stdin[i].kind # "request"
                    /\ g = adapter.gen => gens[g].stdout = <<>>
  BY DEF InStep
<1>1. CASE g = adapter.gen
  <2>1. gens[g] \in Gens /\ InTouch(gens[g], "idle")
    <3>1. DOMAIN gens = 1..Len(gens) /\ Len(gens) \in Nat
      BY DEF Inv, TypeOK
    <3>2. adapter.gen # 0
      BY <1>1, <3>1
    <3> QED
      BY <1>1, <3>2, GenIs DEF Inv, Current
  <2>2. Waiting(gens[g])
    BY <2>1 DEF InTouch, Talk
  <2> QED
    BY <2>2 DEF Waiting
<1>2. CASE g # adapter.gen
  <2>1. Quiet(gens[g])
    <3>1. DOMAIN gens = 1..Len(gens) /\ Len(gens) \in Nat /\ adapter.gen \in {0, Len(gens)}
      BY DEF Inv, TypeOK
    <3> QED
      BY <1>2, <3>1 DEF Inv, OldQuiet
  <2> QED
    BY <1>2, <2>1 DEF Quiet
<1> QED
  BY <1>1, <1>2

\* Between calls nothing of a call is left in the pipes: invoke reads the answer to
\* its own request.
THEOREM InStepTheorem == Spec => []InStep
BY InvariantHolds, InvInStep, PTL
=============================================================================
