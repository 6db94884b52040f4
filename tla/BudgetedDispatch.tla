-------------------------- MODULE BudgetedDispatch --------------------------
(***************************************************************************)
(* What dispatch promises to a research run, whoever drives it: worker     *)
(* requests are authorized, started once and paid for before a worker      *)
(* sees them, the run never pays more than its issued budget, and a result *)
(* is stored once, for a request a worker was invoked for.                 *)
(*                                                                         *)
(* The promise says nothing of how many controllers there are, where they  *)
(* crash, and how often a started request reaches a worker: Research OS    *)
(* does not claim exactly-once side effects.                               *)
(***************************************************************************)
EXTENDS Integers

CONSTANTS
    Requests,
    MaxRequests,      \* issued max_requests
    MaxToolCalls,     \* issued max_tool_calls
    ResultStatuses

VARIABLES
    phase,    \* "none", "authorized" or "started", of each request
    cost,     \* requests paid for, 0 until the request is started
    spent,    \* sums of what was paid: [requests, tool_calls]
    runs,     \* how often a worker was invoked
    stored    \* status of the stored result, or "NONE"

vars == <<phase, cost, spent, runs, stored>>

Init ==
    /\ phase = [r \in Requests |-> "none"]
    /\ cost = [r \in Requests |-> 0]
    /\ spent = [requests |-> 0, tool_calls |-> 0]
    /\ runs = [r \in Requests |-> 0]
    /\ stored = [r \in Requests |-> "NONE"]

Authorize(r) ==
    /\ phase[r] = "none"
    /\ phase' = [phase EXCEPT ![r] = "authorized"]
    /\ UNCHANGED <<cost, spent, runs, stored>>

\* Starting is paying: one tool call and n requests, or no start at all.
Start(r, n) ==
    /\ phase[r] = "authorized"
    /\ spent.requests + n <= MaxRequests
    /\ spent.tool_calls + 1 <= MaxToolCalls
    /\ phase' = [phase EXCEPT ![r] = "started"]
    /\ cost' = [cost EXCEPT ![r] = n]
    /\ spent' = [requests |-> spent.requests + n, tool_calls |-> spent.tool_calls + 1]
    /\ UNCHANGED <<runs, stored>>

Run(r) ==
    /\ phase[r] = "started"
    /\ runs' = [runs EXCEPT ![r] = @ + 1]
    /\ UNCHANGED <<phase, cost, spent, stored>>

Store(r, status) ==
    /\ runs[r] > 0
    /\ stored[r] = "NONE"
    /\ stored' = [stored EXCEPT ![r] = status]
    /\ UNCHANGED <<phase, cost, spent, runs>>

Next ==
    \E r \in Requests :
        \/ Authorize(r)
        \/ \E n \in 1..MaxRequests : Start(r, n)
        \/ Run(r)
        \/ \E status \in ResultStatuses : Store(r, status)

Spec == Init /\ [][Next]_vars
=============================================================================
