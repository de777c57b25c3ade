---------------------------- MODULE CommandRunner ----------------------------
(***************************************************************************)
(* The child-process boundary of core/src/security/command-runner.ts: the  *)
(* life of one child (runChildProcess), the two ways to start one          *)
(* (runCoreTool, CommandRunner.run), the sandbox's attribution of a kill   *)
(* (sandbox.ts) and the deadline control that callers pass in              *)
(* (createFrozenTreeOperationControl in gates/frozen-tree.ts).             *)
(*                                                                         *)
(* The operating system is the environment: the direct child exits or is   *)
(* killed, its descendants stay in its process group or leave it with a    *)
(* session of their own, and Node emits "close" only when nobody holds the *)
(* child's pipes any more.                                                 *)
(***************************************************************************)
EXTENDS Naturals, FiniteSets

CONSTANTS
    Descendants,    \* processes that the child may start
    MaxCapture      \* bound: maxOutputBytes, in chunks

ASSUME RunnerAssumption == IsFiniteSet(Descendants) /\ MaxCapture \in Nat

VARIABLES
    call,       \* the call of run or runCoreTool
    child,      \* the direct child and its descendants
    control     \* the caller's operation control

runnerVars == <<call, child, control>>

LeaderEnds == {"exit0", "exit1", "exit71", "SIGTERM", "SIGKILL"}
NoChild == [leader |-> "none", group |-> {}, escaped |-> {}, denied |-> FALSE,
            killed |-> FALSE, chunks |-> 0]
NoCall == [kind |-> "none", at |-> "idle", timer |-> FALSE, timedOut |-> FALSE,
           cancelled |-> FALSE, truncated |-> FALSE, launchError |-> FALSE,
           result |-> "none", scratch |-> FALSE]

RunnerInit ==
    /\ call = NoCall
    /\ child = NoChild
    /\ control = [external |-> FALSE, late |-> FALSE, reason |-> "none", armed |-> TRUE]

------------------------------------------------------------------------------
(* The operation control: the first of deadline and cancellation is the    *)
(* reason of the abort for good.                                           *)

Aborted == control.reason # "none"
AbortWith(r) == IF Aborted THEN control.reason ELSE r

(* defect: a kill reaches the direct child and not its group *)
signalChildOnly(c) ==
    IF c.leader = "alive" THEN [c EXCEPT !.leader = "SIGKILL", !.killed = TRUE]
                          ELSE c

(* signalChildTree: the whole process group is signalled. *)
signalChildTree(c) ==
    IF c.leader = "alive" THEN [c EXCEPT !.leader = "SIGKILL", !.group = {}, !.killed = TRUE]
                          ELSE [c EXCEPT !.group = {}]

(* What the abort listener of a running child does. *)
OnAbort ==
    IF call.at = "running"
    THEN /\ call' = [call EXCEPT !.cancelled = TRUE]
         /\ child' = signalChildTree(child)
    ELSE UNCHANGED <<call, child>>

(* Time passes the deadline; the timer that aborts runs a little later. *)
DeadlinePasses ==
    /\ ~control.late
    /\ control' = [control EXCEPT !.late = TRUE]
    /\ UNCHANGED <<call, child>>

ControlTimer ==
    /\ control.late /\ control.armed /\ ~Aborted
    /\ control' = [control EXCEPT !.reason = "timed_out"]
    /\ OnAbort

ExternalAbort ==
    /\ ~control.external
    /\ control' = [control EXCEPT !.external = TRUE,
                                  !.reason = IF control.armed THEN AbortWith("cancelled") ELSE @]
    /\ IF Aborted \/ ~control.armed THEN UNCHANGED <<call, child>> ELSE OnAbort

(* checkpoint(): a cancellation is looked at before the clock. *)
checkpoint ==
    IF Aborted THEN control.reason
    ELSE IF control.external THEN "cancelled"
    ELSE IF control.late THEN "timed_out" ELSE "none"

------------------------------------------------------------------------------
(* Starting a child *)

Resolved(kind, verdict) == [NoCall EXCEPT !.kind = kind, !.at = "resolved", !.result = verdict]

(* runCoreTool throws on a bad request, run rejects it; run also needs the *)
(* sandbox, and its scratch directory goes whatever happens.               *)
Request(kind, timeoutOk, sandbox) ==
    /\ call.at = "idle"
    /\ checkpoint = "none"
    /\ child' = NoChild
    /\ \/ ~timeoutOk /\ call' = Resolved(kind, IF kind = "core tool" THEN "throws" ELSE "invalid_request")
       \/ /\ timeoutOk /\ kind = "command" /\ sandbox # "available"
          /\ call' = Resolved(kind, "sandbox_unavailable")
       \/ /\ timeoutOk /\ (kind = "command" => sandbox = "available")
          /\ call' = [NoCall EXCEPT !.kind = kind, !.at = "spawning", !.scratch = kind = "command"]
    /\ UNCHANGED control

(* An "error" event may follow a spawn that returned; an abort that came   *)
(* before the listener is acted on at once.                                *)
Spawn(works) ==
    /\ call.at = "spawning"
    /\ IF works
       THEN /\ call' = [call EXCEPT !.at = "running", !.timer = TRUE, !.cancelled = Aborted]
            /\ child' = IF Aborted THEN signalChildTree([child EXCEPT !.leader = "alive"])
                        ELSE [child EXCEPT !.leader = "alive"]
       ELSE /\ call' = [call EXCEPT !.at = "settled", !.launchError = TRUE]
            /\ child' = child
    /\ UNCHANGED control

------------------------------------------------------------------------------
(* The processes *)

Running == call.at = "running"

Exits(how) ==
    /\ child.leader = "alive"
    /\ child' = [child EXCEPT !.leader = how]
    /\ UNCHANGED <<call, control>>

(* The profile kills the direct child for a denied write or connection.    *)
SandboxDenies ==
    /\ child.leader = "alive" /\ call.kind = "command"
    /\ child' = [child EXCEPT !.leader = "SIGKILL", !.denied = TRUE]
    /\ UNCHANGED <<call, control>>

Forks(d) ==
    /\ child.leader = "alive"
    /\ d \notin child.group \cup child.escaped
    /\ child' = [child EXCEPT !.group = @ \cup {d}]
    /\ UNCHANGED <<call, control>>

NewSession(d) ==
    /\ d \in child.group
    /\ child' = [child EXCEPT !.group = @ \ {d}, !.escaped = @ \cup {d}]
    /\ UNCHANGED <<call, control>>

DescendantEnds(d) ==
    /\ d \in child.group \cup child.escaped
    /\ child' = [child EXCEPT !.group = @ \ {d}, !.escaped = @ \ {d}]
    /\ UNCHANGED <<call, control>>

(* capture: what exceeds maxOutputBytes is dropped and ends the child.     *)
Output ==
    /\ Running
    /\ child.leader = "alive" \/ child.group \cup child.escaped # {}
    /\ child.chunks <= MaxCapture
    /\ LET more == [child EXCEPT !.chunks = @ + 1]
       IN  IF more.chunks > MaxCapture /\ ~call.truncated
           THEN child' = signalChildTree(more) /\ call' = [call EXCEPT !.truncated = TRUE]
           ELSE child' = more /\ call' = call
    /\ UNCHANGED control

Timer ==
    /\ Running /\ call.timer
    /\ call' = [call EXCEPT !.timedOut = TRUE, !.timer = FALSE]
    /\ child' = signalChildTree(child)
    /\ UNCHANGED control

------------------------------------------------------------------------------
(* Settling *)

(* "close" comes when the child has ended and every end of its pipes is    *)
(* closed; finish kills what is left of the group.                         *)
Close ==
    /\ Running
    /\ child.leader \in LeaderEnds
    /\ child.group \cup child.escaped = {}
    /\ call' = [call EXCEPT !.at = "settled", !.timer = FALSE]
    /\ child' = signalChildTree(child)
    /\ UNCHANGED control

Verdict ==
    IF call.launchError THEN "launch_failed"
    ELSE IF call.cancelled THEN "cancelled"
    ELSE IF call.timedOut THEN "timed_out"
    ELSE IF call.truncated THEN "output_limit"
    ELSE IF child.leader \in {"SIGTERM", "SIGKILL"} THEN "signaled" ELSE child.leader

(* The profile's only signal is SIGKILL, so one that the runner has not    *)
(* explained by then counts as a denial.                                   *)
observeDirectResult == child.leader = "SIGKILL"

Classified ==
    IF call.kind = "core tool" \/ Verdict \in {"timed_out", "cancelled", "output_limit"}
    THEN Verdict
    ELSE IF Verdict \in {"launch_failed", "exit71"} THEN "sandbox_unavailable"
    ELSE IF observeDirectResult THEN "sandbox_violation" ELSE Verdict

(* After the process group is gone, or after half a second of waiting for  *)
(* it, the promise resolves.                                               *)
Resolve ==
    /\ call.at = "settled"
    /\ call' = [call EXCEPT !.at = "resolved", !.scratch = FALSE, !.result = Classified]
    /\ UNCHANGED <<child, control>>

(* The caller's checkpoint right after the call: its reason comes first,   *)
(* and the caller disposes of its control at the end.                      *)
Returned ==
    /\ call.at = "resolved"
    /\ call' = [call EXCEPT !.at = "returned",
                            !.result = IF checkpoint # "none" THEN checkpoint ELSE @]
    /\ control' = [control EXCEPT !.armed = FALSE,
                                  !.reason = IF checkpoint # "none" THEN checkpoint ELSE @]
    /\ UNCHANGED child

RunnerNext ==
    \/ \E kind \in {"core tool", "command"}, timeoutOk \in BOOLEAN,
          sandbox \in {"available", "unavailable", "not representable"} :
            Request(kind, timeoutOk, sandbox)
    \/ \E works \in BOOLEAN : Spawn(works)
    \/ \E how \in LeaderEnds : Exits(how)
    \/ SandboxDenies
    \/ \E d \in Descendants : Forks(d) \/ NewSession(d) \/ DescendantEnds(d)
    \/ Output
    \/ Timer
    \/ Close
    \/ Resolve
    \/ Returned
    \/ DeadlinePasses
    \/ ControlTimer
    \/ ExternalAbort

(* The event loop runs timers and delivers events; the child itself owes   *)
(* nothing.                                                                *)
RunnerFairness ==
    /\ WF_runnerVars(\E works \in BOOLEAN : Spawn(works))
    /\ WF_runnerVars(Timer)
    /\ WF_runnerVars(Close)
    /\ WF_runnerVars(Resolve)
    /\ WF_runnerVars(Returned)

RunnerSpec == RunnerInit /\ [][RunnerNext]_runnerVars /\ RunnerFairness

------------------------------------------------------------------------------
(* Properties *)

(* Every variable stays in its range. *)
RunnerTypeOK ==
    /\ call.at \in {"idle", "spawning", "running", "settled", "resolved", "returned"}
    /\ child.leader \in {"none", "alive"} \cup LeaderEnds
    /\ child.group \cup child.escaped \subseteq Descendants
    /\ child.chunks \in 0..(MaxCapture + 1)
    /\ control.reason \in {"none", "timed_out", "cancelled"}

(* A command is reported as ended by itself only when neither the profile  *)
(* nor the runner killed it, and a kill of the runner's own is never       *)
(* reported as a violation of the sandbox.                                 *)
VerdictMatchesCause ==
    call.at = "resolved" /\ call.kind = "command" =>
        /\ call.result \in {"exit0", "exit1", "signaled"} => ~child.denied /\ ~child.killed
        /\ call.result = "sandbox_violation" => ~child.killed
        /\ child.denied => call.result \in {"sandbox_violation", "timed_out", "cancelled",
                                            "output_limit"}

(* A call returns, whatever its child does, as long as no descendant has   *)
(* left the process group - the timer kills the group and frees the pipes  *)
(* - and what it returns matches the cause.                                *)
EveryCallReturns ==
    /\ []VerdictMatchesCause
    /\ call.at = "spawning" ~> (call.at = "returned" \/ child.escaped # {})
===========================================================================
