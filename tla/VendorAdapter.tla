----------------------------- MODULE VendorAdapter -----------------------------
(* send() of a vendor adapter (adapters/src): one request id, sent again after *)
(* errors and restarts by one process at a time.  The answer of the first run  *)
(* of the provider that ends well goes to a file and is served from there.     *)
(* Four kinds: "cli" spawns a program through runChild, "codex" through its    *)
(* own spawn, "sdk" iterates over the messages of an SDK, "http" fetches.  The *)
(* provider's end, the caller's abort and the timers race in each of them.     *)
EXTENDS Naturals, Sequences, FiniteSets

CONSTANTS
    Endings,         \* how a run may end by itself: [ok, output, words]
    MaxSends,        \* bound on sends
    MaxCrashes       \* bound on crashes and full disks

ASSUME AdapterAssumption ==
    /\ Endings \subseteq [ok : BOOLEAN, output : STRING, words : SUBSET STRING]
    /\ MaxSends \in Nat /\ MaxCrashes \in Nat

VARIABLES
    transport,       \* which kind of adapter this is
    sending,         \* the send() under way: [pc, control, aborted, reason, timer, grace]
    vendorRun,       \* the provider's run: [no, state, ending, late], late: told to
                     \* stop before its end
    pipesHeld,       \* an escaped descendant keeps the pipes of the child open
    sandboxes,       \* runs whose temporary directory exists
    answerFile,      \* the file of this request id: [state, no]
    sendOutcomes,    \* what each send() gave its caller
    adapterMishaps   \* crashes and full disks so far

adapterVars ==
    <<transport, sending, vendorRun, pipesHeld, sandboxes, answerFile, sendOutcomes,
      adapterMishaps>>

Spawns == transport \in {"cli", "codex"}

\* The patterns of classifyAdapterError, in the order they are tried.
ErrorKinds ==
    <<"cancelled", "timed_out", "context_limited", "unavailable", "quota_limited",
      "auth_unavailable">>

\* `words`: the patterns that the text of an error matches.
classifyAdapterError(words) ==
    LET matching == {i \in DOMAIN ErrorKinds : ErrorKinds[i] \in words}
    IN  IF matching = {} THEN "transport"
        ELSE ErrorKinds[CHOOSE i \in matching : \A j \in matching : i <= j]

NoEnding == [ok |-> FALSE, output |-> "none", words |-> {}]
NoSend == [pc |-> "idle", control |-> FALSE, aborted |-> FALSE, reason |-> "none",
           timer |-> FALSE, grace |-> FALSE]

Outcome(result, no) ==
    [result |-> result, no |-> no, reason |-> sending.reason, late |-> vendorRun.late,
     words |-> vendorRun.ending.words]
AtOnce(result, no, reason) ==
    [result |-> result, no |-> no, reason |-> reason, late |-> FALSE, words |-> {}]

------------------------------------------------------------------------------
(* The beginning of a send().                                                  *)
MaySend == sending.pc = "idle" /\ Len(sendOutcomes) < MaxSends

\* A torn file throws at JSON.parse, for this id for ever.
ServeReplay ==
    /\ MaySend /\ answerFile.state # "absent"
    /\ LET result == IF answerFile.state = "whole" THEN "answer" ELSE "syntax_error"
       IN  sendOutcomes' = Append(sendOutcomes, AtOnce(result, answerFile.no, "none"))
    /\ UNCHANGED <<transport, sending, vendorRun, pipesHeld, sandboxes, answerFile, adapterMishaps>>

RefuseAborted ==
    /\ MaySend /\ answerFile.state = "absent" /\ transport # "sdk"
    /\ sendOutcomes' = Append(sendOutcomes, AtOnce("cancelled", 0, "cancelled"))
    /\ UNCHANGED <<transport, sending, vendorRun, pipesHeld, sandboxes, answerFile, adapterMishaps>>

\* The sdk does not look at the signal first: its controller is aborted at once.
\* Without a control it has no timer, the others have one of their own.
send(control, aborted) ==
    /\ MaySend /\ answerFile.state = "absent"
    /\ aborted => control /\ transport = "sdk"
    /\ sending' = [pc |-> "waiting", control |-> control, aborted |-> aborted,
                   reason |-> IF aborted THEN "cancelled" ELSE "none",
                   timer |-> control \/ transport # "sdk", grace |-> FALSE]
    /\ vendorRun' = [no |-> vendorRun.no + 1, state |-> IF aborted THEN "told" ELSE "running",
                     ending |-> NoEnding, late |-> aborted]
    /\ sandboxes' = IF Spawns THEN sandboxes \cup {vendorRun.no + 1} ELSE sandboxes
    /\ UNCHANGED <<transport, pipesHeld, answerFile, sendOutcomes, adapterMishaps>>

------------------------------------------------------------------------------
(* While it waits.  terminateChild sends SIGTERM once and arms one timer for   *)
(* SIGKILL; the others abort the controller that the request carries.          *)
Waiting == sending.pc = "waiting"

StopTold(changed) ==
    /\ sending' = [changed EXCEPT !.grace = IF sending.reason = "none" THEN Spawns ELSE @]
    /\ vendorRun' = IF vendorRun.state = "running"
                    THEN [vendorRun EXCEPT !.state = "told", !.late = TRUE] ELSE vendorRun
    /\ UNCHANGED <<transport, pipesHeld, sandboxes, answerFile, sendOutcomes, adapterMishaps>>

cancel ==
    /\ Waiting /\ sending.control /\ ~sending.aborted
    /\ StopTold([sending EXCEPT !.aborted = TRUE, !.reason = IF @ = "none" THEN "cancelled" ELSE @])

\* runChild lets the timer overwrite the reason, codex reports it first; behind
\* linkCallControl the first of the two stands.
TimerFires ==
    /\ Waiting /\ sending.timer
    /\ StopTold([sending EXCEPT !.timer = FALSE, 
                         !.reason = IF Spawns \/ @ = "none" THEN "timed_out" ELSE @])

\* SIGKILL goes to the child alone, and a descendant of it may hold its pipes.
GraceEnds ==
    /\ Waiting /\ sending.grace
    /\ sending' = [sending EXCEPT !.grace = FALSE]
    /\ \/ /\ vendorRun.state = "told" /\ pipesHeld' \in BOOLEAN
          /\ vendorRun' = [vendorRun EXCEPT !.state = "ended"]
       \/ vendorRun.state # "told" /\ UNCHANGED <<vendorRun, pipesHeld>>
    /\ UNCHANGED <<transport, sandboxes, answerFile, sendOutcomes, adapterMishaps>>

\* By itself, also after SIGTERM; a request whose controller is aborted throws.
\* A child may leave a descendant that holds its pipes.
ProviderEnds ==
    /\ Waiting /\ vendorRun.state \in {"running", "told"}
    /\ \E e \in (IF vendorRun.state = "told" /\ ~Spawns THEN {NoEnding} ELSE Endings) :
          vendorRun' = [vendorRun EXCEPT !.state = "ended", !.ending = e]
    /\ pipesHeld' \in (IF Spawns THEN BOOLEAN ELSE {FALSE})
    /\ UNCHANGED <<transport, sending, sandboxes, answerFile, sendOutcomes, adapterMishaps>>

PipesClose ==
    /\ pipesHeld /\ pipesHeld' = FALSE
    /\ UNCHANGED <<transport, sending, vendorRun, sandboxes, answerFile, sendOutcomes,
                   adapterMishaps>>

------------------------------------------------------------------------------
(* 'close', or the continuation of the await: everything up to the next await. *)
RunIsOver == Waiting /\ vendorRun.state = "ended" /\ ~pipesHeld

\* What runChild and codex add to stderr; no pattern matches "timed_out", the
\* marker of runChild.
Marker ==
    IF sending.reason = "cancelled" THEN {"cancelled"}
    ELSE IF sending.reason = "timed_out" /\ transport = "codex" THEN {"timed_out"}
    ELSE {}

ErrorOf ==
    LET e == vendorRun.ending
    IN  IF Spawns /\ sending.reason # "none"     THEN classifyAdapterError(e.words \cup Marker)
        ELSE IF ~e.ok /\ sending.reason # "none" THEN sending.reason
        ELSE IF ~e.ok                            THEN classifyAdapterError(e.words)
        ELSE IF transport = "cli" /\ e.output = "garbage" THEN "transport"
        ELSE IF transport \in {"cli", "http"} /\ e.output \in {"garbage", "bad_usage"}
             THEN "invalid_response"
        ELSE "none"

Ends(result, no, file) ==
    /\ sendOutcomes' = Append(sendOutcomes, Outcome(result, no))
    /\ answerFile' = file
    /\ sending' = NoSend /\ vendorRun' = [vendorRun EXCEPT !.state = "none"]
    /\ sandboxes' = sandboxes \ {vendorRun.no}
    /\ UNCHANGED <<transport, pipesHeld>>

SendFails ==
    /\ RunIsOver /\ ErrorOf # "none"
    /\ Ends(ErrorOf, 0, answerFile) /\ UNCHANGED adapterMishaps

\* The sdk's control is disposed of, then its transcript is polled for.
captureTranscript ==
    /\ RunIsOver /\ ErrorOf = "none" /\ transport = "sdk"
    /\ sending' = [sending EXCEPT !.pc = "capturing", !.timer = FALSE]
    /\ UNCHANGED <<transport, vendorRun, pipesHeld, sandboxes, answerFile, sendOutcomes,
                   adapterMishaps>>

Answered == \/ RunIsOver /\ ErrorOf = "none" /\ transport # "sdk"
            \/ sending.pc = "capturing"

\* Evidence, then the file, then the caller has the answer.
SaveAnswer ==
    /\ Answered
    /\ Ends("answer", vendorRun.no, [state |-> "whole", no |-> vendorRun.no])
    /\ UNCHANGED adapterMishaps

\* Evidence that cannot be stored loses an answer that was paid for.
EvidenceLost ==
    /\ Answered /\ adapterMishaps < MaxCrashes /\ adapterMishaps' = adapterMishaps + 1
    /\ Ends("error", 0, answerFile)

\* The process dies: anywhere, or with half a file written.  The directory of
\* a child stays behind.
Dies(file) ==
    /\ adapterMishaps < MaxCrashes /\ adapterMishaps' = adapterMishaps + 1
    /\ answerFile' = file
    /\ sending' = NoSend /\ vendorRun' = [vendorRun EXCEPT !.state = "none"] /\ pipesHeld' = FALSE
    /\ UNCHANGED <<transport, sandboxes, sendOutcomes>>

ProcessDies == sending.pc # "idle" /\ Dies(answerFile)
DiesSaving == Answered /\ Dies([state |-> "torn", no |-> vendorRun.no])

------------------------------------------------------------------------------
AdapterInit ==
    /\ transport \in {"cli", "codex", "sdk", "http"} /\ sending = NoSend
    /\ vendorRun = [no |-> 0, state |-> "none", ending |-> NoEnding, late |-> FALSE]
    /\ pipesHeld = FALSE /\ sandboxes = {} /\ answerFile = [state |-> "absent", no |-> 0]
    /\ sendOutcomes = <<>> /\ adapterMishaps = 0

AdapterNext ==
    \/ ServeReplay \/ RefuseAborted \/ \E control, aborted \in BOOLEAN : send(control, aborted)
    \/ cancel \/ TimerFires \/ GraceEnds \/ ProviderEnds \/ PipesClose
    \/ SendFails \/ captureTranscript \/ SaveAnswer \/ EvidenceLost \/ ProcessDies \/ DiesSaving

AdapterSpec == AdapterInit /\ [][AdapterNext]_adapterVars

------------------------------------------------------------------------------
AdapterTypeOK ==
    /\ sending.pc \in {"idle", "waiting", "capturing"}
    /\ sending.reason \in {"none", "cancelled", "timed_out"}
    /\ vendorRun.no \in 0..(MaxSends + MaxCrashes)
    /\ vendorRun.state \in {"none", "running", "told", "ended"}
    /\ vendorRun.ending \in Endings \cup {NoEnding}
    /\ sandboxes \subseteq 1..vendorRun.no /\ (sandboxes # {} => Spawns)
    /\ answerFile.state \in {"absent", "torn", "whole"}
    /\ Len(sendOutcomes) <= MaxSends /\ adapterMishaps \in 0..MaxCrashes

(* Every answer that a request id ever gets is the same one, over retries,     *)
(* crashes and restarts, and it never comes from a run that was told to stop   *)
(* while it was under way; a child's answer not even when it ended in time but *)
(* the stop came before its close.                                             *)
\* (The replay file; the reason that finish() looks at first.)
OneTimelyAnswer ==
    \A i \in DOMAIN sendOutcomes : sendOutcomes[i].result = "answer" =>
        /\ \A j \in 1..i :
              sendOutcomes[j].result = "answer" => sendOutcomes[j].no = sendOutcomes[i].no
        /\ ~sendOutcomes[i].late /\ (Spawns => sendOutcomes[i].reason = "none")

(* A caller that aborts is told "cancelled", whatever the provider printed     *)
(* meanwhile, unless the timer came too or a request had already ended; a      *)
(* timeout is told as one, where the adapter's text says so.                   *)
\* (classifyAdapterError's order, Marker, linkCallControl.)
StopsAreReported ==
    \A i \in DOMAIN sendOutcomes :
        LET o == sendOutcomes[i]
            told(reason) == \/ o.result = reason
                            \/ /\ ~Spawns /\ ~o.late
                               /\ o.result \in {"answer", "invalid_response", "error"}
        IN  /\ o.reason = "cancelled" => told("cancelled")
            /\ o.reason = "timed_out" /\ transport # "cli" =>
                  told("timed_out") \/ (o.result = "cancelled" /\ "cancelled" \in o.words)
            /\ o.reason = "none" /\ o.result \in {"cancelled", "timed_out"} => o.result \in o.words

(* As long as a send() that has a timer waits, something of its own ends it:   *)
(* the timer is armed, or the provider was told to stop and a child will be    *)
(* killed, or it has ended and the continuation is next.  Except a child that  *)
(* left a descendant with its pipes: 'close' then waits for that one, which no *)
(* timer and no signal reaches.                                                *)
\* (terminateChild, `forceKill ??=`; child.on('close') in runChild and codex.)
SendsEndThemselves ==
    Waiting /\ (sending.control \/ transport # "sdk") =>
        \/ sending.timer \/ RunIsOver
        \/ vendorRun.state = "told" /\ (Spawns => sending.grace)
        \/ vendorRun.state = "ended" /\ pipesHeld

(* A child's directory, which may hold a copy of a credential, is there while  *)
(* the child may run and gone when its send() returned; only a crash of the    *)
(* process leaves one behind.                                                  *)
\* (createLiveOpenCodeGlmAdapter, createLiveCodexAdapter.)
SandboxFollowsChild ==
    /\ Spawns /\ vendorRun.state \in {"running", "told"} => vendorRun.no \in sandboxes
    /\ sending.pc = "idle" => Cardinality(sandboxes) <= adapterMishaps

SendsAreHonest == OneTimelyAnswer /\ StopsAreReported /\ SendsEndThemselves /\ SandboxFollowsChild

==============================================================================
