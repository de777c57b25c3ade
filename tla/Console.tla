-------------------------------- MODULE Console --------------------------------
(* The interactive side of the console (console/backend): chat connections     *)
(* whose tool calls wait for the operator (chat.ts, chat-runtime.ts), a        *)
(* terminal shared by several browsers (term.ts, term-runtime.ts), the one     *)
(* scheduled child (sched.ts, guards.ts), pruning after a preview (app.ts),    *)
(* the proxy to a run's Human Plane (loop-proxy.ts), issue intake (issues.ts), *)
(* saving a settings file two tabs have open (govern.ts) and logging in        *)
(* (auth/).  Handlers without an await are one step; what interleaves is       *)
(* sockets, timers, browsers, child processes, other programs' writes, the run *)
(* behind the proxy and a crash of the console.  Spawn and session rate limits *)
(* only refuse and are left out, as are texts, audit lines nobody counts, and  *)
(* listings.                                                                   *)
EXTENDS Integers, Sequences, FiniteSets, SequencesExt

CONSTANTS
    ChatConns,     \* chat connections
    ToolCalls,     \* tool calls the model may make on a connection
    Browsers,      \* browser tabs on the one terminal
    Transcripts,   \* transcript files, deletable once old
    MaxChatTurns,  \* bound on turns of a connection
    MaxTickets,    \* bound on terminal tickets
    Contents,      \* what a settings file may hold; the empty text is one of them
    EmptyText, NoFile, NoHash,
    maxAttempts,   \* wrong passwords before a lockout
    MaxFlows       \* bound on OIDC logins started

ASSUME ConsoleAssumption ==
    /\ {MaxChatTurns, MaxTickets, maxAttempts, MaxFlows} \subseteq Nat /\ maxAttempts > 0
    /\ EmptyText \in Contents /\ {NoFile, NoHash} \cap Contents = {}

VARIABLES
    chats,    \* connection -> its socket, turn and tool calls
    term,     \* the terminal session and who may write to it
    sched,    \* the scheduled child: [child, token, procs]; procs: children alive
    prune,    \* [old, deleted, previewed, shown, seen]: transcripts, the preview in the
              \* client, and all that stood on a preview
    proxied,  \* [file, server, request, answer]: a run's discovery file and one proxied request
    issues,   \* [status, draft, converting]: one filed issue
    config,   \* one settings file, the hash each tab read, the save under way
    login     \* the provider's caches and counters, the browsers' cookies

consoleVars == <<chats, term, sched, prune, proxied, issues, config, login>>

-----------------------------------------------------------------------------
(* Chat.  A tool call asks the operator and waits: for the decision, for the   *)
(* timer or for the socket to close, whichever is first.                       *)
FreshChat ==
    [ws |-> "none", busy |-> FALSE, turns |-> 0, pending |-> {}, timers |-> {},
     verdict |-> [k \in ToolCalls |-> "unasked"], audited |-> [k \in ToolCalls |-> <<>>]]

ChatOnly == UNCHANGED <<term, sched, prune, proxied, issues, config, login>>

CreateChat(c) ==
    /\ chats[c].ws = "none"
    /\ chats' = [chats EXCEPT ![c].ws = "ticketed"] /\ ChatOnly

ChatTicketExpires(c) ==
    /\ chats[c].ws = "ticketed"
    /\ chats' = [chats EXCEPT ![c].ws = "expired"] /\ ChatOnly

\* A ticket is used up by redeeming it, valid or not.
RedeemChatTicket(c) ==
    /\ chats[c].ws \in {"ticketed", "expired"}
    /\ chats' = [chats EXCEPT ![c].ws = IF @ = "ticketed" THEN "open" ELSE "closed"] /\ ChatOnly

\* While a turn runs, a second message is refused.  A socket being closed by the
\* server still delivers what the browser had sent.
handleUserMessage(c) ==
    /\ chats[c].ws \in {"open", "closing"}
    /\ ~chats[c].busy
    /\ chats[c].turns < MaxChatTurns
    /\ chats' = [chats EXCEPT ![c].busy = TRUE, ![c].turns = @ + 1] /\ ChatOnly

\* The stream of a turn goes on after the socket is gone, and may ask then, too.
canUseTool(c, k) ==
    /\ chats[c].busy
    /\ chats[c].verdict[k] = "unasked"
    /\ chats' = [chats EXCEPT ![c].verdict[k] = "waiting",
                              ![c].pending = @ \cup {k}, ![c].timers = @ \cup {k}]
    /\ ChatOnly

\* The promise of a call is settled once, settling it again changes nothing; every
\* answer is recorded.
Settle(chat, k, verdict, why) ==
    [chat EXCEPT !.verdict[k] = IF @ = "waiting" THEN verdict ELSE @,
                 !.pending = @ \ {k}, !.timers = @ \ {k}, !.audited[k] = Append(@, why)]

\* A decision about a call no longer pending is ignored.
handleToolDecision(c, k, decision) ==
    /\ chats[c].ws \in {"open", "closing"}
    /\ k \in chats[c].pending
    /\ chats' = [chats EXCEPT ![c] = Settle(chats[c], k, decision, decision)]
    /\ ChatOnly

(* defect: a call that timed out stays pending *)
ApprovalTimeoutLeft(c, k) ==
    /\ k \in chats[c].timers
    /\ chats' = [chats EXCEPT ![c] = [Settle(chats[c], k, "deny", "timeout") EXCEPT !.pending = chats[c].pending]]
    /\ ChatOnly

ApprovalTimeout(c, k) ==
    /\ k \in chats[c].timers
    /\ chats' = [chats EXCEPT ![c] = Settle(chats[c], k, "deny", "timeout")]
    /\ ChatOnly

handleDisconnect(c) ==
    /\ chats[c].ws \in {"open", "closing"}
    /\ LET chat == chats[c]
           dropped == chat.pending
       IN  chats' = [chats EXCEPT ![c] =
              [chat EXCEPT !.ws = "closed", !.pending = {}, !.timers = @ \ dropped,
                  !.verdict = [k \in ToolCalls |-> IF k \in dropped THEN "deny" ELSE chat.verdict[k]],
                  !.audited = [k \in ToolCalls |->
                                 IF k \in dropped THEN Append(chat.audited[k], "ws_drop") ELSE chat.audited[k]]]]
    /\ ChatOnly

\* A turn is over when the stream ends, which it does only once its calls are answered.
TurnDone(c) ==
    /\ chats[c].busy
    /\ \A k \in ToolCalls : chats[c].verdict[k] # "waiting"
    /\ chats' = [chats EXCEPT ![c].busy = FALSE] /\ ChatOnly

\* The stream may fail at any time, also with calls outstanding; the server closes the socket.
TurnFails(c) ==
    /\ chats[c].busy
    /\ chats' = [chats EXCEPT ![c].busy = FALSE, ![c].ws = IF @ = "open" THEN "closing" ELSE @]
    /\ ChatOnly

-----------------------------------------------------------------------------
(* The terminal.  Tickets are numbered in the order they are issued; each      *)
(* attach issues one and makes it the writer's.  retaken records that a socket *)
(* has written although a newer one had.                                       *)
NoTerm == [known |-> FALSE, alive |-> FALSE, issued |-> 0, valid |-> {}, stale |-> {},
           writer |-> 0, bound |-> [b \in Browsers |-> 0], lastWrite |-> 0, retaken |-> FALSE]

TermOnly == UNCHANGED <<chats, sched, prune, proxied, issues, config, login>>

IssueTicket(t) ==
    [t EXCEPT !.issued = @ + 1, !.valid = @ \cup {t.issued + 1}, !.writer = t.issued + 1]

CreateTerm ==
    /\ term.issued = 0
    /\ term' = [IssueTicket(term) EXCEPT !.known = TRUE, !.alive = TRUE] /\ TermOnly

\* The attach route hands out a ticket, and takes the terminal over, before any socket is open.
AttachRoute ==
    /\ term.known
    /\ term.issued < MaxTickets
    /\ term' = IssueTicket(term) /\ TermOnly

TermTicketExpires(n) ==
    /\ n \in term.valid
    /\ term' = [term EXCEPT !.stale = @ \cup {n}] /\ TermOnly

\* The upgrade redeems the ticket, then attaches again: the socket writes with the
\* new one, which nobody is told and which stays redeemable until it expires.
TermUpgrade(b, n) ==
    /\ n \in term.valid
    /\ term.issued < MaxTickets
    /\ LET spent == [term EXCEPT !.valid = @ \ {n}, !.stale = @ \ {n}]
       IN  term' = IF n \in term.stale \/ ~term.known
                   THEN spent
                   ELSE [IssueTicket(spent) EXCEPT !.bound[b] = term.issued + 1]
    /\ TermOnly

\* A write of a socket whose ticket is not the writer's, or to a dead terminal, is dropped.
TermWrite(b) ==
    /\ term.bound[b] # 0
    /\ term.known /\ term.alive /\ term.writer = term.bound[b]
    /\ term' = [term EXCEPT !.lastWrite = term.bound[b],
                            !.retaken = @ \/ term.bound[b] < term.lastWrite]
    /\ TermOnly

PtyExits ==
    /\ term.alive
    /\ term' = [term EXCEPT !.alive = FALSE] /\ TermOnly

KillTerm ==
    /\ term.known
    /\ term' = [term EXCEPT !.known = FALSE, !.alive = FALSE] /\ TermOnly

-----------------------------------------------------------------------------
(* The scheduled child.  The usage estimate is never available to the console, *)
(* so a start needs a token, which every refusal carries and which stays good. *)
decideAutomationStart(estimate, threshold, override) ==
    CASE override                             -> "ok"
      [] ~override /\ estimate = {}           -> "estimate_unavailable"
      [] OTHER -> IF \E e \in estimate : e >= threshold THEN "quota_threshold" ELSE "ok"

decideSchedStart(running, automation, confirmed) ==
    CASE running                                                  -> "already_running"
      [] ~running /\ automation = "quota_threshold"               -> "automation_deferred"
      [] ~running /\ automation = "estimate_unavailable" /\ ~confirmed -> "needs_confirmation"
      [] OTHER                                                    -> "ok"

DefaultThreshold == 85

SchedOnly == UNCHANGED <<chats, term, prune, proxied, issues, config, login>>

SchedStart(confirmed) ==
    /\ confirmed => sched.token
    /\ LET automation == decideAutomationStart({}, DefaultThreshold, FALSE)
           decision   == decideSchedStart(sched.child # "none", automation, confirmed)
       IN  sched' = IF decision = "ok" THEN [sched EXCEPT !.child = "running", !.procs = @ + 1]
                                       ELSE [sched EXCEPT !.token = TRUE]
    /\ SchedOnly

\* An allowlisted script needs no confirmation, but the same single place.
SchedScript ==
    /\ sched.child = "none"
    /\ sched' = [sched EXCEPT !.child = "running", !.procs = @ + 1] /\ SchedOnly

\* SIGTERM; the place is taken until the child has exited, and nothing restarts it.
SchedStop ==
    /\ sched.child # "none"
    /\ sched' = [sched EXCEPT !.child = "signalled"] /\ SchedOnly

SchedChildExits ==
    /\ sched.child # "none"
    /\ sched' = [sched EXCEPT !.child = "none", !.procs = @ - 1] /\ SchedOnly

-----------------------------------------------------------------------------
(* Pruning transcripts takes two steps; the token is a hash of the candidates. *)
PruneOnly == UNCHANGED <<chats, term, sched, proxied, issues, config, login>>

TranscriptAges(f) ==
    /\ f \notin prune.old \cup prune.deleted
    /\ prune' = [prune EXCEPT !.old = @ \cup {f}] /\ PruneOnly

PrunePreview ==
    /\ prune' = [prune EXCEPT !.previewed = TRUE, !.shown = prune.old, !.seen = @ \cup prune.old]
    /\ PruneOnly

\* Refused while a terminal session is listed, or when the candidates have changed.
PruneConfirmed ==
    /\ prune.previewed
    /\ ~term.known
    /\ prune.old = prune.shown
    /\ prune' = [prune EXCEPT !.old = {}, !.deleted = @ \cup prune.old, !.previewed = FALSE]
    /\ PruneOnly

-----------------------------------------------------------------------------
(* The proxy.  A run makes its directory, brings its server up, writes its     *)
(* discovery file, closes the server when it is done, and only then replaces   *)
(* the file by a tombstone; if it crashes, the file stays as it is.            *)
ProxyOnly == UNCHANGED <<chats, term, sched, prune, issues, config, login>>

RunStarts ==
    /\ proxied.file = "no_run"
    /\ proxied' = [proxied EXCEPT !.file = "absent"] /\ ProxyOnly

RunListens ==
    /\ proxied.file = "absent" /\ ~proxied.server
    /\ proxied' = [proxied EXCEPT !.server = TRUE] /\ ProxyOnly

RunIsDiscoverable ==
    /\ proxied.file = "absent" /\ proxied.server
    /\ proxied' = [proxied EXCEPT !.file = "live"] /\ ProxyOnly

RunStops ==
    /\ proxied.server /\ proxied.file = "live"
    /\ proxied' = [proxied EXCEPT !.server = FALSE] /\ ProxyOnly

RunTombstones ==
    /\ proxied.file = "live" /\ ~proxied.server
    /\ proxied' = [proxied EXCEPT !.file = "tombstoned"] /\ ProxyOnly

\* findRun reads the file; a request to a run that is not live is answered at once,
\* and a run that has not written its file yet is answered for as one that has ended.
findRun ==
    /\ proxied.request = "none"
    /\ proxied' = IF proxied.file = "live"
                  THEN [proxied EXCEPT !.request = "resolved", !.answer = 0]
                  ELSE [proxied EXCEPT !.answer = IF proxied.file = "no_run" THEN 404 ELSE 409]
    /\ ProxyOnly

\* loopFetch asks the server, which may be gone by now.
loopFetch ==
    /\ proxied.request = "resolved"
    /\ proxied' = [proxied EXCEPT !.request = "none", !.answer = IF proxied.server THEN 200 ELSE 502]
    /\ ProxyOnly

-----------------------------------------------------------------------------
(* An issue: convert writes the draft, then the record; a crash in between     *)
(* leaves the issue open with a draft beside it, and convert can be repeated.  *)
IssueOnly == UNCHANGED <<chats, term, sched, prune, proxied, config, login>>

createIssue ==
    /\ issues.status = "none"
    /\ issues' = [issues EXCEPT !.status = "open"] /\ IssueOnly

convertIssue ==
    /\ issues.status = "open" /\ ~issues.converting
    /\ issues' = [issues EXCEPT !.draft = TRUE, !.converting = TRUE] /\ IssueOnly

ConvertRecorded ==
    /\ issues.converting
    /\ issues' = [issues EXCEPT !.status = "converted", !.converting = FALSE] /\ IssueOnly

rejectIssue ==
    /\ issues.status = "open" /\ ~issues.converting
    /\ issues' = [issues EXCEPT !.status = "rejected"] /\ IssueOnly

ConvertCrashes ==
    /\ issues.converting
    /\ issues' = [issues EXCEPT !.converting = FALSE] /\ IssueOnly

-----------------------------------------------------------------------------
(* Saving a settings file.  A tab sends back the hash it was shown; the check  *)
(* and the rename are one handler, but other programs write the file as well.  *)
NoSave == [tab |-> {}, seen |-> NoFile, text |-> NoFile]

ConfigOnly == UNCHANGED <<chats, term, sched, prune, proxied, issues, login>>

\* The page of a file that is missing, or empty, carries no hash.
HashShown(file) == IF file \in {NoFile, EmptyText} THEN NoHash ELSE file

OpenFile(b) ==
    /\ config.save = NoSave
    /\ config' = [config EXCEPT !.base[b] = HashShown(config.file), !.shown[b] = config.file]
    /\ ConfigOnly

\* An existing file needs its own hash, a missing one none.
writeSafe(b, text) ==
    /\ config.save = NoSave
    /\ IF config.file # NoFile THEN config.base[b] = config.file ELSE config.base[b] = NoHash
    /\ config' = [config EXCEPT !.save = [tab |-> {b}, seen |-> config.file, text |-> text]]
    /\ ConfigOnly

\* The rename; what it replaces may be newer than what was checked.
SaveRenames ==
    /\ config.save # NoSave
    /\ LET b == CHOOSE b \in Browsers : b \in config.save.tab
       IN  config' = [config EXCEPT !.file = config.save.text, !.save = NoSave,
                                    !.lost = @ \/ config.file # config.shown[b],
                                    !.raced = @ \/ config.file # config.save.seen]
    /\ ConfigOnly

\* The command-line tool, or an editor, writes the file.
ForeignWrite(text) ==
    /\ config' = [config EXCEPT !.file = text] /\ ConfigOnly

-----------------------------------------------------------------------------
(* Logging in, with a password or through the identity provider.  The pending  *)
(* cookie is the browser's, so a second flow replaces that of the first; what  *)
(* the provider published is fetched once and kept, also when that failed.     *)
LoginOnly == UNCHANGED <<chats, term, sched, prune, proxied, issues, config>>

IdTokens == [nonce : 1..MaxFlows, sub : {"allowed", "other"}, key : {"published", "unknown"},
             current : BOOLEAN]

\* The algorithm, the issuer and the audience are fixed like the key: they match or do not.
verifyIdToken(token, nonce) ==
    token.key = "published" /\ token.nonce = nonce /\ token.current /\ token.sub = "allowed"

Fetched(cache) == IF cache = "none" THEN {"ok", "failed"} ELSE {cache}

NoLogin == [kind |-> "none", flow |-> 0]

OidcStart ==
    /\ login.kind = "oidc" /\ login.flows < MaxFlows
    /\ \E discovery \in Fetched(login.discovery) :
          login' = IF discovery = "failed"
                   THEN [login EXCEPT !.discovery = discovery]
                   ELSE [login EXCEPT !.discovery = discovery, !.flows = @ + 1,
                                      !.pending = login.flows + 1, !.pendingEnds = FALSE]
    /\ LoginOnly

PendingCookieExpires ==
    /\ login.pending # 0 /\ ~login.pendingEnds
    /\ login' = [login EXCEPT !.pendingEnds = TRUE] /\ LoginOnly

\* The callback's state must be that of the pending cookie.
OidcCallback(f) ==
    /\ f <= login.flows /\ login.call[f] = "none"
    /\ login' = [login EXCEPT !.call[f] =
          IF login.pending = f /\ ~login.pendingEnds THEN "exchanging" ELSE "refused"]
    /\ LoginOnly

ExchangeCode(f) ==
    /\ login.call[f] = "exchanging"
    /\ \E answered \in BOOLEAN, jwks \in Fetched(login.jwks) :
          login' = IF answered
                   THEN [login EXCEPT !.jwks = jwks,
                                      !.call[f] = IF jwks = "ok" THEN "verifying" ELSE "refused"]
                   ELSE [login EXCEPT !.call[f] = "refused"]
    /\ LoginOnly

\* The answer sets the session and clears the pending cookie, whichever flow set that.
VerifyAndMint(f, token) ==
    /\ login.call[f] = "verifying"
    /\ login' = IF verifyIdToken(token, f)
                THEN [login EXCEPT !.call[f] = "done", !.session = [kind |-> "oidc", flow |-> f],
                                   !.earned = token.nonce = f /\ token.sub = "allowed", !.pending = 0]
                ELSE [login EXCEPT !.call[f] = "refused"]
    /\ LoginOnly

\* Every address has its own count; the count that locks it out starts again at none.
recordFailure(count) ==
    IF count.failures + 1 >= maxAttempts THEN [failures |-> 0, locked |-> TRUE]
                                         ELSE [count EXCEPT !.failures = @ + 1]

PasswordLogin(b, right) ==
    /\ login.kind = "basic"
    /\ ~login.count[b].locked
    /\ login' = IF right
                THEN [login EXCEPT !.count[b] = [failures |-> 0, locked |-> FALSE], !.wrong[b] = 0,
                                   !.session = [kind |-> "basic", flow |-> 0], !.earned = TRUE]
                ELSE [login EXCEPT !.count[b] = recordFailure(@), !.wrong[b] = @ + 1]
    /\ LoginOnly

CooldownEnds(b) ==
    /\ login.count[b].locked
    /\ login' = [login EXCEPT !.count[b].locked = FALSE, !.wrong[b] = 0] /\ LoginOnly

\* Logging out clears the cookie, and its time runs out inside the signed token.
SessionEnds ==
    /\ login.session # NoLogin
    /\ login' = [login EXCEPT !.session = NoLogin, !.earned = FALSE] /\ LoginOnly

-----------------------------------------------------------------------------
ConsoleInit ==
    /\ chats = [c \in ChatConns |-> FreshChat]
    /\ term = NoTerm
    /\ sched = [child |-> "none", token |-> FALSE, procs |-> 0]
    /\ prune = [old |-> {}, deleted |-> {}, previewed |-> FALSE, shown |-> {}, seen |-> {}]
    /\ proxied = [file |-> "no_run", server |-> FALSE, request |-> "none", answer |-> 0]
    /\ issues = [status |-> "none", draft |-> FALSE, converting |-> FALSE]
    /\ config \in {[file |-> f, base |-> [b \in Browsers |-> NoHash], shown |-> [b \in Browsers |-> NoFile],
                     save |-> NoSave, lost |-> FALSE, raced |-> FALSE] : f \in Contents \cup {NoFile}}
    /\ login \in {[kind |-> k, discovery |-> "none", jwks |-> "none", flows |-> 0, pending |-> 0,
                    pendingEnds |-> FALSE, call |-> [f \in 1..MaxFlows |-> "none"],
                    session |-> NoLogin, earned |-> FALSE,
                    count |-> [b \in Browsers |-> [failures |-> 0, locked |-> FALSE]],
                    wrong |-> [b \in Browsers |-> 0]] : k \in {"basic", "oidc"}}

ChatNext ==
    \E c \in ChatConns :
        \/ CreateChat(c) \/ ChatTicketExpires(c) \/ RedeemChatTicket(c)
        \/ handleUserMessage(c) \/ handleDisconnect(c) \/ TurnDone(c) \/ TurnFails(c)
        \/ \E k \in ToolCalls :
              \/ canUseTool(c, k) \/ ApprovalTimeout(c, k)
              \/ \E d \in {"allow", "deny"} : handleToolDecision(c, k, d)

TermNext ==
    \/ CreateTerm \/ AttachRoute \/ PtyExits \/ KillTerm
    \/ \E n \in 1..MaxTickets : TermTicketExpires(n) \/ \E b \in Browsers : TermUpgrade(b, n)
    \/ \E b \in Browsers : TermWrite(b)

SchedNext == (\E confirmed \in BOOLEAN : SchedStart(confirmed)) \/ SchedScript \/ SchedStop \/ SchedChildExits

PruneNext == PrunePreview \/ PruneConfirmed \/ \E f \in Transcripts : TranscriptAges(f)

ProxyNext == RunStarts \/ RunListens \/ RunIsDiscoverable \/ RunStops \/ RunTombstones \/ findRun \/ loopFetch

IssueNext == createIssue \/ convertIssue \/ ConvertRecorded \/ rejectIssue \/ ConvertCrashes

ConfigNext ==
    \/ SaveRenames
    \/ \E b \in Browsers : OpenFile(b) \/ \E text \in Contents : writeSafe(b, text)
    \/ \E text \in Contents : ForeignWrite(text)

LoginNext ==
    \/ OidcStart \/ PendingCookieExpires \/ SessionEnds
    \/ \E f \in 1..MaxFlows :
          OidcCallback(f) \/ ExchangeCode(f) \/ \E token \in IdTokens : VerifyAndMint(f, token)
    \/ \E b \in Browsers : CooldownEnds(b) \/ \E right \in BOOLEAN : PasswordLogin(b, right)

ConsoleNext ==
    \/ ChatNext \/ TermNext \/ SchedNext \/ PruneNext
    \/ ProxyNext \/ IssueNext \/ ConfigNext \/ LoginNext

ConsoleSpec == ConsoleInit /\ [][ConsoleNext]_consoleVars

-----------------------------------------------------------------------------
\* The shape of the console's state.
ConsoleTypeOK ==
    /\ \A c \in ChatConns :
          /\ chats[c].ws \in {"none", "ticketed", "expired", "open", "closing", "closed"}
          /\ chats[c].pending \cup chats[c].timers \subseteq ToolCalls
          /\ chats[c].verdict \in [ToolCalls -> {"unasked", "waiting", "allow", "deny"}]
    /\ term.issued \in 0..(MaxTickets + 1)
    /\ term.stale \subseteq term.valid /\ term.valid \subseteq 1..(MaxTickets + 1)
    /\ sched.child \in {"none", "running", "signalled"}
    /\ prune.old \cup prune.deleted \cup prune.shown \subseteq Transcripts
    /\ proxied.file \in {"no_run", "absent", "live", "tombstoned"}
    /\ proxied.answer \in {0, 200, 404, 409, 502}
    /\ issues.status \in {"none", "open", "converted", "rejected"}
    /\ {config.file} \cup {config.shown[b] : b \in Browsers} \subseteq Contents \cup {NoFile}
    /\ login.pending \in 0..login.flows /\ login.flows \in 0..MaxFlows
    /\ \A b \in Browsers : login.count[b].failures \in 0..maxAttempts

\* However decision, timer and disconnect race, a tool call is answered once and
\* the answer is on record once: "allow" only for an operator's allow, and a call
\* still waiting has a timer that will deny it, also when its socket is gone.
ToolCallsFailClosed ==
    \A c \in ChatConns, k \in ToolCalls :
        LET verdict == chats[c].verdict[k]
            audited == chats[c].audited[k]
        IN  CASE verdict = "allow"   -> audited = <<"allow">>
              [] verdict = "deny"    -> audited \in {<<"deny">>, <<"timeout">>, <<"ws_drop">>}
              [] verdict = "waiting" -> audited = <<>> /\ k \in chats[c].timers \cap chats[c].pending
              [] verdict = "unasked" -> audited = <<>>

\* However tickets are redeemed, expire and take the terminal over, at most one
\* browser holds the writer's ticket, none holds a newer one, and once a browser
\* has written, none that attached before it writes again.
SingleWriter ==
    /\ Cardinality({b \in Browsers : term.bound[b] # 0 /\ term.bound[b] = term.writer}) <= 1
    /\ \A b \in Browsers : term.bound[b] <= term.writer
    /\ ~term.retaken

\* What the operator starts, deletes and converts: a child that was told to stop
\* keeps its place until it has exited, so two never live at once; a transcript is
\* deleted only if it stood on a preview, however many grew old since; and an issue
\* recorded as converted has its draft, wherever the conversion was cut short.
ActsAreBacked ==
    /\ sched.procs <= 1
    /\ prune.deleted \subseteq prune.seen
    /\ issues.status = "converted" => issues.draft

\* A request that found a run's address is answered by the run or fails, and once
\* the address is replaced by a tombstone no server is left that could act on it.
EndedMeansEnded ==
    /\ proxied.file = "tombstoned" => ~proxied.server
    /\ proxied.request = "resolved" => proxied.file \in {"live", "tombstoned"}

\* A save replaces the text its tab was shown and nothing newer, unless another
\* program wrote between the check of the hash and the rename.
EditsAreKept == config.lost => config.raced

\* A session comes from a right password, or from an answer of the provider for the
\* flow it was started in and the one subject allowed; and no address is answered
\* more wrong passwords than a lockout allows before it is locked out.
LoginIsEarned ==
    /\ login.session # NoLogin => login.earned
    /\ \A b \in Browsers : login.wrong[b] <= maxAttempts

\* All six.
ConsoleFailsClosed ==
    /\ ToolCallsFailClosed /\ SingleWriter /\ ActsAreBacked
    /\ EndedMeansEnded /\ EditsAreKept /\ LoginIsEarned
=============================================================================
