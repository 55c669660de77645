------------------------------- MODULE Doctor -------------------------------
(***************************************************************************)
(* The health check page: what its checks look at, the one-click heals and *)
(* the interactive ones, whose process talks to a modal of the page        *)
(* (src/doctor/checks.ts, doctor/heal.ts, server/routes/doctor.ts,         *)
(* server/public/js/doctor.js).                                            *)
(***************************************************************************)
EXTENDS Integers, FiniteSets

CONSTANTS
  MaxStreams,  \* bound: interactive heals
  NoStream,
  Broken,      \* what is wrong with the machine at first
  Interactive, \* checks whose command asks something
  MaxClicks,   \* bound: checks, one-click heals and repairs by hand
  MaxFailures  \* bound: requests that fail on the way

VARIABLES
  facts,    \* what is right with the machine
  page,     \* [running, shown, ring, button]: shown are the checks that fail
  request,  \* GET /api/doctor/run: [state, failing], "none", "asked" or "answered"
  heals,    \* one-click heals under way: <<check, whether its button is still shown>>
  due,      \* a check will start a second and a half after a heal
  modal,    \* [open, status, es]: es is the stream it listens to
  proc,     \* [Streams -> [check, pc, input]]: input was written to the process
  active,   \* activeHealProcess: NoStream or a stream
  told,     \* end messages under way: <<stream, message>>
  spent     \* [clicks, failures]

Streams == 1..MaxStreams

server == <<proc, active, told>>
doctorVars == <<facts, page, request, heals, due, modal, server, spent>>

Facts == {"claude", "claude login", "gh", "gh login", "gh scopes", "node",
          "git identity", "sqlite3", "aqm dir"}

-----------------------------------------------------------------------------
(* The checks.                                                             *)

\* checkClaudeCli, checkGhCli, checkNodeVersion, checkGitIdentity,
\* checkSqlite3 and checkAqmDirWrite look at one thing each.
CheckClaudeCli == {"claude"}
CheckClaudeLogin == {"claude", "claude login"}
CheckGhCli == {"gh"}
CheckGhAuth == {"gh", "gh login", "gh scopes"}
CheckNodeVersion == {"node"}
CheckGitIdentity == {"git identity"}
CheckSqlite3 == {"sqlite3"}
CheckAqmDirWrite == {"aqm dir"}
CheckGitHubApiPing == {"gh", "gh login"}

Needs ==
  [c \in {"claude-cli", "claude-login", "gh-cli", "gh-auth", "node-version", "git-identity",
          "sqlite3", "aqm-dir-write", "github-api-ping"} |->
     CASE c = "claude-cli" -> CheckClaudeCli
       [] c = "claude-login" -> CheckClaudeLogin
       [] c = "gh-cli" -> CheckGhCli
       [] c = "gh-auth" -> CheckGhAuth
       [] c = "node-version" -> CheckNodeVersion
       [] c = "git-identity" -> CheckGitIdentity
       [] c = "sqlite3" -> CheckSqlite3
       [] c = "aqm-dir-write" -> CheckAqmDirWrite
       [] c = "github-api-ping" -> CheckGitHubApiPing]

Checks == DOMAIN Needs

\* runAllChecks.
RunAllChecks == {c \in Checks : ~(Needs[c] \subseteq facts)}

HealLevel == [c \in Checks |-> CASE c \in {"git-identity", "sqlite3", "aqm-dir-write"} -> 1
                                 [] c \in {"gh-cli", "node-version"} -> 3
                                 [] OTHER -> 2]

\* autoFixCommand of a check that fails: what it puts right, if what it needs
\* is there.  git-identity and aqm-dir-write have none, and no command gives
\* the running process another Node.
Commands == {"claude-cli", "claude-login", "gh-auth", "github-api-ping", "sqlite3"}

Fixed(c) ==
  CASE c = "claude-cli" -> {"claude"}
    [] c = "claude-login" -> IF "claude" \in facts THEN {"claude login"} ELSE {}
    [] c = "gh-auth" -> IF "gh" \in facts THEN {"gh login", "gh scopes"} ELSE {}
    [] c = "github-api-ping" -> IF "gh" \in facts THEN {"gh login"} ELSE {}
    [] OTHER -> {"sqlite3"}

\* calcDoctorScore: tenths of the checks that pass, rounded.
Score(failing) ==
  LET n == Cardinality(Checks)
  IN (2 * 10 * (n - Cardinality(failing)) + n) \div (2 * n)

-----------------------------------------------------------------------------
(* The page: checks.                                                       *)

\* renderDoctorResults.
Shows(failing) ==
  [page EXCEPT !.shown = failing, !.ring = Score(failing), !.running = FALSE]

NoRequest == [state |-> "none", failing |-> {}]

\* runDoctorCheck, which does nothing while a check runs.  The rows go, and
\* their buttons with them.
Asks ==
  IF page.running THEN UNCHANGED <<page, request, heals>>
  ELSE /\ page' = [page EXCEPT !.running = TRUE, !.shown = {},
                              !.button = [c \in Checks |-> "ready"]]
       /\ request' = [state |-> "asked", failing |-> {}]
       /\ heals' = {<<h[1], FALSE>> : h \in heals}

ClosedModal == [modal EXCEPT !.open = FALSE, !.es = NoStream]

\* DOMContentLoaded.
DoctorInit ==
  /\ facts = Facts \ Broken
  /\ page = [running |-> TRUE, shown |-> {}, ring |-> 0, button |-> [c \in Checks |-> "ready"]]
  /\ request = [state |-> "asked", failing |-> {}] /\ heals = {} /\ due = FALSE
  /\ modal = [open |-> FALSE, status |-> "connecting", es |-> NoStream]
  /\ proc = [s \in Streams |-> [check |-> "gh-auth", pc |-> "none", input |-> FALSE]]
  /\ active = NoStream /\ told = {}
  /\ spent = [clicks |-> 0, failures |-> 0]

Click == spent.clicks < MaxClicks /\ spent' = [spent EXCEPT !.clicks = @ + 1]
Fails == spent.failures < MaxFailures /\ spent' = [spent EXCEPT !.failures = @ + 1]

\* The check button, or the end of a modal: doctorHealL2Recheck of a stream
\* that is over, doctorHealL3Done of a guide.
RunDoctorCheck ==
  /\ Click /\ ~page.running
  /\ modal.open => modal.es = NoStream
  /\ Asks /\ modal' = ClosedModal
  /\ UNCHANGED <<facts, due, server>>

\* The timer of a heal that went well.
DueCheck ==
  /\ due /\ due' = FALSE /\ Asks
  /\ UNCHANGED <<facts, modal, server, spent>>

\* GET /api/doctor/run.
DoctorRun ==
  /\ request.state = "asked"
  /\ request' = [state |-> "answered", failing |-> RunAllChecks]
  /\ UNCHANGED <<facts, page, heals, due, modal, server, spent>>

RenderDoctorResults ==
  /\ request.state = "answered" /\ request' = NoRequest
  /\ page' = Shows(request.failing)
  /\ UNCHANGED <<facts, heals, due, modal, server, spent>>

\* Mutant: the catch of runDoctorCheck leaves doctorRunning set.
CheckFailedLeft == page' = [page EXCEPT !.shown = {}, !.ring = 0]

\* The catch of runDoctorCheck, with restoreDoctorBtn.
CheckFailed == page' = [page EXCEPT !.shown = {}, !.ring = 0, !.running = FALSE]

CheckFails ==
  /\ Fails /\ request # NoRequest /\ request' = NoRequest
  /\ CheckFailed
  /\ UNCHANGED <<facts, heals, due, modal, server>>

-----------------------------------------------------------------------------
(* One-click heals.                                                        *)

DoctorHealLevel1(c) ==
  /\ Click /\ c \in page.shown /\ HealLevel[c] = 1 /\ page.button[c] # "healing"
  /\ page' = [page EXCEPT !.button[c] = "healing"]
  /\ heals' = heals \cup {<<c, TRUE>>}
  /\ UNCHANGED <<facts, request, due, modal, server>>

\* POST /api/doctor/heal/:id and its answer: 400 if the check has no command,
\* which is also so of one that passes by now, or if the command fails.
HealLevel1Ends(h) ==
  /\ h \in heals /\ heals' = heals \ {h}
  /\ \E ok \in BOOLEAN :
       /\ ok => h[1] \in RunAllChecks \cap Commands
       /\ facts' = IF ok THEN facts \cup Fixed(h[1]) ELSE facts
       /\ due' = (due \/ ok)
       /\ page' = IF h[2] THEN [page EXCEPT !.button[h[1]] = IF ok THEN "healed" ELSE "failed"]
                  ELSE page
  /\ UNCHANGED <<request, modal, server, spent>>

-----------------------------------------------------------------------------
(* Interactive heals.                                                      *)

\* doctorHealLevel2: the modal drops its stream and opens another.  The server
\* learns nothing of a stream that is dropped.
DoctorHealLevel2(c, s) ==
  /\ c \in page.shown /\ HealLevel[c] = 2 /\ ~modal.open
  /\ proc[s].pc = "none" /\ \A t \in 1..(s - 1) : proc[t].pc # "none"
  /\ modal' = [open |-> TRUE, status |-> "connecting", es |-> s]
  /\ proc' = [proc EXCEPT ![s] = [check |-> c, pc |-> "checking", input |-> FALSE]]
  /\ UNCHANGED <<facts, page, request, heals, due, active, told, spent>>

\* onopen.
Opens ==
  /\ modal.es # NoStream /\ modal.status = "connecting"
  /\ modal' = [modal EXCEPT !.status = "running"]
  /\ UNCHANGED <<facts, page, request, heals, due, server, spent>>

CloseDoctorHealL2Modal ==
  /\ modal.open /\ modal' = ClosedModal
  /\ UNCHANGED <<facts, page, request, heals, due, server, spent>>

\* healLevel2 kills the process at work; its end comes later.
Killed(s) == [proc EXCEPT ![active].pc = "killed", ![s].pc = "up"]

\* healLevel2, once the checks have been run again.
HealLevel2(s) ==
  /\ proc[s].pc = "checking"
  /\ IF proc[s].check \in RunAllChecks
     THEN /\ proc' = IF active # NoStream THEN Killed(s) ELSE [proc EXCEPT ![s].pc = "up"]
          /\ active' = s /\ UNCHANGED told
     ELSE /\ proc' = [proc EXCEPT ![s].pc = "over"]
          /\ told' = told \cup {<<s, "fail">>} /\ UNCHANGED active
  /\ UNCHANGED <<facts, page, request, heals, due, modal, spent>>

\* The close handler: it forgets the active process, whichever that is.
Closes(s) ==
  /\ \/ proc[s].pc = "killed"
     \/ proc[s].pc = "up" /\ (proc[s].check \in Interactive => proc[s].input)
  /\ \E ok \in BOOLEAN :
       /\ ok => proc[s].pc = "up"
       /\ facts' = IF ok THEN facts \cup Fixed(proc[s].check) ELSE facts
       /\ told' = told \cup {<<s, IF ok THEN "done" ELSE "fail">>}
  /\ proc' = [proc EXCEPT ![s].pc = "over"]
  /\ active' = NoStream
  /\ UNCHANGED <<page, request, heals, due, modal, spent>>

\* doctorHealL2Send and writeToActiveHealProcess: the active process has it,
\* or nobody.
DoctorHealL2Send ==
  /\ modal.open /\ modal.status \in {"connecting", "running"} /\ modal.es # NoStream
  /\ proc' = IF active = NoStream THEN proc ELSE [proc EXCEPT ![active].input = TRUE]
  /\ UNCHANGED <<facts, page, request, heals, due, modal, active, told, spent>>

\* The events done and fail, which close the stream at the page.
Told(s) ==
  \E m \in {"done", "fail"} :
    /\ <<s, m>> \in told /\ told' = told \ {<<s, m>>}
    /\ modal' = IF modal.es = s
                THEN [modal EXCEPT !.es = NoStream, !.status = IF m = "done" THEN m ELSE "failed"]
                ELSE modal
    /\ UNCHANGED <<facts, page, request, heals, due, proc, active, spent>>

\* onerror: the page does not try again, and the process works on.
Errs ==
  /\ Fails /\ modal.es # NoStream
  /\ modal' = [modal EXCEPT !.es = NoStream, !.status = IF @ = "connecting" THEN "failed" ELSE @]
  /\ UNCHANGED <<facts, page, request, heals, due, server>>

\* doctorHealLevel3 shows what the user may do by hand; so may any user.
ByHand(f) ==
  /\ Click /\ f \in Facts \ facts /\ facts' = facts \cup {f}
  /\ UNCHANGED <<page, request, heals, due, modal, server>>

-----------------------------------------------------------------------------
DoctorNext ==
  \/ RunDoctorCheck \/ DueCheck \/ DoctorRun \/ RenderDoctorResults \/ CheckFails
  \/ \E c \in Checks : DoctorHealLevel1(c)
  \/ \E h \in Checks \X BOOLEAN : HealLevel1Ends(h)
  \/ \E c \in Checks, s \in Streams : DoctorHealLevel2(c, s)
  \/ \E s \in Streams : HealLevel2(s) \/ Closes(s) \/ Told(s)
  \/ Opens \/ CloseDoctorHealL2Modal \/ DoctorHealL2Send \/ Errs
  \/ \E f \in Facts : ByHand(f)

\* Requests are answered, commands end and messages arrive; the user need do
\* nothing.
DoctorFairness ==
  /\ WF_doctorVars(DoctorRun) /\ WF_doctorVars(RenderDoctorResults)
  /\ WF_doctorVars(\E h \in Checks \X BOOLEAN : HealLevel1Ends(h))
  /\ \A s \in Streams : WF_doctorVars(HealLevel2(s)) /\ WF_doctorVars(Closes(s)) /\ WF_doctorVars(Told(s))

DoctorSpec == DoctorInit /\ [][DoctorNext]_doctorVars /\ DoctorFairness

-----------------------------------------------------------------------------
\* The page waits for nothing that does not come.
DoctorReady ==
  /\ ~page.running
  /\ \A c \in {d \in Checks : HealLevel[d] = 1} : page.button[c] # "healing"
  /\ \A s \in Streams : modal.es = s => proc[s].pc \notin {"killed", "over"}

\* The page comes back from what it waits for, also when a request fails, a
\* heal replaces another or a modal was closed meanwhile: the check button
\* works again, a heal button says how the heal ended, and a modal does not
\* listen to a process that was killed or is over.
DoctorComesBack == <>[]DoctorReady
=============================================================================
