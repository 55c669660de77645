------------------------------ MODULE MCPages ------------------------------
(***************************************************************************)
(* Small instances of the pages of the dashboard with the routes they      *)
(* call: the live list of jobs, the board, the notifications, the settings *)
(* form, the doctor and the setup wizard.  They share no state, so one run *)
(* explores them one by one: in each behaviour one page is used and the    *)
(* others stay where they begin.                                           *)
(***************************************************************************)
EXTENDS MCForm, Notifications

VARIABLES
  part,                                                                       \* the page in use
  version, clients, stream, es, conn, timer, orphans, live, versions, budget, \* of the live list
  jobs, list, jobFilter, selected, detail, question, requests, lists, clicks, \* of the board
  facts, page, request, heals, due, modal, proc, active, told, spent,         \* of the doctor
  field, wizard, offered, asked, asks, config, made, refused, hurried         \* of the wizard

dashboard == <<version, clients, stream, es, conn, timer, orphans, live, versions, budget>>
board == <<jobs, list, jobFilter, selected, detail, question, requests, lists, clicks>>
doctor == <<facts, page, request, heals, due, modal, proc, active, told, spent>>
setup == <<field, wizard, offered, asked, asks, config, made, refused, hurried>>
pagesVars == <<part, dashboard, board, notifVars, formVars, doctor, setup>>

-----------------------------------------------------------------------------
\* One page with a successor to its stream, at a server for one client.
D == INSTANCE Dashboard WITH
       Pages <- {1}, Streams <- {1, 2}, MaxClients <- 1, Keyed <- FALSE,
       MaxChanges <- 2, MaxActs <- 1, MaxErrors <- 1,
       shown <- live, answers <- versions

\* One job more than the stream sends.
B == INSTANCE JobBoard WITH
       MaxJobs <- 3, Limit <- 2, MaxActs <- 2, MaxLists <- 1,
       filter <- jobFilter, answers <- lists, acts <- clicks

\* A fault of each kind of heal.
H == INSTANCE Doctor WITH
       MaxStreams <- 2, NoStream <- None, Broken <- {"gh scopes", "sqlite3"}, Interactive <- {"gh-auth"},
       MaxClicks <- 2, MaxFailures <- 1

\* An old token that sees one repository, and a new one that sees two.
S == INSTANCE Setup WITH
       Tokens <- {"old", "new"}, Valid <- {"old", "new"}, Repos <- [old |-> {"r1"}, new |-> {"r1", "r2"}],
       MaxAsks <- [token |-> 2, repos |-> 2, labels |-> 2, preview |-> 1, apply |-> 1], MaxFailures <- 1, shown <- offered

-----------------------------------------------------------------------------
\* A page that is not in use stays in an initial state, one of each.
PagesInit ==
  /\ part \in {"dashboard", "board", "notifications", "settings", "doctor", "setup"}
  /\ D!DashboardInit /\ B!BoardInit /\ NotifInit /\ FormInit /\ H!DoctorInit /\ S!SetupInit
  /\ part # "board" => DOMAIN jobs = {1}
  /\ part # "notifications" => \A i \in DOMAIN notes : notes[i].type = "job_queued"

PagesNext ==
  \/ /\ part = "dashboard" /\ D!DashboardNext
     /\ UNCHANGED <<part, board, notifVars, formVars, doctor, setup>>
  \/ /\ part = "board" /\ B!BoardNext
     /\ UNCHANGED <<part, dashboard, notifVars, formVars, doctor, setup>>
  \/ /\ part = "notifications" /\ NotifNext
     /\ UNCHANGED <<part, dashboard, board, formVars, doctor, setup>>
  \/ /\ part = "settings" /\ FormNext
     /\ UNCHANGED <<part, dashboard, board, notifVars, doctor, setup>>
  \/ /\ part = "doctor" /\ H!DoctorNext
     /\ UNCHANGED <<part, dashboard, board, notifVars, formVars, setup>>
  \/ /\ part = "setup" /\ S!SetupNext
     /\ UNCHANGED <<part, dashboard, board, notifVars, formVars, doctor>>

\* The fairness of each module, while its page is in use.
PagesFairness ==
  /\ \A s \in {1, 2} :
       /\ WF_dashboard(part = "dashboard" /\ D!Poll(s)) /\ WF_dashboard(part = "dashboard" /\ D!Expire(s))
       /\ WF_dashboard(part = "dashboard" /\ D!ClientGone(s)) /\ WF_dashboard(part = "dashboard" /\ D!Forget(s))
       /\ WF_doctor(part = "doctor" /\ H!HealLevel2(s)) /\ WF_doctor(part = "doctor" /\ H!Closes(s))
       /\ WF_doctor(part = "doctor" /\ H!Told(s))
  /\ WF_dashboard(part = "dashboard" /\ D!Heartbeat)
  /\ WF_dashboard(part = "dashboard" /\ D!Reconnect(1)) /\ WF_dashboard(part = "dashboard" /\ D!Opens(1))
  /\ WF_dashboard(part = "dashboard" /\ D!Receives(1)) /\ WF_dashboard(part = "dashboard" /\ D!Drops(1))
  /\ WF_dashboard(part = "dashboard" /\ D!Answered(1))
  /\ WF_board(part = "board" /\ B!Poll) /\ WF_board(part = "board" /\ B!ListArrives)
  /\ WF_board(part = "board" /\ \E r \in requests : B!Answer(r))
  /\ WF_notifVars(part = "notifications" /\ Serve) /\ WF_notifVars(part = "notifications" /\ Answer)
  /\ WF_notifVars(part = "notifications" /\ \E i \in Ids : CardRemoved(i))
  /\ WF_doctor(part = "doctor" /\ H!DoctorRun) /\ WF_doctor(part = "doctor" /\ H!RenderDoctorResults)
  /\ WF_doctor(part = "doctor" /\ \E h \in H!Checks \X BOOLEAN : H!HealLevel1Ends(h))
  /\ WF_setup(part = "setup" /\ \E q \in asked : S!TokenValidated(q))
  /\ WF_setup(part = "setup" /\ \E q \in asked : S!LabelsCreated(q))
  /\ WF_setup(part = "setup" /\ \E q \in asked : S!ConfigApplied(q))

PagesSpec == PagesInit /\ [][PagesNext]_pagesVars /\ PagesFairness

-----------------------------------------------------------------------------
\* What the modules promise.

\* Dashboard: every page comes to show the jobs as they are, through lost
\* connections, evictions and late answers, unless a broadcast has forgotten it.
CatchesUp == <>[](part = "dashboard" => D!UpToDate)

\* JobBoard: the board comes to show the jobs with the priorities granted, and
\* the details of a job it lists.
BoardSettles == <>[]B!BoardRight

\* Doctor: the page comes back from what it waits for.
DoctorComesBack == <>[](part = "doctor" => H!DoctorReady)

\* Setup: the wizard can go on, and the repository that is configured has its
\* labels, unless step 3 has shown that they failed or was left before.
SetupCompletes == <>[]S!SetupRight
=============================================================================
