------------------------------ MODULE JobBoard ------------------------------
(***************************************************************************)
(* The board of jobs on a dashboard page and the requests of its user      *)
(* (public/js/state.js, render-jobs.js, kanban.js, modal.js, the job       *)
(* actions of app.js; server/routes/jobs.ts).  The stream of Dashboard is  *)
(* taken as it is shown to be there: it brings the jobs again and again.   *)
(* Ids grow with the time of creation.                                     *)
(***************************************************************************)
EXTENDS Integers, FiniteSets, FiniteSetsExt, Functions

CONSTANTS
  MaxJobs,    \* bound: jobs ever created
  Limit,      \* jobs the stream sends (20 in the code)
  None,
  MaxActs,    \* bound: what the user does
  MaxLists    \* bound: answers to GET /api/jobs on their way

VARIABLES
  jobs,       \* the store: id -> [status, priority]
  list,       \* currentJobs, of the same form
  filter,     \* currentFilter
  selected,   \* selectedJobId, or None
  detail,     \* the job the detail panel shows, or None
  question,   \* the confirmation on the screen, or None: [op, id]
  requests,   \* sent and unanswered: [op, id, value, old]
  answers,    \* lists on their way
  acts

page == <<list, filter, selected, detail>>
boardVars == <<jobs, page, question, requests, answers, acts>>

Active == {"queued", "running"}
Over == {"success", "failure", "cancelled"}
Filters == {"all", "running", "queued", "failure"}
Priorities == {"normal", "high"}
Job(s, p) == [status |-> s, priority |-> p]

BoardInit ==
  /\ \E n \in {1, 2} : jobs = [i \in 1 .. n |-> Job("queued", IF i = 1 THEN "normal" ELSE "high")]
  /\ list = jobs /\ filter = "all"
  /\ selected = 1 /\ detail = 1
  /\ question = None /\ requests = {} /\ answers = {} /\ acts = 0

-----------------------------------------------------------------------------
(* What the server lists.                                                  *)

WithStatus(js, ss) == {i \in DOMAIN js : js[i].status \in ss}

\* GET /api/jobs.
Listed == Restrict(jobs, DOMAIN jobs \ WithStatus(jobs, {"archived"}))

\* The newest n of a set of ids.
Newest(S, n) == {i \in S : Cardinality({k \in S : k > i}) < n}

\* getInitialJobs: the active jobs, and of the others as many as there is room.
InitialJobs ==
  LET active == WithStatus(jobs, Active)
      room == IF Cardinality(active) < Limit THEN Limit - Cardinality(active) ELSE 0
  IN  Restrict(jobs, active \cup Newest(WithStatus(jobs, Over), room))

-----------------------------------------------------------------------------
(* What the page shows.                                                    *)

FilterJobs(l, f) == {i \in DOMAIN l : f = "all" \/ l[i].status = f}

\* sortJobs, which puts active jobs first.
FirstOf(l, S) ==
  LET rank == [running |-> 0, queued |-> 1, failure |-> 2, success |-> 3, cancelled |-> 4]
  IN  CHOOSE i \in S : \A k \in S : \/ rank[l[i].status] < rank[l[k].status]
                                    \/ rank[l[i].status] = rank[l[k].status] /\ i >= k

\* Mutant: what was selected remains so while it exists.
RenderKeeps(l, f) ==
  LET S == FilterJobs(l, f)
  IN  /\ list' = l /\ filter' = f
      /\ IF DOMAIN l = {} THEN detail' = None /\ UNCHANGED selected
         ELSE IF S = {} THEN UNCHANGED <<selected, detail>>
         ELSE /\ selected' = IF selected \in DOMAIN l THEN selected ELSE FirstOf(l, S)
              /\ detail' = IF selected' \in S THEN selected' ELSE FirstOf(l, S)

\* renderFromState: a selection that is not shown moves to the first job that
\* is active, or to the first.  A filter that leaves nothing leaves the
\* detail panel as it was.
Render(l, f) ==
  LET S == FilterJobs(l, f)
  IN  /\ list' = l /\ filter' = f
      /\ IF DOMAIN l = {} THEN detail' = None /\ UNCHANGED selected
         ELSE IF S = {} THEN UNCHANGED <<selected, detail>>
         ELSE /\ selected' = IF selected \in S THEN selected ELSE FirstOf(l, S)
              /\ detail' = selected'

SetFilter(f) ==
  /\ f # filter /\ acts < MaxActs /\ acts' = acts + 1
  /\ Render(list, f)
  /\ UNCHANGED <<jobs, question, requests, answers>>

SelectJob(i) ==
  /\ i \in FilterJobs(list, filter) /\ i # selected /\ acts < MaxActs /\ acts' = acts + 1
  /\ selected' = i /\ detail' = i
  /\ UNCHANGED <<jobs, list, filter, question, requests, answers>>

\* selectJobFromLogs: of all jobs, whatever the filter; the detail panel stays.
SelectJobFromLogs(i) ==
  /\ i \in DOMAIN list /\ i # selected /\ acts < MaxActs /\ acts' = acts + 1
  /\ selected' = i
  /\ UNCHANGED <<jobs, list, filter, detail, question, requests, answers>>

\* A list replaces the jobs: objects that a request holds on to are shown no more.
HandleData(l) ==
  /\ Render(l, filter)
  /\ requests' = {[r EXCEPT !.old = None] : r \in requests}

\* A message of the stream.
Poll ==
  /\ HandleData(InitialJobs)
  /\ UNCHANGED <<jobs, question, answers, acts>>

\* The answer to a GET, which may be older than what is shown.
ListArrives ==
  /\ \E l \in answers : HandleData(l) /\ answers' = answers \ {l}
  /\ UNCHANGED <<jobs, question, acts>>

-----------------------------------------------------------------------------
(* What the user asks for.                                                 *)

Send(rs) == requests' = requests \cup rs

Request(op, i, v, old) == [op |-> op, id |-> i, value |-> v, old |-> old]

\* renderJobDetail: what the job in detail may be told to do.
Buttons ==
  {op \in {"cancel", "retry", "delete"} :
     /\ detail \in DOMAIN list
     /\ CASE op = "cancel" -> list[detail].status \in Active
          [] op = "retry"  -> list[detail].status = "failure"
          [] op = "delete" -> list[detail].status \notin Active}

\* showConfirm: a second question takes the place of the first, whose
\* promise is never kept.
Ask ==
  /\ acts < MaxActs /\ acts' = acts + 1
  /\ \/ "cancel" \in Buttons /\ question' = [op |-> "cancel", id |-> detail]
     \/ question' = [op |-> "clear", id |-> None]
  /\ UNCHANGED <<jobs, page, requests, answers>>

\* closeConfirm.  clearAllJobs deletes what is over by now.
CloseConfirm ==
  /\ question # None /\ question' = None
  /\ \/ UNCHANGED requests
     \/ question.op = "cancel" /\ Send({Request("cancel", question.id, None, None)})
     \/ question.op = "clear"
        /\ Send({Request("delete", i, None, None) : i \in WithStatus(list, Over)})
  /\ UNCHANGED <<jobs, page, answers, acts>>

\* Without a question.
PressButton ==
  /\ acts < MaxActs /\ acts' = acts + 1
  /\ \E op \in Buttons \ {"cancel"} : Send({Request(op, detail, None, None)})
  /\ UNCHANGED <<jobs, page, question, answers>>

\* handleDrop of one queued card on another: shown at once, then asked for.
HandleDrop(i, k) ==
  /\ {i, k} \subseteq WithStatus(list, {"queued"}) /\ i # k
  /\ acts < MaxActs /\ acts' = acts + 1
  /\ list' = [list EXCEPT ![i].priority = list[k].priority]
  /\ Send({Request("priority", i, list[k].priority, list[i].priority)})
  /\ UNCHANGED <<jobs, filter, selected, detail, question, answers>>

-----------------------------------------------------------------------------
(* The server answers.                                                     *)

\* retryJob archives the job and creates another (bound: one of them).
Retried(i) ==
  IF MaxJobs \in DOMAIN jobs THEN {}
  ELSE {[ok |-> TRUE, jobs |-> [k \in DOMAIN jobs \cup {MaxJobs} |->
           IF k = i THEN [jobs[i] EXCEPT !.status = "archived"]
           ELSE IF k = MaxJobs THEN Job("queued", jobs[i].priority) ELSE jobs[k]]]}

\* The store after a request, and whether it was granted.  A retry may come
\* upon a pull request, and marks the job a success instead.
Outcomes(r) ==
  LET i == r.id
      no == [jobs |-> jobs, ok |-> FALSE]
      set(s) == [jobs EXCEPT ![i].status = s]
  IN  IF i \notin DOMAIN jobs THEN {no}
      ELSE CASE r.op = "cancel"   -> IF jobs[i].status \in Active THEN {[jobs |-> set("cancelled"), ok |-> TRUE]} ELSE {no}
             [] r.op = "priority" -> {[jobs |-> [jobs EXCEPT ![i].priority = r.value], ok |-> TRUE]}
             [] r.op = "delete"   -> IF jobs[i].status \in Active THEN {no}
                                     ELSE {[jobs |-> Restrict(jobs, DOMAIN jobs \ {i}), ok |-> TRUE]}
             [] r.op = "retry"    -> IF jobs[i].status \notin {"failure", "cancelled"} THEN {no}
                                     ELSE {[jobs |-> set("success"), ok |-> FALSE]} \cup Retried(i)

\* Granted: the jobs are fetched again (not for a priority), a deleted one is
\* no longer selected.  Refused: a message is shown; a priority goes back on
\* the object that was changed.
Answer(r) ==
  /\ r \in requests
  /\ requests' = requests \ {r}
  /\ \E o \in Outcomes(r) :
       /\ jobs' = o.jobs
       /\ IF o.ok /\ r.op # "priority" THEN answers' = answers \cup {Listed'} ELSE UNCHANGED answers
       /\ selected' = IF o.ok /\ r.op = "delete" /\ selected = r.id THEN None ELSE selected
       /\ list' = IF ~o.ok /\ r.old # None /\ r.id \in DOMAIN list
                  THEN [list EXCEPT ![r.id].priority = r.old] ELSE list
  /\ Cardinality(answers) < MaxLists
  /\ UNCHANGED <<filter, detail, question, acts>>

\* The queue works on.
JobMoves(i) ==
  /\ i \in DOMAIN jobs
  /\ \/ jobs[i].status = "queued" /\ jobs' = [jobs EXCEPT ![i].status = "running"]
     \/ /\ jobs[i].status = "running"
        /\ \E s \in {"success", "failure"} : jobs' = [jobs EXCEPT ![i].status = s]
  /\ UNCHANGED <<page, question, requests, answers, acts>>

-----------------------------------------------------------------------------
BoardNext ==
  \/ Poll \/ ListArrives \/ Ask \/ CloseConfirm \/ PressButton
  \/ \E f \in Filters : SetFilter(f)
  \/ \E i \in 1 .. MaxJobs : SelectJob(i) \/ SelectJobFromLogs(i) \/ JobMoves(i)
  \/ \E i, k \in 1 .. MaxJobs : HandleDrop(i, k)
  \/ \E r \in requests : Answer(r)

\* The stream speaks, requests are answered and the answers arrive.
BoardFairness ==
  /\ WF_boardVars(Poll) /\ WF_boardVars(ListArrives)
  /\ WF_boardVars(\E r \in requests : Answer(r))

BoardSpec == BoardInit /\ [][BoardNext]_boardVars /\ BoardFairness

-----------------------------------------------------------------------------
\* The board shows the jobs, and the details of one of those it lists.
BoardRight ==
  /\ requests = {}
  /\ list = InitialJobs
  /\ FilterJobs(list, filter) # {} => detail = selected /\ selected \in FilterJobs(list, filter)

\* In the end the board is right: it shows the jobs the server has, with the
\* priorities that were granted and not those that were only hoped for; the
\* detail panel, whose buttons act on its job, shows one that is listed,
\* unless the filter leaves none; and every request has been answered.
BoardSettles == <>[]BoardRight
=============================================================================
