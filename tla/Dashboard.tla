----------------------------- MODULE Dashboard -----------------------------
(***************************************************************************)
(* The live dashboard: pages in browsers and the event streams that feed   *)
(* them (src/server/sse-manager.ts, routes/sse.ts; connectSSE and setProject*)
(* of public/js/app.js, state.js, api.js).  What the server would tell a   *)
(* page is a version of the jobs; of time, the model knows which clients   *)
(* have had no broadcast for two minutes.                                  *)
(***************************************************************************)
EXTENDS Integers, Sequences, SequencesExt

CONSTANTS
  Pages,        \* open pages
  Streams,      \* connections at one time, those the server still polls included
  None,
  MaxClients,   \* clients of the SSEManager (50 in the code)
  Keyed,        \* an API key is set, and the page knows it
  MaxChanges,   \* bound: changes of jobs
  MaxActs,      \* bound: what users do
  MaxErrors     \* bound: connections the network loses

VARIABLES
  version,  \* of the jobs in the store
  clients,  \* SSEManager.clients, in the order they connected
  stream,   \* connections: [open, polled, stale, mail]
  es,       \* the page's EventSource, unless it is closed
  conn,     \* what the page says of its connection
  timer,    \* reconnectTimer is set
  orphans,  \* reconnection timers the page no longer has a handle of
  shown,    \* currentJobs: of which version
  answers,  \* answers to GET /api/jobs on their way
  budget    \* [acts, errors] left

server == <<version, clients, stream>>
page == <<es, conn, timer, orphans, shown, answers>>
dashboardVars == <<server, page, budget>>

Idle == [open |-> FALSE, polled |-> FALSE, stale |-> FALSE, mail |-> None]

DashboardInit ==
  /\ version = 0
  /\ clients = <<>> /\ stream = [s \in Streams |-> Idle]
  /\ es = [p \in Pages |-> None] /\ conn = [p \in Pages |-> "connecting"]
  /\ timer = [p \in Pages |-> TRUE] /\ orphans = [p \in Pages |-> 0]
  /\ shown = [p \in Pages |-> -1]
  /\ answers = [p \in Pages |-> {version}]
  /\ budget = [acts |-> MaxActs, errors |-> MaxErrors]

-----------------------------------------------------------------------------
(* The server.                                                             *)

\* removeClient: its controller is closed and it is forgotten; an unknown id
\* is left alone.
RemoveClient(s, st) == IF Contains(clients, s) THEN [st EXCEPT ![s].open = FALSE] ELSE st

\* addClient evicts the clients that connected first when there is no room;
\* the page is sent the current jobs at once, and every ten seconds.
Accept(s) ==
  LET out == IF Len(clients) >= MaxClients THEN {Head(clients)} ELSE {}
  IN  /\ clients' = Append(IF out = {} THEN clients ELSE Tail(clients), s)
      /\ stream' = [t \in Streams |->
           IF t = s THEN [open |-> TRUE, polled |-> TRUE, stale |-> FALSE, mail |-> version]
           ELSE IF t \in out THEN [stream[t] EXCEPT !.open = FALSE] ELSE stream[t]]

\* The interval of a connection sends the jobs again; to one that is closed
\* it sends nothing.  Bound: the last message has been read.
Poll(s) ==
  /\ stream[s].polled /\ stream[s].open /\ stream[s].mail = None
  /\ stream' = [stream EXCEPT ![s].mail = version]
  /\ UNCHANGED <<version, clients, page, budget>>

\* Five minutes after it began, the polling ends and the client is removed.
Expire(s) ==
  /\ stream[s].polled
  /\ stream' = RemoveClient(s, [stream EXCEPT ![s].polled = FALSE])
  /\ clients' = Remove(clients, s)
  /\ UNCHANGED <<version, page, budget>>

\* Two minutes pass without a broadcast; heartbeats do not count.
GoesQuiet(s) ==
  /\ Contains(clients, s) /\ ~stream[s].stale
  /\ stream' = [stream EXCEPT ![s].stale = TRUE]
  /\ UNCHANGED <<version, clients, page, budget>>

\* sendHeartbeat and removeStale, every thirty seconds.
Heartbeat ==
  LET out == {s \in ToSet(clients) : stream[s].stale}
  IN  /\ out # {}
      /\ stream' = [s \in Streams |-> IF s \in out THEN [stream[s] EXCEPT !.open = FALSE] ELSE stream[s]]
      /\ clients' = SelectSeq(clients, LAMBDA s : s \notin out)
      /\ UNCHANGED <<version, page, budget>>

\* broadcast forgets the stale clients that the heartbeat has not met yet,
\* without closing their controllers, and the others are fresh again.  The page
\* listens to none of the events about jobs.
Broadcast ==
  /\ clients' = SelectSeq(clients, LAMBDA s : ~stream[s].stale)
  /\ stream' = stream

\* The page has gone from the connection: cancel().
ClientGone(s) ==
  /\ stream[s].open /\ \A p \in Pages : es[p] # s
  /\ stream' = [stream EXCEPT ![s].open = FALSE, ![s].polled = FALSE]
  /\ clients' = Remove(clients, s)
  /\ UNCHANGED <<version, page, budget>>

\* A connection that is over leaves nothing behind.
Forget(s) ==
  /\ ~stream[s].open /\ ~stream[s].polled /\ stream[s] # Idle
  /\ \A p \in Pages : es[p] # s
  /\ stream' = [stream EXCEPT ![s] = Idle]
  /\ UNCHANGED <<version, clients, page, budget>>

\* A job is created, updated or deleted; the store's event is broadcast.
JobChanges ==
  /\ version < MaxChanges /\ version' = version + 1
  /\ Broadcast
  /\ UNCHANGED <<page, budget>>

-----------------------------------------------------------------------------
(* The page.                                                               *)

Free(s) == stream[s] = Idle /\ \A p \in Pages : es[p] # s

\* connectSSE closes the EventSource there is; the timer keeps running.
Connect(p) ==
  /\ \E s \in Streams : Free(s) /\ es' = [es EXCEPT ![p] = s]
  /\ conn' = [conn EXCEPT ![p] = "connecting"]

\* The timer of the last error, or one whose handle was lost.
Reconnect(p) ==
  /\ \/ timer[p] /\ timer' = [timer EXCEPT ![p] = FALSE] /\ UNCHANGED orphans
     \/ orphans[p] > 0 /\ orphans' = [orphans EXCEPT ![p] = @ - 1] /\ UNCHANGED timer
  /\ Connect(p)
  /\ UNCHANGED <<server, shown, answers, budget>>

\* Mutant: the reconnection is left to the browser, which the page has told to stop.
FailsForGood(p) ==
  /\ es' = [es EXCEPT ![p] = None]
  /\ conn' = [conn EXCEPT ![p] = "disconnected"]
  /\ UNCHANGED <<timer, orphans>>

\* onerror: closed, and to be tried again.  The handle of a timer that is
\* still running is lost.
Fails(p) ==
  /\ es' = [es EXCEPT ![p] = None]
  /\ conn' = [conn EXCEPT ![p] = "disconnected"]
  /\ timer' = [timer EXCEPT ![p] = TRUE]
  /\ orphans' = [orphans EXCEPT ![p] = IF timer[p] THEN @ + 1 ELSE @]

\* The server answers: 401 when there is a key, for the page sends the key
\* and the route wants a session token; else onopen, which stops the timer.
Opens(p) ==
  LET s == es[p]
  IN  /\ s # None /\ stream[s] = Idle
      /\ IF Keyed
         THEN Fails(p) /\ UNCHANGED <<clients, stream>>
         ELSE /\ Accept(s)
              /\ conn' = [conn EXCEPT ![p] = "connected"]
              /\ timer' = [timer EXCEPT ![p] = FALSE]
              /\ UNCHANGED <<es, orphans>>
      /\ UNCHANGED <<version, shown, answers, budget>>

\* onmessage: handleData replaces what is shown.
Receives(p) ==
  LET s == es[p]
  IN  /\ s # None /\ stream[s].mail # None
      /\ shown' = [shown EXCEPT ![p] = stream[s].mail]
      /\ stream' = [stream EXCEPT ![s].mail = None]
      /\ UNCHANGED <<version, clients, es, conn, timer, orphans, answers, budget>>

\* The server has closed the connection and all it sent is read; or the
\* network loses it.
Drops(p) ==
  LET s == es[p]
  IN  /\ s # None /\ stream[s] # Idle
      /\ \/ ~stream[s].open /\ stream[s].mail = None /\ UNCHANGED budget
         \/ budget.errors > 0 /\ budget' = [budget EXCEPT !.errors = @ - 1]
      /\ Fails(p)
      /\ UNCHANGED <<server, shown, answers>>

\* visibilitychange.
ComesToFront(p) ==
  /\ es[p] = None
  /\ timer' = [timer EXCEPT ![p] = FALSE]
  /\ Connect(p)
  /\ UNCHANGED <<server, orphans, shown, answers, budget>>

\* GET /api/jobs is answered; the answer comes when it comes.
Refetch(p) == answers' = [answers EXCEPT ![p] = @ \cup {version}]

\* setProject and saveApiKey fetch the jobs and connect anew, whatever the
\* timer is about to do.  (Which project is shown is for JobBoard.)
ChangesProject(p) ==
  /\ budget.acts > 0 /\ budget' = [budget EXCEPT !.acts = @ - 1]
  /\ Refetch(p) /\ Connect(p)
  /\ UNCHANGED <<server, timer, orphans, shown>>

\* An answer arrives, perhaps after newer news; or it never does.
Answered(p) ==
  /\ \E a \in answers[p] :
       /\ answers' = [answers EXCEPT ![p] = @ \ {a}]
       /\ shown' = [shown EXCEPT ![p] = a]
  /\ UNCHANGED <<server, es, conn, timer, orphans, budget>>

-----------------------------------------------------------------------------
DashboardNext ==
  \/ \E s \in Streams : Poll(s) \/ Expire(s) \/ GoesQuiet(s) \/ ClientGone(s) \/ Forget(s)
  \/ Heartbeat \/ JobChanges
  \/ \E p \in Pages : \/ Reconnect(p) \/ Opens(p) \/ Receives(p) \/ Drops(p) \/ ComesToFront(p)
                      \/ ChangesProject(p) \/ Answered(p)

\* Intervals and timers of the server fire, those of the page too, and what
\* is sent arrives.
DashboardFairness ==
  /\ \A s \in Streams : WF_dashboardVars(Poll(s)) /\ WF_dashboardVars(Expire(s))
                        /\ WF_dashboardVars(ClientGone(s)) /\ WF_dashboardVars(Forget(s))
  /\ WF_dashboardVars(Heartbeat)
  /\ \A p \in Pages : WF_dashboardVars(Reconnect(p)) /\ WF_dashboardVars(Opens(p))
                      /\ WF_dashboardVars(Receives(p)) /\ WF_dashboardVars(Drops(p))
                      /\ WF_dashboardVars(Answered(p))

DashboardSpec == DashboardInit /\ [][DashboardNext]_dashboardVars /\ DashboardFairness

-----------------------------------------------------------------------------
\* The server has forgotten the page's client and its stream is open still:
\* when its polling is over nothing comes any more, and nothing is noticed.
Silent(p) == /\ es[p] # None
             /\ stream[es[p]].open /\ ~stream[es[p]].polled
             /\ ~Contains(clients, es[p])

\* Every page that is not left in silence shows the jobs as they are.
UpToDate == \A p \in Pages : shown[p] = version \/ Silent(p)

\* Every page shows in the end what the server would tell it: through lost
\* connections, evictions, streams that end after five minutes and answers
\* that come late.  The one exception is the page whose client a broadcast has
\* forgotten: its stream is open and dead, and its user sees "connected".
CatchesUp == <>[]UpToDate
=============================================================================
