------------------------------- MODULE Daemon -------------------------------
(***************************************************************************)
(* The life of the daemon: aqm start, its check for a daemon that runs     *)
(* already, the poller, the update that ends in a new process, and the two *)
(* ways to stop (src/cli.ts, polling/issue-poller.ts, update/self-updater  *)
(* .ts, server/pid-manager.ts, routes/version.ts).  One issue stands for   *)
(* the work there is; JobQueue has the rules of the queue.                 *)
(***************************************************************************)
EXTENDS Integers, FiniteSets

CONSTANTS
  Procs,       \* process ids
  Nobody,
  Polls,       \* the mode is polling or hybrid
  MaxVersion,  \* bound: versions on the remote branch
  MaxStops,    \* bound: signals and crashes
  Mishaps       \* what may go wrong: "update fails", "second start"

ASSUME DaemonAssumption == Nobody \notin Procs /\ Polls \in BOOLEAN /\ MaxVersion \in Nat

VARIABLES
  proc,     \* [Procs -> [pc, accepting, polling, version, replaced]]: replaced are
            \* the files of the process, under it
  pidFile,  \* data/aqm.pid: Nobody or a process
  handling, \* processes whose handler works on the job
  waiting,  \* processes that have the job in their queue
  job,      \* the newest job of the issue: [status, retry]
  labelled, \* the issue has the trigger label
  disk,     \* [head, built]: versions of the source and of what npm has built of it
  remote,   \* version of the remote branch
  stops

world == <<pidFile, handling, waiting, job, labelled, disk, remote, stops>>
work == <<handling, waiting, job>>
daemonVars == <<proc, world>>

Off == [pc |-> "off", accepting |-> FALSE, polling |-> FALSE, version |-> 0, replaced |-> FALSE]
Alive(p) == proc[p].pc # "off"
NoWork == [status |-> "none", retry |-> FALSE]

DaemonInit ==
  /\ proc = [p \in Procs |-> Off] /\ pidFile = Nobody
  /\ handling = {} /\ waiting = {} /\ job = NoWork /\ labelled = FALSE
  /\ disk = [head |-> 0, built |-> 0] /\ remote = 0 /\ stops = 0

-----------------------------------------------------------------------------
(* Start.                                                                  *)

\* Mutant: only what was queued is taken up.
RecoveredQueued(j) == j

\* JobQueue.recover: what ran when the last process ended is queued again.
Recovered(j) == IF j.status = "running" THEN [j EXCEPT !.status = "queued"] ELSE j

\* startCommand up to the check of the PID file: the store is opened, its
\* jobs are recovered and the poller is started.
Booting == [pc |-> "boot", accepting |-> TRUE, polling |-> Polls, version |-> disk.built,
            replaced |-> FALSE]

BootWork(p) ==
  /\ job' = Recovered(job)
  /\ waiting' = IF job'.status = "queued" THEN waiting \cup {p} ELSE waiting

\* aqm start; bin/aqm looks for a daemon first, cli.js does so in CheckPid.
Start(p) ==
  /\ ~Alive(p) /\ pidFile # p /\ p \notin handling
  /\ "second start" \in Mishaps \/ \A q \in Procs : ~Alive(q)
  /\ proc' = [proc EXCEPT ![p] = Booting]
  /\ BootWork(p)
  /\ UNCHANGED <<pidFile, handling, labelled, disk, remote, stops>>

\* A process that ends takes its handlers and its queue with it.
Ends(p) == /\ proc' = [proc EXCEPT ![p] = Off]
           /\ handling' = handling \ {p} /\ waiting' = waiting \ {p}

\* cleanupStalePid.
CheckPid(p) ==
  /\ proc[p].pc = "boot"
  /\ IF pidFile # Nobody /\ Alive(pidFile)
     THEN Ends(p) /\ UNCHANGED pidFile
     ELSE /\ proc' = [proc EXCEPT ![p].pc = "checked"] /\ pidFile' = Nobody
          /\ UNCHANGED <<handling, waiting>>
  /\ UNCHANGED <<job, labelled, disk, remote, stops>>

\* The server listens and the file is written; another process may have passed
\* the check meanwhile.
Serve(p) ==
  /\ proc[p].pc = "checked"
  /\ proc' = [proc EXCEPT ![p].pc = "up"] /\ pidFile' = p
  /\ UNCHANGED <<work, labelled, disk, remote, stops>>

-----------------------------------------------------------------------------
(* Work.                                                                   *)

Label ==
  /\ ~labelled /\ labelled' = TRUE
  /\ UNCHANGED <<proc, pidFile, work, disk, remote, stops>>

\* pollProjectLabel: an issue without a job gets one; pollFailedJobs: a failed
\* job that is no retry gets another.  A queue that shuts down takes neither.
Poll(p) ==
  /\ proc[p].pc \in {"boot", "checked", "up"} /\ proc[p].polling /\ proc[p].accepting
  /\ \/ labelled /\ job.status = "none" /\ job' = [status |-> "queued", retry |-> FALSE]
     \/ job.status = "failure" /\ ~job.retry /\ job' = [status |-> "queued", retry |-> TRUE]
  /\ waiting' = waiting \cup {p}
  /\ UNCHANGED <<proc, pidFile, handling, labelled, disk, remote, stops>>

\* processNext.
Begin(p) ==
  /\ p \in waiting /\ waiting' = waiting \ {p} /\ proc[p].accepting
  /\ IF job.status = "queued" THEN /\ job' = [job EXCEPT !.status = "running"]
                                   /\ handling' = handling \cup {p}
     ELSE UNCHANGED <<job, handling>>
  /\ UNCHANGED <<proc, pidFile, labelled, disk, remote, stops>>

Finish(p) ==
  /\ p \in handling /\ handling' = handling \ {p}
  /\ \E s \in {"success", "failure"} : job' = [job EXCEPT !.status = s]
  /\ UNCHANGED <<proc, pidFile, waiting, labelled, disk, remote, stops>>

-----------------------------------------------------------------------------
(* Updates.                                                                *)

Released ==
  /\ remote < MaxVersion /\ remote' = remote + 1
  /\ UNCHANGED <<proc, pidFile, work, labelled, disk, stops>>

\* checkForUpdates of the poller, and performGracefulRestart: poller and
\* scheduler stop, the queue takes no more.
CheckForUpdates(p) ==
  /\ proc[p].pc = "up" /\ proc[p].polling /\ disk.head # remote
  /\ proc' = [proc EXCEPT ![p].pc = "restarting", ![p].accepting = FALSE, ![p].polling = FALSE]
  /\ UNCHANGED world

\* queue.shutdown resolves when no handler is at work, or after five minutes.
Waited(p) ==
  /\ proc[p].pc = "restarting"
  /\ proc' = [proc EXCEPT ![p].pc = "updating"]
  /\ UNCHANGED world

\* The catch of performGracefulRestart starts the poller, and nothing else.
Continues(p) == proc' = [proc EXCEPT ![p].pc = "up", ![p].polling = Polls]

\* performSelfUpdate.  Nothing new: the process stays as it is, with neither
\* poller nor queue, for performGracefulRestart has stopped both.  Otherwise
\* pull, npm ci and build, and a new process takes the place of this one,
\* which removes the PID file as it exits.  Any of the commands may fail; one
\* that fails after the pull is not tried again, for then nothing is new.
PerformSelfUpdate(p) ==
  /\ proc[p].pc = "updating"
  /\ \/ /\ disk.head = remote
        /\ proc' = [proc EXCEPT ![p].pc = "up"]
        /\ UNCHANGED <<pidFile, work, disk>>
     \/ /\ disk.head # remote /\ "update fails" \in Mishaps
        /\ \/ UNCHANGED disk \/ disk' = [disk EXCEPT !.head = remote]
        /\ Continues(p)
        /\ UNCHANGED <<pidFile, work>>
     \/ /\ disk.head # remote
        /\ disk' = [head |-> remote, built |-> remote]
        /\ \E q \in Procs \ {p} :
             /\ ~Alive(q) /\ q \notin handling /\ pidFile # q
             /\ proc' = [proc EXCEPT ![p] = Off, ![q] = [Booting EXCEPT !.version = remote]]
             /\ job' = Recovered(job)
             /\ waiting' = IF job'.status = "queued" THEN (waiting \ {p}) \cup {q} ELSE waiting \ {p}
        /\ handling' = handling \ {p} /\ pidFile' = Nobody
  /\ UNCHANGED <<labelled, remote, stops>>

\* POST /api/update: active jobs are cancelled, and the files, if there are
\* newer ones, replaced under the process, which nothing restarts.  It is served
\* while a restart waits for the handlers, too, which then finds nothing new.
\* A cancelled job's handler works on (JobQueue); here it ends.
UpdateFromPage(p) ==
  /\ proc[p].pc \in {"up", "restarting", "updating"}
  /\ job' = IF job.status \in {"queued", "running"} THEN [job EXCEPT !.status = "cancelled"] ELSE job
  /\ handling' = handling \ {p}
  /\ IF disk.head = remote THEN UNCHANGED <<proc, disk>>
     ELSE /\ disk' = [head |-> remote, built |-> remote]
          /\ proc' = [proc EXCEPT ![p].replaced = TRUE]
  /\ UNCHANGED <<pidFile, waiting, labelled, remote, stops>>

-----------------------------------------------------------------------------
(* Stop.                                                                   *)

\* SIGINT or SIGTERM: gracefulShutdown.  One in the middle of an update, which
\* then races with it, is left out.
Signal(p) ==
  /\ stops < MaxStops /\ stops' = stops + 1
  /\ proc[p].pc = "up"
  /\ proc' = [proc EXCEPT ![p].pc = "stopping", ![p].accepting = FALSE, ![p].polling = FALSE]
  /\ UNCHANGED <<pidFile, work, labelled, disk, remote>>

\* After thirty seconds, what Claude still does is ended: the handler may have
\* recorded a failure before the process exits.
Shutdown(p) ==
  /\ proc[p].pc = "stopping"
  /\ job' \in {job} \cup (IF p \in handling THEN {[job EXCEPT !.status = "failure"]} ELSE {})
  /\ Ends(p) /\ pidFile' = Nobody
  /\ UNCHANGED <<labelled, disk, remote, stops>>

\* kill -9, which leaves the PID file; or an exception nobody catches, at which
\* a process that has come to serve removes it.
Dies(p) ==
  /\ Alive(p) /\ stops < MaxStops /\ stops' = stops + 1
  /\ Ends(p)
  /\ pidFile' \in {pidFile} \cup (IF proc[p].pc \in {"boot", "checked"} THEN {} ELSE {Nobody})
  /\ UNCHANGED <<job, labelled, disk, remote>>

-----------------------------------------------------------------------------
DaemonNext ==
  \/ Label \/ Released
  \/ \E p \in Procs :
       \/ Start(p) \/ CheckPid(p) \/ Serve(p) \/ Poll(p) \/ Begin(p) \/ Finish(p)
       \/ CheckForUpdates(p) \/ Waited(p) \/ PerformSelfUpdate(p) \/ UpdateFromPage(p)
       \/ Signal(p) \/ Shutdown(p) \/ Dies(p)

\* The user starts a daemon that has ended; timers fire, commands return and
\* handlers end.
DaemonFairness ==
  /\ WF_daemonVars(\E p \in Procs : Start(p))
  /\ \A p \in Procs :
       /\ WF_daemonVars(CheckPid(p)) /\ WF_daemonVars(Serve(p))
       /\ WF_daemonVars(Poll(p)) /\ WF_daemonVars(Begin(p)) /\ WF_daemonVars(Finish(p))
       /\ WF_daemonVars(CheckForUpdates(p)) /\ WF_daemonVars(Waited(p))
       /\ WF_daemonVars(PerformSelfUpdate(p)) /\ WF_daemonVars(Shutdown(p))

DaemonSpec == DaemonInit /\ [][DaemonNext]_daemonVars /\ DaemonFairness

-----------------------------------------------------------------------------
\* The process has been updated from a page while it waited to restart: it is
\* there, and neither polls nor takes a job until somebody stops it.
Stranded(p) == proc[p].pc = "up" /\ proc[p].replaced /\ ~proc[p].accepting /\ ~proc[p].polling

\* A daemon is up, of the version released, and has not left the issue.
Serving ==
  \/ \E p \in Procs : Stranded(p) /\ pidFile = p
  \/ /\ disk.built = remote
     /\ \E p \in Procs : /\ proc[p].pc = "up" /\ pidFile = p
                         /\ proc[p].version = remote \/ proc[p].replaced
     /\ labelled => job.status \in {"success", "failure", "cancelled"}
     /\ job.status = "failure" => job.retry
=============================================================================
