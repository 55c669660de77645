----------------------------- MODULE MCService -----------------------------
(***************************************************************************)
(* Small instances of what keeps the service going: the configuration, the *)
(* daemon with its updates and restarts, the record of the jobs, and the   *)
(* core loop that runs the phases of one.  They share no state here, so    *)
(* one run explores them one by one: in each behaviour one part works and  *)
(* the others stay where they begin.                                       *)
(***************************************************************************)
EXTENDS MCCoreLoop, JobRecord, ConfigFile, Daemon, TLC

-----------------------------------------------------------------------------
HandWritten(full, conc, limits, rules) ==
  [broken |-> FALSE, full |-> full, conc |-> conc, limits |-> limits, rules |-> rules]

\* An editor may leave a whole file, one that leaves sections out and has
\* rules, and one that does not parse.
SomeFiles == {HandWritten(TRUE, 1, "r" :> 1, 0), HandWritten(FALSE, None, "r" :> 2 @@ "q" :> None, 1),
              [HandWritten(FALSE, 2, "r" :> 1, 0) EXCEPT !.broken = TRUE]}

\* A job that an older version left in a file, another file of which the
\* table refuses a phase, and a new job.
MCContent ==
  [j \in {"old", "odd"} |->
     [status |-> "success", lines |-> <<1, 2>>, phases |-> <<"first">>,
      fault |-> IF j = "odd" THEN "refused" ELSE "none"]]

-----------------------------------------------------------------------------
VARIABLE part  \* the part that works

serviceVars == <<part, configVars, daemonVars, recordVars, vars>>

OnePlan == Numbered(<<1, 2>>, <<{}, {}>>, <<{f}, {f}>>)

\* A part that does not work stays in an initial state, one of each.
ServiceInit ==
  /\ part \in {"config", "daemon", "record", "loop"}
  /\ ConfigInit /\ DaemonInit /\ RecordInit /\ Init
  /\ part # "config" => local = None /\ user = None /\ base = HandWritten(TRUE, 1, "r" :> 1, 0)
  /\ part # "loop" => plan = OnePlan /\ parallel /\ recorded = {}

ServiceNext ==
  \/ part = "config" /\ ConfigNext /\ UNCHANGED <<part, daemonVars, recordVars, vars>>
  \/ part = "daemon" /\ DaemonNext /\ UNCHANGED <<part, configVars, recordVars, vars>>
  \/ part = "record" /\ RecordNext /\ UNCHANGED <<part, configVars, daemonVars, vars>>
  \/ part = "loop" /\ Next /\ UNCHANGED <<part, configVars, daemonVars, recordVars>>

\* The fairness of each part, while it works.
ServiceFairness ==
  /\ WF_configVars(part = "config" /\ EmitConfigChanged)
  /\ WF_configVars(part = "config" /\ RestartWatcher)
  /\ WF_daemonVars(part = "daemon" /\ \E p \in Procs : Start(p))
  /\ \A p \in Procs :
       /\ WF_daemonVars(part = "daemon" /\ CheckPid(p)) /\ WF_daemonVars(part = "daemon" /\ Serve(p))
       /\ WF_daemonVars(part = "daemon" /\ Poll(p))
       /\ WF_daemonVars(part = "daemon" /\ Begin(p)) /\ WF_daemonVars(part = "daemon" /\ Finish(p))
       /\ WF_daemonVars(part = "daemon" /\ CheckForUpdates(p)) /\ WF_daemonVars(part = "daemon" /\ Waited(p))
       /\ WF_daemonVars(part = "daemon" /\ PerformSelfUpdate(p)) /\ WF_daemonVars(part = "daemon" /\ Shutdown(p))
  /\ WF_vars(part = "loop" /\ LoopStep)
  /\ \A p \in Phases : WF_vars(part = "loop" /\ PhaseStep(p))

ServiceSpec == ServiceInit /\ [][ServiceNext]_serviceVars /\ ServiceFairness

-----------------------------------------------------------------------------
\* Whatever stops the daemon, in the end one is up, it is the last that was
\* released, unless a page has put that under it, and it has not left the issue
\* waiting: the job of a labelled issue is over, and one that failed was tried
\* again; or an update from a page has come in while it waited to restart, and
\* left it stranded.
ServiceGoesOn == <>[](part = "daemon" => Serving)

\* The core loop ends, with no phase left at work.
LoopFinishes == part = "loop" => LoopEnds
=============================================================================
