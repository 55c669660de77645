--------------------------- MODULE ServiceProofs ---------------------------
(***************************************************************************)
(* Proofs about what keeps the service going, modules ConfigFile, Daemon   *)
(* and JobRecord: that the daemon runs with what its files say, that one   *)
(* of the processes serves and has the work there is, and what the tables  *)
(* keep of what was said to the store, for any number of processes,        *)
(* changes, jobs, files and crashes.                                       *)
(***************************************************************************)
EXTENDS JobRecord, ConfigFile, Daemon, SequenceLemmas

-----------------------------------------------------------------------------
(* The configuration.                                                      *)

\* Queue and scheduler have been told what the daemon believes; while a change
\* waits, a page may have told them the new concurrency already.
ToldOfIt ==
  \/ applied = Told(effective.config)
  \/ /\ pending /\ LoadConfigSucceeds(user, base, local)
     /\ applied = [Told(effective.config) EXCEPT !.conc = Load(user, base, local).conc]

\* When no change waits, the daemon believes what the files say, of the user's
\* own file what it said at the last change of another.
Believed ==
  ~pending /\ "user" \notin unnoticed /\ LoadConfigSucceeds(user, base, local) =>
    cached = Load(user, base, local) /\ effective.config = cached

FileInv == "base" \in unnoticed \/ (ToldOfIt /\ Believed)

\* What is applied is what differs from what the daemon believes: with what
\* was applied before, it is all of the new configuration.
LEMMA AppliedLemma ==
  ASSUME FileInv, "base" \notin unnoticed, pending, LoadConfigSucceeds(user, base, local),
         ApplyConfigChanges(effective.config, Load(user, base, local))
  PROVE  applied' = Told(Load(user, base, local))
<1> DEFINE old == effective.config
           new == Load(user, base, local)
<1>1. /\ applied.conc = old.conc \/ applied.conc = new.conc
      /\ applied.limits = Limits(old) /\ applied.rules = old.rules
  BY DEF FileInv, ToldOfIt, Told
<1>2. [r \in Repos |-> IF Limits(new)[r] # Limits(old)[r] THEN Limits(new)[r] ELSE applied.limits[r]] = Limits(new)
  <2>1. \A r \in Repos : applied.limits[r] = Limits(old)[r]
    BY <1>1
  <2>2. Limits(new) = [r \in Repos |-> Limits(new)[r]]
    BY DEF Limits
  <2> HIDE DEF new, old
  <2> QED BY <2>1, <2>2
<1> HIDE DEF new, old
<1>3. applied' = [conc |-> IF new.conc # old.conc THEN new.conc ELSE applied.conc,
                  limits |-> Limits(new),
                  rules |-> IF new.rules # old.rules THEN new.rules ELSE applied.rules]
  BY <1>2 DEF ApplyConfigChanges, new, old
<1>4. applied' = [conc |-> new.conc, limits |-> Limits(new), rules |-> new.rules]
  BY <1>1, <1>3
<1> QED BY <1>4 DEF Told, new

\* A change made when none waits, of which a page may have told the queue.
LEMMA ChangeLemma ==
  ASSUME FileInv, ~pending, NEW changed \in {"base", "local", "user"}, NEW on, Noticed(changed, on),
         changed = "user" => ~on, effective' = effective,
         \/ applied' = applied
         \/ LoadConfigSucceeds(user, base, local)' /\ applied' = [applied EXCEPT !.conc = Load(user, base, local)'.conc]
             /\ changed # "user",
         changed = "local" => on
  PROVE  FileInv'
<1>1. CASE "base" \in unnoticed'
  BY <1>1 DEF FileInv
<1>2. CASE on /\ "base" \notin unnoticed'
  <2>1. unnoticed' = unnoticed /\ pending' /\ applied = Told(effective.config) /\ Told(effective'.config) = Told(effective.config)
    BY <1>2 DEF Noticed, FileInv, ToldOfIt
  <2>2. ToldOfIt' /\ Believed'
    BY <2>1 DEF ToldOfIt, Believed, Told, Limits
  <2> QED BY <2>2 DEF FileInv
<1>3. CASE ~on /\ "base" \notin unnoticed'
  <2>1. changed = "user" /\ "user" \in unnoticed' /\ "base" \notin unnoticed
    BY <1>3 DEF Noticed
  <2>2. applied' = applied /\ applied = Told(effective.config) /\ Told(effective'.config) = Told(effective.config)
    BY <2>1 DEF FileInv, ToldOfIt
  <2>3. ToldOfIt' /\ Believed'
    BY <2>1, <2>2 DEF ToldOfIt, Believed, Told, Limits
  <2> QED BY <2>3 DEF FileInv
<1> QED BY <1>1, <1>2, <1>3

LEMMA UpdateLemma ==
  ASSUME NEW p, NEW body, UpdateConfig(p, body),
         FileInv, ~pending
  PROVE  FileInv'
<1> DEFINE sent == Cleaned(body)
           new == [base EXCEPT !.conc = sent.conc, !.rules = IF sent.rules = None THEN @ ELSE sent.rules]
<1>1. CASE ~UpdateSucceeds(new)
  BY <1>1 DEF UpdateConfig, files, daemon, FileInv, ToldOfIt, Believed
<1>2. CASE UpdateSucceeds(new)
  <2>1. /\ base' = new /\ local' = local /\ user' = user /\ effective' = effective
        /\ Noticed("base", watch = "on")
        /\ \/ applied' = applied
           \/ LoadConfigSucceeds(user, new, local) /\ cached' = Load(user, new, local) /\ applied' = [applied EXCEPT !.conc = cached'.conc]
    BY <1>2 DEF UpdateConfig, Written
  <2> HIDE DEF new
  <2>2. \/ applied' = applied
        \/ LoadConfigSucceeds(user, base, local)' /\ applied' = [applied EXCEPT !.conc = Load(user, base, local)'.conc]
    BY <2>1 DEF LoadConfigSucceeds, Load
  <2> QED BY <2>1, <2>2, ChangeLemma
<1> QED BY <1>1, <1>2

LEMMA FileInvKept ==
  ASSUME Settled, FileInv, [ConfigNext]_configVars
  PROVE  FileInv'
<1>1. MayChange => ~pending
  BY DEF MayChange
<1>2. CASE EmitConfigChanged
  <2>1. CASE "base" \in unnoticed
    BY <1>2, <2>1 DEF EmitConfigChanged, FileInv
  <2>2. CASE "base" \notin unnoticed /\ LoadConfigSucceeds(user, base, local)
    <3>1. /\ pending /\ ~pending' /\ cached' = Load(user, base, local) /\ effective'.config = cached'
          /\ base' = base /\ local' = local /\ user' = user /\ ApplyConfigChanges(effective.config, Load(user, base, local))
      BY <1>2, <2>2 DEF EmitConfigChanged, ApplyConfigChanges
    <3>2. applied' = Told(Load(user, base, local))
      BY <2>2, <3>1, AppliedLemma
    <3>3. ToldOfIt' /\ Believed'
      BY <3>1, <3>2 DEF ToldOfIt, Believed, Told, Limits, Load, LoadConfigSucceeds
    <3> QED BY <3>3 DEF FileInv
  <2>3. CASE "base" \notin unnoticed /\ ~LoadConfigSucceeds(user, base, local)
    <3>1. base' = base /\ local' = local /\ user' = user /\ UNCHANGED daemon /\ unnoticed' = unnoticed
      BY <1>2, <2>3 DEF EmitConfigChanged
    <3> QED BY <2>3, <3>1 DEF FileInv, ToldOfIt, Believed, daemon, LoadConfigSucceeds, Told, Limits
  <2> QED BY <2>1, <2>2, <2>3
<1>3. CASE WatcherFails \/ RestartWatcher
  BY <1>3 DEF WatcherFails, RestartWatcher, FileInv, ToldOfIt, Believed, daemon, LoadConfigSucceeds, Told, Limits, Load
<1>4. CASE HandEdit
  <2>1. ~pending /\ Noticed("base", watch = "on") /\ UNCHANGED daemon
    BY <1>1, <1>4 DEF HandEdit
  <2> QED BY <2>1, ChangeLemma DEF daemon
<1>5. CASE EditLocal
  <2>1. ~pending /\ Noticed("local", TRUE) /\ UNCHANGED daemon
    BY <1>1, <1>5 DEF EditLocal
  <2> QED BY <2>1, ChangeLemma DEF daemon
<1>6. ASSUME NEW r \in Repos, InitProject(r) \/ SetupApply(r) PROVE FileInv'
  <2>1. ~pending /\ Noticed("base", watch = "on") /\ UNCHANGED daemon
    BY <1>1, <1>6 DEF InitProject, SetupApply, Written
  <2> QED BY <2>1, ChangeLemma DEF daemon
<1>7. ASSUME NEW r \in Repos, AddProject(r) \/ RemoveProject(r) \/ UpdateProject(r) PROVE FileInv'
  <2>1. ~pending /\ Noticed("base", watch = "on") /\ UNCHANGED <<effective, applied>>
    BY <1>1, <1>7 DEF AddProject, RemoveProject, UpdateProject, Written
  <2> QED BY <2>1, ChangeLemma
<1>8. ASSUME NEW p \in Pages, LoadSettings(p) PROVE FileInv'
  BY <1>8 DEF LoadSettings, files, daemon, FileInv, ToldOfIt, Believed, LoadConfigSucceeds, Told, Limits, Load
<1>9. ASSUME NEW p \in Pages, SaveSettings(p) PROVE FileInv'
  <2>1. PICK conc \in Conc : UpdateConfig(p, Plain(conc))
    BY <1>9 DEF SaveSettings
  <2> QED BY <1>1, <1>9, <2>1, UpdateLemma DEF SaveSettings
<1>10. ASSUME NEW p \in Pages, SaveAutomationRules(p) PROVE FileInv'
  <2>1. PICK rules \in {0, 1} : UpdateConfig(p, WithRules(cached.conc, rules))
    BY <1>10 DEF SaveAutomationRules
  <2> QED BY <1>1, <1>10, <2>1, UpdateLemma DEF SaveAutomationRules
<1>11. CASE UNCHANGED configVars
  BY <1>11 DEF configVars, files, daemon, FileInv, ToldOfIt, Believed, LoadConfigSucceeds, Told, Limits, Load
<1>12. CASE EditUser
  <2>1. ~pending /\ Noticed("user", FALSE) /\ UNCHANGED daemon
    BY <1>1, <1>12 DEF EditUser
  <2> QED BY <2>1, ChangeLemma DEF daemon
<1> QED BY <1>2, <1>3, <1>4, <1>5, <1>6, <1>7, <1>8, <1>9, <1>10, <1>11, <1>12 DEF ConfigNext

\* Whenever no change of a file waits to be loaded, the pages are shown what
\* the files say and the queue and the scheduler have been told it, whatever
\* was invalid in between and whoever changed it, if the watcher has seen all
\* changes and none comes while another waits.
QuietFollows == ~pending => Following

\* QuietFollows for every behaviour of the configuration.
THEOREM FilesAreFollowed == ASSUME Settled PROVE ConfigSpec => []QuietFollows
<1>1. ConfigInit => FileInv
  BY DEF ConfigInit, FileInv, ToldOfIt, Believed
<1>2. FileInv /\ [ConfigNext]_configVars => FileInv'
  BY FileInvKept
<1>3. FileInv => QuietFollows
  BY DEF FileInv, ToldOfIt, Believed, QuietFollows, Following
<1> QED BY <1>1, <1>2, <1>3, PTL DEF ConfigSpec

-----------------------------------------------------------------------------
(* The daemon.                                                             *)

\* A process that has written the PID file.
Past == {"up", "restarting", "updating", "stopping"}
Process == [pc : {"off", "boot", "checked"} \cup Past, accepting : BOOLEAN, polling : BOOLEAN, version : Nat,
            replaced : BOOLEAN]
JobType == [status : {"none", "queued", "running", "success", "failure", "cancelled"},
            retry : BOOLEAN]

DaemonTypeOK ==
  /\ proc \in [Procs -> Process] /\ pidFile \in Procs \cup {Nobody}
  /\ handling \subseteq Procs /\ waiting \subseteq Procs
  /\ job \in JobType
  /\ disk \in [head : Nat, built : Nat] /\ remote \in Nat

LEMMA JobTypes ==
  ASSUME DaemonTypeOK
  PROVE  /\ Recovered(job) \in JobType
         /\ Recovered(job).status # "running"
  BY DEF DaemonTypeOK, JobType, Recovered

LEMMA ProcessTypes ==
  ASSUME DaemonTypeOK
  PROVE  /\ Off \in Process /\ Booting \in Process /\ [Booting EXCEPT !.version = remote] \in Process
         /\ Off.pc = "off" /\ Booting.pc = "boot" /\ [Booting EXCEPT !.version = remote].pc = "boot"
  BY DaemonAssumption DEF DaemonTypeOK, Off, Booting, Process

\* A process that stops takes no more work, wherever that leads.
LEMMA Stops ==
  ASSUME DaemonTypeOK, NEW p \in Procs, NEW w \in Past,
         proc' = [proc EXCEPT ![p].pc = w, ![p].accepting = FALSE, ![p].polling = FALSE]
  PROVE  proc' \in [Procs -> Process] /\ proc'[p].pc = w /\ \A q \in Procs \ {p} : proc'[q] = proc[q]
<1> DEFINE one == [proc EXCEPT ![p].pc = w]
           two == [one EXCEPT ![p].accepting = FALSE]
           three == [two EXCEPT ![p].polling = FALSE]
<1>1. one \in [Procs -> Process] /\ one[p].pc = w /\ \A q \in Procs \ {p} : one[q] = proc[q]
  BY DEF DaemonTypeOK, Process
<1>2. proc' = three
  OBVIOUS
<1> HIDE DEF one
<1>3. two \in [Procs -> Process] /\ two[p].pc = w /\ \A q \in Procs \ {p} : two[q] = proc[q]
  BY <1>1 DEF Process
<1> HIDE DEF two
<1>4. three \in [Procs -> Process] /\ three[p].pc = w /\ \A q \in Procs \ {p} : three[q] = proc[q]
  BY <1>3 DEF Process
<1> QED BY <1>2, <1>4

\* Each step of a process that is not the start of one leaves the others alone.
LEMMA Moves ==
  ASSUME DaemonTypeOK, NEW p \in Procs
  PROVE  /\ CheckPid(p) => /\ proc[p].pc = "boot" /\ proc' \in [Procs -> Process]
                           /\ \A q \in Procs \ {p} : proc'[q] = proc[q]
                           /\ proc'[p].pc \in {"off", "checked"}
         /\ Serve(p) => /\ proc[p].pc = "checked" /\ proc' \in [Procs -> Process]
                        /\ \A q \in Procs \ {p} : proc'[q] = proc[q]
                        /\ proc'[p].pc = "up"
         /\ CheckForUpdates(p) \/ Signal(p) =>
              /\ proc[p].pc = "up" /\ proc' \in [Procs -> Process]
              /\ \A q \in Procs \ {p} : proc'[q] = proc[q]
              /\ proc'[p].pc \in Past
         /\ UpdateFromPage(p) =>
              /\ proc[p].pc \in Past /\ proc' \in [Procs -> Process]
              /\ \A q \in Procs \ {p} : proc'[q] = proc[q]
              /\ proc'[p].pc = proc[p].pc
         /\ Waited(p) => /\ proc[p].pc = "restarting" /\ proc' \in [Procs -> Process]
                         /\ \A q \in Procs \ {p} : proc'[q] = proc[q]
                         /\ proc'[p].pc = "updating"
         /\ Ends(p) => /\ proc' \in [Procs -> Process]
                       /\ \A q \in Procs \ {p} : proc'[q] = proc[q]
                       /\ proc'[p].pc = "off"
<1>1. CheckPid(p) => proc' \in [Procs -> Process] /\ proc'[p].pc \in {"off", "checked"}
                     /\ \A q \in Procs \ {p} : proc'[q] = proc[q]
  BY ProcessTypes DEF CheckPid, Ends, DaemonTypeOK, Process, Past
<1>2. CheckForUpdates(p) => proc' \in [Procs -> Process] /\ proc'[p].pc \in Past
                            /\ \A q \in Procs \ {p} : proc'[q] = proc[q]
  BY Stops DEF CheckForUpdates, Past
<1>3. Signal(p) => proc' \in [Procs -> Process] /\ proc'[p].pc \in Past
                   /\ \A q \in Procs \ {p} : proc'[q] = proc[q]
  BY Stops DEF Signal, Past
<1>4. UpdateFromPage(p) => /\ proc[p].pc \in Past /\ proc' \in [Procs -> Process]
                           /\ proc'[p].pc = proc[p].pc /\ \A q \in Procs \ {p} : proc'[q] = proc[q]
  <2> SUFFICES ASSUME UpdateFromPage(p)
               PROVE  /\ proc[p].pc \in Past /\ proc' \in [Procs -> Process]
                      /\ proc'[p].pc = proc[p].pc /\ \A q \in Procs \ {p} : proc'[q] = proc[q]
    OBVIOUS
  <2>1. /\ proc \in [Procs -> Process] /\ proc[p].pc \in Past
        /\ proc' = proc \/ proc' = [proc EXCEPT ![p].replaced = TRUE]
    BY DEF UpdateFromPage, DaemonTypeOK, Past
  <2>2. proc[p] \in Process /\ [proc[p] EXCEPT !.replaced = TRUE] \in Process
        /\ [proc[p] EXCEPT !.replaced = TRUE].pc = proc[p].pc
    BY <2>1 DEF Process
  <2> QED BY <2>1, <2>2
<1>5. Waited(p) => proc' \in [Procs -> Process] /\ proc'[p].pc = "updating"
                   /\ \A q \in Procs \ {p} : proc'[q] = proc[q]
  BY DEF Waited, DaemonTypeOK, Process, Past
<1>6. Serve(p) => proc' \in [Procs -> Process] /\ proc'[p].pc = "up"
                  /\ \A q \in Procs \ {p} : proc'[q] = proc[q]
  BY DEF Serve, DaemonTypeOK, Process, Past
<1>7. Ends(p) => proc' \in [Procs -> Process] /\ proc'[p].pc = "off"
                 /\ \A q \in Procs \ {p} : proc'[q] = proc[q]
  BY ProcessTypes DEF Ends, DaemonTypeOK
<1> QED BY <1>1, <1>2, <1>3, <1>4, <1>5, <1>6, <1>7
    DEF CheckPid, CheckForUpdates, Signal, UpdateFromPage, Waited, Serve

\* The start of a process; and one in the place of another.
LEMMA StartMoves ==
  ASSUME DaemonTypeOK, NEW p \in Procs, Start(p)
  PROVE  proc' \in [Procs -> Process] /\ proc'[p].pc = "boot" /\ \A q \in Procs \ {p} : proc'[q] = proc[q]
  BY ProcessTypes DEF Start, DaemonTypeOK

\* An update ends with the same process, past the check, or with a new one.
LEMMA UpdateMoves ==
  ASSUME DaemonTypeOK, NEW p \in Procs, PerformSelfUpdate(p)
  PROVE  /\ proc[p].pc = "updating" /\ proc' \in [Procs -> Process]
         /\ \/ /\ proc'[p].pc = "up" /\ \A q \in Procs \ {p} : proc'[q] = proc[q]
               /\ UNCHANGED <<pidFile, work>>
            \/ \E q \in Procs \ {p} :
                 /\ ~Alive(q) /\ proc'[p].pc = "off" /\ proc'[q].pc = "boot"
                 /\ \A r \in Procs \ {p, q} : proc'[r] = proc[r]
                 /\ job' = Recovered(job)
                 /\ waiting' = IF job'.status = "queued" THEN (waiting \ {p}) \cup {q} ELSE waiting \ {p}
                 /\ handling' = handling \ {p} /\ pidFile' = Nobody
<1>1. CASE proc' = [proc EXCEPT ![p].pc = "up"] /\ UNCHANGED <<pidFile, work>>
  <2>1. proc' \in [Procs -> Process] /\ proc'[p].pc = "up" /\ \A q \in Procs \ {p} : proc'[q] = proc[q]
    BY <1>1 DEF DaemonTypeOK, Process, Past
  <2> QED BY <1>1, <2>1 DEF PerformSelfUpdate
<1>2. CASE Continues(p) /\ UNCHANGED <<pidFile, work>>
  <2> DEFINE one == [proc EXCEPT ![p].pc = "up"]
             two == [one EXCEPT ![p].polling = Polls]
  <2>1. one \in [Procs -> Process] /\ one[p].pc = "up" /\ \A q \in Procs \ {p} : one[q] = proc[q]
    BY DEF DaemonTypeOK, Process, Past
  <2>2. proc' = two
    BY <1>2 DEF Continues
  <2> HIDE DEF one
  <2>3. two \in [Procs -> Process] /\ two[p].pc = "up" /\ \A q \in Procs \ {p} : two[q] = proc[q]
    BY <2>1, DaemonAssumption DEF Process, DaemonAssumption
  <2> QED BY <1>2, <2>2, <2>3 DEF PerformSelfUpdate
<1>3. ASSUME NEW q \in Procs \ {p},
             ~Alive(q), proc' = [proc EXCEPT ![p] = Off, ![q] = [Booting EXCEPT !.version = remote]],
             job' = Recovered(job),
             waiting' = IF job'.status = "queued" THEN (waiting \ {p}) \cup {q} ELSE waiting \ {p},
             handling' = handling \ {p}, pidFile' = Nobody
      PROVE  /\ proc' \in [Procs -> Process]
             /\ ~Alive(q) /\ proc'[p].pc = "off" /\ proc'[q].pc = "boot"
             /\ \A r \in Procs \ {p, q} : proc'[r] = proc[r]
  <2> DEFINE one == [proc EXCEPT ![p] = Off]
             booted == [Booting EXCEPT !.version = remote]
  <2>1. one \in [Procs -> Process] /\ one[p].pc = "off" /\ \A r \in Procs \ {p} : one[r] = proc[r]
    BY ProcessTypes DEF DaemonTypeOK
  <2>2. proc' = [one EXCEPT ![q] = booted] /\ booted \in Process /\ booted.pc = "boot"
    BY <1>3, ProcessTypes
  <2> HIDE DEF one, booted
  <2> QED BY <1>3, <2>1, <2>2
<1>4. proc[p].pc = "updating"
  BY DEF PerformSelfUpdate
<1>5. CASE \E q \in Procs \ {p} :
             /\ ~Alive(q) /\ proc' = [proc EXCEPT ![p] = Off, ![q] = [Booting EXCEPT !.version = remote]]
             /\ job' = Recovered(job)
             /\ waiting' = IF job'.status = "queued" THEN (waiting \ {p}) \cup {q} ELSE waiting \ {p}
             /\ handling' = handling \ {p} /\ pidFile' = Nobody
  <2>1. PICK q \in Procs \ {p} :
             /\ ~Alive(q) /\ proc' = [proc EXCEPT ![p] = Off, ![q] = [Booting EXCEPT !.version = remote]]
             /\ job' = Recovered(job)
             /\ waiting' = IF job'.status = "queued" THEN (waiting \ {p}) \cup {q} ELSE waiting \ {p}
             /\ handling' = handling \ {p} /\ pidFile' = Nobody
    BY <1>5
  <2> QED BY <1>3, <1>4, <2>1
<1> QED BY <1>1, <1>2, <1>4, <1>5 DEF PerformSelfUpdate, Continues

LEMMA DaemonTypeKept ==
  ASSUME DaemonTypeOK, [DaemonNext]_daemonVars
  PROVE  DaemonTypeOK'
<1>1. CASE Label \/ Released
  BY <1>1 DEF Label, Released, work, DaemonTypeOK
<1>2. ASSUME NEW p \in Procs, Start(p) PROVE DaemonTypeOK'
  <2>1. pidFile' = pidFile /\ UNCHANGED <<handling, disk, remote>> /\ job' = Recovered(job)
        /\ waiting' \in {waiting \cup {p}, waiting}
    BY <1>2 DEF Start, BootWork
  <2>2. proc' \in [Procs -> Process] /\ proc'[p].pc = "boot" /\ \A q \in Procs \ {p} : proc'[q] = proc[q]
    BY <1>2, StartMoves
  <2> QED BY <2>1, <2>2, JobTypes DEF DaemonTypeOK
<1>3. ASSUME NEW p \in Procs, CheckPid(p) \/ Serve(p) PROVE DaemonTypeOK'
  <2>1. /\ UNCHANGED <<job, disk, remote>> /\ handling' \in SUBSET handling /\ waiting' \in SUBSET waiting
        /\ pidFile' \in {pidFile, Nobody, p}
    BY <1>3 DEF CheckPid, Serve, Ends, work, DaemonTypeOK
  <2>2. proc' \in [Procs -> Process]
    BY <1>3, Moves
  <2> QED BY <2>1, <2>2 DEF DaemonTypeOK
<1>4. ASSUME NEW p \in Procs, Poll(p) \/ Begin(p) \/ Finish(p) PROVE DaemonTypeOK'
  <2>1. UNCHANGED <<proc, pidFile, disk, remote>>
    BY <1>4 DEF Poll, Begin, Finish
  <2>2. /\ handling' \in SUBSET (handling \cup {p}) /\ waiting' \in SUBSET (waiting \cup {p})
    BY <1>4 DEF Poll, Begin, Finish
  <2>3. job' \in JobType
    <3>1. job \in JobType
      BY DEF DaemonTypeOK
    <3>2. Poll(p) => job' \in JobType
      <4>1. \A b \in BOOLEAN : [status |-> "queued", retry |-> b] \in JobType
        BY DEF JobType
      <4>2. Poll(p) => \E b \in BOOLEAN : job' = [status |-> "queued", retry |-> b]
        BY DEF Poll
      <4> QED BY <4>1, <4>2
    <3>3. Begin(p) => job' \in JobType
      BY <3>1 DEF Begin, JobType
    <3>4. ASSUME NEW s \in {"success", "failure"} PROVE [job EXCEPT !.status = s] \in JobType
      BY <3>1 DEF JobType
    <3>5. Finish(p) => job' \in JobType
      BY <3>4 DEF Finish
    <3> QED BY <1>4, <3>2, <3>3, <3>5
  <2> QED BY <2>1, <2>2, <2>3 DEF DaemonTypeOK
<1>5. ASSUME NEW p \in Procs, CheckForUpdates(p) \/ Waited(p) \/ Signal(p) PROVE DaemonTypeOK'
  <2>1. UNCHANGED <<pidFile, handling, waiting, job, disk, remote>>
    BY <1>5 DEF CheckForUpdates, Waited, Signal, world, work
  <2>2. proc[p].pc \in Past /\ proc' \in [Procs -> Process] /\ \A q \in Procs \ {p} : proc'[q] = proc[q]
    BY <1>5, Moves DEF Past
  <2> QED BY <2>1, <2>2 DEF DaemonTypeOK
<1>6. ASSUME NEW p \in Procs, PerformSelfUpdate(p) PROVE DaemonTypeOK'
  <2>1. disk' \in [head : Nat, built : Nat] /\ remote' = remote
    <3>1. disk' \in {disk, [disk EXCEPT !.head = remote], [head |-> remote, built |-> remote]} /\ remote' = remote
      BY <1>6 DEF PerformSelfUpdate
    <3> QED BY <3>1 DEF DaemonTypeOK
  <2>2. proc[p].pc = "updating" /\ proc' \in [Procs -> Process]
    BY <1>6, UpdateMoves
  <2>3. CASE /\ proc'[p].pc = "up" /\ \A q \in Procs \ {p} : proc'[q] = proc[q]
             /\ UNCHANGED <<pidFile, work>>
    BY <2>1, <2>2, <2>3 DEF DaemonTypeOK, Past, work
  <2>4. ASSUME NEW q \in Procs \ {p},
               proc'[p].pc = "off", proc'[q].pc = "boot",
               \A r \in Procs \ {p, q} : proc'[r] = proc[r], job' = Recovered(job),
               waiting' = IF job'.status = "queued" THEN (waiting \ {p}) \cup {q} ELSE waiting \ {p},
               handling' = handling \ {p}, pidFile' = Nobody
        PROVE  DaemonTypeOK'
    BY <2>1, <2>2, <2>4, JobTypes DEF DaemonTypeOK
  <2> QED BY <1>6, <2>3, <2>4, UpdateMoves
<1>7. ASSUME NEW p \in Procs, UpdateFromPage(p) PROVE DaemonTypeOK'
  <2>1. UNCHANGED <<pidFile, waiting, remote>> /\ handling' = handling \ {p}
        /\ disk' \in [head : Nat, built : Nat]
        /\ job' \in JobType
    BY <1>7 DEF UpdateFromPage, DaemonTypeOK, JobType
  <2>2. proc' \in [Procs -> Process]
    BY <1>7, Moves
  <2> QED BY <2>1, <2>2 DEF DaemonTypeOK, Past
<1>8. ASSUME NEW p \in Procs, Shutdown(p) \/ Dies(p) PROVE DaemonTypeOK'
  <2>1. /\ Ends(p) /\ UNCHANGED <<disk, remote>> /\ handling' = handling \ {p} /\ waiting' = waiting \ {p}
        /\ job' \in JobType
        /\ pidFile' \in {pidFile, Nobody}
    BY <1>8 DEF Shutdown, Dies, Ends, DaemonTypeOK, JobType
  <2>2. proc' \in [Procs -> Process]
    BY <2>1, Moves
  <2> QED BY <2>1, <2>2 DEF DaemonTypeOK
<1>9. CASE UNCHANGED daemonVars
  BY <1>9 DEF daemonVars, world, DaemonTypeOK
<1> QED BY <1>1, <1>2, <1>3, <1>4, <1>5, <1>6, <1>7, <1>8, <1>9 DEF DaemonNext

LEMMA DaemonTypeHolds == DaemonSpec => []DaemonTypeOK
<1>1. DaemonInit => DaemonTypeOK
  BY DEF DaemonInit, DaemonTypeOK, Off, Process, NoWork, JobType, Past
<1> QED BY <1>1, DaemonTypeKept, PTL DEF DaemonSpec

\* One process lives; it has the job that is queued in its queue, and one that
\* runs at work; and nobody works on a job that does not run.
JobIsHeld ==
  /\ \A p, q \in Procs : Alive(p) /\ Alive(q) => p = q
  /\ \A p \in handling : Alive(p) /\ job.status = "running"
  /\ \A p \in waiting : Alive(p)
  /\ \A p \in Procs : Alive(p) => /\ job.status = "queued" => p \in waiting
                                  /\ job.status = "running" => p \in handling

\* The process that lives does something else, and lives.
LEMMA HeldOn ==
  ASSUME DaemonTypeOK, JobIsHeld, NEW p \in Procs, Alive(p),
         \A q \in Procs \ {p} : proc'[q] = proc[q], proc'[p].pc # "off", UNCHANGED work
  PROVE  JobIsHeld'
<1>1. \A q \in Procs : Alive(q)' <=> Alive(q)
  BY DEF Alive
<1> QED BY <1>1 DEF JobIsHeld, work, DaemonTypeOK

\* It has ended.
LEMMA HeldByNone ==
  ASSUME DaemonTypeOK, JobIsHeld, NEW p \in Procs, Alive(p), Ends(p)
  PROVE  JobIsHeld'
<1>1. /\ proc'[p].pc = "off" /\ \A q \in Procs \ {p} : proc'[q] = proc[q]
      /\ handling' = handling \ {p} /\ waiting' = waiting \ {p}
  BY Moves DEF Ends
<1>2. \A q \in Procs : ~Alive(q)'
  BY <1>1 DEF JobIsHeld, Alive
<1>3. handling' = {} /\ waiting' = {}
  BY <1>1 DEF JobIsHeld, DaemonTypeOK
<1> QED BY <1>2, <1>3 DEF JobIsHeld

\* Another begins, when none lives, with the job it finds.
LEMMA HeldAnew ==
  ASSUME DaemonTypeOK, NEW q \in Procs, handling' = {}, waiting' \subseteq {q}, proc'[q].pc = "boot",
         \A r \in Procs \ {q} : proc'[r].pc = "off",
         job'.status # "running", job'.status = "queued" => q \in waiting'
  PROVE  JobIsHeld'
  BY DEF JobIsHeld, Alive

LEMMA JobIsHeldKept ==
  ASSUME "second start" \notin Mishaps, DaemonTypeOK, JobIsHeld, [DaemonNext]_daemonVars
  PROVE  JobIsHeld'
<1>1. CASE Label \/ Released
  BY <1>1 DEF Label, Released, work, JobIsHeld, Alive
<1>2. ASSUME NEW p \in Procs, Start(p) PROVE JobIsHeld'
  <2>1. (\A q \in Procs : ~Alive(q)) /\ handling' = handling /\ job' = Recovered(job)
        /\ (job'.status = "queued" => p \in waiting') /\ waiting' \in {waiting \cup {p}, waiting}
    BY <1>2 DEF Start, BootWork
  <2>2. handling' = {} /\ waiting' \subseteq {p} /\ job'.status # "running"
    BY <2>1, JobTypes DEF JobIsHeld, DaemonTypeOK
  <2>3. proc'[p].pc = "boot" /\ \A q \in Procs \ {p} : proc'[q].pc = "off"
    BY <1>2, <2>1, StartMoves DEF Alive
  <2> QED BY <2>1, <2>2, <2>3, HeldAnew
<1>3. ASSUME NEW p \in Procs, CheckPid(p) PROVE JobIsHeld'
  <2>1. Alive(p)
    BY <1>3 DEF CheckPid, Alive
  <2>2. Ends(p) \/ (proc'[p].pc # "off" /\ UNCHANGED <<handling, waiting>>)
    BY <1>3 DEF CheckPid, DaemonTypeOK, Process
  <2>3. job' = job /\ \A q \in Procs \ {p} : proc'[q] = proc[q]
    BY <1>3, Moves DEF CheckPid
  <2> QED BY <2>1, <2>2, <2>3, HeldOn, HeldByNone DEF work
<1>4. ASSUME NEW p \in Procs, Poll(p) PROVE JobIsHeld'
  <2>1. /\ Alive(p) /\ proc' = proc /\ handling' = handling /\ waiting' = waiting \cup {p}
        /\ job.status \in {"none", "failure"}
    BY <1>4 DEF Poll, Alive
  <2>2. handling = {}
    BY <2>1 DEF JobIsHeld
  <2>3. PICK b \in BOOLEAN : job' = [status |-> "queued", retry |-> b]
    BY <1>4 DEF Poll
  <2>4. job'.status = "queued"
    BY <2>3
  <2> QED BY <2>1, <2>2, <2>4 DEF JobIsHeld, Alive, DaemonTypeOK
<1>5. ASSUME NEW p \in Procs, Begin(p) PROVE JobIsHeld'
  <2>1. Alive(p) /\ proc' = proc /\ waiting' = waiting \ {p}
    BY <1>5 DEF Begin, Alive, JobIsHeld
  <2>2. CASE job.status = "queued"
    <3>1. job' = [job EXCEPT !.status = "running"] /\ handling' = handling \cup {p} /\ handling = {}
      BY <1>5, <2>2 DEF Begin, JobIsHeld
    <3>2. job'.status = "running"
      BY <3>1 DEF DaemonTypeOK, JobType
    <3>3. \A q \in Procs : Alive(q) => q = p
      BY <2>1 DEF JobIsHeld
    <3>4. \A q \in Procs : Alive(q)' <=> Alive(q)
      BY <2>1 DEF Alive
    <3> QED BY <2>1, <3>1, <3>2, <3>3, <3>4 DEF JobIsHeld, DaemonTypeOK
  <2>3. CASE job.status # "queued"
    <3>1. UNCHANGED <<job, handling>> /\ \A q \in Procs : Alive(q)' <=> Alive(q)
      BY <1>5, <2>1, <2>3 DEF Begin, Alive
    <3> QED BY <2>1, <2>3, <3>1 DEF JobIsHeld, DaemonTypeOK
  <2> QED BY <2>2, <2>3
<1>6. ASSUME NEW p \in Procs, Finish(p) PROVE JobIsHeld'
  <2>1. /\ proc' = proc /\ handling' = handling \ {p} /\ p \in handling /\ waiting' = waiting
        /\ job'.status \in {"success", "failure"}
    BY <1>6 DEF Finish, DaemonTypeOK, JobType
  <2>2. handling' = {}
    BY <2>1 DEF JobIsHeld, DaemonTypeOK
  <2>3. \A q \in Procs : Alive(q)' <=> Alive(q)
    BY <2>1 DEF Alive
  <2> QED BY <2>1, <2>2, <2>3 DEF JobIsHeld, DaemonTypeOK
<1>7. ASSUME NEW p \in Procs, Serve(p) \/ CheckForUpdates(p) \/ Waited(p) \/ Signal(p) PROVE JobIsHeld'
  <2>1. Alive(p) /\ UNCHANGED work
    BY <1>7, Moves DEF Serve, CheckForUpdates, Waited, Signal, world, work, Alive
  <2>2. proc'[p].pc # "off" /\ \A q \in Procs \ {p} : proc'[q] = proc[q]
    BY <1>7, Moves DEF Past
  <2> QED BY <2>1, <2>2, HeldOn
<1>8. ASSUME NEW p \in Procs, PerformSelfUpdate(p) PROVE JobIsHeld'
  <2>1. Alive(p)
    BY <1>8 DEF PerformSelfUpdate, Alive
  <2>2. CASE proc'[p].pc = "up" /\ (\A q \in Procs \ {p} : proc'[q] = proc[q]) /\ UNCHANGED <<pidFile, work>>
    BY <2>1, <2>2, HeldOn
  <2>3. ASSUME NEW q \in Procs \ {p},
               proc'[p].pc = "off", proc'[q].pc = "boot",
               \A r \in Procs \ {p, q} : proc'[r] = proc[r], job' = Recovered(job),
               waiting' = IF job'.status = "queued" THEN (waiting \ {p}) \cup {q} ELSE waiting \ {p},
               handling' = handling \ {p}
        PROVE  JobIsHeld'
    <3>1. \A r \in Procs \ {q} : proc'[r].pc = "off"
      <4>1. \A r \in Procs \ {p} : proc[r].pc = "off"
        BY <2>1 DEF JobIsHeld, Alive
      <4> QED BY <2>3, <4>1
    <3>2. handling' = {} /\ waiting' \subseteq {q}
      BY <2>1, <2>3 DEF JobIsHeld, DaemonTypeOK
    <3> QED BY <2>3, <3>1, <3>2, JobTypes, HeldAnew
  <2> QED BY <1>8, <2>2, <2>3, UpdateMoves
<1>9. ASSUME NEW p \in Procs, UpdateFromPage(p) PROVE JobIsHeld'
  <2>1. /\ Alive(p) /\ handling' = handling \ {p} /\ waiting' = waiting
        /\ job'.status \notin {"queued", "running"}
    BY <1>9 DEF UpdateFromPage, Alive, DaemonTypeOK, JobType
  <2>2. handling' = {}
    BY <2>1 DEF JobIsHeld, DaemonTypeOK
  <2>3. proc'[p].pc = proc[p].pc /\ \A q \in Procs \ {p} : proc'[q] = proc[q]
    BY <1>9, Moves
  <2>4. \A q \in Procs : Alive(q)' <=> Alive(q)
    BY <2>1, <2>3 DEF Alive
  <2> QED BY <2>1, <2>2, <2>4 DEF JobIsHeld, DaemonTypeOK
<1>10. ASSUME NEW p \in Procs, Shutdown(p) \/ Dies(p) PROVE JobIsHeld'
  <2>1. Alive(p) /\ Ends(p)
    BY <1>10 DEF Shutdown, Dies, Alive
  <2> QED BY <2>1, HeldByNone
<1>11. CASE UNCHANGED daemonVars
  BY <1>11 DEF daemonVars, world, work, JobIsHeld, Alive
<1> QED BY <1>1, <1>2, <1>3, <1>4, <1>5, <1>6, <1>7, <1>8, <1>9, <1>10, <1>11 DEF DaemonNext

\* As long as no second daemon is started over one that lives: through
\* restarts, updates that end in a new process or in nothing, signals and
\* crashes, at most one process lives, a job that is queued is in its queue
\* and one that runs has its handler there, so that none is left behind; and
\* no handler works on a job that is over.
THEOREM NoJobIsLeft == ASSUME "second start" \notin Mishaps PROVE DaemonSpec => []JobIsHeld
<1>1. DaemonInit => JobIsHeld
  <2>1. \A p \in Procs : [q \in Procs |-> Off][p].pc = "off"
    BY DEF Off
  <2> QED BY <2>1 DEF DaemonInit, JobIsHeld, Alive
<1>2. DaemonTypeOK /\ JobIsHeld /\ [DaemonNext]_daemonVars => JobIsHeld'
  BY JobIsHeldKept
<1> QED BY <1>1, <1>2, DaemonTypeHolds, PTL DEF DaemonSpec

-----------------------------------------------------------------------------
(* The record of the jobs.                                                 *)

USE RecordAssumption

\* A sequence, whatever is in it.
IsSeq(s) == \E n \in Nat : s = [i \in 1..n |-> s[i]]

IsJob(entry) ==
  /\ entry = [status |-> entry.status, trigger |-> entry.trigger, diagnosis |-> entry.diagnosis,
            priority |-> entry.priority, logs |-> entry.logs, phases |-> entry.phases]
  /\ entry.status \in Statuses \cup {"none"} /\ entry.diagnosis \in BOOLEAN /\ entry.trigger \in BOOLEAN
  /\ IsSeq(entry.logs)

RowType == [status : Statuses \cup {"none"}, trigger : BOOLEAN, diagnosis : BOOLEAN]

RecordTypeOK ==
  /\ pc \in {"down", "opening", "migrating", "moving", "loading", "up"}
  /\ row \in [Jobs -> RowType]
  /\ DOMAIN phaseRow = Jobs
  /\ DOMAIN logRow = Jobs /\ \A j \in Jobs : IsSeq(logRow[j])
  /\ DOMAIN cache = Jobs /\ \A j \in Jobs : IsJob(cache[j])
  /\ DOMAIN file = Jobs
  /\ said \in [Jobs -> [lines : 0..MaxLines, before : 0..MaxLines]]
  /\ \A j \in Jobs : said[j].before <= said[j].lines

\* The schema is complete before a row is read or written.
Schema == pc \in {"migrating", "moving", "loading", "up"} => Added \subseteq columns

\* The lines of this process are the last ones of a log: the d-th from the end
\* is the d-th from the last one said.
EndsWith(logs, j) ==
  \A d \in 0..(said[j].lines - said[j].before - 1) :
    d < Len(logs) /\ logs[Len(logs) - d] = said[j].lines - d

\* As many of them as the table keeps are in it.
LinesKept(j) ==
  \A d \in 0..(said[j].lines - said[j].before - 1) :
    d < Keep => \E i \in DOMAIN logRow[j] : logRow[j][i][2] = said[j].lines - d

PhasesKept(j) ==
  j \in fresh => \A i \in DOMAIN cache[j].phases :
                   i \in DOMAIN phaseRow[j] /\ phaseRow[j][i] = cache[j].phases[i]

\* The cache has the jobs at work as the tables have them.
Mirrored ==
  pc = "up" =>
    \A j \in Jobs :
      /\ cache[j] # NoJob <=> row[j].status \in ActiveStatuses
      /\ cache[j] # NoJob => /\ cache[j].status = row[j].status
                             /\ EndsWith(cache[j].logs, j) /\ LinesKept(j) /\ PhasesKept(j)

\* A process that is not up has said nothing yet.
Silent == pc # "up" => fresh = {} /\ \A j \in Jobs : said[j].before = said[j].lines

\* JobFiles are put away when their jobs are in the tables.
PutAway ==
  pc = "moving" => \A f \in JobFiles : Content[f].fault = "none" /\ file[f] = "jobs" => HasRow(f)

RecordInv == RecordTypeOK /\ Schema /\ Mirrored /\ Silent /\ PutAway /\ MigratedComplete

-----------------------------------------------------------------------------
(* Sequences of anything.                                                  *)

LEMMA SeqLemma ==
  ASSUME NEW s, IsSeq(s), NEW R, \A i \in DOMAIN s : s[i] \in R
  PROVE  s \in Seq(R)
  BY DEF IsSeq

LEMMA IsSeqLemma ==
  ASSUME NEW R, NEW s \in Seq(R)
  PROVE  IsSeq(s)
<1>1. Len(s) \in Nat /\ s = [i \in 1..Len(s) |-> s[i]]
  OBVIOUS
<1> QED BY <1>1 DEF IsSeq

\* A line at the end of the log.
LEMMA AppendedLemma ==
  ASSUME NEW s, IsSeq(s), NEW x
  PROVE  /\ IsSeq(Append(s, x)) /\ Len(s) \in Nat /\ Len(Append(s, x)) = Len(s) + 1
         /\ DOMAIN s = 1..Len(s) /\ DOMAIN Append(s, x) = 1..(Len(s) + 1)
         /\ \A i \in 1..Len(s) : Append(s, x)[i] = s[i]
         /\ Append(s, x)[Len(s) + 1] = x
<1> DEFINE R == {s[i] : i \in DOMAIN s} \cup {x}
<1>1. s \in Seq(R)
  BY SeqLemma
<1>2. x \in R
  OBVIOUS
<1> HIDE DEF R
<1>3. Append(s, x) \in Seq(R)
  BY <1>1, <1>2
<1>4. IsSeq(Append(s, x))
  BY <1>3, IsSeqLemma
<1> QED BY <1>1, <1>2, <1>4

\* createLog puts the new row at the end, behind as many of the others as are
\* kept.
LEMMA CreateLogLemma ==
  ASSUME NEW R, NEW rows \in Seq(R), NEW r \in R
  PROVE  /\ CreateLog(rows, r) \in Seq(R)
         /\ Len(CreateLog(rows, r)) >= 1 /\ CreateLog(rows, r)[Len(CreateLog(rows, r))] = r
         /\ \A d \in 0..(Keep - 1) :
              d < Len(rows) => /\ d + 1 < Len(CreateLog(rows, r))
                               /\ CreateLog(rows, r)[Len(CreateLog(rows, r)) - 1 - d] = rows[Len(rows) - d]
<1> DEFINE w == CreateLog(rows, r)
           u == SubSeq(rows, Len(rows) - Keep + 1, Len(rows))
<1>1. CASE Len(rows) >= Cap
  <2>1. /\ u \in Seq(R) /\ Len(u) = Keep
        /\ \A i \in 1..Keep : u[i] = rows[Len(rows) - Keep + i]
    BY <1>1
  <2>2. w = Append(u, r)
    BY <1>1 DEF CreateLog
  <2> HIDE DEF u, w
  <2>3. w \in Seq(R) /\ Len(w) = Keep + 1 /\ w[Keep + 1] = r /\ \A i \in 1..Keep : w[i] = u[i]
    BY <2>1, <2>2
  <2>4. ASSUME NEW d \in 0..(Keep - 1) PROVE d + 1 < Len(w) /\ w[Len(w) - 1 - d] = rows[Len(rows) - d]
    <3>1. Keep - d \in 1..Keep /\ Len(w) - 1 - d = Keep - d /\ Len(rows) - Keep + (Keep - d) = Len(rows) - d
      BY <2>3
    <3> QED BY <3>1, <2>1, <2>3
  <2> QED BY <2>3, <2>4 DEF w
<1>2. CASE ~(Len(rows) >= Cap)
  <2>1. w = Append(rows, r)
    BY <1>2 DEF CreateLog
  <2> HIDE DEF w
  <2>2. /\ w \in Seq(R) /\ Len(w) = Len(rows) + 1 /\ w[Len(rows) + 1] = r
        /\ \A i \in 1..Len(rows) : w[i] = rows[i]
    BY <2>1
  <2>3. ASSUME NEW d \in 0..(Keep - 1), d < Len(rows)
        PROVE  d + 1 < Len(w) /\ w[Len(w) - 1 - d] = rows[Len(rows) - d]
    <3>1. Len(rows) - d \in 1..Len(rows) /\ Len(w) - 1 - d = Len(rows) - d
      BY <2>2, <2>3
    <3> QED BY <3>1, <2>2
  <2> QED BY <2>2, <2>3 DEF w
<1> QED BY <1>1, <1>2

\* When a log is written again, its last lines are the last rows, as many of
\* them as are kept.
LastRows(w, call, lines, n) ==
  \A d \in 0..(Keep - 1) : d < n => Len(w) - d \in DOMAIN w /\ w[Len(w) - d] = <<call, lines[n - d]>>

LEMMA RewrittenLemma ==
  ASSUME NEW rows, IsSeq(rows), NEW n \in Nat, NEW call, NEW lines
  PROVE  /\ IsSeq(Rewritten(rows, call, lines, n))
         /\ LastRows(Rewritten(rows, call, lines, n), call, lines, n)
<1> DEFINE Body(g, i) == IF i = 0 THEN rows ELSE CreateLog(g[i - 1], <<call, lines[i]>>)
           written == CHOOSE g : g = [i \in 0..n |-> Body(g, i)]
           R == {rows[i] : i \in DOMAIN rows} \cup {<<call, lines[i]>> : i \in 1..n}
           V == Seq(R)
<1>1. Rewritten(rows, call, lines, n) = written[n]
  BY DEF Rewritten
<1>2. rows \in V /\ \A i \in 1..n : <<call, lines[i]>> \in R
  <2>1. \A i \in DOMAIN rows : rows[i] \in R
    OBVIOUS
  <2>2. \A i \in 1..n : <<call, lines[i]>> \in R
    OBVIOUS
  <2> HIDE DEF R
  <2> QED BY <2>1, <2>2, SeqLemma
<1> HIDE DEF R
<1>3. written = [i \in 0..n |-> Body(written, i)]
  <2> DEFINE G == [i \in 1..n |-> [s \in V |-> CreateLog(s, <<call, lines[i]>>)]]
  <2>1. G \in [1..n -> [V -> V]]
    <3>1. \A s \in V, i \in 1..n : CreateLog(s, <<call, lines[i]>>) \in V
      BY <1>2, CreateLogLemma
    <3> HIDE DEF V
    <3> QED BY <3>1
  <2>2. PICK f \in StepValues(V, rows, G, n) : TRUE
    <3> HIDE DEF G, V, written, Body
    <3> QED BY <1>2, <2>1, RecursionLemma
  <2>3. /\ f \in [0..n -> V] /\ f[0] = rows
        /\ \A i \in 1..n : f[i] = G[i][f[i - 1]]
    <3> HIDE DEF V, G
    <3> QED BY <2>2 DEF StepValues
  <2>4. ASSUME NEW i \in 0..n PROVE f[i] = Body(f, i)
    <3> HIDE DEF V
    <3>1. CASE i = 0
      BY <3>1, <2>3
    <3>2. CASE i \in 1..n
      <4>1. i - 1 \in 0..n /\ f[i - 1] \in V
        BY <3>2, <2>3
      <4> QED BY <3>2, <4>1, <2>3
    <3> QED BY <3>1, <3>2
  <2>5. f = [i \in 0..n |-> Body(f, i)]
    <3> HIDE DEF V, Body
    <3> QED BY <2>3, <2>4
  <2> QED BY <2>5
<1> HIDE DEF written
<1> DEFINE S == {i \in 0..n : /\ written[i] \in V
                              /\ \A d \in 0..(Keep - 1) :
                                   d < i => /\ d < Len(written[i])
                                            /\ written[i][Len(written[i]) - d] = <<call, lines[i - d]>>}
<1>4. 0 \in S
  <2>1. written[0] = rows /\ 0 \in 0..n
    <3>1. 0 \in 0..n
      OBVIOUS
    <3> QED BY <3>1, <1>3
  <2> QED BY <1>2, <2>1
<1>5. ASSUME NEW i \in 1..n, i - 1 \in S PROVE i \in S
  <2> DEFINE b == written[i - 1]
             x == <<call, lines[i]>>
             w == written[i]
  <2>1. i \in 0..n /\ i - 1 \in 0..n /\ i # 0
    OBVIOUS
  <2>2. w = CreateLog(b, x)
    BY <1>3, <2>1
  <2>3. /\ b \in V /\ x \in R
        /\ \A d \in 0..(Keep - 1) : d < i - 1 => d < Len(b) /\ b[Len(b) - d] = <<call, lines[i - 1 - d]>>
    BY <1>2, <1>5
  <2> HIDE DEF b, x
  <2>4. /\ w \in V /\ Len(w) \in Nat /\ Len(w) >= 1 /\ w[Len(w)] = x /\ Len(b) \in Nat
        /\ \A d \in 0..(Keep - 1) : d < Len(b) => d + 1 < Len(w) /\ w[Len(w) - 1 - d] = b[Len(b) - d]
    <3> HIDE DEF w
    <3>1. b \in Seq(R) /\ x \in R
      BY <2>3
    <3>2. /\ CreateLog(b, x) \in Seq(R)
          /\ Len(CreateLog(b, x)) >= 1 /\ CreateLog(b, x)[Len(CreateLog(b, x))] = x
          /\ \A d \in 0..(Keep - 1) :
               d < Len(b) => /\ d + 1 < Len(CreateLog(b, x))
                             /\ CreateLog(b, x)[Len(CreateLog(b, x)) - 1 - d] = b[Len(b) - d]
      BY ONLY <3>1, CreateLogLemma
    <3> QED BY <3>1, <3>2, <2>2
  <2>5. ASSUME NEW d \in 0..(Keep - 1), d < i
        PROVE  d < Len(w) /\ w[Len(w) - d] = <<call, lines[i - d]>>
    <3> HIDE DEF w
    <3>1. CASE d = 0
      BY <3>1, <2>4 DEF x
    <3>2. CASE d # 0
      <4>1. /\ d - 1 \in 0..(Keep - 1) /\ d - 1 < i - 1
            /\ (d - 1) + 1 = d /\ i - 1 - (d - 1) = i - d
        BY <3>2, <2>5
      <4>2. d - 1 < Len(b) /\ b[Len(b) - (d - 1)] = <<call, lines[i - d]>>
        BY <4>1, <2>3
      <4>3. d < Len(w) /\ w[Len(w) - 1 - (d - 1)] = b[Len(b) - (d - 1)]
        BY <4>1, <4>2, <2>4
      <4>4. Len(w) - 1 - (d - 1) = Len(w) - d
        BY <2>4
      <4> QED BY <4>2, <4>3, <4>4
    <3> QED BY <3>1, <3>2
  <2> QED BY <2>1, <2>4, <2>5
<1>6. n \in S
  <2> HIDE DEF S
  <2>1. \A i \in 0..n : i \in S
    BY <1>4, <1>5, UpToInduction
  <2> QED BY <2>1
<1> DEFINE w == Rewritten(rows, call, lines, n)
<1>7. w \in V /\ \A d \in 0..(Keep - 1) : d < n => d < Len(w) /\ w[Len(w) - d] = <<call, lines[n - d]>>
  BY <1>1, <1>6
<1>8. IsSeq(w)
  <2> HIDE DEF w
  <2> QED BY <1>7, IsSeqLemma
<1>9. \A d \in 0..(Keep - 1) : d < Len(w) => Len(w) - d \in DOMAIN w
  <2> HIDE DEF w
  <2> QED BY <1>7
<1>10. LastRows(w, call, lines, n)
  <2> HIDE DEF w
  <2> QED BY <1>7, <1>9 DEF LastRows
<1> QED BY <1>8, <1>10

-----------------------------------------------------------------------------
(* Jobs, in the cache and in the tables.                                   *)

LEMMA NoJobLemma == IsJob(NoJob) /\ NoJob.status = "none" /\ IsSeq(<<>>) /\ NoRow \in RowType
<1>1. <<>> \in Seq(Nat)
  OBVIOUS
<1>2. IsSeq(<<>>)
  BY <1>1, IsSeqLemma
<1> QED BY <1>2 DEF IsJob, NoJob, NoRow, RowType

LEMMA UpdatedLemma ==
  ASSUME NEW entry, IsJob(entry), NEW s \in Statuses
  PROVE  /\ IsJob(Updated(entry, s)) /\ Updated(entry, s).status = s
         /\ Updated(entry, s).logs = entry.logs /\ Updated(entry, s).phases = entry.phases
         /\ JobToDbJob(Updated(entry, s)) \in RowType
<1>1. (entry.diagnosis /\ s = "failure") \in BOOLEAN
  OBVIOUS
<1> DEFINE u == Updated(entry, s)
<1>2. u = [status |-> s, trigger |-> FALSE, diagnosis |-> (entry.diagnosis /\ s = "failure"),
           priority |-> entry.priority, logs |-> entry.logs, phases |-> entry.phases]
  <2>1. entry = [status |-> entry.status, trigger |-> entry.trigger, diagnosis |-> entry.diagnosis,
               priority |-> entry.priority, logs |-> entry.logs, phases |-> entry.phases]
    BY DEF IsJob
  <2>2. ASSUME NEW a, NEW b, NEW c, NEW p, NEW l, NEW h, NEW t, NEW e,
               entry = [status |-> a, trigger |-> b, diagnosis |-> c, priority |-> p,
                      logs |-> l, phases |-> h]
        PROVE  [entry EXCEPT !.status = s, !.trigger = t, !.diagnosis = e]
                 = [status |-> s, trigger |-> t, diagnosis |-> e, priority |-> p,
                    logs |-> l, phases |-> h]
    <3> DEFINE x == [entry EXCEPT !.status = s]
               y == [x EXCEPT !.trigger = t]
               z == [y EXCEPT !.diagnosis = e]
    <3>1. [entry EXCEPT !.status = s, !.trigger = t, !.diagnosis = e] = z
      BY Zenon
    <3>2. x = [status |-> s, trigger |-> b, diagnosis |-> c, priority |-> p, logs |-> l, phases |-> h]
      BY <2>2
    <3> HIDE DEF x
    <3>3. y = [status |-> s, trigger |-> t, diagnosis |-> c, priority |-> p, logs |-> l, phases |-> h]
      BY <3>2
    <3> HIDE DEF y
    <3>4. z = [status |-> s, trigger |-> t, diagnosis |-> e, priority |-> p, logs |-> l, phases |-> h]
      BY <3>3
    <3> QED BY <3>1, <3>4
  <2>3. u = [entry EXCEPT !.status = s, !.trigger = FALSE, !.diagnosis = (entry.diagnosis /\ s = "failure")]
    BY DEF Updated
  <2> HIDE DEF u
  <2> QED BY <2>1, <2>2, <2>3
<1>3. IsJob(u) /\ u.status = s /\ u.logs = entry.logs /\ u.phases = entry.phases
  BY <1>2 DEF IsJob
<1>4. JobToDbJob(u) \in RowType
  BY <1>2 DEF JobToDbJob, RowType
<1> QED BY <1>3, <1>4

\* The fields that a call may set before.
LEMMA DiagnosisLemma ==
  ASSUME NEW entry, IsJob(entry), NEW d \in BOOLEAN
  PROVE  /\ IsJob([entry EXCEPT !.diagnosis = @ \/ d]) /\ [entry EXCEPT !.diagnosis = @ \/ d].logs = entry.logs
         /\ [entry EXCEPT !.diagnosis = @ \/ d].phases = entry.phases
  BY DEF IsJob

LEMMA PriorityLemma ==
  ASSUME NEW entry, IsJob(entry), NEW p \in BOOLEAN
  PROVE  /\ IsJob([entry EXCEPT !.priority = p]) /\ [entry EXCEPT !.priority = p].logs = entry.logs
         /\ [entry EXCEPT !.priority = p].phases = entry.phases
  BY DEF IsJob

LEMMA PhasesFieldLemma ==
  ASSUME NEW entry, IsJob(entry), NEW phases
  PROVE  /\ IsJob([entry EXCEPT !.phases = phases]) /\ [entry EXCEPT !.phases = phases].logs = entry.logs
         /\ [entry EXCEPT !.phases = phases].phases = phases
  BY DEF IsJob

LEMMA LogsFieldLemma ==
  ASSUME NEW entry, IsJob(entry), NEW logs, IsSeq(logs)
  PROVE  /\ IsJob([entry EXCEPT !.logs = logs])
         /\ [entry EXCEPT !.logs = logs].logs = logs /\ [entry EXCEPT !.logs = logs].phases = entry.phases
  BY DEF IsJob

\* What is read of the tables is a job.
LEMMA DbJobLemma ==
  ASSUME RecordTypeOK, NEW j \in Jobs
  PROVE  IsJob(DbJobToJob(j)) /\ DbJobToJob(j).status = row[j].status
<1>1. PICK n \in Nat : DOMAIN logRow[j] = 1..n
  BY DEF RecordTypeOK, IsSeq
<1>2. IsSeq(GetLogsByJob(j))
  BY <1>1 DEF GetLogsByJob, IsSeq
<1>3. row[j] \in RowType
  BY DEF RecordTypeOK
<1> QED BY <1>2, <1>3 DEF IsJob, DbJobToJob, RowType

LEMMA GetLemma ==
  ASSUME RecordInv, pc = "up", NEW j \in Jobs
  PROVE  /\ IsJob(Get(j)) /\ Get(j).status = row[j].status
         /\ row[j].status \in ActiveStatuses => Get(j) = cache[j] /\ cache[j] # NoJob
  BY DbJobLemma DEF RecordInv, RecordTypeOK, Mirrored, Get

-----------------------------------------------------------------------------
(* Calls.                                                                  *)

\* A call writes the row and the cache of one job, and perhaps its lines or its
\* phases.
LEMMA WriteStep ==
  ASSUME RecordInv, Up, NEW j \in Jobs, NEW entry, IsJob(entry), entry.status \in Statuses,
         row' = [row EXCEPT ![j] = JobToDbJob(entry)],
         cache' = [cache EXCEPT ![j] = IF entry.status \in ActiveStatuses THEN entry ELSE NoJob],
         touched' = touched \cup {j}, fresh' \in {fresh, fresh \cup {j}},
         DOMAIN phaseRow' = Jobs, DOMAIN logRow' = Jobs, IsSeq(logRow'[j]),
         said' \in [Jobs -> [lines : 0..MaxLines, before : 0..MaxLines]],
         said'[j].before = said[j].before, said'[j].lines >= said[j].lines,
         \A i \in Jobs \ {j} : /\ phaseRow'[i] = phaseRow[i] /\ logRow'[i] = logRow[i]
                               /\ said'[i] = said[i],
         entry.status \in ActiveStatuses =>
           /\ \A d \in 0..(said'[j].lines - said[j].before - 1) :
                /\ d < Len(entry.logs) /\ entry.logs[Len(entry.logs) - d] = said'[j].lines - d
                /\ d < Keep => \E i \in DOMAIN logRow'[j] : logRow'[j][i][2] = said'[j].lines - d
           /\ j \in fresh' => \A i \in DOMAIN entry.phases :
                                i \in DOMAIN phaseRow'[j] /\ phaseRow'[j][i] = entry.phases[i]
  PROVE  RecordInv'
<1> USE DEF RecordInv
<1>1. JobToDbJob(entry) \in RowType /\ JobToDbJob(entry).status = entry.status
  BY DEF JobToDbJob, RowType, IsJob
<1>2. /\ row' \in [Jobs -> RowType] /\ row'[j].status = entry.status
      /\ \A i \in Jobs \ {j} : row'[i] = row[i]
  BY <1>1 DEF RecordTypeOK
<1>3. /\ DOMAIN cache' = Jobs /\ cache'[j] = IF entry.status \in ActiveStatuses THEN entry ELSE NoJob
      /\ \A i \in Jobs \ {j} : cache'[i] = cache[i]
  BY DEF RecordTypeOK
<1>4. RecordTypeOK'
  <2>1. \A i \in Jobs : IsJob(cache'[i])
    BY <1>3, NoJobLemma DEF RecordTypeOK
  <2>2. \A i \in Jobs : IsSeq(logRow'[i])
    BY DEF RecordTypeOK
  <2>3. \A i \in Jobs : said'[i].before <= said'[i].lines
    <3>1. /\ said \in [Jobs -> [lines : 0..MaxLines, before : 0..MaxLines]]
          /\ \A i \in Jobs : said[i].before <= said[i].lines
      BY DEF RecordTypeOK
    <3>2. said[j].before \in Int /\ said[j].lines \in Int /\ said'[j].lines \in Int
      BY <3>1
    <3>3. said'[j].before <= said'[j].lines
      BY <3>1, <3>2
    <3> QED BY <3>1, <3>3
  <2>4. pc' = pc /\ DOMAIN file' = Jobs
    BY DEF RecordTypeOK, Up
  <2> QED BY <1>2, <1>3, <2>1, <2>2, <2>3, <2>4 DEF RecordTypeOK
<1>5. pc' = "up" /\ pc = "up" /\ columns' = columns /\ file' = file
  BY DEF Up
<1>6. Schema' /\ Silent' /\ PutAway'
  BY <1>5 DEF Schema, Silent, PutAway
<1>7. Mirrored'
  <2> SUFFICES ASSUME NEW i \in Jobs
               PROVE  /\ cache'[i] # NoJob <=> row'[i].status \in ActiveStatuses
                      /\ cache'[i] # NoJob => /\ cache'[i].status = row'[i].status
                                              /\ EndsWith(cache[i].logs, i)' /\ LinesKept(i)' /\ PhasesKept(i)'
    BY DEF Mirrored
  <2>1. CASE i = j
    <3>1. cache'[i] # NoJob <=> row'[i].status \in ActiveStatuses
      BY <2>1, <1>2, <1>3, NoJobLemma DEF ActiveStatuses
    <3>2. ASSUME cache'[i] # NoJob
          PROVE  /\ cache'[i].status = row'[i].status
                 /\ EndsWith(cache[i].logs, i)' /\ LinesKept(i)' /\ PhasesKept(i)'
      <4>1. entry.status \in ActiveStatuses /\ cache'[i] = entry
        BY <2>1, <3>2, <1>3
      <4> QED BY <2>1, <4>1, <1>2 DEF EndsWith, LinesKept, PhasesKept
    <3> QED BY <3>1, <3>2
  <2>2. CASE i # j
    <3>1. /\ row'[i] = row[i] /\ cache'[i] = cache[i] /\ phaseRow'[i] = phaseRow[i]
          /\ logRow'[i] = logRow[i] /\ said'[i] = said[i] /\ (i \in fresh' <=> i \in fresh)
      BY <2>2, <1>2, <1>3
    <3>2. /\ cache[i] # NoJob <=> row[i].status \in ActiveStatuses
          /\ cache[i] # NoJob => /\ cache[i].status = row[i].status
                                 /\ EndsWith(cache[i].logs, i) /\ LinesKept(i) /\ PhasesKept(i)
      BY <1>5 DEF Mirrored
    <3>3. EndsWith(cache[i].logs, i) => EndsWith(cache[i].logs, i)'
      BY ONLY <3>1 DEF EndsWith
    <3>4. LinesKept(i) => LinesKept(i)'
      BY ONLY <3>1 DEF LinesKept
    <3>5. PhasesKept(i) => PhasesKept(i)'
      BY ONLY <3>1 DEF PhasesKept
    <3> QED BY ONLY <3>1, <3>2, <3>3, <3>4, <3>5
  <2> QED BY <2>1, <2>2
<1>8. MigratedComplete'
  <2>1. row'[j] # NoRow
    BY <1>2 DEF NoRow, Statuses, ActiveStatuses
  <2>2. \A f \in JobFiles : f \in Jobs
    OBVIOUS
  <2>3. SUFFICES ASSUME NEW f \in JobFiles, Content[f].fault = "none"
                 PROVE  /\ HasRow(f)' /\ f \notin touched' =>
                             /\ logRow'[f] = LinesOfFile(f)
                             /\ phaseRow'[f] = CreatePhases(NoPhases, PhasesOfFile(f), Len(PhasesOfFile(f)))
                        /\ file'[f] = "migrated" => HasRow(f)' \/ said'[f].before = MaxLines
    BY DEF MigratedComplete, LinesOfFile, PhasesOfFile, CreatePhases, NoPhases
  <2>4. CASE f = j
    BY <2>1, <2>4 DEF HasRow
  <2>5. CASE f # j
    <3>1. /\ row'[f] = row[f] /\ phaseRow'[f] = phaseRow[f] /\ logRow'[f] = logRow[f]
          /\ said'[f] = said[f] /\ file'[f] = file[f] /\ (f \in touched' <=> f \in touched)
      BY <2>2, <2>5, <1>2, <1>5
    <3> QED BY <2>3, <3>1 DEF MigratedComplete, HasRow
  <2> QED BY <2>4, <2>5
<1> QED BY <1>4, <1>6, <1>7, <1>8

\* One that leaves lines and phases alone.
LEMMA QuietStep ==
  ASSUME RecordInv, Up, NEW j \in Jobs, NEW entry, IsJob(entry), entry.logs = Get(j).logs,
         entry.phases = Get(j).phases, NEW s \in Statuses, s \in ActiveStatuses => row[j].status \in ActiveStatuses,
         Writes(j, Updated(entry, s)), Touch(j), UNCHANGED <<phaseRow, logRow, said, fresh>>
  PROVE  RecordInv'
<1> DEFINE new == Updated(entry, s)
<1>1. /\ IsJob(new) /\ new.status = s /\ new.logs = Get(j).logs /\ new.phases = Get(j).phases
  BY UpdatedLemma
<1>2. /\ row' = [row EXCEPT ![j] = JobToDbJob(new)]
      /\ cache' = [cache EXCEPT ![j] = IF new.status \in ActiveStatuses THEN new ELSE NoJob]
  BY DEF Writes, UpdateCache
<1> HIDE DEF new
<1>3. /\ touched' = touched \cup {j} /\ fresh' = fresh
      /\ phaseRow' = phaseRow /\ logRow' = logRow /\ said' = said
  BY DEF Touch
<1>4. /\ DOMAIN phaseRow' = Jobs /\ DOMAIN logRow' = Jobs /\ IsSeq(logRow'[j])
      /\ said' \in [Jobs -> [lines : 0..MaxLines, before : 0..MaxLines]]
  BY <1>3 DEF RecordInv, RecordTypeOK
<1>5. said'[j].before = said[j].before /\ said'[j].lines >= said[j].lines
  <2>1. said[j].lines \in 0..MaxLines
    BY <1>3, <1>4
  <2> QED BY <1>3, <2>1
<1>6. ASSUME new.status \in ActiveStatuses
      PROVE  /\ \A d \in 0..(said'[j].lines - said[j].before - 1) :
                  /\ d < Len(new.logs) /\ new.logs[Len(new.logs) - d] = said'[j].lines - d
                  /\ d < Keep => \E i \in DOMAIN logRow'[j] : logRow'[j][i][2] = said'[j].lines - d
             /\ j \in fresh' => \A i \in DOMAIN new.phases :
                                  i \in DOMAIN phaseRow'[j] /\ phaseRow'[j][i] = new.phases[i]
  <2>1. pc = "up" /\ row[j].status \in ActiveStatuses
    BY <1>1, <1>6 DEF Up
  <2>2. Get(j) = cache[j] /\ cache[j] # NoJob
    BY <2>1, GetLemma
  <2>3. EndsWith(cache[j].logs, j) /\ LinesKept(j) /\ PhasesKept(j)
    BY <2>1, <2>2 DEF RecordInv, Mirrored
  <2> QED BY <1>1, <1>3, <2>2, <2>3 DEF EndsWith, LinesKept, PhasesKept
<1> QED BY <1>1, <1>2, <1>3, <1>4, <1>5, <1>6, WriteStep

LEMMA SetStatusStep ==
  ASSUME RecordInv, NEW j \in Jobs, NEW s \in Statuses, SetStatus(j, s) PROVE RecordInv'
<1>1. Up /\ pc = "up" /\ Touch(j) /\ UNCHANGED <<phaseRow, logRow, said, fresh>>
  BY DEF SetStatus, Up
<1>2. s \in ActiveStatuses => row[j].status \in ActiveStatuses
  BY DEF SetStatus, ActiveStatuses
<1>3. PICK d \in BOOLEAN : Writes(j, Updated([Get(j) EXCEPT !.diagnosis = @ \/ d], s))
  BY DEF SetStatus
<1>4. IsJob(Get(j))
  BY <1>1, GetLemma
<1> DEFINE entry == [Get(j) EXCEPT !.diagnosis = @ \/ d]
<1>5. IsJob(entry) /\ entry.logs = Get(j).logs /\ entry.phases = Get(j).phases
  BY <1>4, DiagnosisLemma
<1>6. Writes(j, Updated(entry, s))
  BY <1>3
<1> HIDE DEF entry
<1> QED BY <1>1, <1>2, <1>5, <1>6, QuietStep

LEMMA SetPriorityStep ==
  ASSUME RecordInv, NEW j \in Jobs, SetPriority(j) PROVE RecordInv'
<1>1. /\ Up /\ pc = "up" /\ Touch(j) /\ UNCHANGED <<phaseRow, logRow, said, fresh>>
      /\ row[j].status \in ActiveStatuses /\ "queued" \in Statuses
      /\ Writes(j, Updated([Get(j) EXCEPT !.priority = TRUE], "queued"))
  BY DEF SetPriority, Up, ActiveStatuses, Statuses
<1>2. IsJob(Get(j))
  BY <1>1, GetLemma
<1> DEFINE entry == [Get(j) EXCEPT !.priority = TRUE]
<1>3. IsJob(entry) /\ entry.logs = Get(j).logs /\ entry.phases = Get(j).phases
  BY <1>2, PriorityLemma
<1>4. Writes(j, Updated(entry, "queued"))
  BY <1>1
<1> HIDE DEF entry
<1> QED BY <1>1, <1>3, <1>4, QuietStep

\* The rows of a list of phases are its phases.
LEMMA PhasesLemma ==
  ASSUME NEW ps \in PhaseLists, NEW rows
  PROVE  \A i \in DOMAIN ps : /\ i \in DOMAIN CreatePhases(rows, ps, Len(ps))
                              /\ CreatePhases(rows, ps, Len(ps))[i] = ps[i]
<1>1. PICK n \in 0..MaxResults, p \in {"first", "second"} : ps \in [1..n -> {p}]
  BY DEF PhaseLists
<1>2. Len(ps) = n /\ DOMAIN ps = 1..n
  BY <1>1
<1> QED BY <1>2 DEF CreatePhases

LEMMA CreateStep ==
  ASSUME RecordInv, NEW j \in Jobs, NEW prio \in BOOLEAN, NEW ps \in PhaseLists, Create(j, prio, ps)
  PROVE  RecordInv'
<1> DEFINE entry == [NoJob EXCEPT !.status = "queued", !.trigger = TRUE, !.priority = prio, !.phases = ps]
<1>1. entry = [status |-> "queued", trigger |-> TRUE, diagnosis |-> FALSE, priority |-> prio,
             logs |-> <<>>, phases |-> ps]
  <2>1. ASSUME NEW t, NEW f, NEW p
        PROVE  [[status |-> "none", trigger |-> f, diagnosis |-> f, priority |-> f,
                 logs |-> <<>>, phases |-> <<>>]
                  EXCEPT !.status = "queued", !.trigger = t, !.priority = p, !.phases = ps]
                 = [status |-> "queued", trigger |-> t, diagnosis |-> f, priority |-> p,
                    logs |-> <<>>, phases |-> ps]
    <3> DEFINE w == [status |-> "none", trigger |-> f, diagnosis |-> f, priority |-> f,
                     logs |-> <<>>, phases |-> <<>>]
    <3>0. w = [status |-> "none", trigger |-> f, diagnosis |-> f, priority |-> f,
               logs |-> <<>>, phases |-> <<>>]
      OBVIOUS
    <3> HIDE DEF w
    <3> DEFINE x == [w EXCEPT !.status = "queued"]
               y == [x EXCEPT !.trigger = t]
               z == [y EXCEPT !.priority = p]
               u == [z EXCEPT !.phases = ps]
    <3>1. [w EXCEPT !.status = "queued", !.trigger = t, !.priority = p, !.phases = ps] = u
      BY Zenon
    <3>2. x = [status |-> "queued", trigger |-> f, diagnosis |-> f, priority |-> f,
               logs |-> <<>>, phases |-> <<>>]
      BY <3>0
    <3> HIDE DEF x
    <3>3. y = [status |-> "queued", trigger |-> t, diagnosis |-> f, priority |-> f,
               logs |-> <<>>, phases |-> <<>>]
      BY <3>2
    <3> HIDE DEF y
    <3>4. z = [status |-> "queued", trigger |-> t, diagnosis |-> f, priority |-> p,
               logs |-> <<>>, phases |-> <<>>]
      BY <3>3
    <3> HIDE DEF z
    <3>5. u = [status |-> "queued", trigger |-> t, diagnosis |-> f, priority |-> p,
               logs |-> <<>>, phases |-> ps]
      BY <3>4
    <3> QED BY <3>1, <3>5 DEF w
  <2>2. entry = [[status |-> "none", trigger |-> FALSE, diagnosis |-> FALSE, priority |-> FALSE,
                logs |-> <<>>, phases |-> <<>>]
                 EXCEPT !.status = "queued", !.trigger = TRUE, !.priority = prio, !.phases = ps]
    BY Zenon DEF NoJob
  <2> HIDE DEF entry
  <2> QED BY <2>1, <2>2, Zenon
<1>2. /\ Up /\ said[j].lines = 0 /\ row' = [row EXCEPT ![j] = JobToDbJob(entry)]
      /\ cache' = [cache EXCEPT ![j] = entry]
      /\ phaseRow' = [phaseRow EXCEPT ![j] = CreatePhases(NoPhases, ps, Len(ps))]
      /\ fresh' = fresh \cup {j} /\ touched' = touched \cup {j} /\ logRow' = logRow /\ said' = said
  BY DEF Create, Touch
<1> HIDE DEF entry
<1>3. IsJob(entry) /\ entry.status \in ActiveStatuses /\ entry.status \in Statuses /\ entry.phases = ps
  BY <1>1, NoJobLemma DEF IsJob, ActiveStatuses, Statuses
<1>4. /\ DOMAIN phaseRow' = Jobs /\ DOMAIN logRow' = Jobs /\ IsSeq(logRow'[j])
      /\ said' \in [Jobs -> [lines : 0..MaxLines, before : 0..MaxLines]]
      /\ phaseRow'[j] = CreatePhases(NoPhases, ps, Len(ps))
      /\ \A i \in Jobs \ {j} : phaseRow'[i] = phaseRow[i]
  BY <1>2 DEF RecordInv, RecordTypeOK
<1>5. /\ said'[j].before = said[j].before /\ said'[j].lines = 0 /\ said[j].before \in Nat
      /\ said'[j].lines >= said[j].lines
  BY <1>2, <1>4
<1>6. \A d \in 0..(said'[j].lines - said[j].before - 1) : FALSE
  BY <1>5
<1>7. \A i \in DOMAIN entry.phases : i \in DOMAIN phaseRow'[j] /\ phaseRow'[j][i] = entry.phases[i]
  BY <1>3, <1>4, PhasesLemma
<1>8. cache' = [cache EXCEPT ![j] = IF entry.status \in ActiveStatuses THEN entry ELSE NoJob]
  BY <1>2, <1>3
<1> QED BY <1>2, <1>3, <1>4, <1>5, <1>6, <1>7, <1>8, WriteStep

\* The objects that a call on a running job starts with.
LEMMA SetPhaseResultsStep ==
  ASSUME RecordInv, NEW j \in Jobs, NEW ps \in PhaseLists, SetPhaseResults(j, ps) PROVE RecordInv'
<1> DEFINE old == [Get(j) EXCEPT !.phases = ps]
           entry == Updated(old, "running")
<1>1. /\ Up /\ pc = "up" /\ row[j].status \in ActiveStatuses /\ Writes(j, entry)
      /\ phaseRow' = [phaseRow EXCEPT ![j] = CreatePhases(@, ps, Len(ps))]
      /\ fresh' = fresh \cup {j} /\ touched' = touched \cup {j} /\ logRow' = logRow /\ said' = said
  BY DEF SetPhaseResults, Touch, Up, ActiveStatuses
<1>2. IsJob(Get(j)) /\ Get(j) = cache[j] /\ cache[j] # NoJob
  BY <1>1, GetLemma
<1>3. IsJob(old) /\ old.logs = Get(j).logs /\ old.phases = ps
  BY <1>2, PhasesFieldLemma
<1>4. "running" \in Statuses /\ "running" \in ActiveStatuses
  BY DEF Statuses, ActiveStatuses
<1>5. IsJob(entry) /\ entry.status = "running" /\ entry.logs = cache[j].logs /\ entry.phases = ps
  <2> HIDE DEF old
  <2> QED BY <1>2, <1>3, <1>4, UpdatedLemma
<1> HIDE DEF entry
<1>6. /\ row' = [row EXCEPT ![j] = JobToDbJob(entry)]
      /\ cache' = [cache EXCEPT ![j] = IF entry.status \in ActiveStatuses THEN entry ELSE NoJob]
  BY <1>1 DEF Writes, UpdateCache
<1>7. /\ DOMAIN phaseRow' = Jobs /\ DOMAIN logRow' = Jobs /\ IsSeq(logRow'[j])
      /\ said' \in [Jobs -> [lines : 0..MaxLines, before : 0..MaxLines]]
      /\ phaseRow'[j] = CreatePhases(phaseRow[j], ps, Len(ps))
      /\ \A i \in Jobs \ {j} : phaseRow'[i] = phaseRow[i]
  BY <1>1 DEF RecordInv, RecordTypeOK
<1>8. said'[j].before = said[j].before /\ said'[j].lines >= said[j].lines
  BY <1>1, <1>7
<1>9. EndsWith(cache[j].logs, j) /\ LinesKept(j)
  BY <1>1, <1>2 DEF RecordInv, Mirrored
<1>10. \A d \in 0..(said'[j].lines - said[j].before - 1) :
         /\ d < Len(entry.logs) /\ entry.logs[Len(entry.logs) - d] = said'[j].lines - d
         /\ d < Keep => \E i \in DOMAIN logRow'[j] : logRow'[j][i][2] = said'[j].lines - d
  BY <1>1, <1>5, <1>9 DEF EndsWith, LinesKept
<1>11. \A i \in DOMAIN entry.phases : i \in DOMAIN phaseRow'[j] /\ phaseRow'[j][i] = entry.phases[i]
  BY <1>5, <1>7, PhasesLemma
<1> QED BY <1>1, <1>4, <1>5, <1>6, <1>7, <1>8, <1>10, <1>11, WriteStep

LEMMA LogStep ==
  ASSUME RecordInv, NEW j \in Jobs, Log(j) PROVE RecordInv'
<1> DEFINE new == Logged(j)
           old == [Get(j) EXCEPT !.logs = new]
           entry == Updated(old, "running")
           call == said[j].lines + 1
<1>1. /\ Up /\ pc = "up" /\ row[j].status \in ActiveStatuses /\ Writes(j, entry) /\ said[j].lines < MaxLines
      /\ logRow' = [logRow EXCEPT ![j] = Rewritten(@, call, new, Len(new))]
      /\ said' = [said EXCEPT ![j].lines = @ + 1]
      /\ fresh' = fresh /\ touched' = touched \cup {j} /\ phaseRow' = phaseRow
  BY DEF Log, Touch, Up, ActiveStatuses
<1>2. IsJob(Get(j)) /\ Get(j) = cache[j] /\ cache[j] # NoJob /\ IsSeq(cache[j].logs)
  <2>1. IsJob(Get(j)) /\ Get(j) = cache[j] /\ cache[j] # NoJob
    BY <1>1, GetLemma
  <2> QED BY <2>1 DEF IsJob
<1>3. new = Append(cache[j].logs, call)
  BY <1>2 DEF Logged
<1> DEFINE n == Len(cache[j].logs)
<1> HIDE DEF new
<1>4. /\ IsSeq(new) /\ n \in Nat /\ Len(new) = n + 1 /\ new[n + 1] = call
      /\ \A i \in 1..n : new[i] = cache[j].logs[i]
  BY <1>2, <1>3, AppendedLemma
<1> HIDE DEF n
<1>5. "running" \in Statuses /\ "running" \in ActiveStatuses
  BY DEF Statuses, ActiveStatuses
<1>6. IsJob(entry) /\ entry.status = "running" /\ entry.logs = new /\ entry.phases = cache[j].phases
  <2>1. IsJob(old) /\ old.logs = new /\ old.phases = cache[j].phases
    <3> QED BY <1>2, <1>4, LogsFieldLemma
  <2> HIDE DEF old
  <2> QED BY <2>1, <1>5, UpdatedLemma
<1> HIDE DEF entry
<1>7. /\ row' = [row EXCEPT ![j] = JobToDbJob(entry)]
      /\ cache' = [cache EXCEPT ![j] = IF entry.status \in ActiveStatuses THEN entry ELSE NoJob]
  BY <1>1 DEF Writes, UpdateCache
<1>8. /\ said \in [Jobs -> [lines : 0..MaxLines, before : 0..MaxLines]]
      /\ DOMAIN logRow = Jobs /\ \A i \in Jobs : IsSeq(logRow[i])
      /\ DOMAIN phaseRow = Jobs /\ said[j].before <= said[j].lines
  BY DEF RecordInv, RecordTypeOK
<1>9. /\ said' \in [Jobs -> [lines : 0..MaxLines, before : 0..MaxLines]]
      /\ said'[j].before = said[j].before /\ said'[j].lines = call
      /\ said[j].lines \in Nat /\ said[j].before \in Nat /\ said'[j].lines >= said[j].lines
      /\ \A i \in Jobs \ {j} : said'[i] = said[i]
  BY <1>1, <1>8
<1>10. /\ DOMAIN logRow' = Jobs /\ logRow'[j] = Rewritten(logRow[j], call, new, n + 1)
       /\ \A i \in Jobs \ {j} : logRow'[i] = logRow[i]
  BY <1>1, <1>4, <1>8
<1> DEFINE w == logRow'[j]
<1>11. /\ IsSeq(w)
       /\ \A d \in 0..(Keep - 1) : d < n + 1 => Len(w) - d \in DOMAIN w /\ w[Len(w) - d] = <<call, new[n + 1 - d]>>
  <2> HIDE DEF w, call
  <2>1. n + 1 \in Nat /\ IsSeq(logRow[j])
    BY <1>4, <1>8
  <2>2. w = Rewritten(logRow[j], call, new, n + 1)
    BY <1>10 DEF w
  <2>3. /\ IsSeq(Rewritten(logRow[j], call, new, n + 1))
        /\ LastRows(Rewritten(logRow[j], call, new, n + 1), call, new, n + 1)
    BY <2>1, RewrittenLemma, Zenon
  <2>4. LastRows(w, call, new, n + 1) /\ IsSeq(w)
    BY ONLY <2>2, <2>3
  <2>5. n \in Nat /\ n + 1 \in Nat
    BY <1>4
  <2> QED BY ONLY <2>4, <2>5 DEF LastRows
<1>12. EndsWith(cache[j].logs, j) /\ PhasesKept(j)
  BY <1>1, <1>2 DEF RecordInv, Mirrored
<1> HIDE DEF call
<1>13. call = said[j].lines + 1 /\ call \in Nat
  BY <1>9 DEF call
<1>14. \A d \in 0..(call - said[j].before - 1) : d < n + 1 /\ new[n + 1 - d] = call - d
  <2> SUFFICES ASSUME NEW d \in 0..(call - said[j].before - 1) PROVE d < n + 1 /\ new[n + 1 - d] = call - d
    OBVIOUS
  <2>1. CASE d = 0
    BY <2>1, <1>4, <1>13
  <2>2. CASE d # 0
    <3>1. d - 1 \in 0..(said[j].lines - said[j].before - 1)
      BY <2>2, <1>9, <1>13
    <3>2. d - 1 < n /\ cache[j].logs[n - (d - 1)] = said[j].lines - (d - 1)
      BY <3>1, <1>12 DEF EndsWith, n
    <3>3. n - (d - 1) = n + 1 - d /\ n + 1 - d \in 1..n /\ said[j].lines - (d - 1) = call - d
      <4>1. said[j].lines \in Nat /\ said[j].before \in Nat
        BY <1>9
      <4>2. call \in Nat /\ call = said[j].lines + 1
        BY <1>13
      <4>3. d \in Nat /\ d # 0
        BY <2>2, <4>1, <4>2
      <4>4. n \in Nat
        BY <1>4
      <4> HIDE DEF n
      <4>5. d - 1 < n
        BY <3>2
      <4> QED BY ONLY <4>1, <4>2, <4>3, <4>4, <4>5
    <3> QED BY <3>2, <3>3, <1>4
  <2> QED BY <2>1, <2>2
<1>15. \A d \in 0..(said'[j].lines - said[j].before - 1) :
         /\ d < Len(entry.logs) /\ entry.logs[Len(entry.logs) - d] = said'[j].lines - d
         /\ d < Keep => \E i \in DOMAIN logRow'[j] : logRow'[j][i][2] = said'[j].lines - d
  <2> HIDE DEF w
  <2>0. Len(entry.logs) = n + 1 /\ said'[j].lines = call /\ entry.logs = new /\ n \in Nat /\ call \in Nat
    BY <1>4, <1>6, <1>9, <1>13
  <2> SUFFICES ASSUME NEW d \in 0..(said'[j].lines - said[j].before - 1)
               PROVE  /\ d < Len(entry.logs) /\ entry.logs[Len(entry.logs) - d] = said'[j].lines - d
                      /\ d < Keep => \E i \in DOMAIN w : w[i][2] = said'[j].lines - d
    BY DEF w
  <2>1. d < n + 1 /\ new[n + 1 - d] = call - d
    BY <2>0, <1>14
  <2>2. ASSUME d < Keep PROVE \E i \in DOMAIN w : w[i][2] = call - d
    <3>1. d \in 0..(Keep - 1)
      BY <2>2
    <3>2. Len(w) - d \in DOMAIN w /\ w[Len(w) - d] = <<call, call - d>>
      BY <3>1, <2>1, <1>11
    <3>3. w[Len(w) - d][2] = call - d
      BY <3>2
    <3> QED BY <3>2, <3>3
  <2> QED BY ONLY <2>0, <2>1, <2>2
<1>16. j \in fresh' => \A i \in DOMAIN entry.phases :
                         i \in DOMAIN phaseRow'[j] /\ phaseRow'[j][i] = entry.phases[i]
  BY <1>1, <1>6, <1>12 DEF PhasesKept
<1>17. DOMAIN phaseRow' = Jobs /\ IsSeq(logRow'[j]) /\ fresh' \in {fresh, fresh \cup {j}}
       /\ \A i \in Jobs \ {j} : phaseRow'[i] = phaseRow[i]
  BY <1>1, <1>8, <1>11
<1>18. Up /\ touched' = touched \cup {j} /\ IsJob(entry) /\ entry.status \in Statuses
  BY <1>1, <1>5, <1>6
<1> HIDE DEF w, old
<1> QED BY <1>18, <1>7, <1>9, <1>10, <1>15, <1>16, <1>17, WriteStep

LEMMA RemoveStep ==
  ASSUME RecordInv, NEW j \in Jobs, RemoveJob(j) PROVE RecordInv'
<1> USE DEF RecordInv
<1>1. /\ pc = "up" /\ UNCHANGED <<pc, columns, file>>
      /\ row' = [row EXCEPT ![j] = NoRow] /\ phaseRow' = [phaseRow EXCEPT ![j] = NoPhases]
      /\ logRow' = [logRow EXCEPT ![j] = <<>>] /\ cache' = [cache EXCEPT ![j] = NoJob]
      /\ fresh' = fresh \ {j} /\ touched' = touched \ {j}
      /\ said' = [said EXCEPT ![j] = [lines |-> MaxLines, before |-> MaxLines]]
  BY DEF RemoveJob, Up
<1>2. /\ row' \in [Jobs -> RowType] /\ row'[j] = NoRow /\ \A i \in Jobs \ {j} : row'[i] = row[i]
      /\ DOMAIN phaseRow' = Jobs /\ \A i \in Jobs \ {j} : phaseRow'[i] = phaseRow[i]
  BY <1>1, NoJobLemma DEF RecordTypeOK
<1>3. /\ DOMAIN logRow' = Jobs /\ logRow'[j] = <<>> /\ \A i \in Jobs \ {j} : logRow'[i] = logRow[i]
      /\ DOMAIN cache' = Jobs /\ cache'[j] = NoJob /\ \A i \in Jobs \ {j} : cache'[i] = cache[i]
  BY <1>1 DEF RecordTypeOK
<1>4. /\ said' \in [Jobs -> [lines : 0..MaxLines, before : 0..MaxLines]]
      /\ said'[j].lines = MaxLines /\ said'[j].before = MaxLines
      /\ \A i \in Jobs \ {j} : said'[i] = said[i]
  BY <1>1 DEF RecordTypeOK
<1>5. RecordTypeOK'
  <2>1. \A i \in Jobs : IsJob(cache'[i]) /\ IsSeq(logRow'[i])
    BY <1>3, NoJobLemma DEF RecordTypeOK
  <2>2. \A i \in Jobs : said'[i].before <= said'[i].lines
    <3>1. \A i \in Jobs : said[i].before <= said[i].lines
      BY DEF RecordTypeOK
    <3>2. MaxLines <= MaxLines
      OBVIOUS
    <3> QED BY <3>1, <3>2, <1>4
  <2>3. pc' = pc /\ file' = file
    BY <1>1
  <2> QED BY <1>2, <1>3, <1>4, <2>1, <2>2, <2>3 DEF RecordTypeOK
<1>6. Schema' /\ Silent' /\ PutAway'
  BY <1>1 DEF Schema, Silent, PutAway
<1>7. Mirrored'
  <2> SUFFICES ASSUME NEW i \in Jobs
               PROVE  /\ cache'[i] # NoJob <=> row'[i].status \in ActiveStatuses
                      /\ cache'[i] # NoJob => /\ cache'[i].status = row'[i].status
                                              /\ EndsWith(cache[i].logs, i)' /\ LinesKept(i)' /\ PhasesKept(i)'
    BY DEF Mirrored
  <2>1. CASE i = j
    BY <2>1, <1>2, <1>3 DEF NoRow, ActiveStatuses
  <2>2. CASE i # j
    <3>1. /\ row'[i] = row[i] /\ cache'[i] = cache[i] /\ phaseRow'[i] = phaseRow[i]
          /\ logRow'[i] = logRow[i] /\ said'[i] = said[i] /\ (i \in fresh' <=> i \in fresh)
      BY <2>2, <1>1, <1>2, <1>3, <1>4
    <3>2. /\ cache[i] # NoJob <=> row[i].status \in ActiveStatuses
          /\ cache[i] # NoJob => /\ cache[i].status = row[i].status
                                 /\ EndsWith(cache[i].logs, i) /\ LinesKept(i) /\ PhasesKept(i)
      BY <1>1 DEF Mirrored
    <3> QED BY ONLY <3>1, <3>2 DEF EndsWith, LinesKept, PhasesKept
  <2> QED BY <2>1, <2>2
<1>8. MigratedComplete'
  <2> SUFFICES ASSUME NEW f \in JobFiles, Content[f].fault = "none"
               PROVE  /\ HasRow(f)' /\ f \notin touched' =>
                             /\ logRow'[f] = LinesOfFile(f)
                             /\ phaseRow'[f] = CreatePhases(NoPhases, PhasesOfFile(f), Len(PhasesOfFile(f)))
                      /\ file'[f] = "migrated" => HasRow(f)' \/ said'[f].before = MaxLines
    BY DEF MigratedComplete, LinesOfFile, PhasesOfFile, CreatePhases, NoPhases
  <2>1. CASE f = j
    BY <2>1, <1>2, <1>4 DEF HasRow
  <2>2. CASE f # j
    <3>1. /\ row'[f] = row[f] /\ phaseRow'[f] = phaseRow[f] /\ logRow'[f] = logRow[f]
          /\ said'[f] = said[f] /\ file'[f] = file[f] /\ (f \in touched' <=> f \in touched)
      BY <2>2, <1>1, <1>2, <1>3, <1>4
    <3> QED BY <3>1 DEF MigratedComplete, HasRow
  <2> QED BY <2>1, <2>2
<1> QED BY <1>5, <1>6, <1>7, <1>8

-----------------------------------------------------------------------------
(* Start.                                                                  *)

LEMMA OpeningStep ==
  ASSUME RecordInv, Open \/ MigrateSchema PROVE RecordInv'
<1> USE DEF RecordInv
<1>1. /\ pc \in {"down", "opening"} /\ pc' \in {"opening", "migrating"}
      /\ pc' = "migrating" => Added \subseteq columns'
      /\ row' = row /\ phaseRow' = phaseRow /\ logRow' = logRow /\ cache' = cache /\ file' = file
      /\ said' = said /\ fresh' = fresh /\ touched' = touched
  BY DEF Open, MigrateSchema, Goes, Idle, table, books
<1>2. RecordTypeOK'
  BY <1>1 DEF RecordTypeOK
<1>3. Schema' /\ Mirrored' /\ Silent' /\ PutAway'
  BY <1>1 DEF Schema, Mirrored, Silent, PutAway
<1>4. MigratedComplete'
  BY <1>1 DEF MigratedComplete, HasRow, LinesOfFile, PhasesOfFile, CreatePhases, NoPhases
<1> QED BY <1>2, <1>3, <1>4

\* What a file puts into the tables makes a row, and a log.
LEMMA ComesLemma ==
  ASSUME NEW f \in JobFiles
  PROVE  /\ f \in Jobs /\ IsSeq(LinesOfFile(f))
         /\ [NoRow EXCEPT !.status = Content[f].status] \in RowType
         /\ [NoRow EXCEPT !.status = Content[f].status] # NoRow
<1>1. f \in Jobs /\ Content[f].status \in Statuses /\ Content[f].lines \in Seq(Nat)
  BY DEF RecordAssumption
<1>2. IsSeq(LinesOfFile(f))
  <2>1. CASE Content[f].fault = "refused"
    BY <2>1, NoJobLemma DEF LinesOfFile
  <2>2. CASE Content[f].fault # "refused"
    <3>1. Len(Content[f].lines) \in Nat /\ DOMAIN Content[f].lines = 1..Len(Content[f].lines)
      BY <1>1
    <3>2. LinesOfFile(f) = [i \in 1..Len(Content[f].lines) |-> <<0, i>>]
      BY <2>2, <3>1 DEF LinesOfFile
    <3> QED BY <3>1, <3>2 DEF IsSeq
  <2> QED BY <2>1, <2>2
<1>3. /\ [NoRow EXCEPT !.status = Content[f].status] \in RowType
      /\ [NoRow EXCEPT !.status = Content[f].status].status = Content[f].status
  BY <1>1 DEF NoRow, RowType
<1>4. Content[f].status # NoRow.status
  BY <1>1 DEF NoRow, Statuses, ActiveStatuses
<1> QED BY <1>1, <1>2, <1>3, <1>4

LEMMA MigrateStep ==
  ASSUME RecordInv, Migrate PROVE RecordInv'
<1> USE DEF RecordInv
<1>1. /\ pc = "migrating" /\ pc' = IF Comes = {} THEN "loading" ELSE "moving"
      /\ columns' = columns /\ cache' = cache /\ file' = file /\ said' = said /\ fresh' = fresh
      /\ touched' = touched \ Comes
  BY DEF Migrate, Goes
<1>2. /\ row' = [j \in Jobs |-> IF j \in Comes THEN [NoRow EXCEPT !.status = Content[j].status]
                                ELSE row[j]]
      /\ phaseRow' = [j \in Jobs |->
           IF j \in Comes THEN CreatePhases(NoPhases, PhasesOfFile(j), Len(PhasesOfFile(j)))
           ELSE phaseRow[j]]
      /\ logRow' = [j \in Jobs |-> IF j \in Comes THEN LinesOfFile(j) ELSE logRow[j]]
  BY DEF Migrate
<1>3. \A f \in Comes : f \in JobFiles
  BY DEF Comes, Parsed
<1>4. \A f \in JobFiles : HasRow(f)' <=> HasRow(f) \/ f \in Comes
  <2> TAKE f \in JobFiles
  <2>1. f \in Jobs /\ [NoRow EXCEPT !.status = Content[f].status] # NoRow
    BY ComesLemma
  <2> QED BY <2>1, <1>2 DEF HasRow
<1>5. RecordTypeOK'
  <2>1. row' \in [Jobs -> RowType]
    <3>1. \A j \in Jobs : row'[j] \in RowType
      <4> TAKE j \in Jobs
      <4>1. CASE j \in Comes
        BY <4>1, <1>2, <1>3, ComesLemma
      <4>2. CASE j \notin Comes
        BY <4>2, <1>2 DEF RecordTypeOK
      <4> QED BY <4>1, <4>2
    <3> QED BY <3>1, <1>2
  <2>2. DOMAIN phaseRow' = Jobs /\ DOMAIN logRow' = Jobs
    BY <1>2
  <2>3. \A j \in Jobs : IsSeq(logRow'[j])
    BY <1>2, <1>3, ComesLemma DEF RecordTypeOK
  <2>4. pc' \in {"down", "opening", "migrating", "moving", "loading", "up"}
    BY <1>1
  <2> QED BY <1>1, <2>1, <2>2, <2>3, <2>4 DEF RecordTypeOK
<1>6. Schema' /\ Mirrored' /\ Silent'
  BY <1>1 DEF Schema, Mirrored, Silent
<1>7. PutAway'
  <2> SUFFICES ASSUME NEW f \in JobFiles, Content[f].fault = "none", file[f] = "jobs" PROVE HasRow(f)'
    BY <1>1 DEF PutAway, HasRow
  <2>1. f \in Parsed
    BY DEF Parsed
  <2> QED BY <2>1, <1>4 DEF Comes
<1>8. MigratedComplete'
  <2> SUFFICES ASSUME NEW f \in JobFiles, Content[f].fault = "none"
               PROVE  /\ HasRow(f)' /\ f \notin touched' =>
                             /\ logRow'[f] = LinesOfFile(f)
                             /\ phaseRow'[f] = CreatePhases(NoPhases, PhasesOfFile(f), Len(PhasesOfFile(f)))
                      /\ file'[f] = "migrated" => HasRow(f)' \/ said'[f].before = MaxLines
    BY DEF MigratedComplete, LinesOfFile, PhasesOfFile, CreatePhases, NoPhases
  <2>1. f \in Jobs
    BY ComesLemma
  <2>2. CASE f \in Comes
    BY <2>1, <2>2, <1>2, <1>4
  <2>3. CASE f \notin Comes
    <3>1. /\ phaseRow'[f] = phaseRow[f] /\ logRow'[f] = logRow[f] /\ (f \in touched' <=> f \in touched)
          /\ (HasRow(f)' <=> HasRow(f))
      BY <2>1, <2>3, <1>1, <1>2, <1>4
    <3> QED BY <3>1, <1>1 DEF MigratedComplete
  <2> QED BY <2>2, <2>3
<1> QED BY <1>5, <1>6, <1>7, <1>8

LEMMA MoveStep ==
  ASSUME RecordInv, MoveJsonFiles PROVE RecordInv'
<1> USE DEF RecordInv
<1>1. /\ pc = "moving" /\ pc' \in {"moving", "loading"}
      /\ columns' = columns /\ row' = row /\ phaseRow' = phaseRow /\ logRow' = logRow /\ cache' = cache
      /\ said' = said /\ fresh' = fresh /\ touched' = touched
      /\ \/ \E f \in JobFiles : file[f] = "jobs" /\ file' = [file EXCEPT ![f] = "migrated"]
         \/ file' = file
  BY DEF MoveJsonFiles, Idle, table, books
<1>2. \A f \in JobFiles : \/ file'[f] = file[f]
                          \/ file[f] = "jobs" /\ file'[f] = "migrated"
  BY <1>1 DEF RecordTypeOK
<1>3. DOMAIN file' = Jobs
  BY <1>1 DEF RecordTypeOK
<1>4. RecordTypeOK'
  BY <1>1, <1>3 DEF RecordTypeOK
<1>5. Schema' /\ Mirrored' /\ Silent'
  BY <1>1 DEF Schema, Mirrored, Silent
<1>6. PutAway'
  BY <1>1, <1>2 DEF PutAway, HasRow
<1>7. MigratedComplete'
  <2>1. \A f \in JobFiles : (HasRow(f)' <=> HasRow(f)) /\ said'[f] = said[f]
    BY <1>1 DEF HasRow
  <2>2. \A f \in JobFiles : Content[f].fault = "none" /\ file'[f] = "migrated" => HasRow(f) \/ said[f].before = MaxLines
    BY <1>1, <1>2 DEF PutAway, MigratedComplete
  <2>3. \A f \in JobFiles : Content[f].fault = "none" /\ HasRow(f) /\ f \notin touched =>
          /\ logRow[f] = LinesOfFile(f)
          /\ phaseRow[f] = CreatePhases(NoPhases, PhasesOfFile(f), Len(PhasesOfFile(f)))
    BY DEF MigratedComplete
  <2> QED BY <1>1, <2>1, <2>2, <2>3 DEF MigratedComplete, LinesOfFile, PhasesOfFile, CreatePhases, NoPhases
<1> QED BY <1>4, <1>5, <1>6, <1>7

LEMMA LoadStep ==
  ASSUME RecordInv, LoadActiveJobsToCache PROVE RecordInv'
<1> USE DEF RecordInv
<1>1. /\ pc = "loading" /\ pc' = "up"
      /\ cache' = [j \in Jobs |-> IF row[j].status \in ActiveStatuses THEN DbJobToJob(j) ELSE NoJob]
      /\ columns' = columns /\ row' = row /\ phaseRow' = phaseRow /\ logRow' = logRow /\ file' = file
      /\ said' = said /\ fresh' = fresh /\ touched' = touched
  BY DEF LoadActiveJobsToCache, Goes, Idle, table, books
<1>2. RecordTypeOK'
  <2>1. DOMAIN cache' = Jobs /\ \A j \in Jobs : IsJob(cache'[j])
    BY <1>1, DbJobLemma, NoJobLemma
  <2> QED BY <1>1, <2>1 DEF RecordTypeOK
<1>3. Schema' /\ Silent' /\ PutAway'
  BY <1>1 DEF Schema, Silent, PutAway
<1>4. Mirrored'
  <2> SUFFICES ASSUME NEW i \in Jobs
               PROVE  /\ cache'[i] # NoJob <=> row'[i].status \in ActiveStatuses
                      /\ cache'[i] # NoJob => /\ cache'[i].status = row'[i].status
                                              /\ EndsWith(cache[i].logs, i)' /\ LinesKept(i)' /\ PhasesKept(i)'
    BY DEF Mirrored
  <2>1. DbJobToJob(i).status = row[i].status
    BY DbJobLemma
  <2>2. /\ cache'[i] # NoJob <=> row'[i].status \in ActiveStatuses
        /\ cache'[i] # NoJob => cache'[i].status = row'[i].status
    BY <1>1, <2>1, NoJobLemma DEF ActiveStatuses
  <2>3. said'[i].before = said'[i].lines /\ fresh' = {} /\ said'[i].lines \in Nat
    BY <1>1 DEF Silent, RecordTypeOK
  <2>4. \A d \in 0..(said'[i].lines - said'[i].before - 1) : FALSE
    BY <2>3
  <2> QED BY <2>2, <2>3, <2>4 DEF EndsWith, LinesKept, PhasesKept
<1>5. MigratedComplete'
  BY <1>1 DEF MigratedComplete, HasRow, LinesOfFile, PhasesOfFile, CreatePhases, NoPhases
<1> QED BY <1>2, <1>3, <1>4, <1>5

-----------------------------------------------------------------------------
(* The end of the process.                                                 *)

\* It leaves rows of lines and phases half written only of jobs that have been
\* written to.
LEMMA DownStep ==
  ASSUME RecordInv, Down, row' = row, DOMAIN phaseRow' = Jobs, DOMAIN logRow' = Jobs,
         \A j \in Jobs : IsSeq(logRow'[j]), touched \subseteq touched',
         \A j \in Jobs \ touched' : phaseRow'[j] = phaseRow[j] /\ logRow'[j] = logRow[j]
  PROVE  RecordInv'
<1> USE DEF RecordInv
<1>1. /\ pc' = "down" /\ columns' = columns /\ file' = file /\ fresh' = {}
      /\ cache' = [j \in Jobs |-> NoJob]
      /\ said' = [j \in Jobs |-> [said[j] EXCEPT !.before = said[j].lines]]
  BY DEF Down
<1>2. /\ said \in [Jobs -> [lines : 0..MaxLines, before : 0..MaxLines]]
      /\ \A j \in Jobs : said[j].before <= said[j].lines
  BY DEF RecordTypeOK
<1>3. /\ said' \in [Jobs -> [lines : 0..MaxLines, before : 0..MaxLines]]
      /\ \A j \in Jobs : said'[j].before = said[j].lines /\ said'[j].lines = said[j].lines
  BY <1>1, <1>2
<1>4. RecordTypeOK'
  <2>1. \A j \in Jobs : said'[j].before <= said'[j].lines
    BY <1>3
  <2>2. DOMAIN cache' = Jobs /\ \A j \in Jobs : IsJob(cache'[j])
    BY <1>1, NoJobLemma
  <2> QED BY <1>1, <1>3, <2>1, <2>2 DEF RecordTypeOK
<1>5. Schema' /\ Mirrored' /\ Silent' /\ PutAway'
  BY <1>1, <1>3 DEF Schema, Mirrored, Silent, PutAway
<1>6. MigratedComplete'
  <2> SUFFICES ASSUME NEW f \in JobFiles, Content[f].fault = "none"
               PROVE  /\ HasRow(f)' /\ f \notin touched' =>
                             /\ logRow'[f] = LinesOfFile(f)
                             /\ phaseRow'[f] = CreatePhases(NoPhases, PhasesOfFile(f), Len(PhasesOfFile(f)))
                      /\ file'[f] = "migrated" => HasRow(f)' \/ said'[f].before = MaxLines
    BY DEF MigratedComplete, LinesOfFile, PhasesOfFile, CreatePhases, NoPhases
  <2>1. f \in Jobs /\ (HasRow(f)' <=> HasRow(f))
    BY ComesLemma DEF HasRow
  <2>2. said[f].before = MaxLines => said'[f].before = MaxLines
    <3>1. said[f].lines \in 0..MaxLines /\ said[f].before \in 0..MaxLines /\ said[f].before <= said[f].lines
      BY <2>1, <1>2
    <3> QED BY <2>1, <3>1, <1>3
  <2> QED BY <2>1, <2>2, <1>1 DEF MigratedComplete
<1> QED BY <1>4, <1>5, <1>6

LEMMA CrashSteps ==
  ASSUME RecordInv,
         \/ Crash
         \/ \E j \in Jobs : \/ \E ps \in PhaseLists, n \in 0..MaxResults : CrashInPhases(j, ps, n)
                            \/ \E n \in 0..(Cap + MaxLines) : CrashInLog(j, n)
  PROVE  RecordInv'
<1>1. DOMAIN phaseRow = Jobs /\ DOMAIN logRow = Jobs /\ \A j \in Jobs : IsSeq(logRow[j])
  BY DEF RecordInv, RecordTypeOK
<1>2. CASE Crash
  BY <1>1, <1>2, DownStep DEF Crash, RolledBack
<1>3. ASSUME NEW j \in Jobs, NEW ps \in PhaseLists, NEW n \in 0..MaxResults, CrashInPhases(j, ps, n)
      PROVE  RecordInv'
  <2>1. /\ Down /\ row' = row /\ logRow' = logRow /\ touched' = touched \cup {j}
        /\ DOMAIN phaseRow' = Jobs /\ \A i \in Jobs \ {j} : phaseRow'[i] = phaseRow[i]
    BY <1>1, <1>3 DEF CrashInPhases, Touch
  <2> QED BY <1>1, <2>1, DownStep
<1>4. ASSUME NEW j \in Jobs, NEW n \in 0..(Cap + MaxLines), CrashInLog(j, n)
      PROVE  RecordInv'
  <2> DEFINE r == Rewritten(logRow[j], said[j].lines + 1, Logged(j), n)
  <2>1. /\ Down /\ row' = row /\ phaseRow' = phaseRow /\ touched' = touched \cup {j}
        /\ logRow' = [logRow EXCEPT ![j] = r]
    BY <1>4 DEF CrashInLog, Touch
  <2>2. IsSeq(r)
    <3>1. n \in Nat /\ IsSeq(logRow[j])
      BY <1>1
    <3> QED BY <3>1, RewrittenLemma, Zenon
  <2> HIDE DEF r
  <2>3. /\ DOMAIN logRow' = Jobs /\ \A i \in Jobs : IsSeq(logRow'[i])
        /\ \A i \in Jobs \ {j} : logRow'[i] = logRow[i]
    BY <1>1, <2>1, <2>2
  <2> QED BY <1>1, <2>1, <2>3, DownStep
<1> QED BY <1>2, <1>3, <1>4

-----------------------------------------------------------------------------
(* What the tables keep.                                                   *)

LEMMA RecordInitInv == RecordInit => RecordInv
<1> SUFFICES ASSUME RecordInit PROVE RecordInv
  OBVIOUS
<1> USE DEF RecordInit
<1>1. /\ DOMAIN cache = Jobs /\ \A j \in Jobs : IsJob(cache[j])
      /\ DOMAIN logRow = Jobs /\ \A j \in Jobs : IsSeq(logRow[j])
      /\ row \in [Jobs -> RowType]
  BY NoJobLemma
<1>2. /\ said \in [Jobs -> [lines : 0..MaxLines, before : 0..MaxLines]]
      /\ \A j \in Jobs : said[j].lines = 0 /\ said[j].before = 0
  BY DEF RecordAssumption
<1>3. RecordTypeOK
  BY <1>1, <1>2 DEF RecordTypeOK
<1>4. Schema /\ Mirrored /\ Silent /\ PutAway
  BY <1>2 DEF Schema, Mirrored, Silent, PutAway
<1>5. MigratedComplete
  <2>1. \A f \in JobFiles : f \in Jobs
    BY ComesLemma
  <2> QED BY <2>1 DEF MigratedComplete, HasRow
<1> QED BY <1>3, <1>4, <1>5 DEF RecordInv

LEMMA RecordStep == RecordInv /\ [RecordNext]_recordVars => RecordInv'
<1> SUFFICES ASSUME RecordInv, [RecordNext]_recordVars PROVE RecordInv'
  OBVIOUS
<1>1. CASE Open \/ MigrateSchema
  BY <1>1, OpeningStep
<1>2. CASE Migrate
  BY <1>2, MigrateStep
<1>3. CASE MoveJsonFiles
  BY <1>3, MoveStep
<1>4. CASE LoadActiveJobsToCache
  BY <1>4, LoadStep
<1>5. CASE Crash
  BY <1>5, CrashSteps
<1>6. ASSUME NEW j \in Jobs, SetPriority(j) \/ Log(j) \/ RemoveJob(j) PROVE RecordInv'
  BY <1>6, SetPriorityStep, LogStep, RemoveStep
<1>7. ASSUME NEW j \in Jobs, NEW prio \in BOOLEAN, NEW ps \in PhaseLists, Create(j, prio, ps)
      PROVE  RecordInv'
  BY <1>7, CreateStep
<1>8. ASSUME NEW j \in Jobs, NEW s \in Statuses, SetStatus(j, s) PROVE RecordInv'
  BY <1>8, SetStatusStep
<1>9. ASSUME NEW j \in Jobs, NEW ps \in PhaseLists,
             SetPhaseResults(j, ps) \/ \E n \in 0..MaxResults : CrashInPhases(j, ps, n)
      PROVE  RecordInv'
  BY <1>9, SetPhaseResultsStep, CrashSteps
<1>10. ASSUME NEW j \in Jobs, NEW n \in 0..(Cap + MaxLines), CrashInLog(j, n) PROVE RecordInv'
  BY <1>10, CrashSteps
<1>11. CASE UNCHANGED recordVars
  <2>1. /\ pc' = pc /\ columns' = columns /\ row' = row /\ phaseRow' = phaseRow /\ logRow' = logRow
        /\ cache' = cache /\ file' = file /\ said' = said /\ fresh' = fresh /\ touched' = touched
    BY <1>11 DEF recordVars, table, books
  <2>2. RecordTypeOK'
    BY <2>1 DEF RecordInv, RecordTypeOK
  <2>3. Schema' /\ Silent' /\ PutAway'
    BY <2>1 DEF RecordInv, Schema, Silent, PutAway, HasRow
  <2>4. Mirrored'
    BY <2>1 DEF RecordInv, Mirrored, EndsWith, LinesKept, PhasesKept
  <2>5. MigratedComplete'
    BY <2>1 DEF RecordInv, MigratedComplete, HasRow, LinesOfFile, PhasesOfFile, CreatePhases, NoPhases
  <2> QED BY <2>2, <2>3, <2>4, <2>5 DEF RecordInv
<1> QED BY <1>1, <1>2, <1>3, <1>4, <1>5, <1>6, <1>7, <1>8, <1>9, <1>10, <1>11 DEF RecordNext

LEMMA RecordKeptOf == RecordInv => RecordKept
<1> SUFFICES ASSUME RecordInv PROVE RecordKept
  OBVIOUS
<1>1. ASSUME pc = "up", NEW j \in Jobs, cache[j] # NoJob,
             NEW l \in (said[j].before + 1)..said[j].lines, l > said[j].lines - Keep
      PROVE  \E i \in DOMAIN logRow[j] : logRow[j][i][2] = l
  <2>1. said[j].lines \in Nat /\ said[j].before \in Nat
    BY DEF RecordInv, RecordTypeOK
  <2>2. /\ said[j].lines - l \in 0..(said[j].lines - said[j].before - 1)
        /\ said[j].lines - l < Keep /\ said[j].lines - (said[j].lines - l) = l
    <3>1. /\ l \in Int /\ Keep \in Int /\ said[j].before + 1 <= l /\ l <= said[j].lines
          /\ l > said[j].lines - Keep
      BY <1>1, <2>1 DEF RecordAssumption
    <3> QED BY ONLY <2>1, <3>1
  <2>3. LinesKept(j)
    BY <1>1 DEF RecordInv, Mirrored
  <2> QED BY <2>2, <2>3 DEF LinesKept
<1>2. RowsKept
  <2>1. pc = "up" => Added \subseteq columns
    BY DEF RecordInv, Schema
  <2> QED BY <1>1, <2>1 DEF RowsKept, RecordInv, Mirrored, PhasesKept
<1> QED BY <1>2 DEF RecordKept, RecordInv

\* Whatever call ran last and at whichever statement the process ended before,
\* the cache of the store has the jobs at work and says of them what their
\* rows say, the log and the phases that this process has written are in the
\* tables, as far as they keep them, and the jobs of JSON files of older versions
\* came over with all their lines and phases, before the files were put away.
THEOREM TablesKeepWhatWasSaid == RecordSpec => []RecordKept
<1>1. RecordInit => RecordInv
  BY RecordInitInv
<1>2. RecordInv /\ [RecordNext]_recordVars => RecordInv'
  BY RecordStep
<1>3. RecordInv => RecordKept
  BY RecordKeptOf
<1> QED BY <1>1, <1>2, <1>3, PTL DEF RecordSpec
=============================================================================
