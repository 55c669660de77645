------------------------------ MODULE JobRecord ------------------------------
(***************************************************************************)
(* What the store keeps of a job besides its status column (JobStore): the *)
(* cached object and the rows of aqm.db it is written to and read from,    *)
(* the growth of the schema, and the JSON files of older versions          *)
(* (src/queue/job-store.ts, store/database.ts, queue/json-migrator.ts,     *)
(* queue/job-logger.ts).  The process may end between any two statements   *)
(* of a call.                                                              *)
(***************************************************************************)
EXTENDS Integers, FiniteSets, SequencesExt

CONSTANTS
  Jobs,
  Content,      \* of the jobs that have a JSON file: [status, lines, phases, fault]
  Cap, Keep,    \* log rows of a job at which it is cut, and to which
  MaxLines, MaxResults, MaxCrashes,   \* bounds
  OldColumns    \* those that the database was made with

VARIABLES
  pc,       \* "down", "opening", "migrating", "moving", "loading" or "up"
  columns,  \* columns of the tables
  row,      \* jobs: [Jobs -> [status, trigger, diagnosis]] or NoRow
  phaseRow, \* phases: [Jobs -> function from indices to who wrote them]
  logRow,   \* logs: [Jobs -> sequence of <<call, line>>]
  cache,    \* [Jobs -> [status, trigger, diagnosis, priority, logs, phases]] or NoJob
  file,     \* [Jobs -> "none", "jobs" or "migrated"]
  said,     \* lines of each job so far, and those before this process
  fresh,    \* jobs whose phases this process has set
  touched,  \* jobs written to since they came out of their file
  crashes

table == <<row, phaseRow, logRow>>
books == <<said, fresh, touched>>
recordVars == <<pc, columns, table, cache, file, books, crashes>>

NoRow == [status |-> "none", trigger |-> FALSE, diagnosis |-> FALSE]
NoJob == [status |-> "none", trigger |-> FALSE, diagnosis |-> FALSE, priority |-> FALSE,
          logs |-> <<>>, phases |-> <<>>]
NoPhases == [i \in {} |-> 0]
ActiveStatuses == {"queued", "running"}
Statuses == ActiveStatuses \cup {"success", "failure", "cancelled", "archived"}
JobFiles == DOMAIN Content

ASSUME RecordAssumption ==
  /\ Cap \in Nat /\ Keep \in Nat /\ Keep <= Cap /\ MaxLines \in Nat /\ MaxResults \in Nat
  /\ JobFiles \subseteq Jobs
  /\ \A f \in JobFiles : /\ Content[f].status \in Statuses
                         /\ Content[f].lines \in Seq(Nat) /\ Content[f].phases \in Seq(STRING)
                         /\ Content[f].fault \in {"none", "unreadable", "refused"}

\* The columns that migrateSchema adds to a database that lacks them.
Added == {"priority", "started_at", "completed_at", "cache_hit_ratio", "cost_breakdown",
          "trigger_reason", "diagnosis", "is_read", "repo", "issue_number"}

\* initSchema, which leaves a table alone that is there.
RecordInit ==
  /\ pc = "down" /\ columns = OldColumns
  /\ row = [j \in Jobs |-> NoRow] /\ phaseRow = [j \in Jobs |-> NoPhases]
  /\ logRow = [j \in Jobs |-> <<>>]
  /\ cache = [j \in Jobs |-> NoJob]
  /\ file = [j \in Jobs |-> IF j \in JobFiles THEN "jobs" ELSE "none"]
  /\ said = [j \in Jobs |-> [lines |-> 0, before |-> 0]]
  /\ fresh = {} /\ touched = {} /\ crashes = 0

-----------------------------------------------------------------------------
(* Rows.                                                                   *)

\* Mutant: a log that is cut loses its newest rows.
CreateLogOldest(rows, r) ==
  Append(IF Len(rows) >= Cap THEN SubSeq(rows, 1, Keep) ELSE rows, r)

CreateLog(rows, r) ==
  Append(IF Len(rows) >= Cap THEN SubSeq(rows, Len(rows) - Keep + 1, Len(rows)) ELSE rows, r)

\* The rows when the first n lines of a call have been written.
Rewritten(rows, call, lines, n) ==
  LET written[i \in 0..n] == IF i = 0 THEN rows ELSE CreateLog(written[i - 1], <<call, lines[i]>>)
  IN  written[n]

\* createPhase, which replaces the row of its index, for the first n of a list.
CreatePhases(rows, phases, n) ==
  [i \in DOMAIN rows \cup 1..n |-> IF i \in 1..n THEN phases[i] ELSE rows[i]]

\* getLogsByJob: the calls from the last to the first, the lines of one in
\* their order.
PlaceOf(rows, p) ==
  Cardinality({q \in DOMAIN rows : rows[q][1] > rows[p][1] \/ (rows[q][1] = rows[p][1] /\ q <= p)})

GetLogsByJob(j) ==
  [i \in DOMAIN logRow[j] |-> logRow[j][CHOOSE p \in DOMAIN logRow[j] : PlaceOf(logRow[j], p) = i][2]]

\* getPhasesByJob: rows in the order of their indices; a gap closes.
GetPhasesByJob(j) ==
  LET index == SetToSortSeq(DOMAIN phaseRow[j], <)
  IN  [i \in DOMAIN index |-> phaseRow[j][index[i]]]

\* dbJobToJob, which knows no priority.
DbJobToJob(j) ==
  [status |-> row[j].status, trigger |-> row[j].trigger,
   diagnosis |-> row[j].diagnosis /\ row[j].status = "failure", priority |-> FALSE,
   logs |-> GetLogsByJob(j), phases |-> GetPhasesByJob(j)]

\* get.
Get(j) == IF cache[j] # NoJob THEN cache[j] ELSE DbJobToJob(j)

\* jobToDbJob, jobToParams.
JobToDbJob(job) == [status |-> job.status, trigger |-> job.trigger, diagnosis |-> job.diagnosis]

UpdateCache(j, job) == cache' = [cache EXCEPT ![j] = IF job.status \in ActiveStatuses THEN job ELSE NoJob]

-----------------------------------------------------------------------------
(* Calls.                                                                  *)

Up == pc = "up" /\ UNCHANGED <<pc, columns, file, crashes>>
HasRow(j) == row[j] # NoRow
Touch(j) == touched' = touched \cup {j}

\* create, with the phases a retry takes over.
Create(j, prio, phases) ==
  /\ Up /\ ~HasRow(j) /\ file[j] = "none" /\ said[j].lines = 0
  /\ LET job == [NoJob EXCEPT !.status = "queued", !.trigger = TRUE, !.priority = prio,
                              !.phases = phases]
     IN /\ row' = [row EXCEPT ![j] = JobToDbJob(job)]
        /\ cache' = [cache EXCEPT ![j] = job]
  /\ phaseRow' = [phaseRow EXCEPT ![j] = CreatePhases(NoPhases, phases, Len(phases))]
  /\ fresh' = fresh \cup {j} /\ Touch(j)
  /\ UNCHANGED <<logRow, said>>

\* update: the object of the new status has no trigger, and a diagnosis if it
\* is a failure.
Updated(job, status) ==
  [job EXCEPT !.status = status, !.trigger = FALSE, !.diagnosis = @ /\ status = "failure"]

\* The row and the cache, at the end of every update.
Writes(j, job) == row' = [row EXCEPT ![j] = JobToDbJob(job)] /\ UpdateCache(j, job)

\* A change of status, at the end with the diagnosis of a failure; archive.
SetStatus(j, s) ==
  /\ Up /\ HasRow(j)
  /\ \/ row[j].status = "queued" /\ s \in {"running", "cancelled"}
     \/ row[j].status = "running" /\ s \in {"queued", "success", "failure", "cancelled"}
     \/ row[j].status # "archived" /\ s = "archived"
  /\ \E d \in BOOLEAN : Writes(j, Updated([Get(j) EXCEPT !.diagnosis = @ \/ d], s))
  /\ Touch(j) /\ UNCHANGED <<phaseRow, logRow, said, fresh>>

\* updatePriority of a queued job: no row has it.
SetPriority(j) ==
  /\ Up /\ row[j].status = "queued"
  /\ Writes(j, Updated([Get(j) EXCEPT !.priority = TRUE], "queued"))
  /\ Touch(j) /\ UNCHANGED <<phaseRow, logRow, said, fresh>>

\* JobLogger.log: the whole log is written again.
Logged(j) == Append(Get(j).logs, said[j].lines + 1)

Log(j) ==
  /\ Up /\ row[j].status = "running" /\ said[j].lines < MaxLines
  /\ logRow' = [logRow EXCEPT ![j] = Rewritten(@, said[j].lines + 1, Logged(j), Len(Logged(j)))]
  /\ Writes(j, Updated([Get(j) EXCEPT !.logs = Logged(j)], "running"))
  /\ said' = [said EXCEPT ![j].lines = @ + 1]
  /\ Touch(j) /\ UNCHANGED <<phaseRow, fresh>>

\* JobLogger.setPhaseResults: rows beyond the new list stay.
SetPhaseResults(j, phases) ==
  /\ Up /\ row[j].status = "running"
  /\ phaseRow' = [phaseRow EXCEPT ![j] = CreatePhases(@, phases, Len(phases))]
  /\ Writes(j, Updated([Get(j) EXCEPT !.phases = phases], "running"))
  /\ fresh' = fresh \cup {j} /\ Touch(j) /\ UNCHANGED <<logRow, said>>

\* remove, the rows of phases and logs with the row of the job.
RemoveJob(j) ==
  /\ Up /\ HasRow(j) /\ row[j].status # "running"
  /\ row' = [row EXCEPT ![j] = NoRow] /\ phaseRow' = [phaseRow EXCEPT ![j] = NoPhases]
  /\ logRow' = [logRow EXCEPT ![j] = <<>>] /\ cache' = [cache EXCEPT ![j] = NoJob]
  /\ fresh' = fresh \ {j} /\ touched' = touched \ {j}
  /\ said' = [said EXCEPT ![j] = [lines |-> MaxLines, before |-> MaxLines]]

-----------------------------------------------------------------------------
(* Start: the constructors of AQDatabase and JobStore, in one go.          *)

Goes(from, to) == pc = from /\ pc' = to
Idle == UNCHANGED <<books, crashes>>

\* migrateSchema, a column at a time.
MigrateSchema ==
  /\ pc = "opening"
  /\ \/ \E c \in Added \ columns :
          /\ \A d \in Added \ columns : d = "priority" => c = d
          /\ columns' = columns \cup {c} /\ UNCHANGED pc
     \/ Added \subseteq columns /\ pc' = "migrating" /\ UNCHANGED columns
  /\ UNCHANGED <<table, cache, file>> /\ Idle

Open == Goes("down", "opening") /\ UNCHANGED <<columns, table, cache, file>> /\ Idle

\* migrateJobFile: what a file puts into the tables.  One with a phase that
\* the table refuses keeps what was written before it.
Parsed == {f \in JobFiles : file[f] = "jobs" /\ Content[f].fault # "unreadable"}
Comes == {f \in Parsed : ~HasRow(f)}

PhasesOfFile(f) == IF Content[f].fault = "refused" THEN <<>> ELSE Content[f].phases
LinesOfFile(f) ==
  IF Content[f].fault = "refused" THEN <<>> ELSE [i \in DOMAIN Content[f].lines |-> <<0, i>>]

\* migrate, up to the end of its transaction.
Migrate ==
  /\ Goes("migrating", IF Comes = {} THEN "loading" ELSE "moving")
  /\ row' = [j \in Jobs |-> IF j \in Comes THEN [NoRow EXCEPT !.status = Content[j].status]
                            ELSE row[j]]
  /\ phaseRow' = [j \in Jobs |->
       IF j \in Comes THEN CreatePhases(NoPhases, PhasesOfFile(j), Len(PhasesOfFile(j)))
       ELSE phaseRow[j]]
  /\ logRow' = [j \in Jobs |-> IF j \in Comes THEN LinesOfFile(j) ELSE logRow[j]]
  /\ touched' = touched \ Comes
  /\ UNCHANGED <<columns, cache, file, said, fresh, crashes>>

\* moveJsonFiles: every file that was found, also one that failed.
MoveJsonFiles ==
  /\ pc = "moving"
  /\ \/ \E f \in JobFiles : file[f] = "jobs" /\ file' = [file EXCEPT ![f] = "migrated"] /\ UNCHANGED pc
     \/ (\A f \in JobFiles : file[f] # "jobs") /\ pc' = "loading" /\ UNCHANGED file
  /\ UNCHANGED <<columns, table, cache>> /\ Idle

\* loadActiveJobsToCache.
LoadActiveJobsToCache ==
  /\ Goes("loading", "up")
  /\ cache' = [j \in Jobs |-> IF row[j].status \in ActiveStatuses THEN DbJobToJob(j) ELSE NoJob]
  /\ UNCHANGED <<columns, table, file>> /\ Idle

-----------------------------------------------------------------------------
(* The end of the process.                                                 *)

\* Mutant: the files are migrated without a transaction.
RolledBackNot == [j \in Jobs |-> IF j \in Comes THEN [NoRow EXCEPT !.status = Content[j].status]
                                 ELSE row[j]]

\* The jobs that an unfinished transaction leaves.
RolledBack == row

Down == /\ pc' = "down" /\ crashes < MaxCrashes /\ crashes' = crashes + 1
        /\ cache' = [j \in Jobs |-> NoJob] /\ fresh' = {}
        /\ said' = [j \in Jobs |-> [said[j] EXCEPT !.before = said[j].lines]]
        /\ UNCHANGED <<columns, file>>

\* Between two calls, or two steps of the start.
Crash == /\ pc # "down" /\ Down
         /\ row' = IF pc = "migrating" THEN RolledBack ELSE row
         /\ UNCHANGED <<phaseRow, logRow, touched>>

\* Within setPhaseResults: some phases are written, and the next is deleted.
CrashInPhases(j, phases, n) ==
  /\ pc = "up" /\ row[j].status = "running" /\ n < Len(phases) /\ Down
  /\ phaseRow' = [phaseRow EXCEPT ![j] =
       LET rows == CreatePhases(@, phases, n) IN [i \in DOMAIN rows \ {n + 1} |-> rows[i]]]
  /\ Touch(j) /\ UNCHANGED <<row, logRow>>

\* Within log: some of the lines are written.
CrashInLog(j, n) ==
  /\ pc = "up" /\ row[j].status = "running" /\ said[j].lines < MaxLines
  /\ n < Len(Logged(j)) /\ Down
  /\ logRow' = [logRow EXCEPT ![j] = Rewritten(@, said[j].lines + 1, Logged(j), n)]
  /\ Touch(j) /\ UNCHANGED <<row, phaseRow>>

-----------------------------------------------------------------------------
\* Lists of phases: of the first plan, or of a second one.
PhaseLists == UNION {[1..n -> {p}] : n \in 0..MaxResults, p \in {"first", "second"}}

RecordNext ==
  \/ Open \/ MigrateSchema \/ Migrate \/ MoveJsonFiles \/ LoadActiveJobsToCache \/ Crash
  \/ \E j \in Jobs :
       \/ SetPriority(j) \/ Log(j) \/ RemoveJob(j)
       \/ \E prio \in BOOLEAN, ps \in PhaseLists : Create(j, prio, ps)
       \/ \E s \in Statuses : SetStatus(j, s)
       \/ \E ps \in PhaseLists \ {<<>>} : \/ SetPhaseResults(j, ps)
                                          \/ \E n \in 0..MaxResults : CrashInPhases(j, ps, n)
       \/ \E n \in 0..(Cap + MaxLines) : CrashInLog(j, n)

RecordSpec == RecordInit /\ [][RecordNext]_recordVars

-----------------------------------------------------------------------------
\* Whatever call ran last and wherever the process ended before: the cache has
\* the jobs at work, and says of them what their rows say; the lines that this
\* process has logged are in the table, up to as many as it keeps; so are
\* the phases it has set.
RowsKept ==
  pc = "up" =>
    /\ Added \subseteq columns
    /\ \A j \in Jobs :
         /\ (cache[j] # NoJob) = (row[j].status \in ActiveStatuses)
         /\ cache[j] # NoJob =>
              /\ cache[j].status = row[j].status
              /\ \A l \in (said[j].before + 1)..said[j].lines :
                   l > said[j].lines - Keep => \E i \in DOMAIN logRow[j] : logRow[j][i][2] = l
              /\ j \in fresh => \A i \in DOMAIN cache[j].phases :
                                  i \in DOMAIN phaseRow[j] /\ phaseRow[j][i] = cache[j].phases[i]

\* A job that came out of a file has all lines and phases of it (usage, priority
\* and the times of a phase are not among what migrateJobFile takes over), and a
\* file is put away only after its job has come, unless the file is at fault.
MigratedComplete ==
  \A f \in JobFiles : Content[f].fault = "none" =>
    /\ HasRow(f) /\ f \notin touched =>
         /\ logRow[f] = LinesOfFile(f)
         /\ phaseRow[f] = CreatePhases(NoPhases, PhasesOfFile(f), Len(PhasesOfFile(f)))
    /\ file[f] = "migrated" => HasRow(f) \/ said[f].before = MaxLines

\* What the tables hold is what was said to the store, in this process and in
\* those before it, and in the files of older versions.
RecordKept == RowsKept /\ MigratedComplete
=============================================================================
