------------------------------ MODULE JobStore ------------------------------
(***************************************************************************)
(* src/queue/job-store.ts over src/store/database.ts: the persistent table *)
(* of jobs.  Every call is synchronous, so each operator below is atomic.  *)
(* The in-memory cache of queued and running jobs always agrees with the   *)
(* table (update writes both), so it is not a variable of its own.         *)
(*                                                                         *)
(* A job is a number; jobs are created in increasing order, so the order   *)
(* of numbers is the order of created_at.  The operators on the status     *)
(* column take the column as a parameter `st', because one handler may     *)
(* write it several times.                                                 *)
(***************************************************************************)
EXTENDS Projects, FiniteSetsExt

CONSTANTS MaxJobs,          (* bound: jobs created in a behaviour          *)
          StoreCap,         (* rows kept by the prune of create()          *)
          BootCap           (* rows kept by the prune at start             *)

ASSUME StoreAssumption == /\ MaxJobs \in Nat /\ StoreCap \in Nat /\ BootCap \in Nat
                          /\ Issues # {}

Jobs == 1..MaxJobs

ActiveStatus == {"queued", "running"}
CompletedStatus == {"success", "failure", "cancelled"}
RowStatus == ActiveStatus \cup CompletedStatus \cup {"archived"}
Status == RowStatus \cup {"none", "deleted"}

Priorities == 0..2          (* high, normal, low                           *)
Normal == 1

\* What a row keeps from create() and never changes.
JobInfo == [issue: Issues, deps: SUBSET Issues, isRetry: BOOLEAN]

VARIABLES created,          (* number of jobs created so far               *)
          info,             (* the immutable columns                       *)
          status,           (* "none": not created; "deleted": row removed *)
          published,        (* jobs with prUrl or a "PR: https://" log     *)
          priority          (* the cached priority                         *)

storeVars == <<created, info, status, published, priority>>

StoreTypeOK == /\ created \in 0..MaxJobs
               /\ info \in [Jobs -> JobInfo]
               /\ status \in [Jobs -> Status]
               /\ published \subseteq Jobs
               /\ priority \in [Jobs -> Priorities]

StoreInit ==
  /\ created = 0
  /\ info = [j \in Jobs |-> [issue |-> CHOOSE i \in Issues : TRUE,
                             deps |-> {}, isRetry |-> FALSE]]
  /\ status = [j \in Jobs |-> "none"]
  /\ published = {}
  /\ priority = [j \in Jobs |-> Normal]

IssueOf(j) == info[j].issue
RepoOfJob(j) == RepoOf[IssueOf(j)]
HasRow(st, j) == st[j] \in RowStatus

-----------------------------------------------------------------------------
\* update(id, {status}): a no-op when the row is gone.
Put(st, j, s) == IF HasRow(st, j) THEN [st EXCEPT ![j] = s] ELSE st

\* archive(id) of every job of a set of at most one.
ArchiveAll(st, S) == [j \in Jobs |-> IF j \in S /\ HasRow(st, j)
                                     THEN "archived" ELSE st[j]]

\* findAnyByIssue: a queued or running job if there is one, else the newest
\* row that is not archived; a set of at most one job.
FindAny(st, i) ==
  LET rows == {j \in Jobs : IssueOf(j) = i /\ st[j] \in ActiveStatus \cup CompletedStatus}
      active == {j \in rows : st[j] \in ActiveStatus}
  IN  IF active # {} THEN active ELSE {j \in rows : \A k \in rows : k <= j}

\* findCompletedByIssue(issue) is defined.
HasSuccess(st, i) == \E j \in Jobs : IssueOf(j) = i /\ st[j] = "success"

\* prune(cap): the columns that may result.  Only completed rows go, as many
\* as the excess asks for; which ones are least recently updated is left open.
Pruned(st, cap) ==
  LET rows == {j \in Jobs : HasRow(st, j)}
      done == {j \in Jobs : st[j] \in CompletedStatus}
      excess == Cardinality(rows) - cap
  IN  IF Cardinality(rows) <= cap THEN {st}
      ELSE {[j \in Jobs |-> IF j \in gone THEN "deleted" ELSE st[j]] :
              gone \in kSubset(Min({excess, Cardinality(done)}), done)}

\* create(): a queued row with the next number, then the automatic prune.
Create(st, i, ds, retry) ==
  /\ created < MaxJobs
  /\ created' = created + 1
  /\ info' = [info EXCEPT ![created + 1] =
                [issue |-> i, deps |-> ds, isRetry |-> retry]]
  /\ status' \in Pruned([st EXCEPT ![created + 1] = "queued"], StoreCap)
  /\ UNCHANGED <<published, priority>>
=============================================================================
