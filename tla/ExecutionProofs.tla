--------------------------- MODULE ExecutionProofs ---------------------------
(***************************************************************************)
(* Calls of Claude keep track of their children (ClaudeRunner), a git task *)
(* keeps what it reports as done (Tasks), pull requests merge themselves   *)
(* in the order of their dependencies (PullRequests), a review that passes *)
(* has read what is published (Review), and the repository lock has one    *)
(* owner and a queue in order (RepoLock), for any number of tasks, issues, *)
(* failures, calls and processes, any diffs, rounds and budget of tokens.  *)
(***************************************************************************)
EXTENDS RepoLock, Review, ClaudeRunner, Tasks, PullRequests, SequenceLemmas

-----------------------------------------------------------------------------
(* Claude's children.                                                      *)

ChildType ==
  [owner : Tasks, alive : BOOLEAN, stubborn : BOOLEAN, killed : BOOLEAN,
   timer : {"timeout", "kill", "none"}, retryable : BOOLEAN]

ClaudeTypeOK ==
  /\ child \in Seq(ChildType) /\ active \subseteq Pids
  /\ call \in [Tasks -> {"none", "child", "backoff", "done"}]
  /\ status \in [Tasks -> {"PENDING", "RUNNING"} \cup Final]

\* Who is in activeProcesses has a call that waits for it, and nobody else.
Waited ==
  /\ \A p \in active : call[child[p].owner] = "child"
  /\ \A p, q \in active : child[p].owner = child[q].owner => p = q
Listed == \A p \in Pids : child[p].alive => p \in active
Unstarted == \A t \in Tasks : status[t] = "PENDING" => call[t] = "none"

ChildInv == ClaudeTypeOK /\ Waited /\ Listed /\ Unstarted

\* Most steps change no more of the children than how they end.
Fades ==
  /\ child' \in Seq(ChildType) /\ DOMAIN child' = DOMAIN child
  /\ \A p \in Pids : child'[p].owner = child[p].owner /\ (child'[p].alive => child[p].alive)
  /\ active' = active /\ call' = call
  /\ status' \in [Tasks -> {"PENDING", "RUNNING"} \cup Final]
  /\ \A t \in Tasks : status'[t] = "PENDING" => status[t] = "PENDING"

LEMMA FadesLemma == ChildInv /\ Fades => ChildInv'
  BY DEF ChildInv, Fades, ClaudeTypeOK, Waited, Listed, Unstarted, Pids

\* A child some of whose fields change is what it was otherwise.
LEMMA DeadLemma ==
  ASSUME NEW c \in ChildType
  PROVE  [c EXCEPT !.alive = FALSE] \in ChildType
         /\ [c EXCEPT !.alive = FALSE].owner = c.owner
         /\ ~[c EXCEPT !.alive = FALSE].alive
  BY DEF ChildType

LEMMA KilledLemma ==
  ASSUME NEW c \in ChildType
  PROVE  [c EXCEPT !.killed = TRUE] \in ChildType
         /\ [c EXCEPT !.killed = TRUE].owner = c.owner
         /\ [c EXCEPT !.killed = TRUE].alive = c.alive
  BY DEF ChildType

LEMMA RetryableLemma ==
  ASSUME NEW c \in ChildType
  PROVE  [c EXCEPT !.retryable = TRUE] \in ChildType
         /\ [c EXCEPT !.retryable = TRUE].owner = c.owner
         /\ [c EXCEPT !.retryable = TRUE].alive = c.alive
  BY DEF ChildType

LEMMA TimerLemma ==
  ASSUME NEW c \in ChildType, NEW b \in BOOLEAN
  PROVE  /\ [c EXCEPT !.timer = "kill"] \in ChildType
         /\ [c EXCEPT !.timer = "kill"].owner = c.owner
         /\ [c EXCEPT !.timer = "kill"].alive = c.alive
         /\ [c EXCEPT !.timer = "none", !.alive = b] \in ChildType
         /\ [c EXCEPT !.timer = "none", !.alive = b].owner = c.owner
         /\ [c EXCEPT !.timer = "none", !.alive = b].alive = b
  BY DEF ChildType

\* One child fades, the others stay.
LEMMA OneFades ==
  ASSUME ClaudeTypeOK, NEW p \in Pids, NEW c \in ChildType,
         child' = [child EXCEPT ![p] = c],
         c.owner = child[p].owner, c.alive => child[p].alive
  PROVE  /\ child' \in Seq(ChildType) /\ DOMAIN child' = DOMAIN child
         /\ \A q \in Pids : child'[q].owner = child[q].owner /\ (child'[q].alive => child[q].alive)
  BY DEF ClaudeTypeOK, Pids

\* A child that is told to end is what it was otherwise.
LEMMA TermLemma ==
  ASSUME ClaudeTypeOK, NEW p \in Pids
  PROVE  /\ RunnerTerm(p) \in ChildType
         /\ RunnerTerm(p).owner = child[p].owner
         /\ RunnerTerm(p).alive = child[p].alive
<1>1. child[p] \in ChildType
  BY DEF ClaudeTypeOK, Pids
<1> QED BY <1>1, KilledLemma DEF RunnerTerm

\* The steps that only signal, end or hear a child, or are about its task.
LEMMA FadingSteps ==
  ASSUME ChildInv, UNCHANGED <<active, call>>,
         \/ \E t \in Tasks : Kill(t) \/ KillEnds(t) \/ ReadStatus(t)
         \/ \E p \in Pids : Speaks(p) \/ Complains(p) \/ Exits(p) \/ Timeout(p) \/ KillTimer(p)
         \/ KillAllActiveProcesses \/ KillAllEnds
  PROVE  Fades
<1> USE DEF ChildInv, ClaudeTypeOK, Pids
<1>1. ASSUME NEW t \in Tasks, Kill(t) \/ ReadStatus(t) PROVE Fades
  BY <1>1 DEF Kill, ReadStatus, Killed, Fades, Final
<1>2. ASSUME NEW t \in Tasks, KillEnds(t) PROVE Fades
  <2>1. CASE processId[t] \in active
    <3>1. processId[t] \in Pids /\ child[processId[t]] \in ChildType
      BY <2>1
    <3>2. child' = [child EXCEPT ![processId[t]] = [child[processId[t]] EXCEPT !.alive = FALSE]]
      BY <1>2, <2>1, <3>1 DEF KillEnds, Dies
    <3> DEFINE c == [child[processId[t]] EXCEPT !.alive = FALSE]
    <3>3. c \in ChildType /\ c.owner = child[processId[t]].owner /\ ~c.alive
      BY <3>1, DeadLemma
    <3> HIDE DEF c
    <3>4. /\ child' \in Seq(ChildType) /\ DOMAIN child' = DOMAIN child
          /\ \A q \in Pids : child'[q].owner = child[q].owner /\ (child'[q].alive => child[q].alive)
      BY <3>1, <3>2, <3>3, OneFades DEF c
    <3> QED BY <1>2, <3>4 DEF KillEnds, Killed, Fades, Final
  <2>2. CASE processId[t] \notin active
    BY <1>2, <2>2 DEF KillEnds, Killed, Fades, Final
  <2> QED BY <2>1, <2>2
<1>3. ASSUME NEW p \in Pids, Speaks(p) PROVE Fades
  BY <1>3 DEF Speaks, Fades
<1>4. ASSUME NEW p \in Pids, Complains(p) \/ Exits(p) PROVE Fades
  <2>1. child[p] \in ChildType
    OBVIOUS
  <2>2. \/ child' = [child EXCEPT ![p] = [child[p] EXCEPT !.retryable = TRUE]]
        \/ child' = [child EXCEPT ![p] = [child[p] EXCEPT !.alive = FALSE]]
    BY <1>4 DEF Complains, Exits, Dies
  <2>3. PICK c \in ChildType : /\ child' = [child EXCEPT ![p] = c]
                              /\ c.owner = child[p].owner /\ (c.alive => child[p].alive)
    BY <2>1, <2>2, DeadLemma, RetryableLemma
  <2> QED BY <1>4, <2>3, OneFades DEF Complains, Exits, Fades, taskVars
<1>5. ASSUME NEW p \in Pids, Timeout(p) PROVE Fades
  <2>1. child' = [child EXCEPT ![p] = [RunnerTerm(p) EXCEPT !.timer = "kill"]]
    BY <1>5 DEF Timeout
  <2>2. /\ [RunnerTerm(p) EXCEPT !.timer = "kill"] \in ChildType
        /\ [RunnerTerm(p) EXCEPT !.timer = "kill"].owner = child[p].owner
        /\ [RunnerTerm(p) EXCEPT !.timer = "kill"].alive = child[p].alive
    BY TermLemma, TimerLemma
  <2> QED BY <1>5, <2>1, <2>2 DEF Timeout, Fades, taskVars
<1>6. ASSUME NEW p \in Pids, KillTimer(p) PROVE Fades
  <2> DEFINE b == child[p].alive /\ child[p].killed
             c == [child[p] EXCEPT !.timer = "none", !.alive = b]
  <2>1. child[p] \in ChildType
    OBVIOUS
  <2>2. child' = [child EXCEPT ![p] = c]
    BY <1>6, <2>1 DEF KillTimer
  <2>3. b \in BOOLEAN
    BY <2>1 DEF ChildType
  <2> HIDE DEF b
  <2>4. c \in ChildType /\ c.owner = child[p].owner /\ c.alive = b
    BY <2>1, <2>3, TimerLemma
  <2>5. c.alive => child[p].alive
    BY <2>4 DEF b
  <2> HIDE DEF c
  <2> QED BY <1>6, <2>2, <2>4, <2>5, OneFades DEF KillTimer, Fades, taskVars
<1>7. CASE KillAllActiveProcesses
  <2>1. child' = [p \in Pids |-> IF p \in active THEN RunnerTerm(p) ELSE child[p]]
    BY <1>7 DEF KillAllActiveProcesses
  <2>2. child' \in Seq(ChildType) /\ DOMAIN child' = DOMAIN child
    BY <2>1, TermLemma
  <2> QED BY <1>7, <2>1, <2>2, TermLemma DEF KillAllActiveProcesses, Fades, taskVars
<1>8. CASE KillAllEnds
  <2>1. child' = [p \in Pids |-> IF p \in stopping.pids \cap active /\ ~child[p].killed
                                 THEN [child[p] EXCEPT !.alive = FALSE] ELSE child[p]]
    BY <1>8 DEF KillAllEnds
  <2>2. child' \in Seq(ChildType) /\ DOMAIN child' = DOMAIN child
    BY <2>1, DeadLemma
  <2>3. \A p \in Pids : child'[p].owner = child[p].owner /\ (child'[p].alive => child[p].alive)
    BY <2>1, DeadLemma
  <2> QED BY <1>8, <2>2, <2>3 DEF KillAllEnds, Fades, taskVars
<1> QED BY <1>1, <1>2, <1>3, <1>4, <1>5, <1>6, <1>7, <1>8

\* A call gets a child only when it waits for none.
LEMMA SpawnLemma ==
  ASSUME ChildInv, NEW t \in Tasks, Spawn(t), call[t] \in {"none", "backoff"},
         status' \in [Tasks -> {"PENDING", "RUNNING"} \cup Final],
         \A u \in Tasks : status'[u] = "PENDING" => status[u] = "PENDING" /\ u # t
  PROVE  ChildInv'
<1> DEFINE n == Len(child) + 1
<1>1. PICK s \in BOOLEAN : child' = Append(child, NewChild(t, s))
  BY DEF Spawn, Ignores
<1>2. NewChild(t, s) \in ChildType /\ NewChild(t, s).owner = t
  BY DEF NewChild, ChildType
<1>3. /\ child' \in Seq(ChildType) /\ DOMAIN child' = DOMAIN child \cup {n}
      /\ \A p \in DOMAIN child : child'[p] = child[p]
      /\ child'[n].owner = t /\ n \notin DOMAIN child
  BY <1>1, <1>2 DEF ChildInv, ClaudeTypeOK
<1>4. active' = active \cup {n} /\ call' = [call EXCEPT ![t] = "child"]
  BY DEF Spawn
<1>5. \A p \in active : p \in DOMAIN child /\ child[p].owner # t
  BY DEF ChildInv, ClaudeTypeOK, Waited, Pids
<1> HIDE DEF n
<1>6. ClaudeTypeOK'
  BY <1>3, <1>4 DEF ChildInv, ClaudeTypeOK, Pids
<1>7. Waited'
  <2>1. \A p \in active : child'[p] = child[p] /\ child[p].owner \in Tasks
    <3>1. \A p \in active : child[p] \in ChildType
      BY <1>5 DEF ChildInv, ClaudeTypeOK
    <3> QED BY <1>3, <1>5, <3>1 DEF ChildType
  <2> QED BY <1>3, <1>4, <1>5, <2>1 DEF ChildInv, ClaudeTypeOK, Waited
<1>8. Listed'
  BY <1>3, <1>4 DEF ChildInv, Listed, Pids
<1>9. Unstarted'
  BY <1>4 DEF ChildInv, ClaudeTypeOK, Unstarted
<1> QED BY <1>6, <1>7, <1>8, <1>9 DEF ChildInv

\* A child that has closed was the only one of its call.
LEMMA CloseLemma ==
  ASSUME ChildInv, NEW p \in Pids, Close(p) PROVE ChildInv'
<1> DEFINE t == child[p].owner
           c == [NewChild(t, FALSE) EXCEPT !.alive = FALSE]
<1>1. /\ t \in Tasks /\ p \in active
      /\ active' = active \ {p} /\ child' = [child EXCEPT ![p] = c]
  <2>1. child[p] \in ChildType
    BY DEF ChildInv, ClaudeTypeOK, Pids
  <2>2. t \in Tasks
    BY <2>1 DEF ChildType
  <2> QED BY <2>2 DEF Close
<1>2. c \in ChildType /\ c.owner = t /\ ~c.alive
  BY <1>1 DEF NewChild, ChildType
<1>3. \/ call' = [call EXCEPT ![t] = "backoff"] /\ status' = status
      \/ \E s \in {"SUCCESS", "FAILED"} :
           call' = [call EXCEPT ![t] = "done"] /\ status' = [status EXCEPT ![t] = s]
  BY DEF Close, Settle
<1>4. call[t] = "child" /\ status[t] # "PENDING"
  BY <1>1 DEF ChildInv, ClaudeTypeOK, Waited, Unstarted
<1> HIDE DEF t, c
<1>5. /\ child' \in Seq(ChildType) /\ DOMAIN child' = DOMAIN child
      /\ \A q \in DOMAIN child : q # p => child'[q] = child[q]
      /\ child'[p] = c
  BY <1>1, <1>2 DEF ChildInv, ClaudeTypeOK, Pids
<1>6. /\ call' \in [Tasks -> {"none", "child", "backoff", "done"}]
      /\ \A u \in Tasks : u # t => call'[u] = call[u] /\ status'[u] = status[u]
      /\ status' \in [Tasks -> {"PENDING", "RUNNING"} \cup Final]
      /\ status'[t] # "PENDING"
  BY <1>1, <1>3, <1>4 DEF ChildInv, ClaudeTypeOK, Final
<1>7. \A q \in active' : /\ q \in DOMAIN child /\ q # p /\ q \in active
                         /\ child[q].owner \in Tasks /\ child[q].owner # t
  <2>1. \A q \in active : q \in DOMAIN child /\ child[q] \in ChildType
    BY DEF ChildInv, ClaudeTypeOK, Pids
  <2>2. \A q \in active : child[q].owner \in Tasks
    BY <2>1 DEF ChildType
  <2> QED BY <1>1, <2>1, <2>2 DEF ChildInv, Waited, t
<1>8. ClaudeTypeOK'
  BY <1>5, <1>6, <1>7 DEF ClaudeTypeOK, Pids
<1>9. Waited'
  BY <1>5, <1>6, <1>7 DEF ChildInv, Waited
<1>10. Listed'
  BY <1>1, <1>2, <1>5 DEF ChildInv, Listed, Pids
<1>11. Unstarted'
  BY <1>6 DEF ChildInv, Unstarted
<1> QED BY <1>8, <1>9, <1>10, <1>11 DEF ChildInv

LEMMA ChildInvHolds == ClaudeSpec => []ChildInv
<1>1. ClaudeInit => ChildInv
  BY DEF ClaudeInit, ChildInv, ClaudeTypeOK, Waited, Listed, Unstarted, Pids
<1>2. ChildInv /\ [ClaudeNext]_claudeVars => ChildInv'
  <2> SUFFICES ASSUME ChildInv, [ClaudeNext]_claudeVars PROVE ChildInv'
    OBVIOUS
  <2>1. ASSUME NEW t \in Tasks, Run(t) PROVE ChildInv'
    <3>1. status[t] = "PENDING" /\ call[t] = "none"
      BY <2>1 DEF Run, ChildInv, Unstarted
    <3>2. CASE Spawn(t) /\ status' = [status EXCEPT ![t] = "RUNNING"]
      BY <3>1, <3>2, SpawnLemma DEF ChildInv, ClaudeTypeOK
    <3>3. CASE Settle(t, "FAILED") /\ UNCHANGED <<child, active>>
      <4>1. \A p \in active : child[p].owner # t
        BY <3>1 DEF ChildInv, Waited
      <4> QED BY <3>1, <3>3, <4>1
              DEF Settle, ChildInv, ClaudeTypeOK, Waited, Listed, Unstarted, Pids, Final
    <3> QED BY <2>1, <3>2, <3>3 DEF Run
  <2>2. ASSUME NEW t \in Tasks, BackoffOver(t) PROVE ChildInv'
    <3>1. status' = status /\ status[t] # "PENDING" /\ call[t] = "backoff" /\ Spawn(t)
      BY <2>2 DEF BackoffOver, taskVars, ChildInv, Unstarted
    <3> QED BY <3>1, SpawnLemma DEF ChildInv, ClaudeTypeOK
  <2>3. ASSUME NEW p \in Pids, Close(p) PROVE ChildInv'
    BY <2>3, CloseLemma
  <2>4. ASSUME NEW t \in Tasks, Kill(t) \/ KillEnds(t) \/ ReadStatus(t) PROVE ChildInv'
    BY <2>4, FadingSteps, FadesLemma DEF Kill, KillEnds, ReadStatus
  <2>5. ASSUME NEW p \in Pids,
               Speaks(p) \/ Complains(p) \/ Exits(p) \/ Timeout(p) \/ KillTimer(p)
        PROVE  ChildInv'
    BY <2>5, FadingSteps, FadesLemma DEF Speaks, Complains, Exits, Timeout, KillTimer
  <2>6. CASE KillAllActiveProcesses \/ KillAllEnds
    BY <2>6, FadingSteps, FadesLemma DEF KillAllActiveProcesses, KillAllEnds
  <2>7. CASE UNCHANGED claudeVars
    BY <2>7 DEF claudeVars, taskVars, ChildInv, ClaudeTypeOK, Waited, Listed, Unstarted, Pids
  <2> QED BY <2>1, <2>2, <2>3, <2>4, <2>5, <2>6, <2>7 DEF ClaudeNext
<1> QED BY <1>1, <1>2, PTL DEF ClaudeSpec

\* For any number of calls, retries, timeouts and kills, in any order, and
\* with children that ignore signals: every child that lives is in
\* activeProcesses, and no call has two.
THEOREM NoChildIsLost == ClaudeSpec => []ChildrenTracked
<1>1. ChildInv => ChildrenTracked
  BY DEF ChildInv, Waited, Listed, ChildrenTracked
<1> QED BY <1>1, ChildInvHolds, PTL

-----------------------------------------------------------------------------
(* Git tasks.                                                              *)

\* The effect lasts as long as nothing names it, which it is named by the
\* success only; and what has succeeded is not killed.
TaskInv ==
  /\ effect \in BOOLEAN /\ saved \in BOOLEAN
  /\ kind \in Git => /\ ~stopped
                     /\ work = "landed" => effect
                     /\ saved => state = "SUCCESS"
                     /\ state = "SUCCESS" => effect /\ work = "over"

\* For every kind of operation and any order of kills, timeouts, failures and
\* rollbacks: what a git task reports as done is there.
THEOREM DoneIsThere == TaskSpec => []SuccessIsKept
<1>1. TaskInit => TaskInv
  BY DEF TaskInit, TaskInv
<1>2. TaskInv /\ [TaskNext]_workVars => TaskInv'
  <2> SUFFICES ASSUME TaskInv, [TaskNext]_workVars PROVE TaskInv'
    OBVIOUS
  <2> USE DEF TaskInv
  <2>1. AttemptRollback => effect' \in BOOLEAN /\ (~saved => effect' = effect)
    BY DEF AttemptRollback
  <2>2. CASE RunTask
    BY <2>2 DEF RunTask
  <2>3. CASE Lands
    BY <2>3 DEF Lands
  <2>4. CASE WorkReturns
    BY <2>4 DEF WorkReturns
  <2>5. CASE WorkFails
    BY <2>1, <2>5 DEF WorkFails
  <2>6. CASE KillTask
    BY <2>1, <2>6 DEF KillTask, Git
  <2>7. CASE CommandKilled
    BY <2>7 DEF CommandKilled
  <2>8. CASE Rollback
    BY <2>1, <2>8 DEF Rollback
  <2>9. CASE UNCHANGED workVars
    BY <2>9 DEF workVars
  <2> QED BY <2>2, <2>3, <2>4, <2>5, <2>6, <2>7, <2>8, <2>9 DEF TaskNext
<1>3. TaskInv => SuccessIsKept
  BY DEF TaskInv, SuccessIsKept
<1> QED BY <1>1, <1>2, <1>3, PTL DEF TaskSpec

-----------------------------------------------------------------------------
(* Pull requests.                                                          *)

PullType == [state : {"none", "open", "merged", "closed"}, draft : BOOLEAN, auto : BOOLEAN]

Unpublished == {"fetching", "rebasing", "pushing", "creating", "labelling"}

\* For each dependency of i a pull request that mentions it is merged, of which
\* there is no return.
MentionsMerged(i) ==
  \A d \in Deps[i] : \E p \in Issues : (p = d \/ <<p, d>> \in Mentions) /\ pull[p].state = "merged"
\* Or the check of the dependencies threw.
Clear(i) == i \in waived \/ MentionsMerged(i)
ClearFirst == \A i \in Issues : pull[i].auto /\ i \notin waived => MentionsMerged(i)

\* Who is about to be told to merge, or has been, has its dependencies merged;
\* and the daemon has not created a pull request before the call that does.
PullInv ==
  /\ pull \in [Issues -> PullType] /\ DOMAIN pub = Issues
  /\ \A i \in Issues :
       /\ pull[i].auto \/ pub[i] \in {"readying", "merging"} => Clear(i)
       /\ pub[i] \in Unpublished => pull[i] = NoPull

\* One call of the daemon moves pub[i]; pull requests that are merged stay so.
LEMMA PubStep ==
  ASSUME PullInv, NEW i \in Issues, NEW w, pub' = [pub EXCEPT ![i] = w],
         pull' \in [Issues -> PullType],
         \A j \in Issues : j # i => pull'[j] = pull[j],
         pull[i].state = "merged" => pull'[i].state = "merged",
         waived \subseteq waived',
         pull'[i].auto \/ w \in {"readying", "merging"} => Clear(i) \/ i \in waived',
         w \in Unpublished => pull'[i] = NoPull
  PROVE  PullInv'
<1>1. \A j \in Issues : pull[j].state = "merged" => pull'[j].state = "merged"
  OBVIOUS
<1>2. \A j \in Issues : Clear(j) => Clear(j)'
  BY <1>1 DEF Clear, MentionsMerged
<1>3. DOMAIN pub' = Issues /\ pub'[i] = w /\ \A j \in Issues : j # i => pub'[j] = pub[j]
  BY DEF PullInv
<1>4. ASSUME NEW j \in Issues
      PROVE  /\ pull'[j].auto \/ pub'[j] \in {"readying", "merging"} => Clear(j)'
             /\ pub'[j] \in Unpublished => pull'[j] = NoPull
  <2>1. CASE j = i
    BY <1>2, <1>3, <2>1 DEF Clear
  <2>2. CASE j # i
    BY <1>2, <1>3, <2>2 DEF PullInv
  <2> QED BY <2>1, <2>2
<1>5. NoPull' = NoPull
  BY DEF NoPull
<1> QED BY <1>3, <1>4, <1>5 DEF PullInv

\* One call of a person or of GitHub concerns a pull request that is open.
LEMMA OpenStep ==
  ASSUME PullInv, NEW i \in Open, NEW r \in PullType, pull' = [pull EXCEPT ![i] = r],
         r.auto => Clear(i), UNCHANGED <<pub, waived>>
  PROVE  PullInv'
<1>1. i \in Issues /\ pull[i].state = "open" /\ pull[i] # NoPull
  BY DEF Open, NoPull
<1>2. /\ pull' \in [Issues -> PullType] /\ pull'[i] = r
      /\ \A j \in Issues : j # i => pull'[j] = pull[j]
  BY <1>1 DEF PullInv
<1>3. \A j \in Issues : pull[j].state = "merged" => pull'[j].state = "merged"
  BY <1>1, <1>2
<1>4. \A j \in Issues : Clear(j) => Clear(j)'
  BY <1>3 DEF Clear, MentionsMerged
<1>5. pub[i] \notin Unpublished
  BY <1>1 DEF PullInv
<1>6. pub[i] \in {"readying", "merging"} => Clear(i)
  BY <1>1 DEF PullInv
<1>7. ASSUME NEW j \in Issues
      PROVE  /\ pull'[j].auto \/ pub[j] \in {"readying", "merging"} => Clear(j)'
             /\ pub[j] \in Unpublished => pull'[j] = NoPull
  <2>1. CASE j = i
    BY <1>2, <1>4, <1>5, <1>6, <2>1
  <2>2. CASE j # i
    BY <1>2, <1>4, <2>2 DEF PullInv
  <2> QED BY <2>1, <2>2
<1> QED BY <1>2, <1>7 DEF PullInv, NoPull

\* Changes of one pull request.
LEMMA PullFields ==
  ASSUME NEW r \in PullType
  PROVE  /\ [r EXCEPT !.draft = FALSE] \in PullType
         /\ [r EXCEPT !.draft = FALSE].auto = r.auto
         /\ [r EXCEPT !.draft = FALSE].state = r.state
         /\ [r EXCEPT !.auto = TRUE] \in PullType
         /\ [r EXCEPT !.auto = TRUE].state = r.state
         /\ [r EXCEPT !.state = "merged", !.auto = FALSE] \in PullType
         /\ ~[r EXCEPT !.state = "merged", !.auto = FALSE].auto
         /\ [r EXCEPT !.draft = ~r.draft, !.auto = FALSE] \in PullType
         /\ ~[r EXCEPT !.draft = ~r.draft, !.auto = FALSE].auto
         /\ [NoPull EXCEPT !.state = "closed"] \in PullType
         /\ ~[NoPull EXCEPT !.state = "closed"].auto
  BY DEF PullType, NoPull

\* What the daemon does to one pull request keeps the invariant.
LEMMA DaemonSteps ==
  ASSUME PullInv, NEW i \in Issues,
         \/ CheckConflicts(i) \/ AttemptRebase(i) \/ PushBranch(i) \/ CreateDraftPR(i)
         \/ CheckDependencies(i) \/ AddIssueComment(i) \/ ReadyPR(i) \/ EnableAutoMerge(i)
  PROVE  PullInv'
<1>1. pull \in [Issues -> PullType] /\ pull[i] \in PullType
  BY DEF PullInv
<1>2. pub[i] \in Unpublished => pull[i] = NoPull
  BY DEF PullInv
<1>3. pull[i].auto \/ pub[i] \in {"readying", "merging"} => Clear(i)
  BY DEF PullInv
<1>4. CASE CheckConflicts(i) \/ AttemptRebase(i) \/ PushBranch(i)
  <2>1. /\ pull' = pull /\ waived' = waived /\ pub[i] \in Unpublished
        /\ \E w \in {"rebasing", "pushing", "creating", "failed"} : pub' = [pub EXCEPT ![i] = w]
    BY <1>4 DEF CheckConflicts, AttemptRebase, PushBranch, Goes, github, Unpublished
  <2> QED BY <1>1, <1>2, <1>3, <2>1, PubStep
<1>5. CASE CreateDraftPR(i)
  <2>1. pub[i] \in Unpublished /\ pull[i] = NoPull /\ waived' = waived
    BY <1>2, <1>5 DEF CreateDraftPR, Goes, Unpublished
  <2>2. \/ /\ Created(i) \/ UNCHANGED pull
           /\ \E w \in {"created", "failed"} : pub' = [pub EXCEPT ![i] = w]
        \/ UNCHANGED pull /\ pub' = [pub EXCEPT ![i] = "labelling"]
    BY <1>5 DEF CreateDraftPR, Goes
  <2>3. ASSUME Created(i)
        PROVE  /\ pull' \in [Issues -> PullType] /\ ~pull'[i].auto
               /\ \A j \in Issues : j # i => pull'[j] = pull[j]
    BY <1>1, <2>3, PullAssumption DEF Created, PullType
  <2>4. pull[i].state # "merged" /\ ~pull[i].auto
    BY <2>1 DEF NoPull
  <2> QED BY <1>1, <2>1, <2>2, <2>3, <2>4, PubStep DEF Unpublished
<1>6. CASE CheckDependencies(i)
  <2>1. pull' = pull /\ waived \subseteq waived'
    BY <1>6 DEF CheckDependencies, GoesOnAnyway
  <2>2. ASSUME NEW failed \in SUBSET Deps[i], CheckDependencyPRsMerged(i, failed) = {} PROVE Clear(i)
    BY <2>2 DEF CheckDependencyPRsMerged, Clear, MentionsMerged
  <2>3. \/ \E w \in {"over", "commenting"} : pub' = [pub EXCEPT ![i] = w]
        \/ /\ Clear(i) \/ i \in waived'
           /\ \E w \in {"readying", "merging"} : pub' = [pub EXCEPT ![i] = w]
    BY <1>6, <2>2 DEF CheckDependencies, GoesOnAnyway, Goes, ToMerge
  <2> QED BY <1>1, <1>3, <2>1, <2>3, PubStep DEF Unpublished
<1>7. CASE AddIssueComment(i)
  <2>1. /\ pull' = pull /\ waived \subseteq waived'
        /\ \/ pub' = [pub EXCEPT ![i] = "over"]
           \/ /\ i \in waived'
              /\ \E w \in {"readying", "merging"} : pub' = [pub EXCEPT ![i] = w]
    BY <1>7 DEF AddIssueComment, GoesOnAnyway, Goes, ToMerge
  <2> QED BY <1>1, <1>3, <2>1, PubStep DEF Unpublished
<1>8. CASE ReadyPR(i) \/ EnableAutoMerge(i)
  <2>1. /\ pub[i] \in {"readying", "merging"} /\ waived' = waived
        /\ \E w \in {"merging", "over"} : pub' = [pub EXCEPT ![i] = w]
        /\ \/ pull' = pull
           \/ pull' = [pull EXCEPT ![i] = [pull[i] EXCEPT !.draft = FALSE]]
           \/ pull' = [pull EXCEPT ![i] = [pull[i] EXCEPT !.auto = TRUE]]
    BY <1>8 DEF ReadyPR, EnableAutoMerge, Goes
  <2>2. \E r \in PullType : pull' = [pull EXCEPT ![i] = r] /\ r.state = pull[i].state
    BY <1>1, <2>1, PullFields
  <2>3. /\ pull' \in [Issues -> PullType] /\ pull'[i].state = pull[i].state
        /\ \A j \in Issues : j # i => pull'[j] = pull[j]
    BY <1>1, <2>2
  <2> QED BY <1>3, <2>1, <2>3, PubStep DEF Unpublished
<1> QED BY <1>4, <1>5, <1>6, <1>7, <1>8

LEMMA PullInvHolds == PullSpec => []PullInv
<1>1. PullInit => PullInv
  BY DEF PullInit, PullInv, PullType, NoPull, Unpublished
<1>2. PullInv /\ [PullNext]_pullVars => PullInv'
  <2> SUFFICES ASSUME PullInv, [PullNext]_pullVars PROVE PullInv'
    OBVIOUS
  <2>1. ASSUME NEW i \in Issues,
               \/ CheckConflicts(i) \/ AttemptRebase(i) \/ PushBranch(i) \/ CreateDraftPR(i)
               \/ CheckDependencies(i) \/ AddIssueComment(i) \/ ReadyPR(i) \/ EnableAutoMerge(i)
        PROVE  PullInv'
    BY <2>1, DaemonSteps
  <2>2. ASSUME NEW i \in Issues, Merges(i) \/ PersonChanges(i) PROVE PullInv'
    <3>1. i \in Open /\ UNCHANGED <<pub, waived>> /\ pull[i] \in PullType
      BY <2>2 DEF Merges, PersonChanges, Open, PullInv
    <3>2. \/ pull' = [pull EXCEPT ![i] = [pull[i] EXCEPT !.state = "merged", !.auto = FALSE]]
          \/ pull' = [pull EXCEPT ![i] = [NoPull EXCEPT !.state = "closed"]]
          \/ pull' = [pull EXCEPT ![i] = [pull[i] EXCEPT !.draft = ~pull[i].draft, !.auto = FALSE]]
      BY <2>2, <3>1 DEF Merges, PersonChanges
    <3>3. PICK r \in PullType : pull' = [pull EXCEPT ![i] = r] /\ ~r.auto
      BY <3>1, <3>2, PullFields
    <3> QED BY <3>1, <3>3, OpenStep
  <2>3. CASE \/ PollStep \/ PauseEnds \/ (\E i \in Issues : BaseMoves(i)) \/ UNCHANGED pullVars
    <3>1. pull' = pull /\ UNCHANGED <<pub, waived>>
      BY <2>3 DEF PollStep, Poll, ListOpenPrs, ScheduleNext, PollProjectLabel, CheckPrConflict,
                  CommentOnIssue, PauseEnds, BaseMoves, pullVars, github
    <3> QED BY <3>1 DEF PullInv, Clear, MentionsMerged, NoPull
  <2>4. CASE Restart
    <3>1. /\ pull' = pull /\ waived' = waived /\ DOMAIN pub' = Issues
          /\ \A i \in Issues : /\ pub'[i] \in {"failed", "fetching", "over"}
                               /\ pub'[i] = "fetching" => pull[i] = NoPull
      BY <2>4 DEF Restart, github
    <3> QED BY <3>1 DEF PullInv, Clear, MentionsMerged, NoPull, Unpublished
  <2> QED BY <2>1, <2>2, <2>3, <2>4 DEF PullNext
<1> QED BY <1>1, <1>2, PTL DEF PullSpec

\* For any number of issues, failures, restarts and changes of people's minds:
\* unless the check threw, no pull request is told to merge itself before one
\* has merged for each issue it depends on, which may be another's that
\* mentions the issue.
THEOREM MergesAfterMentions == PullSpec => []ClearFirst
<1>1. PullInv => ClearFirst
  BY DEF PullInv, Clear, ClearFirst
<1> QED BY <1>1, PullInvHolds, PTL

\* When no pull request mentions another's issue, those it depends on have
\* merged themselves, unless the check threw.
THEOREM MergesInOrder == ASSUME Mentions = {} PROVE PullSpec => []AutoMergeWaits
<1>1. PullInv => AutoMergeWaits
  BY DEF PullInv, Clear, MentionsMerged, AutoMergeWaits
<1> QED BY <1>1, PullInvHolds, PTL

-----------------------------------------------------------------------------
(* The review: how the calls of Claude divide the files among them.        *)

LEMMA SplitLemma ==
  ASSUME NEW files \in Seq(File)
  PROVE  /\ SplitDiffByFiles(files) \in Seq(File)
         /\ \A f \in ToSet(files) : ~f.quoted => f \in ToSet(SplitDiffByFiles(files))
<1> DEFINE Body(g, n) == IF n = 0 THEN <<>>
                         ELSE IF files[n].quoted THEN g[n - 1] ELSE Append(g[n - 1], files[n])
           N == Len(files)
           kept == CHOOSE g : g = [n \in 0..N |-> Body(g, n)]
<1>1. SplitDiffByFiles(files) = kept[N]
  BY DEF SplitDiffByFiles
<1>2. kept = [n \in 0..N |-> Body(kept, n)]
  <2> DEFINE G == [n \in 1..N |-> [s \in Seq(File) |->
                     IF files[n].quoted THEN s ELSE Append(s, files[n])]]
  <2>1. N \in Nat /\ \A n \in 1..N : files[n] \in File
    OBVIOUS
  <2>2. <<>> \in Seq(File) /\ G \in [1..N -> [Seq(File) -> Seq(File)]]
    OBVIOUS
  <2> HIDE DEF N
  <2>3. PICK f \in StepValues(Seq(File), <<>>, G, N) : TRUE
    <3> HIDE DEF G, kept, Body
    <3> QED BY <2>1, <2>2, RecursionLemma
  <2>4. /\ f \in [0..N -> Seq(File)] /\ f[0] = <<>>
        /\ \A n \in 1..N : f[n] = G[n][f[n - 1]]
    BY <2>3 DEF StepValues
  <2>6. ASSUME NEW n \in 0..N PROVE f[n] = Body(f, n)
    <3>1. CASE n = 0
      BY <3>1, <2>4
    <3>2. CASE n \in 1..N
      <4>1. n - 1 \in 0..N /\ f[n - 1] \in Seq(File)
        BY <3>2, <2>1, <2>4
      <4> QED BY <3>2, <4>1, <2>4
    <3> QED BY <3>1, <3>2, <2>1
  <2>5. f = [n \in 0..N |-> Body(f, n)]
    <3> HIDE DEF Body
    <3> QED BY <2>4, <2>6
  <2> QED BY <2>5
<1> HIDE DEF kept
<1> DEFINE S == {n \in 0..N : /\ kept[n] \in Seq(File)
                              /\ \A i \in 1..n : ~files[i].quoted => files[i] \in ToSet(kept[n])}
<1>3. 0 \in S
  <2>1. kept[0] = <<>> /\ 0 \in 0..N
    <3>1. 0 \in 0..N
      OBVIOUS
    <3> QED BY <3>1, <1>2
  <2>2. <<>> \in Seq(File) /\ 1..0 = {}
    OBVIOUS
  <2> QED BY <2>1, <2>2
<1>4. ASSUME NEW n \in 1..N, n - 1 \in S PROVE n \in S
  <2>1. files[n] \in File /\ n \in 0..N /\ n # 0 /\ n - 1 \in 0..N
    OBVIOUS
  <2>2. kept[n] = IF files[n].quoted THEN kept[n - 1] ELSE Append(kept[n - 1], files[n])
    BY <1>2, <2>1
  <2>3. \A i \in 1..n : i = n \/ i \in 1..(n - 1)
    OBVIOUS
  <2>4. kept[n - 1] \in Seq(File)
        /\ \A i \in 1..(n - 1) : ~files[i].quoted => files[i] \in ToSet(kept[n - 1])
    BY <1>4
  <2>5. /\ Append(kept[n - 1], files[n]) \in Seq(File)
        /\ ToSet(Append(kept[n - 1], files[n])) = ToSet(kept[n - 1]) \cup {files[n]}
    BY <2>1, <2>4, AppendLemma
  <2>6. kept[n] \in Seq(File)
    BY <2>2, <2>4, <2>5
  <2>7. ASSUME NEW i \in 1..n, ~files[i].quoted PROVE files[i] \in ToSet(kept[n])
    <3>1. CASE i = n
      BY <3>1, <2>7, <2>2, <2>5
    <3>2. CASE i \in 1..(n - 1)
      BY <3>2, <2>7, <2>2, <2>4, <2>5
    <3> QED BY <3>1, <3>2, <2>3
  <2> QED BY <2>1, <2>6, <2>7
<1> HIDE DEF S
<1>5. \A n \in 0..N : n \in S
  <2>1. N \in Nat
    OBVIOUS
  <2> HIDE DEF N
  <2> QED BY <1>3, <1>4, <2>1, UpToInduction
<1>6. N \in S /\ N \in Nat /\ \A f \in ToSet(files) : \E i \in 1..N : f = files[i]
  BY <1>5 DEF ToSet
<1> QED BY <1>1, <1>6 DEF S

\* What batches hold.
Held(batches) == UNION {ToSet(batches[i]) : i \in DOMAIN batches}

LEMMA JoinedLemma ==
  ASSUME NEW b \in Seq(Seq(File)), NEW f \in File
  PROVE  /\ Joined(b, f) \in Seq(Seq(File))
         /\ Held(b) \cup {f} \subseteq Held(Joined(b, f))
<1>1. CASE Joined(b, f) = Append(b, <<f>>)
  <2>1. /\ Append(b, <<f>>) \in Seq(Seq(File)) /\ Len(Append(b, <<f>>)) = Len(b) + 1
        /\ \A i \in 1..Len(b) : Append(b, <<f>>)[i] = b[i]
        /\ Append(b, <<f>>)[Len(b) + 1] = <<f>>
    OBVIOUS
  <2>2. f \in ToSet(<<f>>)
    BY DEF ToSet
  <2>3. Len(b) + 1 \in DOMAIN Append(b, <<f>>) /\ DOMAIN b \subseteq DOMAIN Append(b, <<f>>)
    BY <2>1
  <2> QED BY <1>1, <2>1, <2>2, <2>3 DEF Held
<1>2. CASE b # <<>> /\ Joined(b, f) = [b EXCEPT ![Len(b)] = Append(@, f)]
  <2> DEFINE k == Len(b)
             c == [b EXCEPT ![k] = Append(b[k], f)]
  <2>1. k \in DOMAIN b /\ b[k] \in Seq(File)
    BY <1>2
  <2>2. Append(b[k], f) \in Seq(File) /\ ToSet(Append(b[k], f)) = ToSet(b[k]) \cup {f}
    BY <2>1, AppendLemma
  <2>3. c \in Seq(Seq(File)) /\ DOMAIN c = DOMAIN b
    BY <2>1, <2>2
  <2>4. \A i \in DOMAIN b : ToSet(b[i]) \subseteq ToSet(c[i])
    BY <2>1, <2>2, <2>3
  <2>5. f \in ToSet(c[k])
    BY <2>1, <2>2, <2>3
  <2> HIDE DEF k
  <2>6. Joined(b, f) = c
    BY <1>2 DEF k
  <2> HIDE DEF c
  <2> QED BY <2>1, <2>3, <2>4, <2>5, <2>6 DEF Held
<1> QED BY <1>1, <1>2 DEF Joined

LEMMA GroupLemma ==
  ASSUME NEW files \in Seq(File)
  PROVE  /\ GroupFilesByTokenBudget(files) \in Seq(Seq(File))
         /\ ToSet(files) \subseteq Held(GroupFilesByTokenBudget(files))
<1> DEFINE Body(g, n) == IF n = 0 THEN <<>> ELSE Joined(g[n - 1], files[n])
           N == Len(files)
           grouped == CHOOSE g : g = [n \in 0..N |-> Body(g, n)]
<1>1. GroupFilesByTokenBudget(files) = grouped[N]
  BY DEF GroupFilesByTokenBudget
<1>2. grouped = [n \in 0..N |-> Body(grouped, n)]
  <2> DEFINE V == Seq(Seq(File))
             G == [n \in 1..N |-> [s \in V |-> Joined(s, files[n])]]
  <2>1. N \in Nat /\ \A n \in 1..N : files[n] \in File
    OBVIOUS
  <2>2. <<>> \in V /\ G \in [1..N -> [V -> V]]
    <3>1. <<>> \in V
      OBVIOUS
    <3>2. \A s \in V, n \in 1..N : Joined(s, files[n]) \in V
      BY <2>1, JoinedLemma
    <3> HIDE DEF V
    <3> QED BY <3>1, <3>2
  <2> HIDE DEF N
  <2>3. PICK f \in StepValues(V, <<>>, G, N) : TRUE
    <3> HIDE DEF G, V, grouped, Body
    <3> QED BY <2>1, <2>2, RecursionLemma
  <2>4. /\ f \in [0..N -> V] /\ f[0] = <<>>
        /\ \A n \in 1..N : f[n] = G[n][f[n - 1]]
    <3> HIDE DEF V, G
    <3> QED BY <2>3 DEF StepValues
  <2>6. ASSUME NEW n \in 0..N PROVE f[n] = Body(f, n)
    <3> HIDE DEF V
    <3>1. CASE n = 0
      BY <3>1, <2>4
    <3>2. CASE n \in 1..N
      <4>1. n - 1 \in 0..N /\ f[n - 1] \in V
        BY <3>2, <2>1, <2>4
      <4> QED BY <3>2, <4>1, <2>4
    <3> QED BY <3>1, <3>2, <2>1
  <2>5. f = [n \in 0..N |-> Body(f, n)]
    <3> HIDE DEF V, Body
    <3> QED BY <2>4, <2>6
  <2> QED BY <2>5
<1> HIDE DEF grouped
<1> DEFINE S == {n \in 0..N : /\ grouped[n] \in Seq(Seq(File))
                              /\ \A i \in 1..n : files[i] \in Held(grouped[n])}
<1>3. 0 \in S
  <2>1. grouped[0] = <<>> /\ 0 \in 0..N
    <3>1. 0 \in 0..N
      OBVIOUS
    <3> QED BY <3>1, <1>2
  <2>2. <<>> \in Seq(Seq(File)) /\ 1..0 = {}
    OBVIOUS
  <2> QED BY <2>1, <2>2
<1>4. ASSUME NEW n \in 1..N, n - 1 \in S PROVE n \in S
  <2>1. files[n] \in File /\ n \in 0..N /\ n # 0 /\ n - 1 \in 0..N
    OBVIOUS
  <2>2. grouped[n] = Joined(grouped[n - 1], files[n])
    BY <1>2, <2>1
  <2>3. \A i \in 1..n : i = n \/ i \in 1..(n - 1)
    OBVIOUS
  <2>4. grouped[n - 1] \in Seq(Seq(File)) /\ \A i \in 1..(n - 1) : files[i] \in Held(grouped[n - 1])
    BY <1>4
  <2>5. grouped[n] \in Seq(Seq(File)) /\ Held(grouped[n - 1]) \cup {files[n]} \subseteq Held(grouped[n])
    BY <2>1, <2>2, <2>4, JoinedLemma
  <2> QED BY <2>1, <2>3, <2>4, <2>5
<1> HIDE DEF S
<1>5. \A n \in 0..N : n \in S
  <2>1. N \in Nat
    OBVIOUS
  <2> HIDE DEF N
  <2> QED BY <1>3, <1>4, <2>1, UpToInduction
<1>6. N \in S /\ N \in Nat /\ \A f \in ToSet(files) : \E i \in 1..N : f = files[i]
  BY <1>5 DEF ToSet
<1> QED BY <1>1, <1>6 DEF S

\* The names that calls read.
Reads(s) == UNION {s[i] : i \in DOMAIN s}

Verdicts == [verdict : {"PASS", "FAIL"}, version : Int, read : SUBSET STRING]
Heads == [version : Int, files : Seq(File)]

Phases == {"idle", "skipped", "analyst", "analysing", "round", "reviewing", "rounds done",
           "verdict", "passed", "threw", "failed", "fix"}
\* From the reading of the diff to the verdict, HEAD stays.
Busy == {"analyst", "analysing", "round", "reviewing", "rounds done", "verdict", "passed"}
\* An attempt to fix what was found has been made.
Again == fixes > 0
\* The rounds are over: until the next attempt, or in the first, after the analyst.
Over == pc \in {"rounds done", "verdict", "passed"} \/ (pc \in {"analyst", "analysing"} /\ Again)

ReviewTypeOK ==
  /\ setting \in Settings /\ pc \in Phases
  /\ head \in Heads /\ seen \in Heads
  /\ calls \in Seq(SUBSET STRING) /\ outcome \in [bad : BOOLEAN, read : SUBSET STRING]
  /\ results \in Seq(Verdicts)
  /\ analysis \in [critical : BOOLEAN, version : Int, read : SUBSET STRING]
  /\ fixes \in Nat

\* How many rounds there are.
Count == IF setting.unified THEN 1 ELSE Len(Rounds)

\* What is reviewed is HEAD, and what was reviewed of it is what a round reads.
Current ==
  pc \in Busy =>
    /\ seen = head
    /\ \A i \in DOMAIN results :
         results[i].version = head.version /\ results[i].read = RoundReads(setting, head.files)
\* What the calls that are left do not read, those made have read.
Covering ==
  /\ pc = "analysing" => Plain(seen.files) \subseteq outcome.read \cup Reads(calls)
  /\ pc = "reviewing" => RoundReads(setting, seen.files) = outcome.read \cup Reads(calls)
\* A round that is at work is one that runReviews goes to.
Due == pc \in {"round", "reviewing"} => NextRound(results) = "round"
\* Rounds that are over and have passed are all there.
AllThere ==
  /\ setting.enabled => Len(results) <= Count
  /\ pc = "idle" => results = <<>> /\ ~Again
  /\ Over => NextRound(results) = "rounds done"
\* The analyst has seen HEAD before the first rounds, and after those that follow.
Analysed ==
  /\ pc \in {"analyst", "analysing"} => setting.analyst
  /\ setting.analyst /\ (pc \in {"verdict", "passed"} \/ (~Again /\ pc \in {"round", "reviewing", "rounds done"})) =>
       analysis.version = head.version /\ Plain(head.files) \subseteq analysis.read
Concluded == pc = "passed" => Passed

ReviewInv == /\ ReviewTypeOK /\ Current /\ Covering /\ Due /\ AllThere /\ Analysed /\ Concluded
\* The calls read all the files that can be recognised.
LEMMA NamesLemma ==
  ASSUME NEW files \in Seq(File)
  PROVE  NamesOf(files) \in SUBSET STRING /\ Plain(files) \subseteq NamesOf(files)
<1>1. \A f \in ToSet(files) : f \in File
  BY DEF ToSet
<1> QED BY <1>1 DEF NamesOf, Plain, File

LEMMA OneCall ==
  ASSUME NEW n \in SUBSET STRING
  PROVE  <<n>> \in Seq(SUBSET STRING) /\ Reads(<<n>>) = n
<1>1. <<n>> \in Seq(SUBSET STRING)
  BY Alone, Zenon
<1>2. UNION {<<n>>[i] : i \in DOMAIN <<n>>} = n
  OBVIOUS
<1> QED BY <1>1, <1>2 DEF Reads

LEMMA CallsLemma ==
  ASSUME NEW files \in Seq(File)
  PROVE  /\ ReviewCalls(files) \in Seq(SUBSET STRING) /\ AnalystCalls(files) \in Seq(SUBSET STRING)
         /\ Reads(ReviewCalls(files)) = IF ExceedsTokenLimit(files) THEN {} ELSE NamesOf(files)
         /\ Plain(files) \subseteq Reads(AnalystCalls(files))
<1> DEFINE split == SplitDiffByFiles(files)
           batches == GroupFilesByTokenBudget(split)
           batched == [i \in DOMAIN batches |-> NamesOf(batches[i])]
<1>1. /\ split \in Seq(File) /\ batches \in Seq(Seq(File)) /\ ToSet(split) \subseteq Held(batches)
      /\ \A f \in ToSet(files) : ~f.quoted => f \in ToSet(split)
  BY SplitLemma, GroupLemma
<1>2. batched \in Seq(SUBSET STRING) /\ Plain(files) \subseteq Reads(batched)
  <2> HIDE DEF split, batches
  <2>1. \A i \in DOMAIN batches : NamesOf(batches[i]) \in SUBSET STRING
    BY <1>1, NamesLemma
  <2>2. batched \in Seq(SUBSET STRING) /\ DOMAIN batched = DOMAIN batches
    <3>1. batches \in Seq(Seq(File))
      BY <1>1
    <3>2. DOMAIN batched = DOMAIN batches /\ batched = [i \in DOMAIN batches |-> batched[i]]
      OBVIOUS
    <3>3. \A i \in DOMAIN batches : batched[i] \in SUBSET STRING
      BY <2>1
    <3> HIDE DEF batched
    <3>4. batched \in Seq(SUBSET STRING)
      BY ONLY <3>1, <3>2, <3>3, MappedLemma
    <3> QED BY <3>2, <3>4
  <2>3. ASSUME NEW f \in ToSet(files), ~f.quoted PROVE f.name \in Reads(batched)
    <3>1. PICK i \in DOMAIN batches : f \in ToSet(batches[i])
      BY <2>3, <1>1 DEF Held
    <3>2. f.name \in batched[i]
      BY <3>1 DEF NamesOf
    <3> QED BY <3>2, <2>2 DEF Reads
  <2> QED BY <2>2, <2>3 DEF Plain
<1>3. /\ NamesOf(files) \in SUBSET STRING /\ Plain(files) \subseteq NamesOf(files)
      /\ <<NamesOf(files)>> \in Seq(SUBSET STRING) /\ Reads(<<NamesOf(files)>>) = NamesOf(files)
  BY NamesLemma, OneCall
<1>4. AnalystCalls(files) \in {<<NamesOf(files)>>, batched}
  BY DEF AnalystCalls, BatchesOf
<1>5. <<>> \in Seq(SUBSET STRING) /\ Reads(<<>>) = {}
  BY DEF Reads
<1>6. ReviewCalls(files) \in Seq(SUBSET STRING)
      /\ Reads(ReviewCalls(files)) = IF ExceedsTokenLimit(files) THEN {} ELSE NamesOf(files)
  BY <1>3, <1>5 DEF ReviewCalls
<1> HIDE DEF batched
<1> QED BY <1>2, <1>3, <1>4, <1>6

LEMMA ReadsLemma ==
  ASSUME NEW s \in Seq(SUBSET STRING)
  PROVE  /\ s = <<>> => Reads(s) = {}
         /\ s # <<>> => /\ Head(s) \in SUBSET STRING /\ Tail(s) \in Seq(SUBSET STRING)
                        /\ Reads(s) = Head(s) \cup Reads(Tail(s))
<1>1. s = <<>> => Reads(s) = {}
  BY DEF Reads
<1>2. ASSUME s # <<>>
      PROVE  /\ Head(s) \in SUBSET STRING /\ Tail(s) \in Seq(SUBSET STRING)
             /\ Reads(s) = Head(s) \cup Reads(Tail(s))
  <2>1. /\ Head(s) = s[1] /\ Head(s) \in SUBSET STRING /\ Tail(s) \in Seq(SUBSET STRING)
        /\ Len(Tail(s)) = Len(s) - 1 /\ \A i \in 1..(Len(s) - 1) : Tail(s)[i] = s[i + 1]
    BY <1>2
  <2>2. ASSUME NEW i \in DOMAIN s PROVE s[i] \subseteq Head(s) \cup Reads(Tail(s))
    <3>1. CASE i = 1
      BY <3>1, <2>1
    <3>2. CASE i # 1
      <4>1. i - 1 \in DOMAIN Tail(s) /\ Tail(s)[i - 1] = s[i]
        BY <3>2, <2>1
      <4> QED BY <4>1 DEF Reads
    <3> QED BY <3>1, <3>2
  <2>3. ASSUME NEW i \in DOMAIN Tail(s) PROVE i + 1 \in DOMAIN s /\ Tail(s)[i] = s[i + 1]
    BY <2>1
  <2>4. 1 \in DOMAIN s
    BY <1>2
  <2>5. Head(s) \cup Reads(Tail(s)) \subseteq Reads(s)
    BY <2>1, <2>3, <2>4 DEF Reads
  <2>6. Reads(s) \subseteq Head(s) \cup Reads(Tail(s))
    BY <2>2 DEF Reads
  <2> QED BY <2>1, <2>5, <2>6
<1> QED BY <1>1, <1>2

\* While the configuration stays, so do the rounds.
LEMMA RoundsStay ==
  ASSUME setting' = setting
  PROVE  /\ NextRound(results)' = NextRound(results') /\ Count' = Count
         /\ results' = results /\ analysis' = analysis => Passed' = Passed
<1>1. Rounds' = Rounds
  BY DEF Rounds
<1>2. RoundsPassed(results)' = RoundsPassed(results')
  BY <1>1 DEF RoundsPassed, Halts
<1>3. results' = results => RoundsPassed(results)' = RoundsPassed(results)
  BY <1>2
<1> QED BY <1>1, <1>2, <1>3 DEF NextRound, Count, Passed

LEMMA CountLemma ==
  ASSUME setting \in Settings
  PROVE  /\ setting \in SettingType /\ setting.analyst \in BOOLEAN /\ setting.enabled \in BOOLEAN
         /\ setting.unified \in BOOLEAN /\ Rounds \in Seq(RoundConfig) /\ Count \in Nat
  BY ReviewAssumption DEF Rounds, SettingType, Count

LEMMA NoVerdicts == <<>> \in Seq(Verdicts) /\ DOMAIN <<>> = {} /\ Len(<<>>) = 0
  OBVIOUS

LEMMA NextRoundLemma ==
  ASSUME setting \in Settings, NEW rs \in Seq(Verdicts)
  PROVE  /\ NextRound(rs) \in {"round", "rounds done"}
         /\ NextRound(rs) = "round" => setting.enabled /\ Len(rs) < Count
         /\ NextRound(rs) = "rounds done" /\ setting.enabled /\ RoundsPassed(rs) => Len(rs) >= Count
<1>1. setting.unified \in BOOLEAN /\ setting.enabled \in BOOLEAN /\ Len(rs) \in Nat /\ Len(Rounds) \in Nat
  BY CountLemma DEF SettingType
<1>2. rs = <<>> <=> Len(rs) = 0
  OBVIOUS
<1> QED BY <1>1, <1>2 DEF NextRound, Count

-----------------------------------------------------------------------------
LEMMA ReviewInitInv == ReviewInit => ReviewInv
<1> SUFFICES ASSUME ReviewInit PROVE ReviewInv
  OBVIOUS
<1>1. head \in Heads /\ head.files \in Seq(File)
  BY ReviewAssumption DEF ReviewInit, Heads
<1>2. ReviewTypeOK
  BY <1>1 DEF ReviewInit, ReviewTypeOK, Nothing, NoAnalysis, Phases
<1>3. results = <<>> /\ results \in Seq(Verdicts) /\ Count \in Nat
  BY <1>2, CountLemma DEF ReviewInit, ReviewTypeOK
<1> QED BY <1>2, <1>3 DEF ReviewInit, ReviewInv, Current, Covering, Due, AllThere, Analysed, Concluded,
                          Busy, Over, Again

LEMMA PhaseBegins == ASSUME ReviewInv, RunReviewPhase PROVE ReviewInv'
<1> USE DEF ReviewInv, RunReviewPhase
<1>1. /\ NextRound(results)' = NextRound(results') /\ Count' = Count
      /\ setting' = setting /\ results' = <<>> /\ results = <<>> /\ ~Again /\ ~Again' /\ Count \in Nat
      /\ setting.analyst \in BOOLEAN
  <2>1. /\ setting' = setting /\ results' = <<>> /\ results = <<>> /\ ~Again /\ fixes' = fixes
    BY DEF AllThere, StartRounds
  <2> QED BY <2>1, RoundsStay, CountLemma DEF ReviewTypeOK, Again
<1>2. /\ NextRound(<<>>) \in {"round", "rounds done"} /\ <<>> \in Seq(Verdicts)
      /\ results' = <<>> => DOMAIN results' = {} /\ Len(results') = 0 /\ NextRound(results') = NextRound(<<>>)
  BY NoVerdicts, NextRoundLemma DEF ReviewTypeOK
<1>3. ReviewTypeOK'
  BY <1>1, <1>2 DEF ReviewTypeOK, Phases, StartRounds
<1>4. pc' \in {"skipped", "analyst", "round", "rounds done"} /\ (pc' # "skipped" => seen' = head)
      /\ (pc' = "analyst" => setting.analyst)
  BY <1>2 DEF StartRounds
<1>5. pc' \in {"round", "rounds done"} => pc' = NextRound(<<>>) /\ ~setting.analyst
  BY ReviewAssumption DEF StartRounds, ReviewTypeOK, SettingType
<1>6. Current' /\ Covering' /\ Due'
  BY <1>1, <1>2, <1>4, <1>5 DEF Current, Covering, Due, Busy
<1>7. AllThere'
  <2>1. setting'.enabled => Len(results') <= Count'
    BY <1>1, <1>2, <1>4, <1>5 DEF AllThere
  <2>2. pc' = "idle" => results' = <<>> /\ ~Again'
    BY <1>1, <1>2, <1>4, <1>5 DEF AllThere
  <2>3. Over' => NextRound(results)' = "rounds done"
    <3>1. ~Again' /\ pc' \in {"skipped", "analyst", "round", "rounds done"}
      BY <1>1, <1>4
    <3>2. Over' => pc' = "rounds done"
      BY ONLY <3>1 DEF Over
    <3>3. pc' = "rounds done" => NextRound(results)' = pc'
      BY <1>1, <1>2, <1>5
    <3> QED BY ONLY <3>2, <3>3
  <2> QED BY <2>1, <2>2, <2>3 DEF AllThere
<1>8. Concluded'
  BY <1>4 DEF Concluded
<1>9. Analysed'
  <2>1. pc' \in {"analyst", "analysing"} => setting'.analyst
    BY <1>1, <1>4
  <2>2. ~(pc' \in {"verdict", "passed"} \/ (~Again' /\ pc' \in {"round", "reviewing", "rounds done"}))
        \/ ~setting'.analyst
    BY <1>1, <1>4, <1>5
  <2> QED BY <2>1, <2>2 DEF Analysed
<1> QED BY <1>9, <1>3, <1>6, <1>7, <1>8

LEMMA CallsBegin == ASSUME ReviewInv, RunAnalyst \/ RunReviews PROVE ReviewInv'
<1> USE DEF ReviewInv, RunAnalyst, RunReviews
<1>0. Nothing.read = {}
  BY DEF Nothing
<1>1. /\ NextRound(results)' = NextRound(results) /\ Count' = Count
      /\ results' = results /\ setting' = setting /\ Again' = Again
  BY RoundsStay DEF Again
<1>2. /\ calls' \in Seq(SUBSET STRING)
      /\ pc' = "analysing" => Plain(seen.files) \subseteq Reads(calls')
      /\ pc' = "reviewing" => RoundReads(setting, seen.files) = Reads(calls')
  <2>1. seen.files \in Seq(File)
    BY DEF ReviewTypeOK, Heads
  <2>2. <<NamesOf(seen.files)>> \in Seq(SUBSET STRING)
        /\ Plain(seen.files) \subseteq Reads(<<NamesOf(seen.files)>>)
    BY <2>1, NamesLemma, OneCall
  <2>3. CASE RunAnalyst
    BY <2>1, <2>3, CallsLemma
  <2>4. CASE RunReviews
    <3>1. Reads(<<NamesOf(seen.files)>>) = NamesOf(seen.files)
      BY <2>1, NamesLemma, OneCall
    <3> QED BY <2>1, <2>2, <2>4, <3>1, CallsLemma DEF RoundReads
  <2> QED BY <2>3, <2>4
<1>3. ReviewTypeOK'
  <2>1. Nothing \in [bad : BOOLEAN, read : SUBSET STRING] /\ outcome' = Nothing
    BY ONLY RunAnalyst \/ RunReviews DEF Nothing, RunAnalyst, RunReviews
  <2> QED BY <1>1, <1>2, <2>1 DEF ReviewTypeOK, Phases
<1>4. Current' /\ Covering' /\ Due'
  BY <1>1, <1>2, <1>0 DEF Current, Covering, Due, Busy
<1>5. AllThere'
  <2>1. setting'.enabled => Len(results') <= Count'
    BY <1>1 DEF AllThere
  <2>2. pc' = "idle" => results' = <<>> /\ ~Again'
    BY <1>1 DEF AllThere
  <2>3. Over' => NextRound(results)' = "rounds done"
    BY <1>1 DEF AllThere, Over
  <2> QED BY <2>1, <2>2, <2>3 DEF AllThere
<1>6. Analysed' /\ Concluded'
  BY <1>1 DEF Analysed, Concluded
<1> QED BY <1>3, <1>4, <1>5, <1>6

LEMMA CallAnswered == ASSUME ReviewInv, ClaudeAnswers PROVE ReviewInv'
<1> USE DEF ReviewInv, ClaudeAnswers
<1>1. /\ NextRound(results)' = NextRound(results) /\ Count' = Count
      /\ results' = results /\ setting' = setting /\ Again' = Again
  BY RoundsStay DEF Again
<1>2. /\ Head(calls) \in SUBSET STRING /\ calls' \in Seq(SUBSET STRING)
      /\ Reads(calls) = Head(calls) \cup Reads(calls')
  BY ReadsLemma DEF ReviewTypeOK
<1>3. outcome' \in [bad : BOOLEAN, read : SUBSET STRING] /\ outcome'.read = outcome.read \cup Head(calls)
  BY <1>2 DEF ReviewTypeOK
<1>4. ReviewTypeOK'
  BY <1>1, <1>2, <1>3 DEF ReviewTypeOK
<1>5. Current' /\ Covering' /\ Due'
  BY <1>1, <1>2, <1>3 DEF Current, Covering, Due
<1>6. AllThere' /\ Analysed' /\ Concluded'
  BY <1>1 DEF AllThere, Over, Analysed, Concluded
<1> QED BY <1>4, <1>5, <1>6

LEMMA AnalysisEnds == ASSUME ReviewInv, AnalystDone PROVE ReviewInv'
<1> USE DEF ReviewInv, AnalystDone
<1>1. /\ NextRound(results)' = NextRound(results') /\ Count' = Count /\ setting' = setting
      /\ Count \in Nat
  BY RoundsStay, CountLemma DEF ReviewTypeOK
<1>2. /\ NextRound(<<>>) \in {"round", "rounds done"} /\ <<>> \in Seq(Verdicts)
      /\ results' = <<>> => DOMAIN results' = {} /\ Len(results') = 0 /\ NextRound(results') = NextRound(<<>>)
  BY NoVerdicts, NextRoundLemma DEF ReviewTypeOK
<1>3. Plain(seen.files) \subseteq outcome.read /\ seen = head
  BY ReadsLemma DEF ReviewTypeOK, Covering, Current, Busy
<1>4. analysis' \in [critical : BOOLEAN, version : Int, read : SUBSET STRING]
      /\ analysis'.version = head.version /\ Plain(head.files) \subseteq analysis'.read
  BY <1>3 DEF ReviewTypeOK, Heads
<1>5. /\ Again' = Again
      /\ \/ ~Again /\ pc' = NextRound(<<>>) /\ results' = <<>>
         \/ Again /\ pc' = "verdict" /\ results' = results
  <2>1. fixes = 0 <=> ~Again
    BY DEF Again, ReviewTypeOK
  <2> QED BY <2>1 DEF StartRounds, Again
<1>6. ReviewTypeOK'
  <2>1. pc' \in Phases /\ results' \in Seq(Verdicts)
    <3>1. results \in Seq(Verdicts)
      BY DEF ReviewTypeOK
    <3> QED BY ONLY <3>1, <1>2, <1>5 DEF Phases
  <2>2. analysis' \in [critical : BOOLEAN, version : Int, read : SUBSET STRING]
    BY <1>4
  <2> QED BY <1>1, <2>1, <2>2 DEF ReviewTypeOK
<1>7. Current' /\ Covering' /\ Due'
  BY <1>1, <1>2, <1>3, <1>5 DEF Current, Covering, Due, Busy
<1>8. AllThere'
  <2>1. setting'.enabled => Len(results') <= Count'
    <3>1. CASE results' = <<>>
      <4>1. Len(results') = 0
        BY <3>1, <1>2
      <4>2. Count' = Count /\ Count \in Nat
        BY <1>1
      <4> QED BY ONLY <4>1, <4>2
    <3>2. CASE results' = results
      BY <3>2, <1>1 DEF AllThere
    <3> QED BY <3>1, <3>2, <1>5
  <2>2. pc' = "idle" => results' = <<>> /\ ~Again'
    BY <1>1, <1>2, <1>5 DEF AllThere
  <2>3. Over' => NextRound(results)' = "rounds done"
    BY <1>1, <1>2, <1>5 DEF AllThere, Over
  <2> QED BY <2>1, <2>2, <2>3 DEF AllThere
<1>9. Analysed' /\ Concluded'
  BY <1>1, <1>2, <1>4, <1>5 DEF Analysed, Concluded
<1> QED BY <1>6, <1>7, <1>8, <1>9

LEMMA RoundEnds == ASSUME ReviewInv, RoundDone PROVE ReviewInv'
<1> USE DEF ReviewInv, RoundDone
<1> DEFINE result == [verdict |-> IF outcome.bad THEN "FAIL" ELSE "PASS",
                      version |-> seen.version, read |-> outcome.read]
<1>1. /\ NextRound(results)' = NextRound(results') /\ Count' = Count /\ setting' = setting
      /\ Count \in Nat /\ Again' = Again
  BY RoundsStay, CountLemma DEF ReviewTypeOK, Again
<1>2. RoundReads(setting, seen.files) = outcome.read /\ seen = head
  BY ReadsLemma DEF ReviewTypeOK, Covering, Current, Busy
<1>3. /\ result \in Verdicts /\ result.version = head.version
      /\ result.read = RoundReads(setting, head.files)
  BY <1>2 DEF ReviewTypeOK, Heads, Verdicts
<1>4. results \in Seq(Verdicts) /\ NextRound(results) = "round" /\ Len(results) < Count
  BY NextRoundLemma DEF ReviewTypeOK, Due
<1>5. \/ pc' = "round" /\ results' = results
      \/ pc' = NextRound(results') /\ results' = Append(results, result)
  OBVIOUS
<1> HIDE DEF result
<1>6. /\ results' \in Seq(Verdicts) /\ Len(results') <= Count
      /\ \A i \in DOMAIN results' :
           results'[i].version = head.version /\ results'[i].read = RoundReads(setting, head.files)
  <2>1. \A i \in DOMAIN results :
          results[i].version = head.version /\ results[i].read = RoundReads(setting, head.files)
    BY DEF Current, Busy
  <2>2. CASE results' = results
    BY <2>1, <2>2, <1>1, <1>4
  <2>3. CASE results' = Append(results, result)
    BY <2>1, <2>3, <1>1, <1>3, <1>4
  <2> QED BY <2>2, <2>3, <1>5
<1>7. NextRound(results') \in {"round", "rounds done"} /\ (pc' = "round" => NextRound(results') = "round")
      /\ (pc' = NextRound(results'))
  BY <1>4, <1>5, <1>6, NextRoundLemma DEF ReviewTypeOK
<1>8. ReviewTypeOK'
  BY <1>1, <1>6, <1>7 DEF ReviewTypeOK, Phases
<1>9. Current' /\ Covering' /\ Due'
  BY <1>1, <1>2, <1>6, <1>7 DEF Current, Covering, Due, Busy
<1>10. AllThere'
  <2>1. setting'.enabled => Len(results') <= Count'
    BY <1>1, <1>6, <1>7 DEF AllThere
  <2>2. pc' = "idle" => results' = <<>> /\ ~Again'
    BY <1>1, <1>6, <1>7 DEF AllThere
  <2>3. Over' => NextRound(results)' = "rounds done"
    BY <1>1, <1>6, <1>7 DEF AllThere, Over
  <2> QED BY <2>1, <2>2, <2>3 DEF AllThere
<1>11. Analysed' /\ Concluded'
  BY <1>1, <1>7 DEF Analysed, Concluded
<1> QED BY <1>8, <1>9, <1>10, <1>11

LEMMA Concludes == ASSUME ReviewInv, RoundsDone \/ Verdict PROVE ReviewInv'
<1> USE DEF ReviewInv, RoundsDone, Verdict
<1>1. /\ NextRound(results)' = NextRound(results) /\ Count' = Count /\ Passed' = Passed
      /\ results' = results /\ setting' = setting /\ Again' = Again
      /\ setting.analyst \in BOOLEAN
  BY RoundsStay, CountLemma DEF ReviewTypeOK, Again
<1>2. \/ pc = "rounds done" /\ pc' = "analyst" /\ Again /\ setting.analyst
      \/ pc = "rounds done" /\ pc' = "verdict" /\ (setting.analyst => ~Again)
      \/ pc = "verdict" /\ pc' = "passed" /\ Passed
      \/ pc = "verdict" /\ pc' \in {"threw", "failed", "fix"}
  <2>1. CASE RoundsDone
    BY <2>1, <1>1 DEF Again
  <2>2. CASE Verdict
    BY <2>2
  <2> QED BY <2>1, <2>2
<1>3. ReviewTypeOK'
  BY <1>1, <1>2 DEF ReviewTypeOK, Phases
<1>4. Current' /\ Covering' /\ Due'
  BY <1>1, <1>2 DEF Current, Covering, Due, Busy
<1>5. AllThere'
  <2>1. setting'.enabled => Len(results') <= Count'
    BY <1>1, <1>2 DEF AllThere
  <2>2. pc' = "idle" => results' = <<>> /\ ~Again'
    BY <1>1, <1>2 DEF AllThere
  <2>3. Over' => NextRound(results)' = "rounds done"
    BY <1>1, <1>2 DEF AllThere, Over
  <2> QED BY <2>1, <2>2, <2>3 DEF AllThere
<1>6. Analysed' /\ Concluded'
  BY <1>1, <1>2 DEF Analysed, Concluded
<1> QED BY <1>3, <1>4, <1>5, <1>6

LEMMA FixStep == ASSUME ReviewInv, FixAttempt \/ FixThrows PROVE ReviewInv'
<1> USE DEF ReviewInv, FixAttempt, FixThrows
<1>1. /\ NextRound(results)' = NextRound(results') /\ Count' = Count /\ setting' = setting
      /\ Count \in Nat
  BY RoundsStay, CountLemma DEF ReviewTypeOK
<1>2. /\ NextRound(<<>>) \in {"round", "rounds done"} /\ <<>> \in Seq(Verdicts)
      /\ results' = <<>> => DOMAIN results' = {} /\ Len(results') = 0 /\ NextRound(results') = NextRound(<<>>)
  BY NoVerdicts, NextRoundLemma DEF ReviewTypeOK
<1>3. fixes \in Nat /\ fixes' = fixes + 1 /\ fixes' \in Nat /\ Again'
  BY DEF ReviewTypeOK, Again
<1>4. head' \in Heads
  <2>1. PICK d \in Diffs \cup {head.files} :
          head' = IF d = head.files THEN head ELSE [version |-> fixes + 1, files |-> d]
    OBVIOUS
  <2>2. d \in Seq(File)
    BY ReviewAssumption DEF ReviewTypeOK, Heads
  <2> QED BY <2>1, <2>2 DEF ReviewTypeOK, Heads
<1>5. \/ pc' = NextRound(<<>>) /\ results' = <<>> /\ seen' = head'
      \/ pc' \in {"failed", "fix"} /\ results' = results /\ seen' = seen
  BY DEF StartRounds
<1>6. ReviewTypeOK'
  BY <1>1, <1>2, <1>3, <1>4, <1>5 DEF ReviewTypeOK, Phases
<1>7. Current' /\ Covering' /\ Due'
  BY <1>1, <1>2, <1>5 DEF Current, Covering, Due, Busy
<1>8. AllThere'
  <2>1. setting'.enabled => Len(results') <= Count'
    <3>1. CASE results' = <<>>
      <4>1. Len(results') = 0
        BY <3>1, <1>2
      <4>2. Count' = Count /\ Count \in Nat
        BY <1>1
      <4> QED BY ONLY <4>1, <4>2
    <3>2. CASE results' = results
      BY <3>2, <1>1 DEF AllThere
    <3> QED BY <3>1, <3>2, <1>5
  <2>2. pc' = "idle" => results' = <<>> /\ ~Again'
    BY <1>1, <1>2, <1>3, <1>5 DEF AllThere
  <2>3. Over' => NextRound(results)' = "rounds done"
    BY <1>1, <1>2, <1>3, <1>5 DEF AllThere, Over
  <2> QED BY <2>1, <2>2, <2>3 DEF AllThere
<1>9. Analysed' /\ Concluded'
  <2>1. pc' \in {"round", "rounds done", "failed", "fix"}
    BY <1>2, <1>5
  <2> QED BY ONLY <1>3, <2>1 DEF Analysed, Concluded
<1> QED BY <1>6, <1>7, <1>8, <1>9

LEMMA ReviewInvHolds == ReviewSpec => []ReviewInv
<1>1. ReviewInit => ReviewInv
  BY ReviewInitInv
<1>2. ReviewInv /\ [ReviewNext]_reviewVars => ReviewInv'
  <2> SUFFICES ASSUME ReviewInv, [ReviewNext]_reviewVars PROVE ReviewInv'
    OBVIOUS
  <2>1. CASE ReviewNext
    BY <2>1, PhaseBegins, CallsBegin, CallAnswered, AnalysisEnds, RoundEnds, Concludes, FixStep
       DEF ReviewNext
  <2>2. CASE UNCHANGED reviewVars
    <3>1. /\ NextRound(results)' = NextRound(results) /\ Count' = Count /\ Passed' = Passed
      BY <2>2, RoundsStay DEF reviewVars
    <3> QED BY <2>2, <3>1 DEF reviewVars, ReviewInv, ReviewTypeOK, Current, Covering, Due, AllThere,
                              Analysed, Concluded, Over, Again
  <2> QED BY <2>1, <2>2
<1> QED BY <1>1, <1>2, PTL DEF ReviewSpec

\* A review that passes has approved what will be published, and has read it
\* but for the rounds that found it too long, for any configuration, rounds,
\* diffs and budget of tokens.
THEOREM PassedReadsHead == ReviewSpec => []PassedOnHead
<1>1. ReviewInv => PassedOnHead
  <2> SUFFICES ASSUME ReviewInv, pc = "passed", setting.enabled PROVE PassedOnHead!2
    BY DEF PassedOnHead
  <2> USE DEF ReviewInv
  <2>1. /\ results \in Seq(Verdicts) /\ setting.unified \in BOOLEAN /\ Rounds \in Seq(RoundConfig)
        /\ setting \in Settings /\ Len(Rounds) \in Nat
    BY CountLemma DEF ReviewTypeOK
  <2>2. RoundsPassed(results) /\ ~analysis.critical
    BY DEF Concluded, Passed
  <2>3. Len(results) = Count
    <3>1. Len(results) <= Count /\ NextRound(results) = "rounds done" /\ Count \in Nat
      BY CountLemma DEF AllThere, Over, ReviewTypeOK
    <3>2. Len(results) >= Count
      BY <2>1, <2>2, <3>1, NextRoundLemma
    <3>3. Len(results) \in Nat
      BY ONLY <2>1
    <3>4. Count \in Nat /\ Len(results) <= Count
      BY ONLY <3>1
    <3> QED BY ONLY <3>2, <3>3, <3>4
  <2>4. \A i \in DOMAIN results :
          results[i].version = head.version /\ results[i].read = RoundReads(setting, head.files)
    BY DEF Current, Busy
  <2>5. ASSUME NEW i \in DOMAIN results, setting.unified \/ Rounds[i].failAction # "warn"
        PROVE  results[i].verdict = "PASS"
    <3>0. results[i] \in Verdicts
      BY <2>1
    <3>1. results[i].verdict \in {"PASS", "FAIL"}
      BY ONLY <3>0 DEF Verdicts
    <3> QED BY <2>2, <2>5, <3>1 DEF RoundsPassed, Halts
  <2>6. setting.analyst => analysis.version = head.version /\ Plain(head.files) \subseteq analysis.read
    BY DEF Analysed
  <2> QED BY <2>2, <2>3, <2>4, <2>5, <2>6 DEF Count
<1> QED BY <1>1, ReviewInvHolds, PTL

-----------------------------------------------------------------------------
(* The repository lock.                                                    *)

USE RepoLockAssumption

LEMMA TypeStep ==
  ASSUME RepoLockTypeOK, [Next]_vars
  PROVE  RepoLockTypeOK'
<1> USE DEF RepoLockTypeOK, Finished, Turn, Owning
<1>1. ASSUME NEW c \in Callers, Enter(c) PROVE RepoLockTypeOK'
  BY <1>1 DEF Enter, GoTo
<1>2. ASSUME NEW c \in Callers, Proceed(c) PROVE RepoLockTypeOK'
  BY <1>2 DEF Proceed, GoTo
<1>3. ASSUME NEW c \in Callers, OpenFile(c) PROVE RepoLockTypeOK'
  BY <1>3 DEF OpenFile, GoTo
<1>4. ASSUME NEW c \in Callers, OpenFails(c) PROVE RepoLockTypeOK'
  BY <1>4 DEF OpenFails
<1>5. ASSUME NEW c \in Callers, FnEnds(c) PROVE RepoLockTypeOK'
  BY <1>5 DEF FnEnds, GoTo
<1>6. ASSUME NEW c \in Callers, Unlink(c) PROVE RepoLockTypeOK'
  BY <1>6 DEF Unlink, GoTo
<1>7. ASSUME NEW c \in Callers, Signal(c) PROVE RepoLockTypeOK'
  BY <1>7 DEF Signal, GoTo
<1>8. ASSUME NEW p \in Processes, Die(p) PROVE RepoLockTypeOK'
  BY <1>8 DEF Die
<1>9. CASE UNCHANGED vars
  BY <1>9 DEF vars
<1> QED
  BY <1>1, <1>2, <1>3, <1>4, <1>5, <1>6, <1>7, <1>8, <1>9 DEF Next, Step

\* Every variable keeps its type.
THEOREM RepoLockTypeCorrect == Spec => []RepoLockTypeOK
<1>1. Init => RepoLockTypeOK
  BY DEF Init, RepoLockTypeOK
<1>2. RepoLockTypeOK /\ [Next]_vars => RepoLockTypeOK'
  BY TypeStep
<1> QED
  BY <1>1, <1>2, PTL DEF Spec

-----------------------------------------------------------------------------
(* The file: who owns the repository is who created it. *)

FileIsOwners == \A c \in Callers : place[c] \in Owning => file = c

LEMMA FileStep ==
  ASSUME RepoLockTypeOK, FileIsOwners, [Next]_vars
  PROVE  FileIsOwners'
<1> USE DEF RepoLockTypeOK, FileIsOwners, Owning
<1>1. ASSUME NEW c \in Callers, Enter(c) PROVE FileIsOwners'
  BY <1>1 DEF Enter, GoTo
<1>2. ASSUME NEW c \in Callers, Proceed(c) PROVE FileIsOwners'
  BY <1>2 DEF Proceed, GoTo
<1>3. ASSUME NEW c \in Callers, OpenFile(c) PROVE FileIsOwners'
  BY <1>3 DEF OpenFile, GoTo
<1>4. ASSUME NEW c \in Callers, OpenFails(c) PROVE FileIsOwners'
  BY <1>4 DEF OpenFails
<1>5. ASSUME NEW c \in Callers, FnEnds(c) PROVE FileIsOwners'
  BY <1>5 DEF FnEnds, GoTo
<1>6. ASSUME NEW c \in Callers, Unlink(c) PROVE FileIsOwners'
  BY <1>6 DEF Unlink, GoTo
<1>7. ASSUME NEW c \in Callers, Signal(c) PROVE FileIsOwners'
  BY <1>7 DEF Signal, GoTo
<1>8. ASSUME NEW p \in Processes, Die(p) PROVE FileIsOwners'
  BY <1>8 DEF Die
<1>9. CASE UNCHANGED vars
  BY <1>9 DEF vars
<1> QED
  BY <1>1, <1>2, <1>3, <1>4, <1>5, <1>6, <1>7, <1>8, <1>9 DEF Next, Step

\* withRepoLock excludes: two calls never own the repository together.
THEOREM Exclusion == Spec => []OneOwner
<1>1. Init => FileIsOwners
  BY DEF Init, FileIsOwners, Owning
<1>2. RepoLockTypeOK /\ FileIsOwners /\ [Next]_vars => FileIsOwners'
  BY FileStep
<1>3. FileIsOwners => OneOwner
  BY DEF FileIsOwners, OneOwner
<1> QED
  BY RepoLockTypeCorrect, <1>1, <1>2, <1>3, PTL DEF Spec

-----------------------------------------------------------------------------
(* The queue.  A call knows only the one before it, and tail only the last  *)
(* one; that the calls of a process take turns follows from what the links  *)
(* form: a line without branches, with one front and tail at its end.        *)

Live == {c \in Callers : place[c] \notin {"idle"} \cup Finished}

\* Nobody is before c, or nobody any more.
InFront(c) == prev[c] = Nobody \/ place[prev[c]] = "returned"

TailLive == \A p \in Processes : tail[p] # Nobody => tail[p] \in Unfinished(p)

EmptyNoTail == \A p \in Processes : tail[p] = Nobody => Unfinished(p) = {}

LinksKnown == \A c \in Live :
  prev[c] # Nobody => Home[prev[c]] = Home[c] /\ place[prev[c]] \notin {"idle", "dead"}

OneSuccessor == \A c, d \in Live : prev[c] # Nobody /\ prev[c] = prev[d] => c = d

TailLast == \A c \in Live : prev[c] # Nobody => prev[c] # tail[Home[c]]

OneFront == \A c, d \in Live : Home[c] = Home[d] /\ InFront(c) /\ InFront(d) => c = d

TurnIsFront == \A c \in Callers : place[c] \in Turn => InFront(c)

\* The links have no cycle: every set of calls has one that comes after none of them.
NoCycle == \A S \in SUBSET Live : S # {} => \E c \in S : prev[c] \notin S

LineInv == /\ TailLive /\ EmptyNoTail /\ LinksKnown /\ OneSuccessor /\ TailLast
           /\ OneFront /\ TurnIsFront /\ NoCycle

\* A call that has not finished goes on to another place: the line is the same.
LEMMA MoveStep ==
  ASSUME RepoLockTypeOK, LineInv, NEW c \in Live,
         NEW there \in Turn, place' = [place EXCEPT ![c] = there],
         InFront(c), UNCHANGED <<prev, tail>>
  PROVE  LineInv'
<1> USE DEF RepoLockTypeOK, Turn, Owning, Finished
<1>1. Live' = Live
  BY DEF Live
<1>2. \A d \in Callers : /\ place'[d] \in {"idle", "dead"} <=> place[d] \in {"idle", "dead"}
                         /\ place'[d] = "returned" <=> place[d] = "returned"
  BY DEF Live
<1>3. \A d \in Callers : InFront(d)' <=> InFront(d)
  BY <1>2 DEF InFront
<1>4. \A p \in Processes : Unfinished(p)' = Unfinished(p)
  BY DEF Unfinished, Live
<1>5. LinksKnown'
  <2> SUFFICES ASSUME NEW d \in Live, prev[d] # Nobody
               PROVE  Home[prev[d]] = Home[d] /\ place'[prev[d]] \notin {"idle", "dead"}
    BY <1>1 DEF LinksKnown
  <2> QED
    BY <1>2 DEF LineInv, LinksKnown, Live
<1>6. TurnIsFront'
  BY <1>3 DEF LineInv, TurnIsFront, Live
<1>7. TailLive' /\ EmptyNoTail'
  BY <1>4 DEF LineInv, TailLive, EmptyNoTail
<1>8. OneSuccessor' /\ TailLast' /\ NoCycle'
  BY <1>1 DEF LineInv, OneSuccessor, TailLast, NoCycle
<1>9. OneFront'
  BY <1>1, <1>3 DEF LineInv, OneFront, Live
<1> QED
  BY <1>5, <1>6, <1>7, <1>8, <1>9 DEF LineInv

\* A newcomer gets in at the end.
LEMMA EnterStep ==
  ASSUME RepoLockTypeOK, LineInv, NEW c \in Callers, Enter(c)
  PROVE  LineInv'
<1> USE DEF RepoLockTypeOK, Turn, Owning, Finished
<1> DEFINE p == Home[c]
<1>1. /\ place[c] = "idle" /\ place' = [place EXCEPT ![c] = "waiting"]
      /\ prev' = [prev EXCEPT ![c] = tail[p]]
      /\ tail' = [tail EXCEPT ![p] = c]
      /\ p \in Processes
  BY DEF Enter, GoTo
<1>2. Live' = Live \cup {c} /\ c \notin Live
  BY <1>1 DEF Live
<1>3. \A d \in Live : prev'[d] = prev[d] /\ prev[d] # c
  BY <1>1, <1>2 DEF LineInv, LinksKnown, Live
<1>4. prev'[c] = tail[p] /\ tail[p] # c
  BY <1>1 DEF LineInv, TailLive, Unfinished
<1>5. \A q \in Processes : Unfinished(q)' = IF q = p THEN Unfinished(q) \cup {c} ELSE Unfinished(q)
  BY <1>1 DEF Unfinished
<1>6. TailLive' /\ EmptyNoTail'
  BY <1>1, <1>5 DEF LineInv, TailLive, EmptyNoTail
<1>7. LinksKnown'
  <2>1. ASSUME NEW d \in Live, prev[d] # Nobody
        PROVE  Home[prev[d]] = Home[d] /\ place'[prev[d]] \notin {"idle", "dead"}
    BY <1>1, <2>1 DEF LineInv, LinksKnown, Live
  <2>2. ASSUME tail[p] # Nobody
        PROVE  Home[tail[p]] = p /\ place'[tail[p]] \notin {"idle", "dead"}
    BY <1>1, <1>4, <2>2 DEF LineInv, TailLive, Unfinished
  <2> QED
    BY <1>2, <1>3, <1>4, <2>1, <2>2 DEF LinksKnown
<1>8. OneSuccessor' /\ TailLast'
  <2>1. \A d \in Live : prev[d] # Nobody => prev[d] # tail[p]
    BY <1>1 DEF LineInv, TailLast, LinksKnown, TailLive, Unfinished, Live
  <2> QED
    BY <1>1, <1>2, <1>3, <1>4, <2>1 DEF LineInv, OneSuccessor, TailLast, Live
<1>9. OneFront'
  <2>1. \A d \in Live : InFront(d)' <=> InFront(d)
    BY <1>1, <1>2, <1>3 DEF InFront, Live
  <2>2. tail[p] = Nobody => Unfinished(p) = {}
    BY <1>1 DEF LineInv, EmptyNoTail
  <2>3. tail[p] # Nobody => ~InFront(c)'
    BY <1>1, <1>4 DEF InFront, LineInv, TailLive, Unfinished
  <2>4. \A d \in Live : Home[d] = p => d \in Unfinished(p)
    BY DEF Live, Unfinished
  <2> QED
    BY <1>2, <2>1, <2>2, <2>3, <2>4 DEF LineInv, OneFront
<1>10. TurnIsFront'
  BY <1>1, <1>2, <1>3 DEF LineInv, TurnIsFront, InFront, Live
<1>11. NoCycle'
  <2> SUFFICES ASSUME NEW S \in SUBSET (Live \cup {c}), S # {}
               PROVE  \E d \in S : prev'[d] \notin S
    BY <1>2 DEF NoCycle
  <2>1. CASE S \subseteq Live
    BY <2>1, <1>3 DEF LineInv, NoCycle
  <2>2. CASE S = {c}
    BY <2>2, <1>4
  <2>3. CASE S \ {c} # {}
    <3>1. PICK d \in S \ {c} : prev[d] \notin S \ {c}
      BY <2>3 DEF LineInv, NoCycle
    <3> QED
      BY <3>1, <1>3
  <2> QED
    BY <2>1, <2>2, <2>3
<1> QED
  BY <1>6, <1>7, <1>8, <1>9, <1>10, <1>11 DEF LineInv

\* The head goes, and the next one becomes the head.
LEMMA SignalStep ==
  ASSUME RepoLockTypeOK, LineInv, NEW c \in Callers, Signal(c)
  PROVE  LineInv'
<1> USE DEF RepoLockTypeOK, Turn, Owning, Finished
<1> DEFINE p == Home[c]
<1>1. /\ place[c] = "signalling" /\ place' = [place EXCEPT ![c] = "returned"]
      /\ prev' = prev
      /\ tail' = [tail EXCEPT ![p] = IF tail[p] = c THEN Nobody ELSE tail[p]]
      /\ p \in Processes
  BY DEF Signal, GoTo
<1>2. Live' = Live \ {c} /\ c \in Live
  BY <1>1 DEF Live
<1>3. InFront(c)
  BY <1>1 DEF LineInv, TurnIsFront
<1>4. \A q \in Processes : Unfinished(q)' = Unfinished(q) \ {c}
  BY <1>1 DEF Unfinished
<1>5. \A d \in Live : d # c /\ Home[d] = p =>
        /\ ~InFront(d)
        /\ prev[d] \in Live /\ Home[prev[d]] = p
  BY <1>2, <1>3 DEF LineInv, OneFront, LinksKnown, InFront, Live
<1>6. tail[p] = c => Unfinished(p) = {c}
  <2> SUFFICES ASSUME tail[p] = c, Unfinished(p) \ {c} # {} PROVE FALSE
    BY <1>2 DEF Unfinished, Live
  <2>1. Unfinished(p) \ {c} \in SUBSET Live
    BY DEF Unfinished, Live
  <2>2. PICK d \in Unfinished(p) \ {c} : prev[d] \notin Unfinished(p) \ {c}
    BY <2>1 DEF LineInv, NoCycle
  <2>3. d \in Live /\ d # c /\ Home[d] = p
    BY DEF Unfinished, Live
  <2>4. prev[d] = c
    BY <1>5, <2>2, <2>3 DEF Unfinished, Live
  <2> QED
    BY <2>3, <2>4 DEF LineInv, TailLast
<1>7. TailLive' /\ EmptyNoTail'
  <2>1. \A q \in Processes : q # p => c \notin Unfinished(q)
    BY DEF Unfinished
  <2> QED
    BY <1>1, <1>4, <1>6, <2>1 DEF LineInv, TailLive, EmptyNoTail
<1>8. LinksKnown'
  BY <1>1, <1>2 DEF LineInv, LinksKnown, Live
<1>9. OneSuccessor' /\ NoCycle'
  BY <1>1, <1>2 DEF LineInv, OneSuccessor, NoCycle
<1>10. TailLast'
  <2> SUFFICES ASSUME NEW d \in Live, prev[d] # Nobody
               PROVE  prev[d] # tail'[Home[d]]
    BY <1>1, <1>2 DEF TailLast
  <2> QED
    BY <1>1 DEF LineInv, TailLast, Live
<1>11. \A d \in Live \ {c} : Home[d] # p => (InFront(d)' <=> InFront(d))
  BY <1>1 DEF InFront, LineInv, LinksKnown, Live
<1>12. \A d \in Live \ {c} : Home[d] = p => (InFront(d)' <=> prev[d] = c)
  BY <1>1, <1>5 DEF InFront, Live
<1>13. OneFront'
  <2> SUFFICES ASSUME NEW d \in Live \ {c}, NEW e \in Live \ {c},
                      Home[d] = Home[e], InFront(d)', InFront(e)'
               PROVE  d = e
    BY <1>2 DEF OneFront
  <2>1. CASE Home[d] = p
    BY <2>1, <1>12 DEF LineInv, OneSuccessor
  <2>2. CASE Home[d] # p
    BY <2>2, <1>11 DEF LineInv, OneFront
  <2> QED
    BY <2>1, <2>2
<1>14. TurnIsFront'
  BY <1>1, <1>2 DEF LineInv, TurnIsFront, InFront, Live
<1> QED
  BY <1>7, <1>8, <1>9, <1>10, <1>13, <1>14 DEF LineInv

\* All calls of a process go, and with them its queue.
LEMMA DieStep ==
  ASSUME RepoLockTypeOK, LineInv, NEW p \in Processes, Die(p)
  PROVE  LineInv'
<1> USE DEF RepoLockTypeOK, Turn, Owning, Finished
<1>1. /\ \A c \in Callers : place'[c] = IF Home[c] = p /\ place[c] # "idle" /\ place[c] # "returned"
                                        THEN "dead" ELSE place[c]
      /\ prev' = prev
      /\ tail' = [tail EXCEPT ![p] = Nobody]
  BY DEF Die
<1>2. Live' = {c \in Live : Home[c] # p}
  BY <1>1 DEF Live
<1>3. \A q \in Processes : Unfinished(q)' = IF q = p THEN {} ELSE Unfinished(q)
  BY <1>1 DEF Unfinished
<1>4. TailLive' /\ EmptyNoTail'
  BY <1>1, <1>3 DEF LineInv, TailLive, EmptyNoTail
<1>5. LinksKnown' /\ TailLast'
  BY <1>1, <1>2 DEF LineInv, LinksKnown, TailLast, Live
<1>6. OneSuccessor' /\ NoCycle'
  BY <1>1, <1>2 DEF LineInv, OneSuccessor, NoCycle
<1>7. \A c \in Live' : InFront(c)' => InFront(c)
  BY <1>1, <1>2 DEF InFront, LineInv, LinksKnown, Live
<1>8. OneFront'
  BY <1>2, <1>7 DEF LineInv, OneFront
<1>9. TurnIsFront'
  BY <1>1 DEF LineInv, TurnIsFront, InFront, LinksKnown, Live
<1> QED
  BY <1>4, <1>5, <1>6, <1>8, <1>9 DEF LineInv

LEMMA LineStep ==
  ASSUME RepoLockTypeOK, LineInv, [Next]_vars
  PROVE  LineInv'
<1>1. ASSUME NEW c \in Callers, Proceed(c) PROVE LineInv'
  <2>1. InFront(c) /\ c \in Live
    BY <1>1 DEF Proceed, GoTo, InFront, Live, Finished
  <2> QED
    BY <1>1, <2>1, MoveStep DEF Proceed, GoTo, Turn
<1>2. ASSUME NEW c \in Callers, OpenFile(c) \/ OpenFails(c) \/ FnEnds(c) \/ Unlink(c)
      PROVE  LineInv'
  <2>1. place[c] \in Turn \ {"signalling"} /\ UNCHANGED <<prev, tail>>
    BY <1>2 DEF OpenFile, OpenFails, FnEnds, Unlink, GoTo, Turn, Owning
  <2>2. InFront(c) /\ c \in Live
    BY <2>1 DEF LineInv, TurnIsFront, Live, Turn, Owning, Finished
  <2>3. \/ \E there \in Turn : place' = [place EXCEPT ![c] = there]
        \/ place' = place
    BY <1>2 DEF OpenFile, OpenFails, FnEnds, Unlink, GoTo, Turn, Owning
  <2>4. place' = place => place' = [place EXCEPT ![c] = place[c]]
    BY DEF RepoLockTypeOK
  <2> QED
    BY <2>1, <2>2, <2>3, <2>4, MoveStep
<1>3. CASE UNCHANGED vars
  BY <1>3 DEF vars, LineInv, TailLive, EmptyNoTail, LinksKnown, OneSuccessor, TailLast,
              OneFront, TurnIsFront, NoCycle, Live, InFront, Unfinished
<1> QED
  BY <1>1, <1>2, <1>3, EnterStep, SignalStep, DieStep DEF Next, Step

LEMMA LineInvariant == Spec => []LineInv
<1>1. Init => LineInv
  BY DEF Init, LineInv, TailLive, EmptyNoTail, LinksKnown, OneSuccessor, TailLast,
         OneFront, TurnIsFront, NoCycle, Live, InFront, Unfinished, Turn, Owning
<1>2. RepoLockTypeOK /\ LineInv /\ [Next]_vars => LineInv'
  BY LineStep
<1> QED
  BY RepoLockTypeCorrect, <1>1, <1>2, PTL DEF Spec

\* Calls of one process take turns: inProcessQueues serialises them.
THEOREM Turns == Spec => []OneTurn
<1>1. LineInv => OneTurn
  BY DEF LineInv, TurnIsFront, OneFront, OneTurn, Live, Turn, Owning, Finished
<1> QED
  BY LineInvariant, <1>1, PTL

\* A queue has an entry exactly as long as a call of its process is not finished.
THEOREM QueueIsExact == Spec => []QueueExact
<1>1. RepoLockTypeOK /\ LineInv => QueueExact
  BY DEF RepoLockTypeOK, LineInv, TailLive, EmptyNoTail, QueueExact
<1> QED
  BY RepoLockTypeCorrect, LineInvariant, <1>1, PTL
=============================================================================
