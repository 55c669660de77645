----------------------------- MODULE IssueDesk -----------------------------
(***************************************************************************)
(* What the job queue promises of an issue, whoever asks for work on it:   *)
(* one piece of work at a time, known by a ticket.  Tickets are handed out *)
(* in order and never come back: once a piece of work is closed nothing    *)
(* reopens it, and the only way back from work to waiting is a restart of  *)
(* the process, which sends all work in progress back at once.             *)
(***************************************************************************)
EXTENDS Naturals

CONSTANTS Issues,
          Tickets       (* how many tickets there are                      *)

VARIABLES issued,       (* tickets handed out                              *)
          desk          (* the work of each issue                          *)

Free == [stage |-> "none", ticket |-> 0]
Work(s, t) == [stage |-> s, ticket |-> t]

Init == issued = 0 /\ desk = [i \in Issues |-> Free]

\* New work, for an issue that has none.
Accept(i) == /\ issued < Tickets
             /\ desk[i] = Free
             /\ issued' = issued + 1
             /\ desk' = [desk EXCEPT ![i] = Work("queued", issued')]

Begin(i) == /\ desk[i].stage = "queued"
            /\ desk' = [desk EXCEPT ![i].stage = "running"]
            /\ UNCHANGED issued

\* The work is done, has failed, or is called off.
Close(i) == /\ desk[i] # Free
            /\ desk' = [desk EXCEPT ![i] = Free]
            /\ UNCHANGED issued

SendBack == /\ desk' = [i \in Issues |-> IF desk[i] = Free THEN Free
                                         ELSE Work("queued", desk[i].ticket)]
            /\ UNCHANGED issued

Next == SendBack \/ \E i \in Issues : Accept(i) \/ Begin(i) \/ Close(i)

Spec == Init /\ [][Next]_<<issued, desk>>
=============================================================================
