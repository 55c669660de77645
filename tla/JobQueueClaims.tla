--------------------------- MODULE JobQueueClaims ---------------------------
(***************************************************************************)
(* What the repository's documents say of the queue and the code does not  *)
(* keep: the formula is violated by a run.                                 *)
(***************************************************************************)
EXTENDS JobQueue

\* docs/implementation-order.md:527: the queue prevents one issue from being
\* worked on twice at once.  cancel() and the stuck monitor end the job but
\* not its handler, and a retry starts a second one for the same issue.
OneHandlerPerIssue ==
  \A j, k \in executing : IssueOf(j) = IssueOf(k) => j = k
=============================================================================
