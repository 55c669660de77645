-------------------------------- MODULE Setup --------------------------------
(***************************************************************************)
(* The setup wizard of the dashboard: a token is checked, a repository is  *)
(* chosen, its labels are made, and config.yml is previewed and written    *)
(* (server/public/js/setup.js, server/routes/setup.ts).  Answers arrive in *)
(* any order and while the user has gone on or back.                       *)
(***************************************************************************)
EXTENDS Integers, FiniteSets, TLC

CONSTANTS
  Tokens, Valid,  \* the valid ones are a subset
  Repos,          \* Repos[t]: what a valid token sees
  None,
  MaxAsks,        \* bound: requests of each kind
  MaxFailures     \* bound: requests that fail on the way

VARIABLES
  field,    \* [token, typing]: the token field; its debounce timer runs
  wizard,   \* [step, token, repo, labels]: _setupCurrentStep, _setupWizardData
  shown,    \* [options, next1, checking, next3, preview, apply]: what the page offers
  asked,    \* requests under way: [kind, number] and what each sends
  asks,     \* requests of each kind, and failures, so far: [sent, failed]
  config,   \* the repository of config.yml
  made,     \* <<repository, label>> at GitHub
  refused,  \* repositories whose labels step 3 has shown to have failed
  hurried   \* repositories with which step 3 was left before their labels' answer

world == <<config, made, refused, hurried>>
setupVars == <<field, wizard, shown, asked, asks, world>>

AllRepos == UNION {Repos[t] : t \in Tokens}
Default == {"aqm-by"}

SetupInit ==
  /\ field = [token |-> None, typing |-> FALSE]
  /\ wizard = [step |-> 1, token |-> None, repo |-> None, labels |-> {}]
  /\ shown = [options |-> {}, next1 |-> FALSE, checking |-> FALSE, next3 |-> FALSE,
              preview |-> None, apply |-> FALSE]
  /\ asked = {} /\ asks = [sent |-> [k \in DOMAIN MaxAsks |-> 0], failed |-> 0]
  /\ config = None /\ made = {} /\ refused = {} /\ hurried = {}

\* data is what the request has in it: the token, the repository, or more.
Sends(kind, data) ==
  /\ asks.sent[kind] < MaxAsks[kind] /\ asks' = [asks EXCEPT !.sent[kind] = @ + 1]
  /\ asked' = asked \cup {[kind |-> kind, number |-> asks'.sent[kind]] @@ data}

Answered(q, kind) == q \in asked /\ q.kind = kind /\ asked' = asked \ {q}

Lost == asks.failed < MaxFailures /\ asks' = [asks EXCEPT !.failed = @ + 1]

-----------------------------------------------------------------------------
(* Step 1: the token.                                                      *)

\* The input listener of initSetupView.
Type(t) ==
  /\ wizard.step = 1 /\ t # field.token
  /\ field' = [token |-> t, typing |-> TRUE]
  /\ UNCHANGED <<wizard, shown, asked, asks, world>>

\* validateGitHubToken, from the timer or from its button.
ValidateGitHubToken ==
  /\ field.typing \/ (wizard.step = 1 /\ field.token # None /\ ~shown.checking)
  /\ field' = [field EXCEPT !.typing = FALSE]
  /\ Sends("token", [token |-> field.token])
  /\ shown' = [shown EXCEPT !.checking = TRUE]
  /\ UNCHANGED <<wizard, world>>

\* GET /api/setup/validate-token; the last answer counts, of whichever token.
TokenValidated(q) ==
  /\ Answered(q, "token")
  /\ \/ /\ q.token \in Valid /\ wizard' = [wizard EXCEPT !.token = q.token]
        /\ shown' = [shown EXCEPT !.checking = FALSE, !.next1 = TRUE] /\ UNCHANGED asks
     \/ /\ q.token \notin Valid /\ UNCHANGED <<wizard, asks>>
        /\ shown' = [shown EXCEPT !.checking = FALSE, !.next1 = FALSE]
     \/ /\ Lost /\ UNCHANGED wizard
        /\ shown' = [shown EXCEPT !.checking = FALSE, !.next1 = FALSE]
  /\ UNCHANGED <<field, world>>

-----------------------------------------------------------------------------
(* Steps, and what setupGoToStep does at each.                             *)

\* setupLoadRepos: the list is emptied, and filled by every answer.
SetupLoadRepos(data) ==
  /\ wizard' = [data EXCEPT !.step = 2]
  /\ shown' = [shown EXCEPT !.options = {}]
  /\ Sends("repos", [token |-> data.token])

LabelsOf(data) == [token |-> data.token, repo |-> data.repo,
                   labels |-> IF data.labels = {} THEN Default ELSE data.labels]

\* setupRunLabelCreation.
SetupRunLabelCreation(data) ==
  /\ wizard' = [data EXCEPT !.step = 3]
  /\ shown' = [shown EXCEPT !.next3 = FALSE]
  /\ Sends("labels", LabelsOf(data))

\* The next button of step 1.
Step1Next ==
  /\ wizard.step = 1 /\ shown.next1
  /\ SetupLoadRepos(wizard)
  /\ UNCHANGED <<field, world>>

\* GET /api/setup/repos.
ReposLoaded(q) ==
  /\ Answered(q, "repos")
  /\ \/ shown' = [shown EXCEPT !.options = @ \cup Repos[q.token]] /\ UNCHANGED asks
     \/ Lost /\ UNCHANGED shown
  /\ UNCHANGED <<field, wizard, world>>

\* Mutant: step 3 is entered before the repository is noted.
SetupStep2NextEarly(r) ==
  /\ wizard.step = 2 /\ r \in shown.options
  /\ wizard' = [wizard EXCEPT !.step = 3, !.repo = r]
  /\ shown' = [shown EXCEPT !.next3 = FALSE]
  /\ Sends("labels", LabelsOf(wizard))
  /\ UNCHANGED <<field, world>>

\* setupStep2Next.
SetupStep2Next(r) ==
  /\ wizard.step = 2 /\ r \in shown.options
  /\ SetupRunLabelCreation([wizard EXCEPT !.repo = r])
  /\ UNCHANGED <<field, world>>

\* The list of step 3 says that the labels of r have failed.
Says(r) == refused' = IF wizard.step = 3 /\ wizard.repo = r THEN refused \cup {r} ELSE refused

\* POST /api/setup/labels: each label is made unless it is there.  A token
\* makes labels only where it sees the repository; an answer may get lost
\* after the labels were made.  Whatever step is shown, the answer of any visit
\* to step 3 turns its Next button on; the user reads it there only.
LabelsCreated(q) ==
  /\ Answered(q, "labels")
  /\ \/ /\ q.repo \in Repos[q.token]
        /\ made' = made \cup ({q.repo} \X q.labels)
        /\ UNCHANGED <<asks, refused>>
     \/ /\ q.repo \in Repos[q.token]
        /\ made' \in {made, made \cup ({q.repo} \X q.labels)}
        /\ Lost /\ Says(q.repo)
     \/ /\ q.repo \notin Repos[q.token] /\ Says(q.repo)
        /\ UNCHANGED <<asks, made>>
  /\ shown' = [shown EXCEPT !.next3 = TRUE]
  /\ UNCHANGED <<field, wizard, config, hurried>>

\* setupStep3Next.  What step 4 asks for is sent nowhere; its labels are made
\* if the user goes back to step 3.
SetupStep3Next ==
  /\ wizard.step = 3 /\ shown.next3
  /\ wizard' = [wizard EXCEPT !.step = 4, !.labels = IF @ = {} THEN Default ELSE @]
  /\ hurried' = IF \E q \in asked : q.kind = "labels" /\ q.repo = wizard.repo
                THEN hurried \cup {wizard.repo} ELSE hurried
  /\ UNCHANGED <<field, shown, asked, asks, config, made, refused>>

\* _setupAddChip, _setupRemoveChip of the label list.
Chip(l) ==
  /\ wizard.step = 4
  /\ wizard' = [wizard EXCEPT !.labels = IF l \in @ THEN @ \ {l} ELSE @ \cup {l}]
  /\ UNCHANGED <<field, shown, asked, asks, world>>

\* setupStep4Next and setupLoadPreview.
SetupStep4Next ==
  /\ wizard.step = 4
  /\ wizard' = [wizard EXCEPT !.step = 5]
  /\ shown' = [shown EXCEPT !.preview = None, !.apply = FALSE]
  /\ Sends("preview", [repo |-> wizard.repo])
  /\ UNCHANGED <<field, world>>

\* POST /api/setup/preview; a failure leaves the button off.
PreviewLoaded(q) ==
  /\ Answered(q, "preview")
  /\ \/ shown' = [shown EXCEPT !.preview = q.repo, !.apply = TRUE] /\ UNCHANGED asks
     \/ Lost /\ UNCHANGED shown
  /\ UNCHANGED <<field, wizard, world>>

\* setupApplyConfig.
SetupApplyConfig ==
  /\ wizard.step = 5 /\ shown.apply
  /\ shown' = [shown EXCEPT !.apply = FALSE]
  /\ Sends("apply", [repo |-> wizard.repo])
  /\ UNCHANGED <<field, wizard, world>>

\* POST /api/setup/apply; the page leaves the wizard (step 6).
ConfigApplied(q) ==
  /\ Answered(q, "apply")
  /\ \/ /\ config' = q.repo /\ UNCHANGED <<shown, asks>>
        /\ wizard' = [wizard EXCEPT !.step = 6]
     \/ /\ Lost /\ config' \in {config, q.repo}
        /\ shown' = [shown EXCEPT !.apply = TRUE] /\ UNCHANGED wizard
  /\ UNCHANGED <<field, made, refused, hurried>>

\* The back buttons, which go through setupGoToStep as well.
Back ==
  /\ \/ /\ wizard.step \in {2, 5}
        /\ wizard' = [wizard EXCEPT !.step = @ - 1] /\ UNCHANGED <<shown, asked, asks>>
     \/ wizard.step = 3 /\ SetupLoadRepos(wizard)
     \/ wizard.step = 4 /\ SetupRunLabelCreation(wizard)
  /\ UNCHANGED <<field, world>>

-----------------------------------------------------------------------------
SetupNext ==
  \/ \E t \in Tokens : Type(t)
  \/ ValidateGitHubToken \/ Step1Next \/ SetupStep3Next \/ SetupStep4Next
  \/ SetupApplyConfig \/ Back
  \/ \E r \in AllRepos : SetupStep2Next(r)
  \/ \E l \in Default \cup {"other"} : Chip(l)
  \/ \E q \in asked : \/ TokenValidated(q) \/ ReposLoaded(q) \/ LabelsCreated(q)
                      \/ PreviewLoaded(q) \/ ConfigApplied(q)

\* Requests are answered or fail.
SetupFairness ==
  /\ WF_setupVars(\E q \in asked : TokenValidated(q))
  /\ WF_setupVars(\E q \in asked : LabelsCreated(q))
  /\ WF_setupVars(\E q \in asked : ConfigApplied(q))

SetupSpec == SetupInit /\ [][SetupNext]_setupVars /\ SetupFairness

-----------------------------------------------------------------------------
\* The wizard can go on, and what it has set up is complete.
SetupRight ==
  /\ ~shown.checking
  /\ wizard.step = 3 => shown.next3
  /\ config # None =>
       \/ config \in refused \cup hurried
       \/ \E l \in Default \cup {"other"} : <<config, l>> \in made

\* However the user goes back and forth, and in whatever order the answers
\* come: the buttons of steps 1 and 3 come back, and the repository that is
\* written to config.yml gets a label, or step 3 has shown that it could not
\* make them.  Nobody is told who went on before the answer: the answer of an
\* earlier visit, for another repository too, lets the user leave step 3.
SetupCompletes == <>[]SetupRight
=============================================================================
