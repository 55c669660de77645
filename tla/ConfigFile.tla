----------------------------- MODULE ConfigFile -----------------------------
(***************************************************************************)
(* The life of the configuration: config.yml, config.local.yml and the     *)
(* user's own ~/.ai-quartermaster/config.yml, those who write them         *)
(* (editors, the settings pages, `aqm init', the setup page), the daemon's *)
(* copies of them and what it has set up from them                         *)
(* (config/loader.ts, validator.ts, config-watcher.ts, server/routes/      *)
(* config.ts, projects.ts, the hot reload of cli.ts).  Of all settings the *)
(* model keeps the concurrency, the limits of projects and the automations.*)
(***************************************************************************)
EXTENDS Integers, Functions

CONSTANTS
  Pages,      \* settings pages
  Repos,      \* repositories that may be projects
  Conc,       \* values of general.concurrency, the default among them
  Default,    \* the one of defaults.ts
  None,       \* no value
  NoList,     \* an object where a list of rules should be
  Broken,     \* a file that does not parse, or holds an illegal value
  HandFiles,  \* what an editor may leave in config.yml
  Interval,   \* aqm start was given --interval
  Settled,    \* nobody changes a file in the 100 ms a change waits to be loaded
  MaxChanges  \* bound: changes of the files

VARIABLES
  base,       \* config.yml: [broken, full, conc, limits, rules]
  local,      \* general.concurrency in config.local.yml, None or Broken
  user,       \* the same of the user's own file
  watch,      \* watcher of config.yml: "on", "restarting", or "lost"
  pending,    \* pendingChanges is not empty, the debounce timer runs
  unnoticed,  \* files that have changed when no watcher was on: "base", "user"
  cached,     \* ConfigWatcher.cachedConfig
  effective,  \* effectiveConfig of the daemon
  applied,    \* what queue and scheduler have been told: [conc, limits, rules]
  form,       \* currentConfig of a page, or None
  answer,     \* to the last save of a page
  changes

files == <<base, local, user, watch, pending, unnoticed, changes>>
daemon == <<cached, effective, applied>>
pages == <<form, answer>>
configVars == <<files, daemon, pages>>

-----------------------------------------------------------------------------
(* Loading.                                                                *)

\* defaults.ts < the user's file < config.yml < config.local.yml.  Neither AQM_
\* variables nor --config-override are given to any loadConfig.
Load(u, b, l) == [conc   |-> IF l # None THEN l ELSE IF b.conc # None THEN b.conc
                             ELSE IF u # None THEN u ELSE Default,
                  limits |-> b.limits,
                  rules  |-> b.rules]

\* Parsed and valid; there must be a project.
LoadConfigSucceeds(u, b, l) == u # Broken /\ ~b.broken /\ l # Broken /\ DOMAIN b.limits # {}

\* updateConfigSection validates config.yml by itself, without the defaults and
\* the user's file: one that leaves sections out does not pass.
UpdateSucceeds(b) == ~b.broken /\ b.full /\ DOMAIN b.limits # {} /\ b.rules # NoList

Limits(c) == [r \in Repos |-> IF r \in DOMAIN c.limits THEN c.limits[r] ELSE None]

Told(c) == [conc |-> c.conc, limits |-> Limits(c), rules |-> c.rules]

ConfigInit ==
  /\ base \in HandFiles /\ local \in Conc \cup {None} /\ user \in Conc \cup {None}
  /\ LoadConfigSucceeds(user, base, local)
  /\ watch = "on" /\ pending = FALSE /\ unnoticed = {} /\ changes = 0
  /\ cached = Load(user, base, local)
  /\ effective = [config |-> cached, interval |-> Interval]
  /\ applied = Told(cached)
  /\ form = [p \in Pages |-> None] /\ answer = [p \in Pages |-> "none"]

-----------------------------------------------------------------------------
(* The watcher.                                                            *)

\* Bound, and the assumption on how close changes come.
MayChange == changes < MaxChanges /\ (Settled => ~pending)

\* handleFileEvent; an event nobody watches for is lost.
Noticed(file, on) ==
  /\ changes' = changes + 1
  /\ IF on THEN pending' = TRUE /\ UNCHANGED unnoticed
           ELSE unnoticed' = unnoticed \cup {file} /\ UNCHANGED pending

Written(b) == base' = b /\ Noticed("base", watch = "on") /\ UNCHANGED <<local, user, watch>>

\* handleWatcherError and restartWatcher, a second later; the retries are
\* counted from zero again each time.
WatcherFails ==
  /\ watch = "on" /\ changes < MaxChanges
  /\ watch' = "restarting" /\ changes' = changes + 1
  /\ UNCHANGED <<base, local, user, pending, unnoticed, daemon, pages>>

RestartWatcher ==
  /\ watch = "restarting" /\ watch' = "on"
  /\ UNCHANGED <<base, local, user, pending, unnoticed, changes, daemon, pages>>

\* applyConfigChanges tells the queue and the scheduler what is new compared
\* with what the daemon believes.
ApplyConfigChanges(old, new) ==
  applied' =
    [conc   |-> IF new.conc # old.conc THEN new.conc ELSE applied.conc,
     limits |-> [r \in Repos |-> IF Limits(new)[r] # Limits(old)[r] THEN Limits(new)[r] ELSE applied.limits[r]],
     rules  |-> IF new.rules # old.rules THEN new.rules ELSE applied.rules]

\* Mutant: the handler does not keep what it has applied.
EmitWithoutKeeping ==
  /\ pending /\ pending' = FALSE
  /\ IF LoadConfigSucceeds(user, base, local)
     THEN /\ cached' = Load(user, base, local)
          /\ ApplyConfigChanges(effective.config, cached')
          /\ unnoticed' = unnoticed \ {"user"}
          /\ UNCHANGED effective
     ELSE UNCHANGED <<unnoticed, daemon>>
  /\ UNCHANGED <<base, local, user, watch, changes, pages>>

\* The debounce timer: emitConfigChanged and the daemon's handler, to which
\* a configuration that does not load is no change.  All files are read anew.
EmitConfigChanged ==
  /\ pending /\ pending' = FALSE
  /\ IF LoadConfigSucceeds(user, base, local)
     THEN /\ cached' = Load(user, base, local)
          /\ ApplyConfigChanges(effective.config, cached')
          /\ effective' = [config |-> cached', interval |-> FALSE]
          /\ unnoticed' = unnoticed \ {"user"}
     ELSE UNCHANGED <<unnoticed, daemon>>
  /\ UNCHANGED <<base, local, user, watch, changes, pages>>

-----------------------------------------------------------------------------
(* Files changed by hand or by other processes.                            *)

\* An editor that replaces the file takes it away from the watcher, whose
\* last event that is.
HandEdit ==
  /\ MayChange
  /\ \E b \in HandFiles : base' = b
  /\ watch' \in {watch, "lost"}
  /\ Noticed("base", watch = "on")
  /\ UNCHANGED <<local, user, daemon, pages>>

\* config.local.yml is watched too, and its directory for its creation and
\* its end.
EditLocal ==
  /\ MayChange
  /\ \E l \in (Conc \cup {None, Broken}) \ {local} : local' = l
  /\ Noticed("local", TRUE)
  /\ UNCHANGED <<base, user, watch, daemon, pages>>

\* Nobody watches the user's own file.
EditUser ==
  /\ MayChange
  /\ \E u \in (Conc \cup {None, Broken}) \ {user} : user' = u
  /\ Noticed("user", FALSE)
  /\ UNCHANGED <<base, local, watch, daemon, pages>>

\* initProject of `aqm init', --force included, which adds a second entry:
\* the last one decides the limit.
InitProject(r) ==
  /\ MayChange /\ LoadConfigSucceeds(user, base, local)
  /\ Written([base EXCEPT !.limits = [q \in DOMAIN @ \cup {r} |-> IF q = r THEN None ELSE @[q]]])
  /\ UNCHANGED <<daemon, pages>>

\* /api/setup/apply writes a file of its own; the old one is kept as a backup.
SetupApply(r) ==
  /\ MayChange
  /\ Written([broken |-> FALSE, full |-> FALSE, conc |-> None, limits |-> [q \in {r} |-> None], rules |-> 0])
  /\ UNCHANGED <<daemon, pages>>

-----------------------------------------------------------------------------
(* The pages.                                                              *)

\* GET /api/config.
LoadSettings(p) ==
  /\ form[p] # cached
  /\ form' = [form EXCEPT ![p] = cached]
  /\ answer' = [answer EXCEPT ![p] = "none"]
  /\ UNCHANGED <<files, daemon>>

Answer(p, a) == answer' = [answer EXCEPT ![p] = a]

\* A body without rules, and one with them.
Plain(conc) == [conc |-> conc, rules |-> None]
WithRules(conc, rules) == [conc |-> conc, rules |-> rules]

\* PUT /api/config makes an object of everything in the body that is one to
\* JavaScript; a list is.  (The projects are dropped.)
Cleaned(body) == [body EXCEPT !.rules = IF @ = None THEN None ELSE NoList]

\* The queue is told the concurrency at once, the rest comes by the watcher.
\* What does not load because of another file is written all the same.
UpdateConfig(p, body) ==
  LET sent == Cleaned(body)
      new == [base EXCEPT !.conc = sent.conc, !.rules = IF sent.rules = None THEN @ ELSE sent.rules]
  IN  IF ~UpdateSucceeds(new)
      THEN Answer(p, "refused") /\ UNCHANGED <<files, daemon>>
      ELSE /\ Written(new)
           /\ UNCHANGED effective
           /\ IF LoadConfigSucceeds(user, new, local)
              THEN /\ cached' = Load(user, new, local)
                   /\ applied' = [applied EXCEPT !.conc = cached'.conc]
                   /\ Answer(p, "ok")
              ELSE /\ UNCHANGED <<cached, applied>>
                   /\ Answer(p, "failed")

\* saveSettings sends the sections general, safety and review whole, as the
\* page has them, with what its user has changed.
SaveSettings(p) ==
  /\ MayChange /\ form[p] # None
  /\ \E conc \in Conc :
       /\ UpdateConfig(p, Plain(conc))
       /\ form' = IF answer'[p] = "ok" THEN [form EXCEPT ![p].conc = conc] ELSE form

\* saveAutomationRules asks for the configuration and sends it back whole, with
\* its rules, a list even when it is empty; it looks at the answer no further.
\* So no rule is ever stored by a page: only config.yml itself brings them.
SaveAutomationRules(p) ==
  /\ MayChange
  /\ \E rules \in {0, 1} : UpdateConfig(p, WithRules(cached.conc, rules))
  /\ UNCHANGED form

\* A project's entry is edited in the text of the file, valid or not; then
\* the cache is refreshed, which fails when the result does not load.
Refreshed ==
  IF LoadConfigSucceeds(user, base', local) THEN cached' = Load(user, base', local) ELSE UNCHANGED cached

\* addProject: 409 for one that the cache knows.
AddProject(r) ==
  /\ MayChange /\ r \notin DOMAIN cached.limits
  /\ Written([base EXCEPT !.limits = [q \in DOMAIN @ \cup {r} |-> IF q = r THEN None ELSE @[q]]])
  /\ Refreshed
  /\ UNCHANGED <<effective, applied, pages>>

\* deleteProject: 404 for one that the cache does not know.  The last one
\* may go, too, and leaves a file that does not load.
RemoveProject(r) ==
  /\ MayChange /\ r \in DOMAIN cached.limits /\ r \in DOMAIN base.limits
  /\ Written([base EXCEPT !.limits = Restrict(@, DOMAIN @ \ {r})])
  /\ Refreshed
  /\ UNCHANGED <<effective, applied, pages>>

\* submitEditProject changes path, branch, mode and commands, never a limit.
UpdateProject(r) ==
  /\ MayChange /\ r \in DOMAIN cached.limits /\ r \in DOMAIN base.limits
  /\ Written(base)
  /\ Refreshed
  /\ UNCHANGED <<effective, applied, pages>>

-----------------------------------------------------------------------------
ConfigNext ==
  \/ EmitConfigChanged \/ WatcherFails \/ RestartWatcher \/ HandEdit \/ EditLocal \/ EditUser
  \/ \E r \in Repos : InitProject(r) \/ SetupApply(r) \/ AddProject(r) \/ RemoveProject(r) \/ UpdateProject(r)
  \/ \E p \in Pages : LoadSettings(p) \/ SaveSettings(p) \/ SaveAutomationRules(p)

ConfigFairness == WF_configVars(EmitConfigChanged) /\ WF_configVars(RestartWatcher)

ConfigSpec == ConfigInit /\ [][ConfigNext]_configVars /\ ConfigFairness

-----------------------------------------------------------------------------
\* The daemon runs with what the files say.
Following ==
  LoadConfigSucceeds(user, base, local) /\ unnoticed = {} =>
    cached = Load(user, base, local) /\ applied = Told(cached)

\* In the end the daemon runs with what the files say, when they load and
\* the watcher has seen every change of config.yml and one after the last of
\* the user's own file: the settings pages are shown it, and the queue and
\* the scheduler have been told it, however changes by hand, by pages and by
\* commands follow one another, and whatever was invalid in between.
ConfigFollowed == <>[]Following
=============================================================================
