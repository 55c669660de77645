---------------------------- MODULE SettingsForm ----------------------------
(***************************************************************************)
(* One settings page, from the configuration it loads to the one it saves  *)
(* (server/public/js/render-settings.js and the settings part of app.js).  *)
(* The page shows a setting in up to three of its forms at a time: the     *)
(* tabs general and safety, the fields for Claude's turns, the JSON cards  *)
(* of the Advanced tab and the fields of the Basic tab, which come from an *)
(* answer of their own.  Five settings stand for them all:                 *)
(*   "conc"    general.concurrency, a tab's number and a Basic number      *)
(*   "owners"  general.instanceOwners, names in a tab, chips in Basic      *)
(*   "turns"   commands.claudeCli.maxTurns, a field, a Basic number        *)
(*   "paths"   safety.sensitivePaths, JSON in a tab and in a card          *)
(*   "mode"    executionMode, a Basic dropdown                             *)
(* Their values are 1 and 2; 0 is what no program accepts: an empty number *)
(* or a text that is not JSON.                                             *)
(***************************************************************************)
EXTENDS Integers, Sequences, SequencesExt

CONSTANTS
  Presets,    \* name -> its fields: a function from settings to values
  First,      \* the configuration when the page is opened
  Others,     \* settings that other pages change
  Overtakes,  \* an answer may overtake an earlier one
  MaxWork     \* bound: changes of fields, presets applied, saves, failures

Tab   == {"conc", "owners", "paths"}
Cli   == {"turns"}
Cards == {"paths"}
Basic == {"conc", "owners", "turns", "mode"}
Chips == {"owners"}
Settings == Tab \cup Cli \cup Cards \cup Basic
Bad == 0
Values == {Bad, 1, 2}
NoChip == "none"
Nothing == [p \in {} |-> Bad]

\* config/presets.ts: a preset sets fields of the Basic tab, none of them chips.
ASSUME FormAssumption ==
  /\ First \in [Settings -> Values \ {Bad}] /\ Others \subseteq Settings
  /\ \A n \in DOMAIN Presets :
       /\ n \in STRING \ {NoChip, "custom"}
       /\ DOMAIN Presets[n] \subseteq Basic \ Chips
       /\ \A p \in DOMAIN Presets[n] : Presets[n][p] \in Values \ {Bad}

VARIABLES
  file,     \* the configuration of the daemon
  event,    \* a configChanged event is on its way to the page
  loads,    \* GET /api/config: for each request its answer, or Nothing
  metas,    \* GET schema-meta: for each request the configuration to be shown
  current,  \* currentConfig, or Nothing
  shown,    \* the configuration that the tabs were made from
  tab, cli, cards, basic, \* the forms: values of their fields, or Nothing
  presets,  \* _loadedPresets: "none", "asked" or "loaded"
  popover,  \* the differences of a preset are shown
  chip,     \* what preset-active-chip says, above the Basic form
  fieldChip, armed, watched, \* marks on fields; fields with a listener for theirs and for chip
  save,     \* "idle", "sent", "stored", "failed" or "told"
  sent,     \* what the last save sent
  touched,  \* settings whose fields the user has changed since they were shown
  work

forms == <<current, shown, tab, cli, cards>>
presetVars == <<presets, popover, chip, fieldChip, armed, watched>>
formVars == <<file, event, loads, metas, forms, basic, presetVars, save, sent, touched, work>>

\* Bound.
Works == work < MaxWork /\ work' = work + 1

Show(c, fields) == [p \in fields |-> c[p]]

\* The page is shown: loadSettings has been called.
FormInit ==
  /\ file = First /\ event = FALSE
  /\ loads = <<Nothing>> /\ metas = <<>>
  /\ current = Nothing /\ shown = Nothing /\ basic = Nothing
  /\ tab = Nothing /\ cli = [p \in Cli |-> Bad] /\ cards = Nothing
  /\ presets = "none" /\ popover = FALSE /\ chip = NoChip
  /\ fieldChip = [p \in Basic |-> NoChip] /\ armed = {} /\ watched = {}
  /\ save = "idle" /\ sent = Nothing /\ touched = {}
  /\ work = 0

-----------------------------------------------------------------------------
(* Loading.                                                                *)

\* The Basic form is made anew, and with it go the marks on its fields and
\* every listener; the chip above it stays.
Unmarked == /\ fieldChip' = [p \in Basic |-> NoChip]
            /\ armed' = {} /\ watched' = {}
            /\ UNCHANGED chip

\* The user comes to the page, or a configChanged event does.
LoadSettings ==
  /\ event \/ (loads = <<>> /\ current = Nothing)
  /\ event' = FALSE /\ loads' = Append(loads, Nothing)
  /\ UNCHANGED <<file, metas, forms, basic, presetVars, save, sent, touched, work>>

\* The daemon answers GET /api/config.
Served(i) ==
  /\ loads[i] = Nothing
  /\ loads' = [loads EXCEPT ![i] = file]
  /\ UNCHANGED <<file, event, metas, forms, basic, presetVars, save, sent, touched, work>>

MayCome(queue, i) == Overtakes \/ i = 1

\* renderSettingsView: every form is made anew; bindCommandsCliFields,
\* renderTabForm, renderAdvancedTab, and renderBasicTab, which shows that it
\* is loading until it has the description of its fields.
RenderSettingsView(i) ==
  /\ MayCome(loads, i) /\ loads[i] # Nothing
  /\ loads' = RemoveAt(loads, i)
  /\ current' = loads[i] /\ shown' = loads[i]
  /\ tab' = Show(current', Tab) /\ cli' = Show(current', Cli) /\ cards' = Show(current', Cards)
  /\ basic' = Nothing /\ metas' = Append(metas, current')
  /\ Unmarked
  /\ touched' = {}
  /\ UNCHANGED <<file, event, presets, popover, save, sent, work>>

\* Mutant: fields show their default, whatever the configuration has.
RenderBasicTabDefaults(i) ==
  /\ MayCome(metas, i)
  /\ metas' = RemoveAt(metas, i)
  /\ basic' = Show(First, Basic)
  /\ presets' = "asked"
  /\ Unmarked
  /\ touched' = touched \ (Basic \ (Tab \cup Cli))
  /\ UNCHANGED <<file, event, loads, forms, popover, save, sent, work>>

\* The answer to GET /api/config/schema-meta: renderBasicField for every
\* field, of the configuration the request was made for.
RenderBasicTab(i) ==
  /\ MayCome(metas, i)
  /\ metas' = RemoveAt(metas, i)
  /\ basic' = Show(metas[i], Basic)
  /\ presets' = "asked"
  /\ Unmarked
  /\ touched' = touched \ (Basic \ (Tab \cup Cli))
  /\ UNCHANGED <<file, event, loads, forms, popover, save, sent, work>>

\* loadPresetsDropdown.
PresetsLoaded ==
  /\ presets = "asked" /\ presets' = "loaded"
  /\ UNCHANGED <<file, event, loads, metas, forms, basic, popover, chip, fieldChip, armed, watched, save, sent, touched, work>>

\* A request fails: the message of loadSettings leaves the forms as they
\* are, that of renderBasicTab takes the place of its fields.
RequestFails ==
  /\ Works
  /\ \/ /\ \E i \in DOMAIN loads : MayCome(loads, i) /\ loads' = RemoveAt(loads, i)
        /\ UNCHANGED <<metas, basic, presets, chip, fieldChip, armed, watched>>
     \/ /\ \E i \in DOMAIN metas : MayCome(metas, i) /\ metas' = RemoveAt(metas, i)
        /\ basic' = Nothing /\ Unmarked
        /\ UNCHANGED <<loads, presets>>
     \/ /\ presets = "asked" /\ presets' = "none"
        /\ UNCHANGED <<loads, metas, basic, chip, fieldChip, armed, watched>>
  /\ UNCHANGED <<file, event, forms, popover, save, sent, touched>>

-----------------------------------------------------------------------------
(* The user changes fields.                                                *)

Edits(p) == Works /\ touched' = touched \cup {p}

EditTab(p, v) ==
  /\ p \in DOMAIN tab /\ v # tab[p] /\ Edits(p)
  /\ tab' = [tab EXCEPT ![p] = v]
  /\ UNCHANGED <<file, event, loads, metas, current, shown, cli, cards, basic, presetVars, save, sent>>

EditCli(p, v) ==
  /\ current # Nothing /\ v # cli[p] /\ Edits(p)
  /\ cli' = [cli EXCEPT ![p] = v]
  /\ UNCHANGED <<file, event, loads, metas, current, shown, tab, cards, basic, presetVars, save, sent>>

EditCard(p, v) ==
  /\ p \in DOMAIN cards /\ v # cards[p] /\ Edits(p)
  /\ cards' = [cards EXCEPT ![p] = v]
  /\ UNCHANGED <<file, event, loads, metas, current, shown, tab, cli, basic, presetVars, save, sent>>

\* A field with a `change' event: the listeners of the presets are told, each
\* of them once.
EditBasic(p, v) ==
  /\ basic # Nothing /\ p \in Basic \ Chips
  /\ v # basic[p] /\ (p = "mode" => v # Bad)
  /\ Edits(p)
  /\ basic' = [basic EXCEPT ![p] = v]
  /\ chip' = IF p \in watched THEN "custom" ELSE chip
  /\ fieldChip' = IF p \in armed THEN [fieldChip EXCEPT ![p] = "custom"] ELSE fieldChip
  /\ watched' = watched \ {p} /\ armed' = armed \ {p}
  /\ UNCHANGED <<file, event, loads, metas, forms, presets, popover, save, sent>>

\* addBasicChip and removeBasicChip set a hidden field, which tells nobody.
AddOrRemoveBasicChip(p, v) ==
  /\ basic # Nothing /\ p \in Chips
  /\ v # basic[p] /\ v # Bad
  /\ Edits(p)
  /\ basic' = [basic EXCEPT ![p] = v]
  /\ UNCHANGED <<file, event, loads, metas, forms, presetVars, save, sent>>

\* previewPreset compares with collectBasicFieldValues; closeDiffPopover.
PreviewPreset ==
  /\ presets = "loaded" /\ ~popover /\ popover' = TRUE
  /\ UNCHANGED <<file, event, loads, metas, forms, basic, presets, chip, fieldChip, armed, watched, save, sent, touched, work>>

CloseDiffPopover ==
  /\ popover /\ popover' = FALSE
  /\ UNCHANGED <<file, event, loads, metas, forms, basic, presets, chip, fieldChip, armed, watched, save, sent, touched, work>>

\* Mutant: a field that has a listener gets no other.
ApplyPresetOnce(n) ==
  /\ presets = "loaded"
  /\ Works
  /\ LET fields == Presets[n]
         on == DOMAIN fields \cap DOMAIN basic
         new == {p \in on : basic[p] # fields[p]}
     IN  /\ basic' = [p \in DOMAIN basic |-> IF p \in on THEN fields[p] ELSE basic[p]]
         /\ fieldChip' = [p \in Basic |-> IF p \in new THEN n ELSE NoChip]
         /\ armed' = armed \cup (new \ watched)
         /\ touched' = touched \cup new
  /\ chip' = n /\ watched' = DOMAIN basic
  /\ popover' = FALSE
  /\ UNCHANGED <<file, event, loads, metas, forms, presets, save, sent>>

\* applyPreset: fields that are not in the form are passed over; listeners
\* of an earlier preset stay.
ApplyPreset(n) ==
  /\ presets = "loaded"
  /\ Works
  /\ LET fields == Presets[n]
         on == DOMAIN fields \cap DOMAIN basic
         new == {p \in on : basic[p] # fields[p]}
     IN  /\ basic' = [p \in DOMAIN basic |-> IF p \in on THEN fields[p] ELSE basic[p]]
         /\ fieldChip' = [p \in Basic |-> IF p \in new THEN n ELSE NoChip]
         /\ armed' = armed \cup new
         /\ touched' = touched \cup new
  /\ chip' = n /\ watched' = DOMAIN basic
  /\ popover' = FALSE
  /\ UNCHANGED <<file, event, loads, metas, forms, presets, save, sent>>

-----------------------------------------------------------------------------
(* Saving.                                                                 *)

\* A Basic field is sent with the section its name begins with; executionMode
\* is in no section.
InSection(p) == p # "mode"

FromTab == tab
FromCli == [p \in {q \in DOMAIN cli : cli[q] # Bad} |-> cli[p]]
FromCards == [p \in {q \in DOMAIN cards : cards[q] # Bad} |-> cards[p]]
FromBasic == [p \in {q \in DOMAIN basic : InSection(q)} |-> basic[p]]

\* collectFormData: what comes later replaces what came before; getInputValue.
CollectFormData ==
  LET Over(f, g) == [p \in DOMAIN f \cup DOMAIN g |-> IF p \in DOMAIN g THEN g[p] ELSE f[p]]
  IN  Over(Over(Over(FromTab, FromCli), FromCards), FromBasic)

\* saveSettings; the button is disabled until two seconds after the answer.
SaveSettings ==
  /\ current # Nothing /\ save = "idle"
  /\ Works
  /\ save' = "sent" /\ sent' = CollectFormData
  /\ UNCHANGED <<file, event, loads, metas, forms, basic, presetVars, touched>>

\* PUT /api/config tells every page, this one too, of what it has stored.
Accepted(s) == \A p \in DOMAIN s : s[p] # Bad
Stored ==
  /\ save = "sent"
  /\ IF Accepted(sent)
     THEN /\ file' = [p \in Settings |-> IF p \in DOMAIN sent THEN sent[p] ELSE file[p]]
          /\ event' = TRUE /\ save' = "stored"
     ELSE save' = "failed" /\ UNCHANGED <<file, event>>
  /\ UNCHANGED <<loads, metas, forms, basic, presetVars, sent, touched, work>>

\* The request or its answer is lost.
SaveLost ==
  /\ save \in {"sent", "stored"} /\ Works
  /\ save' = "failed"
  /\ UNCHANGED <<file, event, loads, metas, forms, basic, presetVars, sent, touched>>

\* The page's copy is changed by the forms as they are now, not as they were
\* sent.
SaveAnswered ==
  /\ save \in {"stored", "failed"} /\ save' = "told"
  /\ current' = IF save = "failed" THEN current
                ELSE [p \in Settings |-> IF p \in DOMAIN CollectFormData THEN CollectFormData[p] ELSE current[p]]
  /\ UNCHANGED <<file, event, loads, metas, shown, tab, cli, cards, basic, presetVars, sent, touched, work>>

\* showButtonState's timer.
ButtonBack ==
  /\ save = "told" /\ save' = "idle" /\ sent' = Nothing
  /\ UNCHANGED <<file, event, loads, metas, forms, basic, presetVars, touched, work>>

\* Another page saves.
OtherSaves ==
  /\ Works
  /\ \E p \in Others, v \in {1, 2} : v # file[p] /\ file' = [file EXCEPT ![p] = v]
  /\ event' = TRUE
  /\ UNCHANGED <<loads, metas, forms, basic, presetVars, save, sent, touched>>

-----------------------------------------------------------------------------
FormNext ==
  \/ LoadSettings
  \/ \E i \in DOMAIN loads : Served(i) \/ RenderSettingsView(i)
  \/ \E i \in DOMAIN metas : RenderBasicTab(i)
  \/ PresetsLoaded \/ RequestFails
  \/ \E v \in Values :
       \/ \E p \in Tab : EditTab(p, v)
       \/ \E p \in Cli : EditCli(p, v)
       \/ \E p \in Cards : EditCard(p, v)
       \/ \E p \in Basic : EditBasic(p, v) \/ AddOrRemoveBasicChip(p, v)
  \/ PreviewPreset \/ CloseDiffPopover
  \/ \E n \in DOMAIN Presets : ApplyPreset(n)
  \/ SaveSettings \/ Stored \/ SaveLost \/ SaveAnswered \/ ButtonBack
  \/ OtherSaves

FormSpec == FormInit /\ [][FormNext]_formVars

-----------------------------------------------------------------------------
\* Once the page has its forms, a save leaves every setting as it was loaded
\* unless the user has changed a field of it, through all the forms that
\* show it and all the ways in which they write and read it.
UntouchedStays ==
  [][save = "idle" /\ save' = "sent" /\ metas = <<>> =>
       \A p \in DOMAIN sent' \ touched : sent'[p] = shown[p]]_formVars

\* A field marked with a preset has that preset's value: whatever presets were
\* applied before, one change of the field takes its mark away, and no mark
\* outlives the form it was made in.
MarksAreTrue ==
  \A p \in Basic : fieldChip[p] \in DOMAIN Presets =>
    basic # Nothing /\ basic[p] = Presets[fieldChip[p]][p]

\* The settings of the Basic tab, executionMode among them, can be edited on
\* this page (tests/settings-advanced-coverage.test.ts:50): what a save has
\* stored is what the Basic tab had.
BasicIsSaved ==
  [][save = "idle" /\ save' = "sent" /\ basic # Nothing =>
       \A p \in Basic \cap touched : p \in DOMAIN sent' /\ sent'[p] = basic[p]]_formVars
=============================================================================
