------------------------------- MODULE MCForm -------------------------------
(* The settings page with two presets that differ in two of three fields.  *)
EXTENDS SettingsForm

MCPresets == [thorough |-> [conc |-> 1, turns |-> 2, mode |-> 2],
              team     |-> [conc |-> 2, turns |-> 2, mode |-> 1]]
MCFirst == [p \in Settings |-> 1]
=============================================================================
