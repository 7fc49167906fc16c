---------------------------- MODULE SiteSettings ----------------------------
(***************************************************************************)
(* The site settings form: SiteSettingsTab.  It is loaded once, edited and *)
(* saved as a whole behind Sudo Mode.                                      *)
(*                                                                         *)
(* A save sends the settings of the render in which it was submitted, and  *)
(* its answer replaces whatever the form holds by then: an edit made       *)
(* meanwhile is lost.  Sudo Mode is above the router: what it holds, and   *)
(* what was sent, outlives the form.                                       *)
(*                                                                         *)
(* Answers are complete: mergeSiteSettings, which fills what an answer     *)
(* leaves out with the defaults, adds nothing to them.                     *)
(***************************************************************************)
EXTENDS Naturals, FiniteSets

CONSTANTS
    Fields,      \* fields of the form
    Values,      \* what they may hold
    Default,     \* DEFAULT_SITE_SETTINGS, in every field
    Null,        \* no baseline, nothing awaited
    Slots,       \* bound: saves that wait or are in flight
    Free         \* a slot without a save

Settings == [Fields -> Values]

\* Sudo Mode asks for some saves before they are sent; a save is left when its
\* form was unmounted.
Save == [settings : Settings, stage : {"asked", "sent", "stored"}, left : BOOLEAN]

SettingsAssumption ==
    /\ Default \in Values
    /\ Null \notin Settings
    /\ Free \notin Save

VARIABLES
    stored,      \* the server's settings
    settings,    \* what the form holds
    baseline,
    loading,
    error,
    saving,
    read,        \* what the load's answer carries
    saves,       \* the save of each slot
    \* history
    loaded,      \* the settings were read
    held,        \* what the server held since the load was answered
    smooth       \* since then no save of this form overlapped another or failed,
                 \* and nothing was stored for anybody else, nor for an earlier form

vars == <<stored, settings, baseline, loading, error, saving, read, saves, loaded, held, smooth>>

Used == {s \in Slots : saves[s] # Free}
Mine == {s \in Used : ~saves[s].left}
Sent == {s \in Mine : saves[s].stage # "asked"}

TypeOK ==
    /\ {stored, settings} \subseteq Settings
    /\ {baseline, read} \subseteq Settings \cup {Null}
    /\ {loading, error, saving, loaded, smooth} \subseteq BOOLEAN
    /\ saves \in [Slots -> Save \cup {Free}]
    /\ held \subseteq Settings

Init ==
    /\ stored \in Settings
    /\ settings = [f \in Fields |-> Default]
    /\ baseline = Null
    /\ loading = TRUE
    /\ error = FALSE
    /\ saving = FALSE
    /\ read = Null
    /\ saves = [s \in Slots |-> Free]
    /\ loaded = FALSE
    /\ held = {}
    /\ smooth = TRUE

-----------------------------------------------------------------------------

\* The form is shown; it is not before a load succeeded.
hasLoadedSettings == baseline # Null
FormShown == ~(loading /\ ~hasLoadedSettings) /\ ~(error /\ ~hasLoadedSettings)

dirty == hasLoadedSettings /\ settings # baseline

\* load: up to its await, from the alert of a failure.
Load ==
    /\ error
    /\ loading' = TRUE
    /\ error' = FALSE
    /\ read' = Null
    /\ held' = {}
    /\ smooth' = TRUE
    /\ UNCHANGED <<stored, settings, baseline, saving, saves, loaded>>

\* External: the server answers.
AnswerLoad ==
    /\ loading /\ read = Null
    /\ read' = stored
    /\ held' = {stored}
    /\ UNCHANGED <<stored, settings, baseline, loading, error, saving, saves, loaded, smooth>>

LoadSucceeds ==
    /\ loading /\ read # Null
    /\ settings' = read
    /\ baseline' = read
    /\ loading' = FALSE
    /\ loaded' = TRUE
    /\ UNCHANGED <<stored, error, saving, read, saves, held, smooth>>

\* Faulty variant: the baseline is set in the finally.
FailureSetsBaseline ==
    /\ loading
    /\ loading' = FALSE
    /\ error' = TRUE
    /\ baseline' = settings
    /\ UNCHANGED <<stored, settings, saving, read, saves, loaded, held, smooth>>

LoadFails ==
    /\ loading
    /\ loading' = FALSE
    /\ error' = TRUE
    /\ UNCHANGED <<stored, settings, baseline, saving, read, saves, loaded, held, smooth>>

\* update: the fields are not disabled while a save is in flight.
update(f, v) ==
    /\ FormShown
    /\ settings' = [settings EXCEPT ![f] = v]
    /\ UNCHANGED <<stored, baseline, loading, error, saving, read, saves, loaded, held, smooth>>

\* save: requireSudo runs onSuccess, up to its await, or asks first.
Submit(s) ==
    /\ FormShown /\ dirty /\ ~saving /\ ~loading
    /\ saves[s] = Free
    /\ \E stage \in {"asked", "sent"} :
          /\ saves' = [saves EXCEPT ![s] = [settings |-> settings, stage |-> stage, left |-> FALSE]]
          /\ saving' = (stage = "sent")
          /\ smooth' = (smooth /\ (stage = "sent" => Sent = {}))
    /\ UNCHANGED <<stored, settings, baseline, loading, error, read, loaded, held>>

\* A save that was left still runs, and only its request has an effect.
SudoRuns(s) ==
    /\ s \in Used /\ saves[s].stage = "asked"
    /\ saves' = [saves EXCEPT ![s].stage = "sent"]
    /\ saving' = (saving \/ ~saves[s].left)
    /\ smooth' = (smooth /\ (s \in Mine => Sent = {}))
    /\ UNCHANGED <<stored, settings, baseline, loading, error, read, loaded, held>>

SudoDismissed(s) ==
    /\ s \in Used /\ saves[s].stage = "asked"
    /\ saves' = [saves EXCEPT ![s] = Free]
    /\ UNCHANGED <<stored, settings, baseline, loading, error, saving, read, loaded, held, smooth>>

\* External: the server stores settings.
Store(new) ==
    /\ stored' = new
    /\ held' = IF read = Null THEN {} ELSE held \cup {new}

\* External: the settings are those of a save, or another administrator's.
ApplySave(s) ==
    /\ s \in Used /\ saves[s].stage = "sent"
    /\ Store(saves[s].settings)
    /\ saves' = [saves EXCEPT ![s].stage = "stored"]
    /\ smooth' = (smooth /\ (s \in Mine \/ read = Null))
    /\ UNCHANGED <<settings, baseline, loading, error, saving, read, loaded>>

ForeignSave(new) ==
    /\ Store(new)
    /\ smooth' = (smooth /\ read = Null)
    /\ UNCHANGED <<settings, baseline, loading, error, saving, read, saves, loaded>>

\* Faulty variant: only the form takes the answer.
SaveKeepsBaseline(s) ==
    /\ s \in Mine /\ saves[s].stage = "stored"
    /\ settings' = saves[s].settings
    /\ saving' = FALSE
    /\ saves' = [saves EXCEPT ![s] = Free]
    /\ UNCHANGED <<stored, baseline, loading, error, read, loaded, held, smooth>>

\* onSuccess: the answer becomes the form and its baseline.
SaveSucceeds(s) ==
    /\ s \in Mine /\ saves[s].stage = "stored"
    /\ settings' = saves[s].settings
    /\ baseline' = saves[s].settings
    /\ saving' = FALSE
    /\ saves' = [saves EXCEPT ![s] = Free]
    /\ UNCHANGED <<stored, loading, error, read, loaded, held, smooth>>

\* A message is shown, and the form keeps its edits.
SaveFails(s) ==
    /\ s \in Sent
    /\ saving' = FALSE
    /\ saves' = [saves EXCEPT ![s] = Free]
    /\ smooth' = FALSE
    /\ UNCHANGED <<stored, settings, baseline, loading, error, read, loaded, held>>

\* Faulty variant: the form now shown takes the answer of an earlier one.
LeftAnswerIsTaken(s) ==
    /\ s \in Used \ Mine /\ saves[s].stage = "stored"
    /\ hasLoadedSettings
    /\ settings' = saves[s].settings
    /\ baseline' = saves[s].settings
    /\ saves' = [saves EXCEPT ![s] = Free]
    /\ UNCHANGED <<stored, loading, error, saving, read, loaded, held, smooth>>

\* A save that was left ends: its setters act on a form that is gone.
LeftSaveEnds(s) ==
    /\ s \in Used \ Mine /\ saves[s].stage # "asked"
    /\ saves' = [saves EXCEPT ![s] = Free]
    /\ UNCHANGED <<stored, settings, baseline, loading, error, saving, read, loaded, held, smooth>>

\* The section is left, and shows a new form when it is entered again, with the
\* request of its effect.
Remount ==
    /\ settings' = [f \in Fields |-> Default]
    /\ baseline' = Null
    /\ loading' = TRUE
    /\ error' = FALSE
    /\ saving' = FALSE
    /\ read' = Null
    /\ saves' = [s \in Slots |-> IF s \in Used THEN [saves[s] EXCEPT !.left = TRUE] ELSE Free]
    /\ loaded' = FALSE
    /\ held' = {}
    /\ smooth' = TRUE
    /\ UNCHANGED stored

Next ==
    \/ Load \/ AnswerLoad \/ LoadSucceeds \/ LoadFails
    \/ \E f \in Fields, v \in Values : update(f, v)
    \/ \E s \in Slots :
           \/ Submit(s) \/ SudoRuns(s) \/ SudoDismissed(s)
           \/ ApplySave(s) \/ SaveSucceeds(s) \/ SaveFails(s) \/ LeftSaveEnds(s)
    \/ \E new \in Settings : ForeignSave(new)
    \/ Remount

Spec == Init /\ [][Next]_vars

-----------------------------------------------------------------------------

\* "All changes saved" is never said of settings that the server did not hold
\* since it was read, whatever overlapped, failed or was left.  They are what it
\* holds once the saves of the form ended, if none overlapped another or failed,
\* and nobody else's were stored after the load was answered: then also after a
\* form that was left while it was being saved, if that save came before.
SavedIsStored ==
    hasLoadedSettings /\ ~dirty =>
        /\ settings \in held
        /\ smooth /\ Sent = {} => settings = stored

\* The defaults that the form starts from never overwrite settings that were not
\* read: a form sends nothing before its load succeeded.
OnlyReadIsSaved == Mine # {} => loaded

=============================================================================
