------------------------ MODULE SidebarInteraction ------------------------
(***************************************************************************)
(* When the sidebar is on the screen (gui/app.c), and the dialogs that take *)
(* its place: the chooser of a VPN file (gui/profile_import_presenter.c),   *)
(* nm-connection-editor (gui/profile_editor_presenter.c over                *)
(* actions/editor_session.c) and the chooser of an AmneziaWG file           *)
(* (gui/amneziawg_presenter.c).                                             *)
(*                                                                          *)
(* Every handler runs on the main loop and is one action; what it calls     *)
(* synchronously (the interaction callbacks, the hiding and presenting of   *)
(* the window) is part of it.  The editor, its bus name and the bus are     *)
(* external.  The window exists and its presenters have it as their parent  *)
(* (prepare_runtime); a failing layer shell ends the program and is not     *)
(* modelled.                                                                *)
(***************************************************************************)
EXTENDS Integers, FiniteSets

CONSTANTS MaxGeneration,  \* generations of the editor session
          MaxForeign,     \* editors that something else starts
          MaxFaults       \* failing spawns, editors and bus calls

ASSUME BoundsAssumption == {MaxGeneration, MaxForeign, MaxFaults} \subseteq Nat

VARIABLES app,        \* visibility state of the application
          state,      \* ProfileEditorState
          chooser,    \* the VPN file chooser is open
          awgChooser, \* the AmneziaWG file chooser is open
          session,    \* the editor session
          procs,      \* EditorProcess records that still have a callback
          primary,    \* the editor that owns the bus name, or 0
          serving,    \* the editor that serves each generation's request
          faulty,     \* generations whose editor or bus call failed
          used,       \* foreign editors and faults so far
          wish,       \* what the user asked for last: the sidebar shown?
          shutting    \* shutting_down

vars == <<app, state, chooser, awgChooser, session, procs, primary, serving,
          faulty, used, wish, shutting>>

IMPORT == "PROFILE_IMPORT"
EDITOR == "PROFILE_EDITOR"
AWG_IMPORT == "AMNEZIAWG_IMPORT"
Owners == {IMPORT, EDITOR, AWG_IMPORT}
Generations == 0..MaxGeneration
NoEditor == 0
\* An editor that the sidebar starts is named after its generation.
Editors == 1..(MaxGeneration + MaxForeign)
NoWatch == [owner |-> NoEditor, told |-> FALSE]

Init ==
  /\ app = [owners |-> {}, deferred |-> {}, requested |-> FALSE,
            visible |-> FALSE, inventory |-> FALSE, refresh |-> FALSE]
  /\ state = "IDLE"
  /\ chooser = FALSE /\ awgChooser = FALSE
  /\ session = [generation |-> 0, pending |-> FALSE, watch |-> NoWatch]
  /\ procs = {}
  /\ primary = NoEditor
  /\ serving = [g \in Generations |-> NoEditor]
  /\ faulty = {}
  /\ used = [foreign |-> 0, faults |-> 0]
  /\ wish = FALSE /\ shutting = FALSE

----------------------------------------------------------------------------
(* The window                                                               *)

\* Mutant: an open dialog does not keep the window away.
Present_Always(a, refresh) ==
  [a EXCEPT !.requested = TRUE, !.visible = TRUE, !.inventory = TRUE,
            !.refresh = FALSE]

\* present_sidebar: remember the wish, and map the window unless a dialog
\* has its place; a refresh of the inventory waits for the window.
Present(a, refresh) ==
  IF a.owners # {}
  THEN [a EXCEPT !.requested = TRUE, !.refresh = @ \/ refresh]
  ELSE [a EXCEPT !.requested = TRUE, !.visible = TRUE, !.inventory = TRUE,
                 !.refresh = FALSE]

\* show_sidebar: an explicit wish replaces a deferred restoration.
ShowSidebar(a) == Present([a EXCEPT !.deferred = {}], TRUE)

\* Mutant: hiding forgets the restoration that an editor has deferred.
HideSidebar_KeepsDeferred(a) ==
  [a EXCEPT !.requested = FALSE, !.refresh = FALSE, !.inventory = FALSE,
            !.visible = FALSE]

\* hide_sidebar.
HideSidebar(a) ==
  [a EXCEPT !.requested = FALSE, !.deferred = {}, !.refresh = FALSE,
            !.inventory = FALSE, !.visible = FALSE]

\* set_external_interaction: the first owner takes the place of the window,
\* and the window returns when the last one leaves, if it is still wanted.
SetExternal(a, owner, active) ==
  LET owners == IF active THEN a.owners \cup {owner} ELSE a.owners \ {owner}
      b == [a EXCEPT !.owners = owners]
  IN CASE owners = a.owners -> a
       [] owners # a.owners /\ owners # {} ->
            [b EXCEPT !.inventory = FALSE, !.visible = FALSE]
       [] owners # a.owners /\ owners = {} ->
            IF a.requested THEN Present(b, FALSE) ELSE b

\* external_interaction_callback: what a presenter tells of its dialog.
Begin(a, owner) ==
  SetExternal([a EXCEPT !.deferred = @ \ {owner}], owner, TRUE)

Defer(a, owner) ==
  SetExternal([a EXCEPT !.deferred = IF a.requested THEN @ \cup {owner} ELSE @,
                        !.requested = FALSE, !.refresh = FALSE],
              owner, FALSE)

End(a, owner) ==
  LET restore == owner \in a.deferred
      b == SetExternal([a EXCEPT !.deferred = @ \ {owner},
                                 !.requested = @ \/ restore], owner, FALSE)
  IN IF restore /\ owner \notin a.owners /\ b.owners = {}
     THEN Present(b, FALSE) ELSE b

Cancel(a, owner) ==
  SetExternal([a EXCEPT !.deferred = @ \ {owner}], owner, FALSE)

Running == ~shutting

\* The user, or a command, shows or hides the sidebar.
Show ==
  /\ Running
  /\ app' = ShowSidebar(app) /\ wish' = TRUE
  /\ UNCHANGED <<state, chooser, awgChooser, session, procs, primary, serving,
                 faulty, used, shutting>>

Hide ==
  /\ Running
  /\ app' = HideSidebar(app) /\ wish' = FALSE
  /\ UNCHANGED <<state, chooser, awgChooser, session, procs, primary, serving,
                 faulty, used, shutting>>

\* toggle_sidebar goes by what was asked for, not by what is mapped.
Toggle ==
  /\ Running
  /\ app' = IF app.requested THEN HideSidebar(app) ELSE ShowSidebar(app)
  /\ wish' = ~app.requested
  /\ UNCHANGED <<state, chooser, awgChooser, session, procs, primary, serving,
                 faulty, used, shutting>>

\* dismiss_if_unfocused: the user clicked elsewhere, which counts as his wish.  A
\* window that has lost the focus to a dialog of the sidebar is left alone.  Its
\* timer of 100 ms is left out: it may have run out whenever it would hide the window.
DismissIfUnfocused ==
  /\ Running /\ app.owners = {} /\ app.visible
  /\ app' = HideSidebar(app) /\ wish' = FALSE
  /\ UNCHANGED <<state, chooser, awgChooser, session, procs, primary, serving,
                 faulty, used, shutting>>

\* on_shutdown: no interaction callback acts from here on.
Shutdown ==
  /\ Running
  /\ shutting' = TRUE
  /\ app' = [app EXCEPT !.deferred = {}]
  /\ state' = "STOPPED"
  /\ chooser' = FALSE /\ awgChooser' = FALSE
  /\ session' = [session EXCEPT !.pending = FALSE, !.watch = NoWatch]
  /\ UNCHANGED <<procs, primary, serving, faulty, used, wish>>

----------------------------------------------------------------------------
(* The AmneziaWG file chooser                                               *)

\* present_import_chooser, from a click in the sidebar.
PresentImportChooser ==
  /\ Running /\ app.visible /\ ~awgChooser
  /\ awgChooser' = TRUE
  /\ app' = Begin(app, AWG_IMPORT)
  /\ UNCHANGED <<state, chooser, session, procs, primary, serving, faulty,
                 used, wish, shutting>>

\* file_chooser_response_cb and cancel_import_interaction.
ImportChooserCloses ==
  /\ Running /\ awgChooser
  /\ awgChooser' = FALSE
  /\ app' = End(app, AWG_IMPORT)
  /\ UNCHANGED <<state, chooser, session, procs, primary, serving, faulty,
                 used, wish, shutting>>

----------------------------------------------------------------------------
(* The editor session                                                       *)

\* Mutant: a cancelled session keeps its generation.
CancelSession_Same(s) ==
  [generation |-> s.generation, pending |-> FALSE, watch |-> NoWatch]

\* network_sidebar_editor_session_cancel: a new generation, and no watch.
CancelSession(s) ==
  [generation |-> s.generation + 1, pending |-> FALSE, watch |-> NoWatch]

\* Mutant: a callback is taken for current whatever generation it is of.
IsCurrent_AnyGeneration(g) == session.pending

\* editor_session_is_current.
IsCurrent(g) == session.pending /\ session.generation = g

\* finish_editor_session, and editor_completed_cb of the presenter.
Finish(g) ==
  IF IsCurrent(g)
  THEN /\ session' = CancelSession(session)
       /\ state' = IF state = "EDITING" THEN "IDLE" ELSE state
       /\ app' = IF state = "EDITING" THEN End(app, EDITOR) ELSE app
  ELSE UNCHANGED <<session, state, app>>

Continues(p, phase, reply) ==
  /\ procs' = (procs \ {p}) \cup {[p EXCEPT !.phase = phase, !.reply = reply]}
  /\ UNCHANGED <<session, state, app>>

Ends(p) == procs' = procs \ {p} /\ Finish(p.generation)

CanFail == used.faults < MaxFaults
Fail(g) == /\ CanFail
           /\ used' = [used EXCEPT !.faults = @ + 1]
           /\ faulty' = faulty \cup {g}

\* editor_exited_cb: a command that fails ends the session; one that exits
\* well may have handed its request to an editor that still runs.
EditorExited(p) ==
  /\ Running /\ p.phase \in {"exited", "failed"}
  /\ IF p.phase = "exited" /\ IsCurrent(p.generation)
     THEN Continues(p, "bus", NoEditor)
     ELSE Ends(p)
  /\ UNCHANGED <<chooser, awgChooser, primary, serving, faulty, used, wish,
                 shutting>>

\* editor_bus_ready_cb: ask for the owner of the editor's name.
BusReady(p) ==
  /\ Running /\ p.phase = "bus"
  /\ \/ /\ IF IsCurrent(p.generation) THEN Continues(p, "query", NoEditor)
                                      ELSE Ends(p)
        /\ UNCHANGED <<used, faulty>>
     \/ Ends(p) /\ Fail(p.generation)
  /\ UNCHANGED <<chooser, awgChooser, primary, serving, wish, shutting>>

\* Mutant: no owner of the name is no end of the session.
OwnerQueried_WaitsForOwner(p) ==
  /\ Running /\ p.phase = "reply"
  /\ procs' = procs \ {p}
  /\ session' = IF IsCurrent(p.generation)
                THEN [session EXCEPT !.watch = [owner |-> p.reply,
                                                told |-> FALSE]]
                ELSE session
  /\ UNCHANGED <<state, app, chooser, awgChooser, primary, serving, faulty,
                 used, wish, shutting>>

\* editor_owner_query_cb: watch the owner, if there is one.
OwnerQueried(p) ==
  /\ Running /\ p.phase = "reply"
  /\ IF IsCurrent(p.generation) /\ p.reply # NoEditor
     THEN /\ session' = [session EXCEPT !.watch = [owner |-> p.reply,
                                                   told |-> FALSE]]
          /\ procs' = procs \ {p}
          /\ UNCHANGED <<state, app>>
     ELSE Ends(p)
  /\ UNCHANGED <<chooser, awgChooser, primary, serving, faulty, used, wish,
                 shutting>>

\* editor_owner_appeared_cb and editor_owner_vanished_cb: the watch reports
\* the owner once, and then every change; another owner, or none, ends it.
WatchReports ==
  /\ Running /\ session.watch # NoWatch
  /\ session.watch.told => primary # session.watch.owner
  /\ IF primary = session.watch.owner
     THEN /\ session' = [session EXCEPT !.watch.told = TRUE]
          /\ UNCHANGED <<state, app>>
     ELSE Finish(session.generation)
  /\ UNCHANGED <<chooser, awgChooser, procs, primary, serving, faulty, used,
                 wish, shutting>>

----------------------------------------------------------------------------
(* The presenter of the editor                                              *)

\* Mutant: the end of the selection is not told.
Launch_KeepsSelection(a) == Begin(a, EDITOR)

\* The interactions of network_sidebar_profile_editor_presenter_open: the
\* launch blocks the window before the selection stops blocking it.
Launch(a) == End(Begin(a, EDITOR), IMPORT)

\* network_sidebar_profile_editor_presenter_open with
\* network_sidebar_editor_session_open.
Open ==
  LET s == CancelSession(CancelSession(session))
      a == Launch(app)
  IN
  /\ s.generation < MaxGeneration
  /\ chooser' = FALSE
  /\ \/ /\ session' = [s EXCEPT !.pending = TRUE]
        /\ procs' = procs \cup {[generation |-> s.generation,
                                 phase |-> "running", reply |-> NoEditor]}
        /\ state' = "EDITING"
        /\ app' = Defer(a, EDITOR)
        /\ UNCHANGED <<used, faulty>>
     \/ /\ session' = s /\ procs' = procs
        /\ state' = "IDLE"
        /\ app' = End(a, EDITOR)
        /\ Fail(s.generation)
  /\ UNCHANGED <<awgChooser, primary, serving, wish, shutting>>

\* request_editor_callback, from a click in the sidebar.
RequestEditor == Running /\ app.visible /\ Open

\* network_sidebar_profile_import_presenter_import and
\* chooser_interaction_cb(TRUE): the chooser takes over from an editor.
ImportProfile ==
  /\ Running /\ app.visible /\ ~chooser
  /\ session.generation < MaxGeneration
  /\ chooser' = TRUE /\ state' = "CHOOSING"
  /\ session' = CancelSession(session)
  /\ app' = Cancel(Begin(app, IMPORT), EDITOR)
  /\ UNCHANGED <<awgChooser, procs, primary, serving, faulty, used, wish,
                 shutting>>

\* import_response_cb: cancelled, or not a local file.
SelectionCancelled ==
  /\ Running /\ chooser
  /\ chooser' = FALSE /\ state' = "IDLE"
  /\ app' = End(app, IMPORT)
  /\ UNCHANGED <<awgChooser, session, procs, primary, serving, faulty, used,
                 wish, shutting>>

\* import_response_cb and chooser_selected_cb: a file to import.
FileSelected == Running /\ chooser /\ state = "CHOOSING" /\ Open

----------------------------------------------------------------------------
(* The editor and the bus (external)                                        *)

External == UNCHANGED <<app, state, chooser, awgChooser, session, wish, shutting>>

\* The command becomes the editor, or hands its request to the editor.
EditorServes(p) ==
  /\ p.phase = "running" /\ serving[p.generation] = NoEditor
  /\ primary' = IF primary = NoEditor THEN p.generation ELSE primary
  /\ serving' = [serving EXCEPT ![p.generation] = primary']
  /\ External /\ UNCHANGED <<procs, faulty, used>>

\* It exits when its window is closed, or at once when another serves it.
EditorExits(p) ==
  /\ p.phase = "running" /\ serving[p.generation] # NoEditor
  /\ procs' = (procs \ {p}) \cup {[p EXCEPT !.phase = "exited"]}
  /\ primary' = IF primary = p.generation THEN NoEditor ELSE primary
  /\ External /\ UNCHANGED <<serving, faulty, used>>

EditorFails(p) ==
  /\ p.phase = "running" /\ Fail(p.generation)
  /\ procs' = (procs \ {p}) \cup {[p EXCEPT !.phase = "failed"]}
  /\ primary' = IF primary = p.generation THEN NoEditor ELSE primary
  /\ External /\ UNCHANGED serving

ForeignStarts ==
  /\ used.foreign < MaxForeign /\ primary = NoEditor
  /\ used' = [used EXCEPT !.foreign = @ + 1]
  /\ primary' = MaxGeneration + used'.foreign
  /\ External /\ UNCHANGED <<procs, serving, faulty>>

ForeignExits ==
  /\ primary > MaxGeneration
  /\ primary' = NoEditor
  /\ External /\ UNCHANGED <<procs, serving, faulty, used>>

\* GetNameOwner answers with the owner of this moment, or fails.
BusAnswers(p) ==
  /\ p.phase = "query"
  /\ \E reply \in {primary, NoEditor} :
       /\ procs' = (procs \ {p}) \cup {[p EXCEPT !.phase = "reply",
                                                 !.reply = reply]}
       /\ IF reply = primary THEN UNCHANGED <<used, faulty>>
                             ELSE Fail(p.generation)
  /\ External /\ UNCHANGED <<primary, serving>>

----------------------------------------------------------------------------

Callbacks(p) == EditorExited(p) \/ BusReady(p) \/ OwnerQueried(p)
Outside(p) == EditorServes(p) \/ EditorExits(p) \/ BusAnswers(p)

Next ==
  \/ Show \/ Hide \/ Toggle \/ DismissIfUnfocused \/ Shutdown
  \/ PresentImportChooser \/ ImportChooserCloses
  \/ RequestEditor \/ ImportProfile \/ SelectionCancelled \/ FileSelected
  \/ \E p \in procs : Callbacks(p) \/ Outside(p) \/ EditorFails(p)
  \/ WatchReports \/ ForeignStarts \/ ForeignExits

Spec == Init /\ [][Next]_vars

\* The main loop runs every callback that is ready, the bus answers, and the
\* user closes the editors and choosers in the end.
Process(g) == {p \in procs : p.generation = g}
Fairness ==
  /\ \A g \in Generations :
       /\ WF_vars(\E p \in Process(g) : Callbacks(p))
       /\ WF_vars(\E p \in Process(g) : Outside(p))
  /\ WF_vars(WatchReports)
  /\ WF_vars(ForeignExits)
  /\ WF_vars(SelectionCancelled \/ FileSelected)
  /\ WF_vars(ImportChooserCloses)

FairSpec == Spec /\ Fairness

----------------------------------------------------------------------------
(* Properties                                                               *)

\* Type invariant of the visibility state, the presenters and the session.
TypeOK ==
  /\ app \in [owners : SUBSET Owners, deferred : SUBSET Owners,
              requested : BOOLEAN, visible : BOOLEAN, inventory : BOOLEAN,
              refresh : BOOLEAN]
  /\ state \in {"IDLE", "CHOOSING", "EDITING", "STOPPED"}
  /\ {chooser, awgChooser, wish, shutting} \subseteq BOOLEAN
  /\ session \in [generation : 0..(MaxGeneration + 1), pending : BOOLEAN,
                  watch : [owner : Editors \cup {NoEditor}, told : BOOLEAN]]
  /\ procs \subseteq
       [generation : Generations, reply : Editors \cup {NoEditor},
        phase : {"running", "exited", "failed", "bus", "query", "reply"}]
  /\ \A p, q \in procs : p.generation = q.generation => p = q
  /\ primary \in Editors \cup {NoEditor}
  /\ serving \in [Generations -> Editors \cup {NoEditor}]
  /\ faulty \subseteq Generations
  /\ used \in [foreign : 0..MaxForeign, faults : 0..MaxFaults]

\* The window is mapped exactly when it is wanted and no dialog has its
\* place; the inventory is read exactly then, and a refresh that was asked
\* for while a dialog was open is not left behind (present_sidebar,
\* set_external_interaction).
ShownIffWanted ==
  Running => /\ app.visible <=> (app.requested /\ app.owners = {})
             /\ app.inventory <=> app.visible
             /\ app.refresh => app.owners # {}

\* No dialog blocks the sidebar once it is gone: an owner bit stands for a
\* dialog that is open, also after a selection was handed to the editor, a
\* launch failed, or one dialog took over from another.
OwnersAreOpen ==
  Running => /\ IMPORT \in app.owners <=> chooser
             /\ AWG_IMPORT \in app.owners <=> awgChooser
             /\ EDITOR \notin app.owners

\* The sidebar comes back exactly as the user last wanted it: once no dialog
\* and no editor is open, it is shown if the last thing asked was to show it,
\* and hidden if it was to hide it, whatever was asked while one was open
\* (external_interaction_callback: "restore unless explicit visibility
\* changed").
WishIsKept ==
  Running => /\ wish <=> (app.requested \/ app.deferred # {})
             /\ (state = "IDLE" /\ ~awgChooser) => (app.visible <=> wish)

\* The current session always has something that will end it (its command's
\* exit, a call of the bus, or the watch of the name), and a restoration
\* waits only for an editor that is being followed.
EditorIsFollowed ==
  Running =>
    /\ state = "EDITING" <=> session.pending
    /\ session.pending =>
         ((session.watch # NoWatch)
           <=> ~\E p \in procs : p.generation = session.generation)
    /\ app.deferred # {} => app.deferred = {EDITOR} /\ state = "EDITING"

\* The session ends only when the editor that serves it is gone: neither the
\* exit of a command that handed its request over, nor a callback of an
\* earlier session that arrives late, ends it sooner, unless the editor
\* failed or the bus is unavailable (editor_exited_cb, finish_editor_session).
NotEndedEarly ==
  [][LET g == session.generation IN
     (/\ state = "EDITING" /\ state' = "IDLE"
      /\ session'.generation = g + 1)
     => g \in faulty' \/ (serving[g] # NoEditor /\ serving[g] # primary)]_vars

\* A sidebar that went away for an editor is given back: it is restored, or
\* the user has said otherwise in the meantime.
RestoreHappens == app.deferred # {} ~> app.deferred = {}

\* The window, the interaction owners and the editor session agree: the sidebar is shown
\* as was last wished for unless a dialog has its place, each owner bit has its dialog, and
\* a session under way follows the editor it opened.
SidebarFollowsWishes ==
  /\ TypeOK
  /\ ShownIffWanted
  /\ OwnersAreOpen
  /\ WishIsKept
  /\ EditorIsFollowed

\* The end of an editor is noticed, and only the end of the one that was opened: callbacks
\* of an older session or an exit that handed the request over do not count.
EditorEndsOnce == NotEndedEarly /\ RestoreHappens

----------------------------------------------------------------------------
(* The inductive invariant.  It adds to SidebarFollowsWishes what the        *)
(* handlers rely on without a test.                                          *)

\* A refresh waits only for a sidebar that is wanted, and the file chooser is
\* open exactly while the presenter is choosing.
DialogsAreBooked ==
  Running => /\ app.refresh => app.requested
             /\ chooser <=> state = "CHOOSING"

\* Every callback is of a generation that was given out, and a session that
\* is under way leaves room for the next one.
GenerationsAreFresh ==
  /\ session.generation <= MaxGeneration
  /\ session.pending => session.generation < MaxGeneration
  /\ session.watch # NoWatch => session.watch.owner # NoEditor /\ session.pending
  /\ \A p \in procs : p.generation \in 1..session.generation

\* An editor that is gone: it never owns the name again.
Known(e) == IF e \in Generations THEN serving[e] # NoEditor
                                 ELSE e <= MaxGeneration + used.foreign
Left(g) == serving[g] # NoEditor /\ serving[g] # primary

\* What the owner that a query answered with, or a watch was set for, says
\* about the editor that serves the request of generation g.
Witnesses(g, owner) ==
  g \in faulty \/ Left(g) \/ (owner # NoEditor /\ owner = serving[g])

\* The name is owned, and requests are served, by editors that have started;
\* what a callback carries tells of the editor of its generation.
EditorsAreWitnessed ==
  /\ primary # NoEditor => Known(primary)
  /\ \A g \in Generations : serving[g] # NoEditor => Known(serving[g])
  /\ \A p \in procs :
       /\ p.phase \in {"exited", "bus", "query", "reply"} =>
            serving[p.generation] # NoEditor
       /\ p.phase = "failed" => p.generation \in faulty
       /\ p.phase = "reply" => Witnesses(p.generation, p.reply)
  /\ session.watch # NoWatch => Witnesses(session.generation, session.watch.owner)

IndInv ==
  /\ SidebarFollowsWishes
  /\ DialogsAreBooked
  /\ GenerationsAreFresh
  /\ EditorsAreWitnessed
=============================================================================
