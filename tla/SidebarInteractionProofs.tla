---------------------- MODULE SidebarInteractionProofs ----------------------
(***************************************************************************)
(* Proofs about SidebarInteraction, for every number of generations, of    *)
(* editors that something else starts and of faults: the sidebar is shown  *)
(* as last wished for whatever dialogs open, fail and take over from one   *)
(* another, and a session ends only when its editor is gone.               *)
(*                                                                         *)
(* And about ProfileSave, for every number of settings with secrets, of    *)
(* saves, changes by others and refusals: a save overwrites no change that *)
(* libnm had seen whole.                                                   *)
(***************************************************************************)
EXTENDS SidebarInteraction, ProfileSave, TLAPS

----------------------------------------------------------------------------
(* The visibility state.                                                    *)

\* The visibility state of the application (NetworkSidebarApp in gui/app.c).
Apps == [owners : SUBSET Owners, deferred : SUBSET Owners, requested : BOOLEAN,
         visible : BOOLEAN, inventory : BOOLEAN, refresh : BOOLEAN]

\* The window is mapped exactly when it is wanted and no dialog has its place.
Coherent(a) ==
  /\ a.visible <=> (a.requested /\ a.owners = {})
  /\ a.inventory <=> a.visible
  /\ a.refresh => a.owners # {} /\ a.requested

\* What is left of it between the assignments of one callback.
Unsettled(a) ==
  /\ a.owners # {} => ~a.visible /\ ~a.inventory
  /\ a.refresh => a.owners # {} /\ a.requested

\* A record with other values in some fields is a visibility state.
LEMMA AppFields ==
  ASSUME NEW a \in Apps, NEW o \in SUBSET Owners, NEW d \in SUBSET Owners,
         NEW r \in BOOLEAN, NEW v \in BOOLEAN, NEW i \in BOOLEAN, NEW f \in BOOLEAN
  PROVE  LET b == [owners |-> o, deferred |-> d, requested |-> r, visible |-> v,
                   inventory |-> i, refresh |-> f]
         IN b \in Apps
  BY DEF Apps

\* present_sidebar leaves a coherent state that is wanted.
LEMMA PresentFacts ==
  ASSUME NEW a \in Apps, NEW f \in BOOLEAN, NEW b, b = Present(a, f),
         a.owners # {} => ~a.visible /\ ~a.inventory
  PROVE  /\ b \in Apps /\ Coherent(b) /\ b.owners = a.owners /\ b.deferred = a.deferred
         /\ b.requested
  <1>1. CASE a.owners # {}
    <2>1. b = [a EXCEPT !.requested = TRUE, !.refresh = a.refresh \/ f]
      BY <1>1 DEF Present
    <2>2. /\ a.owners \in SUBSET Owners /\ a.deferred \in SUBSET Owners
          /\ a.visible \in BOOLEAN /\ a.inventory \in BOOLEAN /\ (a.refresh \/ f) \in BOOLEAN
      BY DEF Apps
    <2>3. b \in Apps /\ b.owners = a.owners /\ b.deferred = a.deferred /\ b.requested
          /\ b.visible = a.visible /\ b.inventory = a.inventory
      BY <2>1, <2>2 DEF Apps
    <2> QED BY <1>1, <2>3 DEF Coherent
  <1>2. CASE a.owners = {}
    <2>1. b = [a EXCEPT !.requested = TRUE, !.visible = TRUE, !.inventory = TRUE, !.refresh = FALSE]
      BY <1>2 DEF Present
    <2>2. b \in Apps /\ b.owners = a.owners /\ b.deferred = a.deferred /\ b.requested = TRUE
          /\ b.visible = TRUE /\ b.inventory = TRUE /\ b.refresh = FALSE
      BY <2>1 DEF Apps
    <2> QED BY <1>2, <2>2 DEF Coherent
  <1> QED BY <1>1, <1>2

\* show_sidebar replaces a deferred restoration.
LEMMA ShowFacts ==
  ASSUME NEW a \in Apps, Coherent(a), NEW b, b = ShowSidebar(a)
  PROVE  /\ b \in Apps /\ Coherent(b) /\ b.owners = a.owners /\ b.deferred = {}
         /\ b.requested
  <1> DEFINE c == [a EXCEPT !.deferred = {}]
  <1>1. /\ c \in Apps /\ c.owners = a.owners /\ c.deferred = {}
        /\ c.visible = a.visible /\ c.inventory = a.inventory
    BY DEF Apps
  <1>2. b = Present(c, TRUE)
    BY DEF ShowSidebar
  <1>3. c.owners # {} => ~c.visible /\ ~c.inventory
    BY <1>1 DEF Coherent
  <1> HIDE DEF c
  <1> QED BY <1>1, <1>2, <1>3, PresentFacts

\* hide_sidebar drops the wish and a deferred restoration.
LEMMA HideFacts ==
  ASSUME NEW a \in Apps, NEW b, b = HideSidebar(a)
  PROVE  /\ b \in Apps /\ Coherent(b) /\ b.owners = a.owners /\ b.deferred = {}
         /\ ~b.requested
  <1>1. /\ b \in Apps /\ b.owners = a.owners /\ b.deferred = {} /\ b.requested = FALSE
        /\ b.visible = FALSE /\ b.inventory = FALSE /\ b.refresh = FALSE
    BY DEF HideSidebar, Apps
  <1> QED BY <1>1 DEF Coherent

\* set_external_interaction, once the new owners are known.
Settle(a, s) ==
  LET c == [a EXCEPT !.owners = s]
  IN CASE s = a.owners -> a
       [] s # a.owners /\ s # {} -> [c EXCEPT !.inventory = FALSE, !.visible = FALSE]
       [] s # a.owners /\ s = {} -> IF a.requested THEN Present(c, FALSE) ELSE c

\* set_external_interaction adds an owner or removes one.
LEMMA ExternalSettles ==
  ASSUME NEW a, NEW o
  PROVE  /\ SetExternal(a, o, TRUE) = Settle(a, a.owners \cup {o})
         /\ SetExternal(a, o, FALSE) = Settle(a, a.owners \ {o})
  BY DEF SetExternal, Settle

\* set_external_interaction leaves a coherent state when the owners change, and the
\* state as it was when they do not.
LEMMA ExternalFacts ==
  ASSUME NEW a \in Apps, Unsettled(a), NEW s \in SUBSET Owners, NEW b, b = Settle(a, s)
  PROVE  /\ b \in Apps /\ b.deferred = a.deferred /\ b.requested = a.requested
         /\ b.owners = s
         /\ s = a.owners => b = a
         /\ s # a.owners => Coherent(b)
  <1> DEFINE c == [a EXCEPT !.owners = s]
  <1>2. /\ c \in Apps /\ c.owners = s /\ c.deferred = a.deferred /\ c.requested = a.requested
        /\ c.visible = a.visible /\ c.inventory = a.inventory /\ c.refresh = a.refresh
    BY DEF Apps
  <1>3. CASE s = a.owners
    BY <1>3 DEF Settle
  <1>4. CASE s # a.owners /\ s # {}
    <2>1. b = [c EXCEPT !.inventory = FALSE, !.visible = FALSE]
      BY <1>4 DEF Settle
    <2>2. /\ b \in Apps /\ b.owners = s /\ b.deferred = a.deferred /\ b.requested = a.requested
          /\ b.visible = FALSE /\ b.inventory = FALSE /\ b.refresh = a.refresh
      <3> HIDE DEF c
      <3> QED BY <1>2, <2>1 DEF Apps
    <2>3. Coherent(b)
      BY <1>4, <2>2 DEF Coherent, Unsettled
    <2> QED BY <1>4, <2>2, <2>3
  <1>5. CASE s # a.owners /\ s = {}
    <2>1. b = IF a.requested THEN Present(c, FALSE) ELSE c
      BY <1>5 DEF Settle
    <2>2. a.owners # {} /\ ~c.visible /\ ~c.inventory
      BY <1>2, <1>5 DEF Unsettled
    <2>3. CASE a.requested
      <3>1. /\ b \in Apps /\ Coherent(b) /\ b.owners = c.owners /\ b.deferred = c.deferred
            /\ b.requested
        <4> HIDE DEF c
        <4> QED BY <1>2, <2>1, <2>2, <2>3, PresentFacts
      <3>2. a.requested = TRUE /\ b.requested = TRUE
        BY <2>3, <3>1 DEF Apps
      <3> QED BY <1>2, <1>5, <3>1, <3>2
    <2>4. CASE ~a.requested
      BY <1>2, <1>5, <2>1, <2>2, <2>4 DEF Coherent, Unsettled
    <2> QED BY <2>3, <2>4
  <1> QED BY <1>3, <1>4, <1>5

\* A coherent state is one in which a callback may start.
LEMMA CoherentIsUnsettled ==
  ASSUME NEW a, Coherent(a)
  PROVE  Unsettled(a)
  BY DEF Coherent, Unsettled

\* A dialog opens: it takes the place of the window.
LEMMA BeginFacts ==
  ASSUME NEW a \in Apps, Coherent(a), NEW o \in Owners, NEW b, b = Begin(a, o)
  PROVE  /\ b \in Apps /\ Coherent(b) /\ b.owners = a.owners \cup {o}
         /\ b.deferred = a.deferred \ {o} /\ b.requested = a.requested
  <1> DEFINE c == [a EXCEPT !.deferred = @ \ {o}]
  <1>1. /\ c \in Apps /\ c.owners = a.owners /\ c.deferred = a.deferred \ {o}
        /\ c.requested = a.requested /\ c.visible = a.visible /\ c.inventory = a.inventory
        /\ c.refresh = a.refresh
    BY DEF Apps
  <1>2. Coherent(c)
    BY <1>1 DEF Coherent
  <1>3. b = Settle(c, c.owners \cup {o})
    BY ExternalSettles DEF Begin
  <1> HIDE DEF c
  <1>4. /\ b \in Apps /\ b.deferred = c.deferred /\ b.requested = c.requested
        /\ b.owners = c.owners \cup {o}
        /\ b.owners = c.owners => b = c
        /\ b.owners # c.owners => Coherent(b)
    <2>1. c.owners \cup {o} \in SUBSET Owners /\ c.owners \ {o} \in SUBSET Owners
      BY <1>1 DEF Apps
    <2> QED BY <1>1, <1>2, <1>3, <2>1, ExternalFacts, CoherentIsUnsettled
  <1> QED BY <1>1, <1>2, <1>4

\* A dialog is cancelled because another one takes over.
LEMMA CancelFacts ==
  ASSUME NEW a \in Apps, Coherent(a), NEW o \in Owners, NEW b, b = Cancel(a, o)
  PROVE  /\ b \in Apps /\ Coherent(b) /\ b.owners = a.owners \ {o}
         /\ b.deferred = a.deferred \ {o} /\ b.requested = a.requested
  <1> DEFINE c == [a EXCEPT !.deferred = @ \ {o}]
  <1>1. /\ c \in Apps /\ c.owners = a.owners /\ c.deferred = a.deferred \ {o}
        /\ c.requested = a.requested /\ c.visible = a.visible /\ c.inventory = a.inventory
        /\ c.refresh = a.refresh
    BY DEF Apps
  <1>2. Coherent(c)
    BY <1>1 DEF Coherent
  <1>3. b = Settle(c, c.owners \ {o})
    BY ExternalSettles DEF Cancel
  <1> HIDE DEF c
  <1>4. /\ b \in Apps /\ b.deferred = c.deferred /\ b.requested = c.requested
        /\ b.owners = c.owners \ {o}
        /\ b.owners = c.owners => b = c
        /\ b.owners # c.owners => Coherent(b)
    <2>1. c.owners \cup {o} \in SUBSET Owners /\ c.owners \ {o} \in SUBSET Owners
      BY <1>1 DEF Apps
    <2> QED BY <1>1, <1>2, <1>3, <2>1, ExternalFacts, CoherentIsUnsettled
  <1> QED BY <1>1, <1>2, <1>4

\* The editor is launched: the sidebar stays away, and comes back at its end if it
\* was wanted.
LEMMA DeferFacts ==
  ASSUME NEW a \in Apps, Coherent(a), NEW o \in a.owners, NEW b, b = Defer(a, o)
  PROVE  /\ b \in Apps /\ Coherent(b) /\ b.owners = a.owners \ {o} /\ ~b.requested
         /\ a.requested => b.deferred = a.deferred \cup {o}
         /\ ~a.requested => b.deferred = a.deferred
  <1> DEFINE d == IF a.requested THEN a.deferred \cup {o} ELSE a.deferred
             c == [a EXCEPT !.deferred = d, !.requested = FALSE, !.refresh = FALSE]
  <1>1. o \in Owners /\ d \in SUBSET Owners /\ a.owners # {}
    BY DEF Apps
  <1>2. b = Settle(c, c.owners \ {o})
    BY ExternalSettles DEF Defer
  <1> HIDE DEF d
  <1>3. /\ c \in Apps /\ c.owners = a.owners /\ c.deferred = d /\ c.requested = FALSE
        /\ c.visible = a.visible /\ c.inventory = a.inventory /\ c.refresh = FALSE
    BY <1>1 DEF Apps
  <1>4. Unsettled(c)
    BY <1>1, <1>3 DEF Unsettled, Coherent
  <1> HIDE DEF c
  <1>5. /\ b \in Apps /\ b.deferred = c.deferred /\ b.requested = c.requested
        /\ b.owners = c.owners \ {o}
        /\ b.owners = c.owners => b = c
        /\ b.owners # c.owners => Coherent(b)
    <2>1. c.owners \ {o} \in SUBSET Owners
      BY <1>3 DEF Apps
    <2> QED BY <1>1, <1>2, <1>3, <1>4, <2>1, ExternalFacts
  <1>6. b.owners # c.owners
    BY <1>3, <1>5
  <1> QED BY <1>3, <1>5, <1>6 DEF d

\* A dialog ends: its place is free, and what it has deferred is restored.
LEMMA EndFacts ==
  ASSUME NEW a \in Apps, Coherent(a), NEW o \in Owners, NEW b, b = End(a, o)
  PROVE  /\ b \in Apps /\ Coherent(b) /\ b.owners = a.owners \ {o}
         /\ b.deferred = a.deferred \ {o}
         /\ b.requested <=> (a.requested \/ o \in a.deferred)
  <1> DEFINE r == a.requested \/ o \in a.deferred
             c == [a EXCEPT !.deferred = @ \ {o}, !.requested = r]
             e == SetExternal(c, o, FALSE)
  <1>1. r \in BOOLEAN
    BY DEF Apps
  <1>2. b = IF o \in a.deferred /\ o \notin a.owners /\ e.owners = {}
              THEN Present(e, FALSE) ELSE e
    BY DEF End
  <1>3. a.requested => r
    OBVIOUS
  <1>4. a.owners # {} => ~a.visible /\ ~a.inventory
    BY DEF Coherent
  <1>5. /\ c \in Apps /\ c.owners = a.owners /\ c.deferred = a.deferred \ {o}
        /\ c.requested = r /\ c.visible = a.visible /\ c.inventory = a.inventory
        /\ c.refresh = a.refresh
    <2> HIDE DEF r
    <2> QED BY <1>1 DEF Apps
  <1>6. Unsettled(c)
    <2> HIDE DEF c, r
    <2> QED BY <1>3, <1>5 DEF Unsettled, Coherent
  <1>7. /\ e \in Apps /\ e.deferred = c.deferred /\ e.requested = c.requested
        /\ e.owners = c.owners \ {o}
        /\ e.owners = c.owners => e = c
        /\ e.owners # c.owners => Coherent(e)
    <2>1. e = Settle(c, c.owners \ {o})
      BY ExternalSettles
    <2> HIDE DEF c, e, r
    <2>2. c.owners \ {o} \in SUBSET Owners
      BY <1>5 DEF Apps
    <2> QED BY <1>5, <1>6, <2>1, <2>2, ExternalFacts
  <1>8. CASE o \in a.owners
    <2>1. b = e /\ Coherent(e)
      BY <1>2, <1>5, <1>7, <1>8
    <2> HIDE DEF c, e
    <2> QED BY <1>5, <1>7, <2>1
  <1>9. CASE o \notin a.owners
    <2>1. e = c
      <3> HIDE DEF c, e
      <3> QED BY <1>5, <1>7, <1>9
    <2>2. CASE o \in a.deferred /\ c.owners = {}
      <3>1. b = Present(c, FALSE) /\ r = TRUE
        BY <1>2, <1>9, <2>1, <2>2
      <3>2. c.owners # {} => ~c.visible /\ ~c.inventory
        BY <2>2
      <3>3. /\ b \in Apps /\ Coherent(b) /\ b.owners = c.owners /\ b.deferred = c.deferred
            /\ b.requested
        <4> HIDE DEF c
        <4> QED BY <1>5, <3>1, <3>2, PresentFacts
      <3> HIDE DEF c
      <3> QED BY <1>5, <1>9, <2>2, <3>3
    <2>3. CASE o \in a.deferred /\ c.owners # {}
      <3>1. b = c /\ r = TRUE
        BY <1>2, <2>1, <2>3
      <3>2. Coherent(c)
        <4> HIDE DEF c
        <4> QED BY <1>4, <1>5, <1>6, <2>3 DEF Coherent, Unsettled
      <3> HIDE DEF c
      <3> QED BY <1>5, <1>9, <3>1, <3>2
    <2>4. CASE o \notin a.deferred
      <3>1. b = c /\ r = a.requested
        BY <1>2, <2>1, <2>4 DEF Apps
      <3>2. Coherent(c)
        <4> HIDE DEF c
        <4> QED BY <1>5, <3>1 DEF Coherent
      <3> HIDE DEF c
      <3> QED BY <1>5, <1>9, <3>1, <3>2
    <2> QED BY <2>2, <2>3, <2>4
  <1> QED BY <1>8, <1>9

----------------------------------------------------------------------------
(* The window and the dialogs.                                              *)

\* What the visibility state has to do with the dialogs that are open: c and w tell
\* whether the two choosers are, st is the state of the presenter, wi the wish.
Agrees(a, st, c, w, wi) ==
  /\ a \in Apps /\ Coherent(a)
  /\ IMPORT \in a.owners <=> c
  /\ AWG_IMPORT \in a.owners <=> w
  /\ EDITOR \notin a.owners
  /\ a.deferred # {} => a.deferred = {EDITOR} /\ st = "EDITING"
  /\ wi <=> (a.requested \/ a.deferred # {})
  /\ c <=> st = "CHOOSING"

VisibilityOK == Agrees(app, state, chooser, awgChooser, wish)

\* The invariant says so while the program runs.
LEMMA InvariantAgrees ==
  ASSUME IndInv, Running
  PROVE  VisibilityOK
  BY DEF IndInv, SidebarFollowsWishes, TypeOK, ShownIffWanted, OwnersAreOpen, WishIsKept,
         EditorIsFollowed, DialogsAreBooked, VisibilityOK, Agrees, Apps, Coherent

\* The three dialogs are different.
LEMMA OwnersDiffer ==
  /\ Owners = {IMPORT, EDITOR, AWG_IMPORT}
  /\ IMPORT # EDITOR /\ IMPORT # AWG_IMPORT /\ EDITOR # AWG_IMPORT
  BY DEF Owners, IMPORT, EDITOR, AWG_IMPORT

\* It is all that the properties say about the window.
LEMMA AgreementIsAll ==
  ASSUME VisibilityOK
  PROVE  /\ ShownIffWanted /\ OwnersAreOpen /\ WishIsKept /\ DialogsAreBooked
         /\ app.deferred # {} => app.deferred = {EDITOR} /\ state = "EDITING"
         /\ app \in Apps
  <1>1. ShownIffWanted /\ OwnersAreOpen /\ DialogsAreBooked
    BY DEF VisibilityOK, Agrees, Coherent, ShownIffWanted, OwnersAreOpen, DialogsAreBooked
  <1>2. app \in Apps /\ (app.deferred # {} => app.deferred = {EDITOR} /\ state = "EDITING")
    BY DEF VisibilityOK, Agrees
  <1>3. ASSUME state = "IDLE", ~awgChooser
        PROVE  app.visible <=> wish
    <2>1. app.deferred = {} /\ ~chooser
      BY <1>3 DEF VisibilityOK, Agrees
    <2>2. app.owners = {}
      BY <1>2, <1>3, <2>1, OwnersDiffer DEF VisibilityOK, Agrees, Apps
    <2> QED BY <2>1, <2>2 DEF VisibilityOK, Agrees, Coherent
  <1>4. WishIsKept
    BY <1>3 DEF WishIsKept, VisibilityOK, Agrees
  <1> QED BY <1>1, <1>2, <1>4

\* So does a state that a step leads to.
LEMMA AgreementIsAllNext ==
  VisibilityOK' =>
    /\ ShownIffWanted' /\ OwnersAreOpen' /\ WishIsKept' /\ DialogsAreBooked'
    /\ (app.deferred # {} => app.deferred = {EDITOR} /\ state = "EDITING")'
  <1>1. VisibilityOK =>
          /\ ShownIffWanted /\ OwnersAreOpen /\ WishIsKept /\ DialogsAreBooked
          /\ (app.deferred # {} => app.deferred = {EDITOR} /\ state = "EDITING")
    BY AgreementIsAll
  <1> QED BY <1>1, PTL

\* The session ends, and the editor gives the sidebar back.
LEMMA EndAgrees ==
  ASSUME VisibilityOK, state = "EDITING", NEW a, a = End(app, EDITOR)
  PROVE  Agrees(a, "IDLE", chooser, awgChooser, wish)
  <1>1. app \in Apps /\ Coherent(app)
    BY DEF VisibilityOK, Agrees
  <1>2. /\ a \in Apps /\ Coherent(a) /\ a.owners = app.owners \ {EDITOR}
        /\ a.deferred = app.deferred \ {EDITOR}
        /\ a.requested <=> (app.requested \/ EDITOR \in app.deferred)
    BY <1>1, EndFacts, OwnersDiffer
  <1>3. a.owners = app.owners /\ a.deferred = {}
    BY <1>2 DEF VisibilityOK, Agrees
  <1>4. app.deferred # {} <=> EDITOR \in app.deferred
    BY DEF VisibilityOK, Agrees
  <1> QED BY <1>2, <1>3, <1>4 DEF VisibilityOK, Agrees

\* A session that ends is the one that is edited.
LEMMA FinishEffect ==
  ASSUME IndInv, Running, NEW g, Finish(g)
  PROVE  \/ /\ IsCurrent(g) /\ session' = CancelSession(session)
            /\ state = "EDITING" /\ state' = "IDLE" /\ app' = End(app, EDITOR)
         \/ ~IsCurrent(g) /\ UNCHANGED <<session, state, app>>
  <1>1. state = "EDITING" <=> session.pending
    BY DEF IndInv, SidebarFollowsWishes, EditorIsFollowed
  <1> QED BY <1>1 DEF Finish, IsCurrent

\* A callback of the session leaves the window agreed, whatever it does to the session.
LEMMA FinishAgrees ==
  ASSUME IndInv, Running, NEW g, Finish(g), UNCHANGED <<chooser, awgChooser, wish>>
  PROVE  VisibilityOK'
  <1>1. VisibilityOK
    BY InvariantAgrees
  <1>2. CASE state = "EDITING" /\ state' = "IDLE" /\ app' = End(app, EDITOR)
    <2>1. Agrees(app', "IDLE", chooser, awgChooser, wish)
      BY <1>1, <1>2, EndAgrees
    <2> QED BY <1>2, <2>1 DEF VisibilityOK
  <1>3. CASE UNCHANGED <<session, state, app>>
    BY <1>1, <1>3 DEF VisibilityOK
  <1> QED BY <1>2, <1>3, FinishEffect

\* The launch of the editor: the sidebar waits for its end, or is back at once.
LEMMA OpenAgrees ==
  ASSUME IndInv, Running, Open, app.requested \/ app.deferred = {}
  PROVE  VisibilityOK'
  <1> DEFINE b == Begin(app, EDITOR)
             l == Launch(app)
  <1>1. VisibilityOK
    BY InvariantAgrees
  <1>2. app \in Apps /\ Coherent(app)
    BY <1>1 DEF VisibilityOK, Agrees
  <1>3. /\ b \in Apps /\ Coherent(b) /\ b.owners = app.owners \cup {EDITOR}
        /\ b.deferred = app.deferred \ {EDITOR} /\ b.requested = app.requested
    BY <1>2, BeginFacts, OwnersDiffer
  <1>4. b.deferred = {}
    BY <1>1, <1>3 DEF VisibilityOK, Agrees
  <1>5. /\ l \in Apps /\ Coherent(l) /\ l.owners = b.owners \ {IMPORT} /\ l.deferred = {}
        /\ l.requested <=> app.requested
    <2>1. l = End(b, IMPORT)
      BY DEF Launch
    <2> HIDE DEF b, l
    <2> QED BY <1>3, <1>4, <2>1, EndFacts, OwnersDiffer
  <1>6. /\ EDITOR \in l.owners /\ IMPORT \notin l.owners
        /\ AWG_IMPORT \in l.owners <=> awgChooser
    BY <1>1, <1>3, <1>5, OwnersDiffer DEF VisibilityOK, Agrees
  <1>7. wish <=> app.requested
    BY <1>1 DEF VisibilityOK, Agrees
  <1>8. chooser' = FALSE /\ awgChooser' = awgChooser /\ wish' = wish
    BY DEF Open
  <1>9. CASE state' = "EDITING" /\ app' = Defer(l, EDITOR)
    <2>1. /\ app' \in Apps /\ Coherent(app') /\ app'.owners = l.owners \ {EDITOR}
          /\ ~app'.requested
          /\ l.requested => app'.deferred = l.deferred \cup {EDITOR}
          /\ ~l.requested => app'.deferred = l.deferred
      <3> HIDE DEF l
      <3> QED BY <1>5, <1>6, <1>9, DeferFacts
    <2>2. app'.deferred = IF app.requested THEN {EDITOR} ELSE {}
      <3> HIDE DEF l
      <3> QED BY <1>5, <2>1
    <2> HIDE DEF l, b
    <2> QED BY <1>6, <1>7, <1>8, <1>9, <2>1, <2>2, OwnersDiffer DEF VisibilityOK, Agrees
  <1>10. CASE state' = "IDLE" /\ app' = End(l, EDITOR)
    <2>1. /\ app' \in Apps /\ Coherent(app') /\ app'.owners = l.owners \ {EDITOR}
          /\ app'.deferred = {}
          /\ app'.requested <=> app.requested
      <3> HIDE DEF l
      <3> QED BY <1>5, <1>10, EndFacts, OwnersDiffer
    <2> HIDE DEF l, b
    <2> QED BY <1>6, <1>7, <1>8, <1>10, <2>1, OwnersDiffer DEF VisibilityOK, Agrees
  <1> QED BY <1>9, <1>10 DEF Open

\* Every step leaves the window and the dialogs agreed, as long as the program runs.
LEMMA VisibilityStep ==
  ASSUME IndInv, Running, [Next]_vars, Running'
  PROVE  VisibilityOK'
  <1>1. VisibilityOK
    BY InvariantAgrees
  <1>2. app \in Apps /\ Coherent(app)
    BY <1>1 DEF VisibilityOK, Agrees
  <1>3. CASE Show
    <2>1. /\ app' \in Apps /\ Coherent(app') /\ app'.owners = app.owners
          /\ app'.deferred = {} /\ app'.requested
      BY <1>2, <1>3, ShowFacts DEF Show
    <2> QED BY <1>1, <1>3, <2>1 DEF Show, VisibilityOK, Agrees
  <1>4. ASSUME app' = HideSidebar(app), wish' = FALSE,
               UNCHANGED <<state, chooser, awgChooser>>
        PROVE  VisibilityOK'
    <2>1. /\ app' \in Apps /\ Coherent(app') /\ app'.owners = app.owners
          /\ app'.deferred = {} /\ ~app'.requested
      BY <1>2, <1>4, HideFacts
    <2> QED BY <1>1, <1>4, <2>1 DEF VisibilityOK, Agrees
  <1>5. CASE Toggle
    <2>1. CASE app.requested
      <3>1. app.requested = TRUE
        BY <1>2, <2>1 DEF Apps
      <3> QED BY <1>4, <1>5, <2>1, <3>1 DEF Toggle
    <2>2. CASE ~app.requested
      <3>1. /\ app' \in Apps /\ Coherent(app') /\ app'.owners = app.owners
            /\ app'.deferred = {} /\ app'.requested
        BY <1>2, <1>5, <2>2, ShowFacts DEF Toggle
      <3> QED BY <1>1, <1>5, <2>2, <3>1 DEF Toggle, VisibilityOK, Agrees
    <2> QED BY <2>1, <2>2
  <1>6. CASE PresentImportChooser
    <2>1. /\ app' \in Apps /\ Coherent(app') /\ app'.owners = app.owners \cup {AWG_IMPORT}
          /\ app'.deferred = app.deferred \ {AWG_IMPORT} /\ app'.requested = app.requested
      BY <1>2, <1>6, BeginFacts, OwnersDiffer DEF PresentImportChooser
    <2>2. app'.deferred = app.deferred
      BY <1>1, <2>1, OwnersDiffer DEF VisibilityOK, Agrees
    <2> QED BY <1>1, <1>6, <2>1, <2>2, OwnersDiffer DEF PresentImportChooser, VisibilityOK, Agrees
  <1>7. CASE ImportChooserCloses
    <2>1. /\ app' \in Apps /\ Coherent(app') /\ app'.owners = app.owners \ {AWG_IMPORT}
          /\ app'.deferred = app.deferred \ {AWG_IMPORT}
          /\ app'.requested <=> (app.requested \/ AWG_IMPORT \in app.deferred)
      BY <1>2, <1>7, EndFacts, OwnersDiffer DEF ImportChooserCloses
    <2>2. app'.deferred = app.deferred /\ AWG_IMPORT \notin app.deferred
      BY <1>1, <2>1, OwnersDiffer DEF VisibilityOK, Agrees
    <2> QED BY <1>1, <1>7, <2>1, <2>2, OwnersDiffer DEF ImportChooserCloses, VisibilityOK, Agrees
  <1>8. CASE RequestEditor
    BY <1>2, <1>8, OpenAgrees DEF RequestEditor, Coherent
  <1>9. CASE ImportProfile
    <2> DEFINE b == Begin(app, IMPORT)
    <2>1. /\ b \in Apps /\ Coherent(b) /\ b.owners = app.owners \cup {IMPORT}
          /\ b.deferred = app.deferred \ {IMPORT} /\ b.requested = app.requested
      BY <1>2, BeginFacts, OwnersDiffer
    <2>2. /\ app' \in Apps /\ Coherent(app') /\ app'.owners = b.owners \ {EDITOR}
          /\ app'.deferred = b.deferred \ {EDITOR} /\ app'.requested = b.requested
      <3>1. app' = Cancel(b, EDITOR)
        BY <1>9 DEF ImportProfile
      <3> HIDE DEF b
      <3> QED BY <2>1, <3>1, CancelFacts, OwnersDiffer
    <2>3. app'.deferred = {} /\ app'.requested = app.requested
          /\ app'.owners = app.owners \cup {IMPORT}
      <3> HIDE DEF b
      <3> QED BY <1>1, <2>1, <2>2, OwnersDiffer DEF VisibilityOK, Agrees
    <2>4. app.requested /\ wish
      BY <1>1, <1>2, <1>9 DEF ImportProfile, Coherent, VisibilityOK, Agrees
    <2> HIDE DEF b
    <2> QED BY <1>1, <1>9, <2>2, <2>3, <2>4, OwnersDiffer
            DEF ImportProfile, VisibilityOK, Agrees
  <1>10. CASE SelectionCancelled
    <2>1. /\ app' \in Apps /\ Coherent(app') /\ app'.owners = app.owners \ {IMPORT}
          /\ app'.deferred = app.deferred \ {IMPORT}
          /\ app'.requested <=> (app.requested \/ IMPORT \in app.deferred)
      BY <1>2, <1>10, EndFacts, OwnersDiffer DEF SelectionCancelled
    <2>2. app.deferred = {} /\ app'.deferred = {}
      BY <1>1, <1>10, <2>1 DEF SelectionCancelled, VisibilityOK, Agrees
    <2> QED BY <1>1, <1>10, <2>1, <2>2, OwnersDiffer DEF SelectionCancelled, VisibilityOK, Agrees
  <1>11. CASE FileSelected
    <2>1. app.deferred = {}
      BY <1>1, <1>11 DEF FileSelected, VisibilityOK, Agrees
    <2> QED BY <1>11, <2>1, OpenAgrees DEF FileSelected
  <1>12. ASSUME UNCHANGED <<app, state, chooser, awgChooser, wish>>
         PROVE  VisibilityOK'
    BY <1>1, <1>12 DEF VisibilityOK
  <1>13. ASSUME NEW p \in procs, Callbacks(p)
         PROVE  VisibilityOK'
    <2>1. UNCHANGED <<chooser, awgChooser, wish>>
      BY <1>13 DEF Callbacks, EditorExited, BusReady, OwnerQueried
    <2>2. Finish(p.generation) \/ UNCHANGED <<state, app>>
      BY <1>13 DEF Callbacks, EditorExited, BusReady, OwnerQueried, Ends, Continues
    <2> QED BY <1>12, <2>1, <2>2, FinishAgrees
  <1>14. ASSUME NEW p \in procs, Outside(p) \/ EditorFails(p)
         PROVE  VisibilityOK'
    BY <1>12, <1>14 DEF Outside, EditorServes, EditorExits, BusAnswers, EditorFails, External
  <1>15. CASE WatchReports
    <2>1. UNCHANGED <<chooser, awgChooser, wish>>
      BY <1>15 DEF WatchReports
    <2>2. Finish(session.generation) \/ UNCHANGED <<state, app>>
      BY <1>15 DEF WatchReports
    <2> QED BY <1>12, <2>1, <2>2, FinishAgrees
  <1>16. CASE ForeignStarts \/ ForeignExits
    BY <1>12, <1>16 DEF ForeignStarts, ForeignExits, External
  <1>17. CASE Shutdown
    BY <1>17 DEF Shutdown, Running
  <1>18. CASE UNCHANGED vars
    BY <1>12, <1>18 DEF vars
  <1> QED
    BY <1>3, <1>4, <1>5, <1>6, <1>7, <1>8, <1>9, <1>10, <1>11, <1>13, <1>14, <1>15, <1>16,
       <1>17, <1>18 DEF Next, Hide, DismissIfUnfocused

----------------------------------------------------------------------------
(* The session and its callbacks.                                           *)

\* NetworkSidebarEditorSession, and an EditorProcess.
SessionRecords == [generation : 0..(MaxGeneration + 1), pending : BOOLEAN,
                   watch : [owner : Editors \cup {NoEditor}, told : BOOLEAN]]
ProcRecords == [generation : Generations, reply : Editors \cup {NoEditor},
                phase : {"running", "exited", "failed", "bus", "query", "reply"}]

\* A session s with the callbacks P: one callback per generation, none of a generation
\* that was not given out.
Fits(s, P) ==
  /\ s \in SessionRecords /\ P \subseteq ProcRecords
  /\ \A p, q \in P : p.generation = q.generation => p = q
  /\ s.generation <= MaxGeneration
  /\ s.pending => s.generation < MaxGeneration
  /\ s.watch # NoWatch => s.watch.owner # NoEditor /\ s.pending
  /\ \A p \in P : p.generation \in 1..s.generation

\* Either a callback or a watch will end the session.
Followed(s, P) ==
  s.pending => (s.watch # NoWatch <=> ~\E p \in P : p.generation = s.generation)

\* The bounds are numbers.
LEMMA Bounds == MaxGeneration \in Nat /\ MaxForeign \in Nat /\ MaxFaults \in Nat
  BY BoundsAssumption

\* The generation of a session is a number.
LEMMA FitsFacts ==
  ASSUME NEW s, NEW P, Fits(s, P)
  PROVE  /\ s.generation \in Generations /\ s.pending \in BOOLEAN
         /\ \A p \in P : p \in ProcRecords /\ p.generation \in Generations
  BY Bounds DEF Fits, SessionRecords, ProcRecords, Generations

\* A callback that goes on to its next phase.
LEMMA MoveFits ==
  ASSUME NEW s, NEW P, Fits(s, P), Followed(s, P), NEW p \in P, NEW q \in ProcRecords,
         q.generation = p.generation, NEW Q, Q = (P \ {p}) \cup {q}
  PROVE  Fits(s, Q) /\ Followed(s, Q)
  <1>1. \A x \in Q : x = q \/ (x \in P /\ x # p)
    OBVIOUS
  <1>2. \A x \in P : x = p \/ x \in Q
    OBVIOUS
  <1>3. q \in Q
    OBVIOUS
  <1>4. \A x \in P : x.generation = p.generation => x = p
    BY DEF Fits
  <1>5. Q \subseteq ProcRecords
    BY <1>1 DEF Fits
  <1>6. \A x, y \in Q : x.generation = y.generation => x = y
    BY <1>1, <1>4 DEF Fits
  <1>7. \A x \in Q : x.generation \in 1..s.generation
    BY <1>1 DEF Fits
  <1>8. Fits(s, Q)
    BY <1>5, <1>6, <1>7 DEF Fits
  <1>9. (\E x \in Q : x.generation = s.generation) <=> (\E x \in P : x.generation = s.generation)
    BY <1>1, <1>2, <1>3
  <1> QED BY <1>8, <1>9 DEF Followed

\* A callback that was the last of its process.
LEMMA DropFits ==
  ASSUME NEW s, NEW P, Fits(s, P), NEW p \in P, NEW Q, Q = P \ {p}
  PROVE  /\ Fits(s, Q)
         /\ (p.generation # s.generation /\ Followed(s, P)) => Followed(s, Q)
         /\ p.generation = s.generation => \A x \in Q : x.generation # s.generation
  <1>1. Fits(s, Q)
    BY DEF Fits
  <1>2. ASSUME p.generation # s.generation
        PROVE  (\E x \in Q : x.generation = s.generation)
                 <=> (\E x \in P : x.generation = s.generation)
    BY <1>2
  <1>3. ASSUME p.generation = s.generation, NEW x \in Q
        PROVE  x.generation # s.generation
    BY <1>3 DEF Fits
  <1> QED BY <1>1, <1>2, <1>3 DEF Followed

\* network_sidebar_editor_session_cancel starts a generation that no callback has.
LEMMA CancelFits ==
  ASSUME NEW s, NEW P, Fits(s, P), s.generation < MaxGeneration,
         NEW t, t = CancelSession(s)
  PROVE  /\ Fits(t, P) /\ ~t.pending /\ t.generation = s.generation + 1
         /\ t.watch = NoWatch
         /\ \A p \in P : p.generation < t.generation
  <1>1. t = [generation |-> s.generation + 1, pending |-> FALSE, watch |-> NoWatch]
    BY DEF CancelSession
  <1>2. s.generation \in Nat /\ s.generation + 1 \in 0..(MaxGeneration + 1)
    BY Bounds DEF Fits, SessionRecords
  <1>3. NoWatch \in [owner : Editors \cup {NoEditor}, told : BOOLEAN]
    BY DEF NoWatch
  <1>4. t \in SessionRecords
    BY <1>1, <1>2, <1>3 DEF SessionRecords
  <1>5. \A p \in P : p.generation \in 1..t.generation /\ p.generation < t.generation
    BY <1>1, <1>2 DEF Fits
  <1>6. t.generation <= MaxGeneration
    BY <1>1, <1>2, Bounds
  <1>7. Fits(t, P)
    BY <1>1, <1>4, <1>5, <1>6 DEF Fits
  <1> QED BY <1>1, <1>5, <1>7

SessionOK ==
  /\ Fits(session, procs)
  /\ Running => Followed(session, procs) /\ (state = "EDITING" <=> session.pending)

\* It is what the invariant says about the session.
LEMMA SessionView ==
  ASSUME IndInv
  PROVE  SessionOK
  <1>1. Fits(session, procs)
    BY DEF IndInv, SidebarFollowsWishes, TypeOK, GenerationsAreFresh, Fits, SessionRecords,
           ProcRecords
  <1> QED BY <1>1 DEF IndInv, SidebarFollowsWishes, EditorIsFollowed, SessionOK, Followed

\* A session that ends is over, and its last callback with it.
LEMMA FinishFits ==
  ASSUME IndInv, Running, NEW g, Finish(g), g \in Generations,
         NEW Q \in SUBSET procs, Fits(session, Q), procs' = Q,
         ~IsCurrent(g) => Followed(session, Q), UNCHANGED shutting
  PROVE  SessionOK'
  <1>1. SessionOK
    BY SessionView
  <1>2. CASE IsCurrent(g) /\ session' = CancelSession(session) /\ state' = "IDLE"
    <2>1. session.generation < MaxGeneration
      BY <1>2 DEF IsCurrent, Fits
    <2>2. Fits(session', Q) /\ ~session'.pending
      BY <1>2, <2>1, CancelFits
    <2> QED BY <1>2, <2>2 DEF SessionOK, Followed
  <1>3. CASE ~IsCurrent(g) /\ UNCHANGED <<session, state, app>>
    BY <1>1, <1>3 DEF SessionOK
  <1> QED BY <1>2, <1>3, FinishEffect

\* A callback ends, with the session when it is of the current generation.
LEMMA EndsFits ==
  ASSUME IndInv, Running, NEW p \in procs, Ends(p), UNCHANGED shutting
  PROVE  SessionOK'
  <1>1. Fits(session, procs) /\ Followed(session, procs)
    BY SessionView DEF SessionOK
  <1>2. procs' = procs \ {p} /\ Finish(p.generation)
    BY DEF Ends
  <1>3. /\ Fits(session, procs \ {p})
        /\ p.generation # session.generation => Followed(session, procs \ {p})
    BY <1>1, DropFits
  <1>4. p.generation \in Generations
    BY <1>1, FitsFacts
  <1>5. ~IsCurrent(p.generation) => Followed(session, procs \ {p})
    BY <1>3 DEF IsCurrent, Followed
  <1> QED BY <1>2, <1>3, <1>4, <1>5, FinishFits

\* A callback goes on, or an editor does.
LEMMA ContinuesFits ==
  ASSUME IndInv, NEW p \in procs, NEW f \in {"running", "exited", "failed", "bus", "query", "reply"},
         NEW r \in Editors \cup {NoEditor}, NEW q, q = [p EXCEPT !.phase = f, !.reply = r],
         procs' = (procs \ {p}) \cup {q}, UNCHANGED <<session, state, shutting>>
  PROVE  SessionOK'
  <1>1. SessionOK
    BY SessionView
  <1>2. p \in ProcRecords
    BY <1>1 DEF SessionOK, Fits
  <1>3. q \in ProcRecords /\ q.generation = p.generation
    BY <1>2 DEF ProcRecords
  <1>4. CASE Running
    BY <1>1, <1>3, <1>4, MoveFits DEF SessionOK, Running
  <1>5. CASE ~Running
    <2> DEFINE Q == (procs \ {p}) \cup {q}
    <2>1. \A x \in Q : x = q \/ (x \in procs /\ x # p)
      OBVIOUS
    <2>2. Fits(session, Q)
      <3> HIDE DEF Q
      <3> QED BY <1>1, <1>3, <2>1 DEF SessionOK, Fits
    <2> QED BY <1>5, <2>2 DEF SessionOK, Running
  <1> QED BY <1>4, <1>5

\* The launch: the session is of a new generation, with the callback of its command.
LEMMA OpenFits ==
  ASSUME IndInv, Running, Open, UNCHANGED shutting
  PROVE  SessionOK'
  <1> DEFINE t == CancelSession(session)
             s == CancelSession(t)
  <1>1. SessionOK
    BY SessionView
  <1>2. session.generation \in Nat
    BY <1>1 DEF SessionOK, Fits, SessionRecords
  <1>3. s.generation = session.generation + 2 /\ s.generation < MaxGeneration
    <2>1. s.generation = (session.generation + 1) + 1
      BY DEF CancelSession
    <2> QED BY <1>2, <2>1 DEF Open
  <1>4. /\ Fits(t, procs) /\ t.generation = session.generation + 1
    <2>1. session.generation < MaxGeneration
      BY <1>2, <1>3, Bounds
    <2> HIDE DEF s
    <2> QED BY <1>1, <2>1, CancelFits DEF SessionOK
  <1>5. /\ Fits(s, procs) /\ ~s.pending /\ s.watch = NoWatch
        /\ \A p \in procs : p.generation < s.generation
    <2>1. t.generation < MaxGeneration
      BY <1>2, <1>3, <1>4, Bounds
    <2> HIDE DEF t
    <2> QED BY <1>4, <2>1, CancelFits
  <1> HIDE DEF s, t
  <1>6. CASE /\ session' = [s EXCEPT !.pending = TRUE] /\ state' = "EDITING"
             /\ procs' = procs \cup {[generation |-> s.generation, phase |-> "running",
                                      reply |-> NoEditor]}
    <2> DEFINE n == [generation |-> s.generation, phase |-> "running", reply |-> NoEditor]
    <2>1. s.generation \in Generations /\ s.generation \in 1..s.generation
      BY <1>2, <1>3, Bounds DEF Generations
    <2>2. n \in ProcRecords /\ n.generation = s.generation
      BY <2>1 DEF ProcRecords
    <2>3. /\ session' \in SessionRecords /\ session'.generation = s.generation
          /\ session'.pending /\ session'.watch = NoWatch
      BY <1>5, <1>6 DEF Fits, SessionRecords
    <2>4. \A x \in procs' : x = n \/ x \in procs
      BY <1>6
    <2>5. n \in procs'
      BY <1>6
    <2> HIDE DEF n
    <2>6. procs' \subseteq ProcRecords
      BY <1>5, <2>2, <2>4 DEF Fits
    <2>7. \A x \in procs : x.generation # n.generation
      <3> SUFFICES ASSUME NEW x \in procs PROVE x.generation # n.generation
        OBVIOUS
      <3>1. x.generation < s.generation /\ x.generation \in 1..s.generation
        BY <1>5 DEF Fits
      <3> QED BY <2>1, <2>2, <3>1
    <2>8. \A x, y \in procs' : x.generation = y.generation => x = y
      BY <1>5, <2>4, <2>7 DEF Fits
    <2>9. \A x \in procs' : x.generation \in 1..s.generation
      BY <1>5, <2>1, <2>2, <2>4 DEF Fits
    <2>10. Fits(session', procs')
      BY <1>3, <1>5, <2>3, <2>6, <2>8, <2>9 DEF Fits
    <2>11. Followed(session', procs')
      BY <2>2, <2>3, <2>5 DEF Followed
    <2> QED BY <1>6, <2>3, <2>10, <2>11 DEF SessionOK
  <1>7. CASE session' = s /\ procs' = procs /\ state' = "IDLE"
    BY <1>5, <1>7 DEF SessionOK, Followed
  <1> QED BY <1>6, <1>7 DEF Open, s, t

\* Every step keeps the session and its callbacks in agreement.
LEMMA SessionStep ==
  ASSUME IndInv, [Next]_vars
  PROVE  SessionOK'
  <1>1. SessionOK
    BY SessionView
  <1>2. ASSUME UNCHANGED <<session, procs, shutting>>, state' = state
        PROVE  SessionOK'
    BY <1>1, <1>2 DEF SessionOK, Running
  <1>3. CASE Show \/ Hide \/ Toggle \/ DismissIfUnfocused \/ PresentImportChooser
             \/ ImportChooserCloses
    BY <1>2, <1>3 DEF Show, Hide, Toggle, DismissIfUnfocused, PresentImportChooser,
                      ImportChooserCloses
  <1>4. CASE RequestEditor \/ FileSelected
    <2>1. Running /\ Open /\ UNCHANGED shutting
      BY <1>4 DEF RequestEditor, FileSelected, Open
    <2> QED BY <2>1, OpenFits
  <1>5. CASE ImportProfile
    <2>1. Fits(session', procs) /\ ~session'.pending
      BY <1>1, <1>5, CancelFits DEF ImportProfile, SessionOK
    <2> QED BY <1>5, <2>1 DEF ImportProfile, SessionOK, Followed
  <1>6. CASE SelectionCancelled
    <2>1. state = "CHOOSING"
      BY <1>6 DEF SelectionCancelled, IndInv, DialogsAreBooked
    <2> QED BY <1>1, <1>6, <2>1 DEF SelectionCancelled, SessionOK, Running
  <1>7. CASE Shutdown
    <2>1. /\ session' = [session EXCEPT !.pending = FALSE, !.watch = NoWatch]
          /\ procs' = procs /\ shutting' = TRUE
      BY <1>7 DEF Shutdown
    <2>2. NoWatch \in [owner : Editors \cup {NoEditor}, told : BOOLEAN]
      BY DEF NoWatch
    <2>3. /\ session' \in SessionRecords /\ session'.generation = session.generation
          /\ session'.pending = FALSE /\ session'.watch = NoWatch
      BY <1>1, <2>1, <2>2 DEF SessionOK, Fits, SessionRecords
    <2>4. Fits(session', procs)
      BY <1>1, <2>3 DEF SessionOK, Fits
    <2> QED BY <2>1, <2>4 DEF SessionOK, Running
  <1>8. ASSUME NEW p \in procs, Callbacks(p)
        PROVE  SessionOK'
    <2>1. Running /\ UNCHANGED shutting
      BY <1>8 DEF Callbacks, EditorExited, BusReady, OwnerQueried
    <2>2. CASE Ends(p)
      BY <2>1, <2>2, EndsFits
    <2>3. ASSUME NEW f \in {"bus", "query"}, Continues(p, f, NoEditor)
          PROVE  SessionOK'
      BY <2>1, <2>3, ContinuesFits DEF Continues
    <2>4. CASE /\ IsCurrent(p.generation) /\ p.reply # NoEditor
               /\ session' = [session EXCEPT !.watch = [owner |-> p.reply, told |-> FALSE]]
               /\ procs' = procs \ {p} /\ UNCHANGED <<state, app>>
      <3>1. Fits(session, procs)
        BY <1>1 DEF SessionOK
      <3>2. p.reply \in Editors \cup {NoEditor}
        BY <3>1 DEF Fits, ProcRecords
      <3>3. /\ session' \in SessionRecords /\ session'.generation = session.generation
            /\ session'.pending = session.pending /\ session'.watch.owner = p.reply
        BY <2>4, <3>1, <3>2 DEF Fits, SessionRecords
      <3>4. session'.watch # NoWatch
        BY <2>4, <3>3 DEF NoWatch
      <3>5. /\ Fits(session, procs \ {p})
            /\ \A x \in procs \ {p} : x.generation # session.generation
        BY <2>4, <3>1, DropFits DEF IsCurrent
      <3>6. Fits(session', procs')
        BY <2>4, <3>3, <3>5 DEF Fits, IsCurrent
      <3>7. Followed(session', procs')
        BY <2>4, <3>3, <3>4, <3>5 DEF Followed
      <3> QED BY <1>1, <2>1, <2>4, <3>3, <3>6, <3>7 DEF SessionOK, Running
    <2> QED
      BY <1>8, <2>2, <2>3, <2>4 DEF Callbacks, EditorExited, BusReady, OwnerQueried
  <1>9. ASSUME NEW p \in procs, Outside(p) \/ EditorFails(p)
        PROVE  SessionOK'
    <2>1. UNCHANGED <<session, shutting>> /\ state' = state
      BY <1>9 DEF Outside, EditorServes, EditorExits, BusAnswers, EditorFails, External
    <2>2. CASE EditorServes(p)
      BY <1>2, <2>1, <2>2 DEF EditorServes
    <2>3. p \in ProcRecords /\ p.reply \in Editors \cup {NoEditor}
      BY <1>1 DEF SessionOK, Fits, ProcRecords
    <2>4. ASSUME NEW f \in {"exited", "failed"},
                 procs' = (procs \ {p}) \cup {[p EXCEPT !.phase = f]}
          PROVE  SessionOK'
      <3>1. [p EXCEPT !.phase = f] = [p EXCEPT !.phase = f, !.reply = p.reply]
        BY <2>3 DEF ProcRecords
      <3> QED BY <2>1, <2>3, <2>4, <3>1, ContinuesFits
    <2>5. CASE BusAnswers(p)
      <3>1. PICK r \in {primary, NoEditor} :
              procs' = (procs \ {p}) \cup {[p EXCEPT !.phase = "reply", !.reply = r]}
        BY <2>5 DEF BusAnswers
      <3>2. r \in Editors \cup {NoEditor}
        BY <3>1 DEF IndInv, SidebarFollowsWishes, TypeOK
      <3> QED BY <2>1, <3>1, <3>2, ContinuesFits
    <2> QED BY <1>9, <2>2, <2>4, <2>5 DEF Outside, EditorExits, EditorFails
  <1>10. CASE WatchReports
    <2>1. Running /\ UNCHANGED <<procs, shutting>>
      BY <1>10 DEF WatchReports
    <2>2. CASE session' = [session EXCEPT !.watch.told = TRUE] /\ UNCHANGED <<state, app>>
      <3>1. session.watch \in [owner : Editors \cup {NoEditor}, told : BOOLEAN]
            /\ session \in SessionRecords
        BY <1>1 DEF SessionOK, Fits, SessionRecords
      <3>2. /\ session' \in SessionRecords /\ session'.generation = session.generation
            /\ session'.pending = session.pending
            /\ session'.watch.owner = session.watch.owner
        BY <2>2, <3>1 DEF SessionRecords
      <3>3. session.watch # NoWatch /\ session.watch.owner # NoEditor
        BY <1>1, <1>10 DEF WatchReports, SessionOK, Fits
      <3>4. session'.watch # NoWatch
        BY <3>2, <3>3 DEF NoWatch
      <3> QED BY <1>1, <2>1, <2>2, <3>2, <3>3, <3>4 DEF SessionOK, Fits, Followed, Running
    <2>3. CASE Finish(session.generation)
      <3>1. Fits(session, procs) /\ Followed(session, procs)
            /\ session.generation \in Generations
        BY <1>1, <2>1, FitsFacts DEF SessionOK
      <3> QED BY <2>1, <2>3, <3>1, FinishFits
    <2> QED BY <1>10, <2>2, <2>3 DEF WatchReports
  <1>11. CASE ForeignStarts \/ ForeignExits
    BY <1>2, <1>11 DEF ForeignStarts, ForeignExits, External
  <1>12. CASE UNCHANGED vars
    BY <1>2, <1>12 DEF vars
  <1> QED
    BY <1>3, <1>4, <1>5, <1>6, <1>7, <1>8, <1>9, <1>10, <1>11, <1>12 DEF Next

----------------------------------------------------------------------------
(* The editors.                                                             *)

\* The types that the session has no part in: the presenters, and the editors.
PresenterTypes ==
  /\ {chooser, awgChooser, wish, shutting} \subseteq BOOLEAN
  /\ state \in {"IDLE", "CHOOSING", "EDITING", "STOPPED"}

EditorTypes ==
  /\ primary \in Editors \cup {NoEditor}
  /\ serving \in [Generations -> Editors \cup {NoEditor}]
  /\ faulty \subseteq Generations
  /\ used \in [foreign : 0..MaxForeign, faults : 0..MaxFaults]

\* A fault is counted, and noted for its generation.
LEMMA FailEffect ==
  ASSUME EditorTypes, NEW g \in Generations, Fail(g)
  PROVE  /\ faulty' = faulty \cup {g} /\ faulty' \subseteq Generations
         /\ used' \in [foreign : 0..MaxForeign, faults : 0..MaxFaults]
         /\ used'.foreign = used.foreign
  <1>1. used.faults \in Nat /\ used.faults + 1 \in 0..MaxFaults
    BY Bounds DEF EditorTypes, Fail, CanFail
  <1> QED BY <1>1 DEF EditorTypes, Fail

\* A callback of the session counts no fault, or one of its generation.
LEMMA CallbackFaults ==
  ASSUME IndInv, NEW p \in procs, Callbacks(p)
  PROVE  /\ UNCHANGED <<primary, serving>>
         /\ p.generation \in Generations
         /\ Fail(p.generation) \/ UNCHANGED <<faulty, used>>
  <1>1. p.generation \in Generations
    BY SessionView, FitsFacts DEF SessionOK
  <1> QED BY <1>1 DEF Callbacks, EditorExited, BusReady, OwnerQueried

\* What any step may do to the editors: nothing, count a fault, let an editor serve a
\* request, end the one that owns the name, or start another one.
LEMMA EditorSteps ==
  ASSUME IndInv, [Next]_vars
  PROVE  \/ UNCHANGED <<primary, serving, faulty, used>>
         \/ \E g \in Generations : Fail(g) /\ UNCHANGED serving /\ primary' \in {primary, NoEditor}
         \/ \E p \in procs : EditorServes(p)
         \/ UNCHANGED <<serving, faulty, used>> /\ primary' = NoEditor
         \/ ForeignStarts
  <1>1. SessionOK
    BY SessionView
  <1>2. \A p \in procs : p.generation \in Generations
    BY <1>1, FitsFacts DEF SessionOK
  <1>3. CASE RequestEditor \/ FileSelected
    <2>1. Open
      BY <1>3 DEF RequestEditor, FileSelected
    <2>2. CancelSession(CancelSession(session)).generation = session.generation + 1 + 1
      BY DEF CancelSession
    <2>3. session.generation + 1 + 1 \in Generations
      BY <1>1, <2>1, <2>2, Bounds DEF Open, Generations, SessionOK, Fits, SessionRecords
    <2> QED BY <2>1, <2>2, <2>3 DEF Open
  <1>4. ASSUME NEW p \in procs, Callbacks(p)
        PROVE  \/ UNCHANGED <<primary, serving, faulty, used>>
               \/ \E g \in Generations : Fail(g) /\ UNCHANGED <<serving, primary>>
    BY <1>4, CallbackFaults
  <1>5. ASSUME NEW p \in procs, EditorExits(p)
        PROVE  UNCHANGED <<serving, faulty, used>> /\ primary' \in {primary, NoEditor}
    BY <1>5 DEF EditorExits
  <1>6. ASSUME NEW p \in procs, EditorFails(p)
        PROVE  Fail(p.generation) /\ UNCHANGED serving /\ primary' \in {primary, NoEditor}
    BY <1>6 DEF EditorFails
  <1>7. ASSUME NEW p \in procs, BusAnswers(p)
        PROVE  \/ UNCHANGED <<primary, serving, faulty, used>>
               \/ Fail(p.generation) /\ UNCHANGED <<serving, primary>>
    BY <1>7 DEF BusAnswers
  <1>8. CASE ForeignExits
    BY <1>8 DEF ForeignExits
  <1>9. CASE Show \/ Hide \/ Toggle \/ DismissIfUnfocused \/ PresentImportChooser
             \/ ImportChooserCloses \/ ImportProfile \/ SelectionCancelled \/ Shutdown
             \/ WatchReports \/ UNCHANGED vars
    BY <1>9 DEF Show, Hide, Toggle, DismissIfUnfocused, PresentImportChooser, vars,
                ImportChooserCloses, ImportProfile, SelectionCancelled, Shutdown, WatchReports
  <1> QED
    BY <1>2, <1>3, <1>4, <1>5, <1>6, <1>7, <1>8, <1>9 DEF Next, Outside

\* The presenters and the user keep to their states.
LEMMA PresenterTypesStep ==
  ASSUME IndInv, [Next]_vars
  PROVE  PresenterTypes'
  <1>1. PresenterTypes
    BY DEF IndInv, SidebarFollowsWishes, TypeOK, PresenterTypes
  <1>3. ASSUME UNCHANGED <<chooser, awgChooser, wish, shutting>>,
               state' \in {state, "IDLE"}
        PROVE  PresenterTypes'
    BY <1>1, <1>3 DEF PresenterTypes
  <1>4. CASE Show \/ Hide \/ Shutdown \/ PresentImportChooser \/ ImportChooserCloses
             \/ ImportProfile \/ SelectionCancelled \/ DismissIfUnfocused
    BY <1>1, <1>4 DEF PresenterTypes, Show, Hide, Shutdown, PresentImportChooser,
                      ImportChooserCloses, ImportProfile, SelectionCancelled,
                      DismissIfUnfocused
  <1>5. CASE Toggle
    BY <1>1, <1>5 DEF PresenterTypes, Toggle
  <1>6. CASE RequestEditor \/ FileSelected
    <2>1. Open /\ UNCHANGED shutting
      BY <1>6 DEF RequestEditor, FileSelected, Open
    <2> QED BY <1>1, <2>1 DEF PresenterTypes, Open
  <1>7. ASSUME NEW p \in procs, Callbacks(p)
        PROVE  UNCHANGED <<chooser, awgChooser, wish, shutting>> /\ state' \in {state, "IDLE"}
    BY <1>7 DEF Callbacks, EditorExited, BusReady, OwnerQueried, Ends, Continues, Finish
  <1>8. ASSUME NEW p \in procs, Outside(p) \/ EditorFails(p)
        PROVE  UNCHANGED <<chooser, awgChooser, wish, shutting>> /\ state' = state
    BY <1>8 DEF Outside, EditorServes, EditorExits, BusAnswers, EditorFails, External
  <1>9. CASE WatchReports
    <2>1. UNCHANGED <<chooser, awgChooser, wish, shutting>> /\ state' \in {state, "IDLE"}
      BY <1>9 DEF WatchReports, Finish
    <2> QED BY <1>3, <2>1
  <1>10. CASE ForeignStarts \/ ForeignExits \/ UNCHANGED vars
    BY <1>3, <1>10 DEF ForeignStarts, ForeignExits, External, vars
  <1> QED BY <1>3, <1>4, <1>5, <1>6, <1>7, <1>8, <1>9, <1>10 DEF Next

\* Only an editor owns the name or serves a request.
LEMMA EditorTypesStep ==
  ASSUME IndInv, [Next]_vars
  PROVE  EditorTypes'
  <1>1. EditorTypes
    BY DEF IndInv, SidebarFollowsWishes, TypeOK, EditorTypes
  <1>2. SessionOK
    BY SessionView
  <1>3. CASE UNCHANGED <<primary, serving, faulty, used>>
    BY <1>1, <1>3 DEF EditorTypes
  <1>4. ASSUME NEW g \in Generations, Fail(g), UNCHANGED serving,
               primary' \in {primary, NoEditor}
        PROVE  EditorTypes'
    BY <1>1, <1>4, FailEffect DEF EditorTypes
  <1>5. ASSUME NEW p \in procs, EditorServes(p)
        PROVE  EditorTypes'
    <2>1. p.generation \in Generations /\ p.generation \in 1..session.generation
          /\ session.generation \in Generations
      BY <1>2, FitsFacts DEF SessionOK, Fits
    <2>2. p.generation \in Editors
      BY <2>1, Bounds DEF Generations, Editors
    <2>3. primary' \in Editors \cup {NoEditor}
          /\ serving' = [serving EXCEPT ![p.generation] = primary']
          /\ UNCHANGED <<faulty, used>>
      BY <1>1, <1>5, <2>2 DEF EditorTypes, EditorServes
    <2> QED BY <1>1, <2>1, <2>3 DEF EditorTypes
  <1>6. CASE UNCHANGED <<serving, faulty, used>> /\ primary' = NoEditor
    BY <1>1, <1>6 DEF EditorTypes
  <1>7. CASE ForeignStarts
    <2>1. used.foreign \in Nat /\ used.foreign + 1 \in 1..MaxForeign
      BY <1>1, <1>7, Bounds DEF EditorTypes, ForeignStarts
    <2>2. used' \in [foreign : 0..MaxForeign, faults : 0..MaxFaults]
          /\ used'.foreign = used.foreign + 1 /\ UNCHANGED <<serving, faulty>>
      BY <1>1, <1>7, <2>1 DEF EditorTypes, ForeignStarts
    <2>3. primary' = MaxGeneration + used'.foreign
      BY <1>7 DEF ForeignStarts
    <2>4. primary' \in Editors
      BY <2>1, <2>2, <2>3, Bounds DEF Editors
    <2> QED BY <1>1, <2>2, <2>4 DEF EditorTypes
  <1> QED BY <1>3, <1>4, <1>5, <1>6, <1>7, EditorSteps

\* The visibility state keeps its type, also when the program has been shut down.
LEMMA AppStep ==
  ASSUME IndInv, [Next]_vars
  PROVE  app' \in Apps
  <1>1. app \in Apps
    BY DEF IndInv, SidebarFollowsWishes, TypeOK, Apps
  <1>2. CASE Running'
    <2>1. Running
      BY <1>2 DEF Running, Next, Show, Hide, Toggle, DismissIfUnfocused, Shutdown,
           PresentImportChooser, ImportChooserCloses, RequestEditor, ImportProfile,
           SelectionCancelled, FileSelected, Callbacks, EditorExited, BusReady, OwnerQueried,
           Outside, EditorServes, EditorExits, EditorFails, BusAnswers, External,
           WatchReports, ForeignStarts, ForeignExits, vars
    <2> QED BY <1>2, <2>1, VisibilityStep, AgreementIsAll DEF VisibilityOK, Agrees
  <1>3. CASE ~Running'
    <2>1. CASE Shutdown
      BY <1>1, <2>1 DEF Shutdown, Apps
    <2>2. CASE ~Shutdown
      <3>1. ~Running \/ UNCHANGED app
        <4>1. ASSUME Running, UNCHANGED shutting PROVE FALSE
          BY <1>3, <4>1 DEF Running
        <4>2. CASE RequestEditor \/ FileSelected
          BY <4>1, <4>2 DEF RequestEditor, FileSelected, Open
        <4>3. CASE Show \/ Hide \/ Toggle \/ DismissIfUnfocused \/ PresentImportChooser
                   \/ ImportChooserCloses \/ ImportProfile \/ SelectionCancelled \/ WatchReports
          BY <4>1, <4>3 DEF Show, Hide, Toggle, DismissIfUnfocused, PresentImportChooser,
                            ImportChooserCloses, ImportProfile, SelectionCancelled, WatchReports
        <4>4. ASSUME NEW p \in procs, Callbacks(p) PROVE FALSE
          BY <4>1, <4>4 DEF Callbacks, EditorExited, BusReady, OwnerQueried
        <4>5. ASSUME NEW p \in procs, Outside(p) \/ EditorFails(p) PROVE UNCHANGED app
          BY <4>5 DEF Outside, EditorServes, EditorExits, BusAnswers, EditorFails, External
        <4>6. CASE ForeignStarts \/ ForeignExits \/ UNCHANGED vars
          BY <4>6 DEF ForeignStarts, ForeignExits, External, vars
        <4> QED BY <2>2, <4>2, <4>3, <4>4, <4>5, <4>6 DEF Next
      <3>2. CASE ~Running
        <4>1. CASE RequestEditor \/ FileSelected
          BY <3>2, <4>1 DEF RequestEditor, FileSelected
        <4>2. CASE Show \/ Hide \/ Toggle \/ DismissIfUnfocused \/ PresentImportChooser
                   \/ ImportChooserCloses \/ ImportProfile \/ SelectionCancelled \/ WatchReports
          BY <3>2, <4>2 DEF Show, Hide, Toggle, DismissIfUnfocused, PresentImportChooser,
                            ImportChooserCloses, ImportProfile, SelectionCancelled, WatchReports
        <4>3. ASSUME NEW p \in procs, Callbacks(p) PROVE FALSE
          BY <3>2, <4>3 DEF Callbacks, EditorExited, BusReady, OwnerQueried
        <4>4. ASSUME NEW p \in procs, Outside(p) \/ EditorFails(p) PROVE UNCHANGED app
          BY <4>4 DEF Outside, EditorServes, EditorExits, BusAnswers, EditorFails, External
        <4>5. ASSUME ForeignStarts \/ ForeignExits \/ UNCHANGED vars PROVE UNCHANGED app
          BY <4>5 DEF ForeignStarts, ForeignExits, External, vars
        <4> QED BY <1>1, <2>2, <4>1, <4>2, <4>3, <4>4, <4>5 DEF Next
      <3> QED BY <1>1, <3>1, <3>2
    <2> QED BY <2>1, <2>2
  <1> QED BY <1>2, <1>3

----------------------------------------------------------------------------
(* The editor that serves a session.                                        *)

\* A request that is served stays with its editor, and an editor that has left the name,
\* or that is witnessed to serve a request, stays so.
LEMMA EditorsStay ==
  ASSUME IndInv, [Next]_vars
  PROVE  /\ faulty \subseteq faulty'
         /\ \A g \in Generations : serving[g] # NoEditor => serving'[g] = serving[g]
         /\ \A g \in Generations : Left(g) => Left(g)'
         /\ \A g \in Generations, o \in Editors \cup {NoEditor} :
              Witnesses(g, o) => Witnesses(g, o)'
         /\ primary' # NoEditor => Known(primary)'
         /\ \A g \in Generations : serving'[g] # NoEditor => Known(serving[g])'
  <1>1. EditorTypes /\ EditorsAreWitnessed
    BY DEF IndInv, SidebarFollowsWishes, TypeOK, EditorTypes
  <1>2. \A p \in procs : p.generation \in Generations /\ p.generation \in Editors
    <2> TAKE p \in procs
    <2>1. p.generation \in 1..session.generation /\ session.generation \in Generations
          /\ p.generation \in Generations
      BY SessionView, FitsFacts DEF SessionOK, Fits
    <2> QED BY <2>1, Bounds DEF Generations, Editors
  <1> DEFINE Stays ==
        /\ faulty \subseteq faulty'
        /\ \A g \in Generations : serving[g] # NoEditor => serving'[g] = serving[g]
        /\ \A g \in Generations : Left(g) => Left(g)'
        /\ primary' # NoEditor => Known(primary)'
        /\ \A g \in Generations : serving'[g] # NoEditor => Known(serving[g])'
  <1>3. ASSUME UNCHANGED serving, faulty \subseteq faulty', used'.foreign = used.foreign,
               primary' \in {primary, NoEditor}
        PROVE  Stays
    BY <1>1, <1>3 DEF Left, Known, EditorsAreWitnessed
  <1>4. ASSUME NEW p \in procs, EditorServes(p)
        PROVE  Stays
    <2> DEFINE h == p.generation
    <2>1. h \in Generations /\ h # NoEditor /\ h \in Editors
      BY <1>2, Bounds DEF Editors, NoEditor
    <2>2. /\ serving[h] = NoEditor /\ serving' = [serving EXCEPT ![h] = primary']
          /\ primary' = IF primary = NoEditor THEN h ELSE primary
          /\ UNCHANGED <<faulty, used>>
      BY <1>4 DEF EditorServes
    <2> HIDE DEF h
    <2>3. /\ serving'[h] = primary' /\ primary' # NoEditor
          /\ \A g \in Generations : g # h => serving'[g] = serving[g]
      BY <1>1, <2>1, <2>2 DEF EditorTypes
    <2>4. \A g \in Generations : serving[g] # NoEditor => serving'[g] = serving[g]
      BY <2>2, <2>3
    <2>5. \A e : Known(e) => Known(e)'
      BY <2>2, <2>4 DEF Known
    <2>6. Known(primary)'
      <3>1. CASE primary = NoEditor
        BY <2>1, <2>2, <2>3, <3>1 DEF Known
      <3>2. CASE primary # NoEditor
        <4>1. Known(primary)
          BY <1>1, <3>2 DEF EditorsAreWitnessed
        <4>2. IF primary \in Generations THEN serving'[primary] # NoEditor
                                         ELSE primary <= MaxGeneration + used'.foreign
          BY <2>2, <2>4, <4>1 DEF Known
        <4> QED BY <2>2, <3>2, <4>2 DEF Known
      <3> QED BY <3>1, <3>2
    <2>7. \A g \in Generations : serving'[g] # NoEditor => Known(serving[g])'
      <3> SUFFICES ASSUME NEW g \in Generations, serving'[g] # NoEditor
                   PROVE  Known(serving[g])'
        OBVIOUS
      <3>1. CASE g = h
        BY <2>3, <2>6, <3>1 DEF Known
      <3>2. CASE g # h
        <4>1. serving'[g] = serving[g] /\ Known(serving[g])
          BY <1>1, <2>3, <3>2 DEF EditorsAreWitnessed
        <4>2. IF serving[g] \in Generations THEN serving'[serving[g]] # NoEditor
                                            ELSE serving[g] <= MaxGeneration + used'.foreign
          BY <2>2, <2>4, <4>1 DEF Known
        <4> QED BY <4>1, <4>2 DEF Known
      <3> QED BY <3>1, <3>2
    <2>8. \A g \in Generations : Left(g) => Left(g)'
      <3> SUFFICES ASSUME NEW g \in Generations, Left(g)
                   PROVE  Left(g)'
        OBVIOUS
      <3>1. serving'[g] = serving[g] /\ serving[g] # NoEditor
        BY <2>4 DEF Left
      <3>2. primary' # serving[g]
        <4>1. CASE primary = NoEditor
          <5>1. Known(serving[g])
            BY <1>1, <3>1 DEF EditorsAreWitnessed
          <5> QED BY <2>1, <2>2, <4>1, <5>1 DEF Known
        <4>2. CASE primary # NoEditor
          BY <2>2, <4>2 DEF Left
        <4> QED BY <4>1, <4>2
      <3> QED BY <3>1, <3>2 DEF Left
    <2> QED BY <2>2, <2>4, <2>6, <2>7, <2>8
  <1>5. ASSUME ForeignStarts
        PROVE  Stays
    <2>1. /\ UNCHANGED <<serving, faulty>> /\ primary' = MaxGeneration + used'.foreign
          /\ used'.foreign = used.foreign + 1 /\ used.foreign \in Nat
      BY <1>1, <1>5, Bounds DEF ForeignStarts, EditorTypes
    <2>2. primary' \notin Generations /\ primary' \in Nat
      BY <2>1, Bounds DEF Generations
    <2>3. Known(primary)'
      BY <2>1, <2>2, Bounds DEF Known
    <2>4. \A g \in Generations : serving[g] # NoEditor =>
            Known(serving[g])' /\ primary' # serving[g]
      <3> SUFFICES ASSUME NEW g \in Generations, serving[g] # NoEditor
                   PROVE  Known(serving[g])' /\ primary' # serving[g]
        OBVIOUS
      <3>1. Known(serving[g]) /\ serving[g] \in Editors
        BY <1>1 DEF EditorsAreWitnessed, EditorTypes
      <3>2. serving[g] \in Nat
        BY <3>1, Bounds DEF Editors
      <3>3. CASE serving[g] \in Generations
        BY <2>1, <2>2, <3>1, <3>3 DEF Known
      <3>4. CASE serving[g] \notin Generations
        <4>1. serving[g] <= MaxGeneration + used.foreign
          BY <3>1, <3>4 DEF Known
        <4>2. serving[g] <= MaxGeneration + used'.foreign /\ serving[g] # primary'
          BY <2>1, <3>2, <4>1, Bounds
        <4> QED BY <2>1, <3>4, <4>2 DEF Known
      <3> QED BY <3>3, <3>4
    <2>5. \A g \in Generations : Left(g) => Left(g)'
      BY <2>1, <2>4 DEF Left
    <2>6. \A g \in Generations : serving'[g] # NoEditor => Known(serving[g])'
      BY <2>1, <2>4
    <2>7. \A g \in Generations : serving[g] # NoEditor => serving'[g] = serving[g]
      BY <2>1
    <2>8. faulty \subseteq faulty'
      BY <2>1
    <2> QED BY <2>3, <2>5, <2>6, <2>7, <2>8
  <1>6. ASSUME NEW g \in Generations, Fail(g), UNCHANGED serving, primary' \in {primary, NoEditor}
        PROVE  Stays
    <2>1. faulty \subseteq faulty' /\ used'.foreign = used.foreign
      BY <1>1, <1>6, FailEffect
    <2> QED BY <1>3, <1>6, <2>1
  <1>7. Stays
    <2>1. CASE UNCHANGED <<primary, serving, faulty, used>>
      BY <1>3, <2>1
    <2>2. CASE UNCHANGED <<serving, faulty, used>> /\ primary' = NoEditor
      BY <1>3, <2>2
    <2> QED BY <1>4, <1>5, <1>6, <2>1, <2>2, EditorSteps
  <1>8. \A g \in Generations, o \in Editors \cup {NoEditor} :
          Witnesses(g, o) => Witnesses(g, o)'
    BY <1>7 DEF Witnesses
  <1> QED BY <1>7, <1>8

\* An owner that the bus names is the editor that serves the session, unless that one has
\* left already or the call has failed.
LEMMA AnswerWitnesses ==
  ASSUME IndInv, [Next]_vars, NEW p \in procs, BusAnswers(p)
  PROVE  \E r \in Editors \cup {NoEditor} :
           /\ procs' = (procs \ {p}) \cup {[p EXCEPT !.phase = "reply", !.reply = r]}
           /\ Witnesses(p.generation, r)'
           /\ serving'[p.generation] # NoEditor
  <1>1. EditorTypes /\ EditorsAreWitnessed
    BY DEF IndInv, SidebarFollowsWishes, TypeOK, EditorTypes
  <1>2. PICK r \in {primary, NoEditor} :
          /\ procs' = (procs \ {p}) \cup {[p EXCEPT !.phase = "reply", !.reply = r]}
          /\ IF r = primary THEN UNCHANGED <<used, faulty>> ELSE Fail(p.generation)
          /\ UNCHANGED <<primary, serving>>
    BY DEF BusAnswers
  <1>3. p.generation \in Generations
    BY SessionView, FitsFacts DEF SessionOK
  <1>4. r \in Editors \cup {NoEditor}
    BY <1>1, <1>2 DEF EditorTypes
  <1>5. serving[p.generation] # NoEditor
    BY <1>1 DEF EditorsAreWitnessed, BusAnswers
  <1>6. CASE r = primary
    <2>1. Left(p.generation) \/ (r # NoEditor /\ r = serving[p.generation])
      BY <1>5, <1>6 DEF Left
    <2>2. Witnesses(p.generation, r)
      BY <2>1 DEF Witnesses
    <2>3. Witnesses(p.generation, r)'
      BY <1>3, <1>4, <2>2, EditorsStay
    <2> QED BY <1>2, <1>4, <1>5, <2>3
  <1>7. CASE r # primary
    <2>1. p.generation \in faulty'
      BY <1>1, <1>2, <1>3, <1>7, FailEffect
    <2> QED BY <1>2, <1>4, <1>5, <2>1 DEF Witnesses
  <1> QED BY <1>6, <1>7

\* What the callback p tells of the editor of its generation.
Tells(p) ==
  /\ p.phase \in {"exited", "bus", "query", "reply"} => serving[p.generation] # NoEditor
  /\ p.phase = "failed" => p.generation \in faulty
  /\ p.phase = "reply" => Witnesses(p.generation, p.reply)

\* Callbacks that a step leaves alone tell what they told.
LEMMA TellsStays ==
  ASSUME IndInv, [Next]_vars, NEW p \in procs
  PROVE  Tells(p)'
  <1>1. p \in ProcRecords /\ p.generation \in Generations
    BY SessionView, FitsFacts DEF SessionOK
  <1>2. p.reply \in Editors \cup {NoEditor}
    BY <1>1 DEF ProcRecords
  <1>3. Tells(p)
    BY DEF IndInv, EditorsAreWitnessed, Tells
  <1>4. /\ faulty \subseteq faulty'
        /\ serving[p.generation] # NoEditor => serving'[p.generation] # NoEditor
        /\ Witnesses(p.generation, p.reply) => Witnesses(p.generation, p.reply)'
    BY <1>1, <1>2, EditorsStay
  <1> QED BY <1>3, <1>4 DEF Tells

\* Callbacks that a step adds or moves on tell the truth about their editors.
LEMMA CallbacksTell ==
  ASSUME IndInv, [Next]_vars
  PROVE  \A p \in procs' : Tells(p)'
  <1>1. EditorsAreWitnessed /\ SessionOK /\ EditorTypes
    BY SessionView DEF IndInv, SidebarFollowsWishes, TypeOK, EditorTypes
  <1>2. \A p \in procs : Tells(p)'
    BY TellsStays
  <1>3. ASSUME procs' \subseteq procs PROVE \A p \in procs' : Tells(p)'
    BY <1>2, <1>3
  <1>4. ASSUME NEW p, procs' \subseteq procs \cup {p}, Tells(p)'
        PROVE  \A q \in procs' : Tells(q)'
    BY <1>2, <1>4
  <1>5. CASE RequestEditor \/ FileSelected
    <2>1. PICK g : procs' \subseteq procs \cup {[generation |-> g, phase |-> "running", reply |-> NoEditor]}
      BY <1>5 DEF RequestEditor, FileSelected, Open
    <2>2. Tells([generation |-> g, phase |-> "running", reply |-> NoEditor])'
      BY DEF Tells
    <2> QED BY <1>4, <2>1, <2>2
  <1>6. ASSUME NEW p \in procs, Callbacks(p)
        PROVE  \A q \in procs' : Tells(q)'
    <2>1. CASE procs' = procs \ {p}
      BY <1>3, <2>1
    <2>2. ASSUME NEW f \in {"bus", "query"}, Continues(p, f, NoEditor),
                 p.phase \in {"exited", "bus"}
          PROVE  \A q \in procs' : Tells(q)'
      <3> DEFINE n == [p EXCEPT !.phase = f, !.reply = NoEditor]
      <3>1. p \in ProcRecords /\ p.generation \in Generations
        BY <1>1, FitsFacts DEF SessionOK
      <3>2. n.phase = f /\ n.generation = p.generation
        BY <3>1 DEF ProcRecords
      <3>3. serving'[p.generation] # NoEditor
        BY <1>1, <2>2, <3>1, EditorsStay DEF EditorsAreWitnessed
      <3>4. procs' \subseteq procs \cup {n}
        BY <2>2 DEF Continues
      <3> HIDE DEF n
      <3>5. Tells(n)'
        BY <3>2, <3>3 DEF Tells
      <3> QED BY <1>4, <3>4, <3>5
    <2> QED
      BY <1>6, <2>1, <2>2 DEF Callbacks, EditorExited, BusReady, OwnerQueried, Ends
  <1>7. ASSUME NEW p \in procs, EditorExits(p)
        PROVE  \A q \in procs' : Tells(q)'
    <2> DEFINE n == [p EXCEPT !.phase = "exited"]
    <2>1. p \in ProcRecords /\ p.generation \in Generations
      BY <1>1, FitsFacts DEF SessionOK
    <2>2. n.phase = "exited" /\ n.generation = p.generation
      BY <2>1 DEF ProcRecords
    <2>3. serving'[p.generation] # NoEditor /\ procs' \subseteq procs \cup {n}
      BY <1>7 DEF EditorExits
    <2> HIDE DEF n
    <2>4. Tells(n)'
      BY <2>2, <2>3 DEF Tells
    <2> QED BY <1>4, <2>3, <2>4
  <1>8. ASSUME NEW p \in procs, EditorFails(p)
        PROVE  \A q \in procs' : Tells(q)'
    <2> DEFINE n == [p EXCEPT !.phase = "failed"]
    <2>1. p \in ProcRecords /\ p.generation \in Generations
      BY <1>1, FitsFacts DEF SessionOK
    <2>2. n.phase = "failed" /\ n.generation = p.generation
      BY <2>1 DEF ProcRecords
    <2>3. p.generation \in faulty' /\ procs' \subseteq procs \cup {n}
      BY <1>1, <1>8, <2>1, FailEffect DEF EditorFails
    <2> HIDE DEF n
    <2>4. Tells(n)'
      BY <2>2, <2>3 DEF Tells
    <2> QED BY <1>4, <2>3, <2>4
  <1>9. ASSUME NEW p \in procs, BusAnswers(p)
        PROVE  \A q \in procs' : Tells(q)'
    <2>1. PICK r \in Editors \cup {NoEditor} :
            /\ procs' = (procs \ {p}) \cup {[p EXCEPT !.phase = "reply", !.reply = r]}
            /\ Witnesses(p.generation, r)'
            /\ serving'[p.generation] # NoEditor
      BY <1>9, AnswerWitnesses
    <2> DEFINE n == [p EXCEPT !.phase = "reply", !.reply = r]
    <2>2. p \in ProcRecords
      BY <1>1, FitsFacts DEF SessionOK
    <2>3. n.phase = "reply" /\ n.generation = p.generation /\ n.reply = r
      BY <2>2 DEF ProcRecords
    <2>4. procs' \subseteq procs \cup {n}
      BY <2>1
    <2> HIDE DEF n
    <2>5. Tells(n)'
      BY <2>1, <2>3 DEF Tells, Witnesses, Left
    <2> QED BY <1>4, <2>4, <2>5
  <1>10. ASSUME NEW p \in procs, EditorServes(p)
         PROVE  \A q \in procs' : Tells(q)'
    BY <1>3, <1>10 DEF EditorServes
  <1>11. CASE Show \/ Hide \/ Toggle \/ DismissIfUnfocused \/ PresentImportChooser
              \/ ImportChooserCloses \/ ImportProfile \/ SelectionCancelled \/ Shutdown
              \/ WatchReports \/ ForeignStarts \/ ForeignExits \/ UNCHANGED vars
    BY <1>3, <1>11 DEF Show, Hide, Toggle, DismissIfUnfocused, PresentImportChooser, vars,
                ImportChooserCloses, ImportProfile, SelectionCancelled, Shutdown, WatchReports,
                ForeignStarts, ForeignExits
  <1> QED
    BY <1>5, <1>6, <1>7, <1>8, <1>9, <1>10, <1>11 DEF Next, Outside

\* The owner that the session watches is the editor that serves it, unless that one has
\* left already or a call has failed.
LEMMA WatchTells ==
  ASSUME IndInv, [Next]_vars, session'.watch # NoWatch
  PROVE  Witnesses(session.generation, session.watch.owner)'
  <1>1. EditorsAreWitnessed /\ SessionOK
    BY SessionView DEF IndInv
  <1>2. session.generation \in Generations
    BY <1>1, FitsFacts DEF SessionOK
  <1>3. session.watch.owner \in Editors \cup {NoEditor} /\ session \in SessionRecords
    BY <1>1 DEF SessionOK, Fits, SessionRecords
  <1>4. ASSUME session.watch # NoWatch, session'.generation = session.generation,
               session'.watch.owner = session.watch.owner
        PROVE  Witnesses(session.generation, session.watch.owner)'
    <2>1. PICK g \in Generations, o \in Editors \cup {NoEditor} :
            g = session.generation /\ o = session.watch.owner
      BY <1>2, <1>3
    <2>2. Witnesses(g, o)
      BY <1>1, <1>4, <2>1 DEF EditorsAreWitnessed
    <2>3. Witnesses(g, o)'
      BY <2>2, EditorsStay
    <2> QED BY <1>4, <2>1, <2>3
  <1>5. \A s : CancelSession(s).watch = NoWatch
    BY DEF CancelSession
  <1>6. ASSUME NEW g, Finish(g) PROVE session' = session
    BY <1>5, <1>6 DEF Finish
  <1>7. CASE RequestEditor \/ FileSelected
    <2> DEFINE s == CancelSession(CancelSession(session))
    <2>1. s.watch = NoWatch /\ [s EXCEPT !.pending = TRUE].watch = NoWatch
      BY DEF CancelSession
    <2>2. session' \in {s, [s EXCEPT !.pending = TRUE]}
      BY <1>7 DEF RequestEditor, FileSelected, Open
    <2> QED BY <2>1, <2>2
  <1>8. CASE ImportProfile
    BY <1>5, <1>8 DEF ImportProfile
  <1>9. CASE Shutdown
    BY <1>3, <1>9 DEF Shutdown, SessionRecords
  <1>10. ASSUME NEW p \in procs, Callbacks(p)
         PROVE  Witnesses(session.generation, session.watch.owner)'
    <2>1. CASE session' = session
      BY <1>4, <2>1
    <2>2. CASE /\ IsCurrent(p.generation) /\ p.phase = "reply"
               /\ session' = [session EXCEPT !.watch = [owner |-> p.reply, told |-> FALSE]]
      <3>1. session'.generation = p.generation /\ session'.watch.owner = p.reply
        BY <1>3, <2>2 DEF SessionRecords, IsCurrent
      <3>2. Witnesses(p.generation, p.reply)'
        BY <2>2, TellsStays DEF Tells
      <3> QED BY <3>1, <3>2
    <2> QED
      BY <1>6, <1>10, <2>1, <2>2 DEF Callbacks, EditorExited, BusReady, OwnerQueried, Ends,
                                     Continues
  <1>11. CASE WatchReports
    <2>1. CASE session' = session
      BY <1>4, <2>1
    <2>2. CASE session' = [session EXCEPT !.watch.told = TRUE]
      BY <1>3, <1>4, <1>11, <2>2 DEF SessionRecords, WatchReports
    <2> QED BY <1>6, <1>11, <2>1, <2>2 DEF WatchReports
  <1>12. ASSUME NEW p \in procs, Outside(p) \/ EditorFails(p)
         PROVE  session' = session
    BY <1>12 DEF Outside, EditorServes, EditorExits, BusAnswers, EditorFails, External
  <1>13. CASE Show \/ Hide \/ Toggle \/ DismissIfUnfocused \/ PresentImportChooser
              \/ ImportChooserCloses \/ SelectionCancelled
              \/ ForeignStarts \/ ForeignExits \/ UNCHANGED vars
    BY <1>4, <1>13 DEF Show, Hide, Toggle, DismissIfUnfocused, PresentImportChooser, vars,
                ImportChooserCloses, SelectionCancelled, External, ForeignStarts, ForeignExits
  <1> QED
    BY <1>4, <1>7, <1>8, <1>9, <1>10, <1>11, <1>12, <1>13 DEF Next

----------------------------------------------------------------------------
(* The theorems.                                                            *)

\* The program starts in the invariant: no dialog, no session, nothing asked for.
LEMMA InvariantInit ==
  ASSUME Init
  PROVE  IndInv
  <1>1. TypeOK
    <2>1. session \in [generation : 0..(MaxGeneration + 1), pending : BOOLEAN,
                       watch : [owner : Editors \cup {NoEditor}, told : BOOLEAN]]
      BY Bounds DEF Init, NoWatch
    <2>2. used \in [foreign : 0..MaxForeign, faults : 0..MaxFaults]
      BY Bounds DEF Init
    <2>3. app \in [owners : SUBSET Owners, deferred : SUBSET Owners, requested : BOOLEAN,
                   visible : BOOLEAN, inventory : BOOLEAN, refresh : BOOLEAN]
      BY DEF Init
    <2> QED BY <2>1, <2>2, <2>3 DEF Init, TypeOK
  <1>2. ShownIffWanted /\ OwnersAreOpen /\ WishIsKept /\ EditorIsFollowed /\ DialogsAreBooked
    BY DEF Init, ShownIffWanted, OwnersAreOpen, WishIsKept, EditorIsFollowed, DialogsAreBooked
  <1>3. GenerationsAreFresh
    BY Bounds DEF Init, GenerationsAreFresh
  <1>4. EditorsAreWitnessed
    BY DEF Init, EditorsAreWitnessed
  <1> QED BY <1>1, <1>2, <1>3, <1>4 DEF IndInv, SidebarFollowsWishes

\* Every step keeps the invariant.
LEMMA InvariantStep ==
  ASSUME IndInv, [Next]_vars
  PROVE  IndInv'
  <1>1. SessionOK' /\ EditorTypes' /\ PresenterTypes' /\ app' \in Apps
    BY SessionStep, EditorTypesStep, PresenterTypesStep, AppStep
  <1>2. TypeOK'
    BY <1>1 DEF TypeOK, SessionOK, EditorTypes, PresenterTypes, Apps, Fits, SessionRecords,
                ProcRecords
  <1>3. GenerationsAreFresh'
    BY <1>1 DEF GenerationsAreFresh, SessionOK, Fits
  <1>4. EditorsAreWitnessed'
    <2>1. session'.watch # NoWatch => Witnesses(session.generation, session.watch.owner)'
      BY WatchTells
    <2>2. \A p \in procs' : Tells(p)'
      BY CallbacksTell
    <2>3. /\ primary' # NoEditor => Known(primary)'
          /\ \A g \in Generations : serving'[g] # NoEditor => Known(serving[g])'
      BY EditorsStay
    <2> QED BY <2>1, <2>2, <2>3 DEF EditorsAreWitnessed, Tells
  <1>5. CASE Running'
    <2>1. Running
      BY <1>5 DEF Running, Next, Show, Hide, Toggle, DismissIfUnfocused, Shutdown,
           PresentImportChooser, ImportChooserCloses, RequestEditor, ImportProfile,
           SelectionCancelled, FileSelected, Callbacks, EditorExited, BusReady, OwnerQueried,
           Outside, EditorServes, EditorExits, EditorFails, BusAnswers, External,
           WatchReports, ForeignStarts, ForeignExits, vars
    <2>2. VisibilityOK'
      BY <1>5, <2>1, VisibilityStep
    <2>3. /\ ShownIffWanted' /\ OwnersAreOpen' /\ WishIsKept' /\ DialogsAreBooked'
          /\ app'.deferred # {} => app'.deferred = {EDITOR} /\ state' = "EDITING"
      BY <2>2, AgreementIsAllNext
    <2>4. EditorIsFollowed'
      BY <1>1, <1>5, <2>3 DEF EditorIsFollowed, SessionOK, Followed
    <2> QED BY <1>2, <1>3, <1>4, <2>3, <2>4 DEF IndInv, SidebarFollowsWishes
  <1>6. CASE ~Running'
    <2>1. ShownIffWanted' /\ OwnersAreOpen' /\ WishIsKept' /\ DialogsAreBooked' /\ EditorIsFollowed'
      BY <1>6 DEF ShownIffWanted, OwnersAreOpen, WishIsKept, DialogsAreBooked, EditorIsFollowed
    <2> QED BY <1>2, <1>3, <1>4, <2>1 DEF IndInv, SidebarFollowsWishes
  <1> QED BY <1>5, <1>6

\* The invariant of the window, the dialogs and the editor session (gui/app.c,
\* actions/editor_session.c) holds in every state.
THEOREM InvariantHolds == Spec => []IndInv
  <1>1. Init => IndInv
    BY InvariantInit
  <1>2. IndInv /\ [Next]_vars => IndInv'
    BY InvariantStep
  <1> QED BY <1>1, <1>2, PTL DEF Spec

\* The sidebar is shown as was last wished for unless a dialog has its place, each owner
\* bit has its dialog, and a session under way follows the editor it opened
\* (external_interaction_callback, network_sidebar_editor_session_open).
THEOREM SidebarObeys == Spec => []SidebarFollowsWishes
  <1>1. IndInv => SidebarFollowsWishes
    BY DEF IndInv
  <1> QED BY <1>1, InvariantHolds, PTL

\* A session that ends by itself has lost its editor, or something has failed.
LEMMA EndIsEarned ==
  ASSUME IndInv, Next, state = "EDITING", state' = "IDLE",
         session'.generation = session.generation + 1
  PROVE  \/ session.generation \in faulty'
         \/ Left(session.generation)
  <1> DEFINE g == session.generation
  <1>1. SessionOK /\ EditorsAreWitnessed /\ EditorTypes
    BY SessionView DEF IndInv, SidebarFollowsWishes, TypeOK, EditorTypes
  <1>2. g \in Generations /\ g \in Nat
    BY <1>1, FitsFacts, Bounds DEF SessionOK, Generations
  <1>3. ~(RequestEditor \/ FileSelected)
    <2>1. CancelSession(CancelSession(session)).generation = (g + 1) + 1
      BY DEF CancelSession
    <2>2. ASSUME Open PROVE session' = CancelSession(CancelSession(session)) \/ state' = "EDITING"
      BY <2>2 DEF Open
    <2> QED BY <1>2, <2>1, <2>2 DEF RequestEditor, FileSelected
  <1>4. ASSUME NEW h, Finish(h)
        PROVE  IsCurrent(h) /\ h = g
    BY <1>4 DEF Finish, IsCurrent
  <1>5. ASSUME NEW p \in procs, Callbacks(p)
        PROVE  g \in faulty' \/ Left(g)
    <2>1. Tells(p)
      BY <1>1 DEF EditorsAreWitnessed, Tells
    <2>2. IsCurrent(p.generation) /\ p.generation = g
      BY <1>4, <1>5 DEF Callbacks, EditorExited, BusReady, OwnerQueried, Ends, Continues
    <2>3. CASE EditorExited(p)
      <3>1. p.phase = "failed" /\ UNCHANGED faulty
        BY <2>2, <2>3 DEF EditorExited, Continues
      <3> QED BY <2>1, <2>2, <3>1 DEF Tells
    <2>4. CASE BusReady(p)
      <3>1. Fail(p.generation)
        BY <2>2, <2>4 DEF BusReady, Continues
      <3> QED BY <1>1, <1>2, <2>2, <3>1, FailEffect
    <2>5. CASE OwnerQueried(p)
      <3>1. p.phase = "reply" /\ p.reply = NoEditor /\ UNCHANGED faulty
        BY <2>2, <2>5 DEF OwnerQueried
      <3> QED BY <2>1, <2>2, <3>1 DEF Tells, Witnesses
    <2> QED BY <1>5, <2>3, <2>4, <2>5 DEF Callbacks
  <1>6. CASE WatchReports
    <2>1. primary # session.watch.owner /\ session.watch # NoWatch /\ UNCHANGED faulty
      BY <1>6 DEF WatchReports
    <2>2. Witnesses(g, session.watch.owner)
      BY <1>1, <2>1 DEF EditorsAreWitnessed
    <2> QED BY <2>1, <2>2 DEF Witnesses, Left
  <1>7. ~(Show \/ Hide \/ Toggle \/ DismissIfUnfocused \/ PresentImportChooser
          \/ ImportChooserCloses \/ ImportProfile \/ Shutdown \/ ForeignStarts \/ ForeignExits)
    BY DEF Show, Hide, Toggle, DismissIfUnfocused, PresentImportChooser, External,
           ImportChooserCloses, ImportProfile, Shutdown, ForeignStarts, ForeignExits
  <1>8. ~SelectionCancelled
    BY <1>2 DEF SelectionCancelled
  <1>9. ~\E p \in procs : Outside(p) \/ EditorFails(p)
    BY DEF Outside, EditorServes, EditorExits, BusAnswers, EditorFails, External
  <1> QED BY <1>3, <1>5, <1>6, <1>7, <1>8, <1>9 DEF Next

\* A session ends by itself only when the editor that serves it is gone, unless the editor
\* or the bus has failed: no exit of a command that handed its request over, and no late
\* callback of an earlier session, ends it (editor_exited_cb, editor_owner_query_cb).
THEOREM NoSessionEndsEarly == Spec => NotEndedEarly
  <1> DEFINE Earned ==
        LET g == session.generation IN
        (/\ state = "EDITING" /\ state' = "IDLE"
         /\ session'.generation = g + 1)
        => g \in faulty' \/ (serving[g] # NoEditor /\ serving[g] # primary)
  <1>1. IndInv /\ [Next]_vars => [Earned]_vars
    <2> SUFFICES ASSUME IndInv, Next PROVE Earned
      OBVIOUS
    <2> QED BY EndIsEarned DEF Left
  <1> QED BY <1>1, InvariantHolds, PTL DEF Spec, NotEndedEarly

----------------------------------------------------------------------------
(* The page that edits a profile, and its saves (ProfileSave).             *)

\* None is not a value of the settings, so the closed page is not an open one.
LEMMA SaveConstants ==
  /\ Secrets \in Nat /\ MaxOthers \in Nat /\ MaxSaves \in Nat /\ MaxRefusals \in Nat
  /\ None \notin Values /\ None \notin Passwords
  /\ MaxVersion \in Nat /\ MaxVersion = 1 + MaxOthers + MaxSaves
  /\ NoSave \notin Saves /\ NoSave.pc = "idle" /\ Closed.saving = FALSE /\ Closed.sure = FALSE
  <1>1. /\ Secrets \in Nat /\ MaxOthers \in Nat /\ MaxSaves \in Nat /\ MaxRefusals \in Nat
        /\ None \notin Values /\ None \notin Passwords
    BY ProfileBoundsAssumption
  <1>2. NoSave \notin Saves /\ NoSave.pc = "idle"
    BY DEF NoSave, Saves
  <1> QED BY <1>1, <1>2 DEF MaxVersion, Closed

\* What was entered is the secrets of each setting, and replacing is idempotent.
LEMMA EnteredIsBundles ==
  ASSUME NEW p \in Given PROVE Entered(p) \in [Fields -> Bundles]
  BY DEF Entered, Bundles, Given

LEMMA MergeIsBundle ==
  ASSUME NEW a \in Bundles, NEW b \in Bundles
  PROVE  /\ Merge(a, b) \in Bundles
         /\ Merge(Merge(b, a), b) = Merge(a, b)
  BY DEF Merge, Bundles, Given

\* A message that the main loop takes leaves the others in their order.
LEMMA TakenMessage ==
  ASSUME NEW w \in Seq(Messages), w # <<>>
  PROVE  /\ Tail(w) \in Seq(Messages) /\ Len(w) \in Nat \ {0}
         /\ Len(Tail(w)) = Len(w) - 1
         /\ \A i \in 1..Len(Tail(w)) : i + 1 \in 1..Len(w) /\ Tail(w)[i] = w[i + 1]
         /\ Head(w) = w[1] /\ 1 \in 1..Len(w) /\ w[1] \in Messages
  <1>1. Len(w) \in Nat \ {0}
    OBVIOUS
  <1>2. Tail(w) \in Seq(Messages) /\ Len(Tail(w)) = Len(w) - 1
    OBVIOUS
  <1>3. \A i \in 1..Len(Tail(w)) : i + 1 \in 1..Len(w) /\ Tail(w)[i] = w[i + 1]
    BY <1>1, <1>2
  <1>4. 1 \in 1..Len(w) /\ w[1] \in Messages /\ Head(w) = w[1]
    BY <1>1
  <1> QED BY <1>1, <1>2, <1>3, <1>4

\* A message that NetworkManager sends comes after those on the way.
LEMMA SentMessage ==
  ASSUME NEW w \in Seq(Messages), NEW x \in Messages
  PROVE  /\ Append(w, x) \in Seq(Messages) /\ Len(w) \in Nat
         /\ Len(Append(w, x)) = Len(w) + 1
         /\ \A i \in 1..Len(w) : Append(w, x)[i] = w[i]
         /\ Append(w, x)[Len(w) + 1] = x
  OBVIOUS

\* Two that are sent in one step come one after the other.
LEMMA TwoSent ==
  ASSUME NEW w \in Seq(Messages), NEW x \in Messages, NEW y \in Messages
  PROVE  w \o <<x, y>> = Append(Append(w, x), y)
  <1> DEFINE u == Append(w, x)
             a == Append(u, y)
             b == w \o <<x, y>>
  <1>1. u \in Seq(Messages) /\ Len(u) = Len(w) + 1 /\ Len(w) \in Nat
    OBVIOUS
  <1>2. a \in Seq(Messages) /\ Len(a) = Len(w) + 2
    BY <1>1
  <1>3. <<x, y>> \in Seq(Messages) /\ Len(<<x, y>>) = 2
    OBVIOUS
  <1>4. b \in Seq(Messages) /\ Len(b) = Len(w) + 2
    BY <1>3
  <1>5. ASSUME NEW i \in 1..(Len(w) + 2) PROVE a[i] = b[i]
    <2>1. CASE i <= Len(w)
      OBVIOUS
    <2>2. CASE i = Len(w) + 1
      OBVIOUS
    <2>3. CASE i = Len(w) + 2
      OBVIOUS
    <2> QED BY <1>1, <2>1, <2>2, <2>3
  <1> HIDE DEF a, b
  <1>6. a = b
    BY <1>2, <1>4, <1>5
  <1> QED BY <1>6 DEF a, b

\* What a message on the way may be.
LEMMA MessageKinds ==
  ASSUME NEW x \in Messages
  PROVE  /\ x.kind \in {"secrets", "updated", "failed", "version", "settings"}
         /\ x.kind = "secrets" => x.secrets \in Bundles
         /\ x.kind = "version" => x.version \in Nat /\ x.version \in Versions
         /\ x.kind = "settings" => x.settings \in Values /\ x.of \in Nat /\ x.of \in Versions
  <1>1. Versions \subseteq Nat
    BY SaveConstants DEF Versions
  <1> QED BY <1>1 DEF Messages

\* What NetworkManager may be asked for.
LEMMA CallKinds ==
  ASSUME NEW c \in Calls
  PROVE  /\ c.kind \in {"none", "get", "update"}
         /\ c.kind = "none" <=> c = NoCall
         /\ c.kind = "get" => c.field \in Fields
         /\ c.kind = "update" => /\ c.version \in Versions /\ c.settings \in Values
                                 /\ c.secrets \in [Fields -> Bundles] /\ c.sure \in BOOLEAN
  BY DEF Calls, NoCall

\* The order of the news is kept when one is taken over or an answer is.
LEMMA OrderTaken ==
  ASSUME NEW w \in Seq(Messages), w # <<>>, NEW c, NEW d, NEW n \in Nat,
         c.of \in Nat, c.version \in Nat, InOrder(w, c, n),
         \/ Head(w).kind = "version" /\ d.of = c.of /\ d.version = Head(w).version
         \/ Head(w).kind = "settings" /\ d.of = Head(w).of /\ d.version = c.version
         \/ Head(w).kind \notin {"version", "settings"} /\ d = c
  PROVE  InOrder(Tail(w), d, n)
  <1> DEFINE u == Tail(w)
  <1>1. /\ u \in Seq(Messages) /\ Len(w) \in Nat \ {0} /\ Len(u) = Len(w) - 1
        /\ \A i \in 1..Len(u) : i + 1 \in 1..Len(w) /\ u[i] = w[i + 1]
        /\ Head(w) = w[1] /\ 1 \in 1..Len(w)
    BY TakenMessage
  <1>2. \A i \in 1..Len(w) : /\ w[i].kind = "version" => w[i].version \in Nat
                             /\ w[i].kind = "settings" => w[i].of \in Nat
    BY MessageKinds
  <1>3. \A j \in 1..Len(w) : j # 1 => j - 1 \in 1..Len(u) /\ u[j - 1] = w[j]
    BY <1>1
  <1> HIDE DEF u
  <1>4. d.of \in Nat /\ d.version \in Nat /\ c.of <= d.of /\ c.version <= d.version
    BY <1>1, <1>2 DEF InOrder
  <1>5. d.of <= d.version /\ d.version <= n
    BY <1>1, <1>2, <1>4 DEF InOrder
  <1>6. ASSUME NEW i \in 1..Len(u)
        PROVE  /\ u[i].kind = "version" => d.version <= u[i].version /\ u[i].version <= n
               /\ u[i].kind = "settings" => d.of <= u[i].of /\ u[i].of <= n
    <2>1. i + 1 \in 1..Len(w) /\ u[i] = w[i + 1] /\ 1 < i + 1 /\ Head(w) = w[1]
          /\ 1 \in 1..Len(w)
      BY <1>1
    <2> QED BY <2>1 DEF InOrder
  <1>7. ASSUME NEW i \in 1..Len(u), NEW j \in 1..Len(u), j < i
        PROVE  /\ u[i].kind = "version" /\ u[j].kind = "version" => u[j].version <= u[i].version
               /\ u[i].kind = "settings" /\ u[j].kind = "settings" => u[j].of <= u[i].of
    <2>1. /\ i + 1 \in 1..Len(w) /\ u[i] = w[i + 1] /\ j + 1 \in 1..Len(w)
          /\ u[j] = w[j + 1] /\ j + 1 < i + 1
      BY <1>1, <1>7
    <2> QED BY <2>1 DEF InOrder
  <1>8. ASSUME NEW i \in 1..Len(u), u[i].kind = "settings"
        PROVE  \/ u[i].of <= d.version
               \/ \E j \in 1..Len(u) : j < i /\ u[j].kind = "version" /\ u[i].of <= u[j].version
    <2>1. i + 1 \in 1..Len(w) /\ u[i] = w[i + 1] /\ w[i + 1].of \in Nat
      BY <1>1, <1>2, <1>8
    <2>2. CASE w[i + 1].of <= c.version
      BY <1>4, <2>1, <2>2
    <2>3. CASE \E j \in 1..Len(w) : /\ j < i + 1 /\ w[j].kind = "version"
                                    /\ w[i + 1].of <= w[j].version
      <3>1. PICK j \in 1..Len(w) : /\ j < i + 1 /\ w[j].kind = "version"
                                   /\ w[i + 1].of <= w[j].version
        BY <2>3
      <3>2. CASE j = 1
        <4>1. d.version = w[1].version
          BY <1>1, <3>1, <3>2
        <4> QED BY <2>1, <3>1, <3>2, <4>1
      <3>3. CASE j # 1
        <4>1. j - 1 \in 1..Len(u) /\ u[j - 1] = w[j] /\ j - 1 < i
          BY <1>1, <1>3, <3>1, <3>3
        <4> QED BY <2>1, <3>1, <4>1
      <3> QED BY <3>2, <3>3
    <2> QED BY <1>8, <2>1, <2>2, <2>3 DEF InOrder
  <1>9. n <= d.version \/ \E j \in 1..Len(u) : u[j].kind = "version" /\ n <= u[j].version
    <2>1. CASE n <= c.version
      BY <1>4, <2>1
    <2>2. CASE \E j \in 1..Len(w) : w[j].kind = "version" /\ n <= w[j].version
      <3>1. PICK j \in 1..Len(w) : w[j].kind = "version" /\ n <= w[j].version
        BY <2>2
      <3>2. CASE j = 1
        BY <1>1, <3>1, <3>2
      <3>3. CASE j # 1
        BY <1>3, <3>1, <3>3
      <3> QED BY <3>2, <3>3
    <2> QED BY <2>1, <2>2 DEF InOrder
  <1> QED BY <1>5, <1>6, <1>7, <1>8, <1>9 DEF InOrder, u

\* And when an answer is sent, the settings of the profile, or a new version.
LEMMA OrderSent ==
  ASSUME NEW w \in Seq(Messages), NEW x \in Messages, NEW c, NEW n \in Nat, NEW m \in Nat,
         c.of \in Nat, c.version \in Nat, InOrder(w, c, n),
         \/ x.kind = "version" /\ x.version = n + 1 /\ m = n + 1
         \/ x.kind = "settings" /\ x.of = n /\ m = n
         \/ x.kind \notin {"version", "settings"} /\ m = n
  PROVE  InOrder(Append(w, x), c, m)
  <1> DEFINE u == Append(w, x)
             l == Len(w)
  <1>1. /\ Len(w) \in Nat /\ Len(u) = Len(w) + 1
        /\ \A i \in 1..Len(w) : i \in 1..Len(u) /\ u[i] = w[i]
        /\ u[Len(w) + 1] = x /\ Len(w) + 1 \in 1..Len(u)
    BY SentMessage
  <1>2. \A i \in 1..Len(w) : /\ w[i].kind = "version" => w[i].version \in Nat
                             /\ w[i].kind = "settings" => w[i].of \in Nat
    BY MessageKinds
  <1>3. \A i \in 1..Len(u) : i \in 1..Len(w) \/ i = Len(w) + 1
    BY <1>1
  <1> HIDE DEF u
  <1>4. c.of <= c.version /\ c.version <= n /\ n <= m
    BY DEF InOrder
  <1>5. ASSUME NEW i \in 1..Len(u)
        PROVE  /\ u[i].kind = "version" => c.version <= u[i].version /\ u[i].version <= m
               /\ u[i].kind = "settings" => c.of <= u[i].of /\ u[i].of <= m
    <2>1. CASE i \in 1..Len(w)
      BY <1>1, <1>2, <1>4, <2>1 DEF InOrder
    <2>2. CASE i = Len(w) + 1
      BY <1>1, <1>4, <2>2
    <2> QED BY <1>3, <2>1, <2>2
  <1>6. ASSUME NEW i \in 1..Len(u), NEW j \in 1..Len(u), j < i
        PROVE  /\ u[i].kind = "version" /\ u[j].kind = "version" => u[j].version <= u[i].version
               /\ u[i].kind = "settings" /\ u[j].kind = "settings" => u[j].of <= u[i].of
    <2>1. j \in 1..Len(w) /\ u[j] = w[j]
      BY <1>1, <1>3, <1>6
    <2>2. CASE i \in 1..Len(w)
      BY <1>1, <1>6, <2>1, <2>2 DEF InOrder
    <2>3. CASE i = Len(w) + 1
      BY <1>1, <1>2, <1>4, <2>1, <2>3 DEF InOrder
    <2> QED BY <1>3, <2>2, <2>3
  <1>7. ASSUME NEW i \in 1..Len(u), u[i].kind = "settings"
        PROVE  \/ u[i].of <= c.version
               \/ \E j \in 1..Len(u) : j < i /\ u[j].kind = "version" /\ u[i].of <= u[j].version
    <2>1. CASE i \in 1..Len(w)
      BY <1>1, <1>7, <2>1 DEF InOrder
    <2>2. CASE i = Len(w) + 1
      <3>1. u[i].of = n
        BY <1>1, <1>7, <2>2
      <3>2. CASE n <= c.version
        BY <3>1, <3>2
      <3>3. CASE \E j \in 1..Len(w) : w[j].kind = "version" /\ n <= w[j].version
        <4>1. \A j \in 1..Len(w) : j < i
          BY <1>1, <2>2
        <4> QED BY <1>1, <3>1, <3>3, <4>1
      <3> QED BY <3>2, <3>3 DEF InOrder
    <2> QED BY <1>3, <2>1, <2>2
  <1>8. m <= c.version \/ \E j \in 1..Len(u) : u[j].kind = "version" /\ m <= u[j].version
    <2>1. CASE x.kind = "version"
      BY <1>1, <2>1
    <2>2. CASE m = n
      BY <1>1, <2>2 DEF InOrder
    <2> QED BY <2>1, <2>2
  <1>9. c.of <= c.version /\ c.version <= m
    BY <1>4
  <1> QED BY <1>5, <1>6, <1>7, <1>8, <1>9 DEF InOrder, u

\* The copies of settings that are known agree as long as each is one that was
\* known before, or is the profile's after a change.
LEMMA CopiesAgree ==
  ASSUME SaveTypes, VersionsTell, nm' \in Profiles,
         \/ nm'.version = nm.version /\ nm'.settings = nm.settings
         \/ nm'.version = nm.version + 1,
         \A i \in 1..Len(wire') :
           wire'[i].kind = "settings" => <<wire'[i].of, wire'[i].settings>> \in Copies,
         <<cache'.of, cache'.settings>> \in Copies,
         ed'.sure => <<ed'.version, ed'.baseline>> \in Copies,
         call'.kind = "update" /\ call'.sure => <<call'.version, save'.baseline>> \in Copies
  PROVE  VersionsTell'
  <1> DEFINE new == <<nm'.version, nm'.settings>>
  <1>1. nm.version \in Nat /\ nm'.version \in Nat
    BY DEF SaveTypes, Profiles
  <1>2. \A k \in Copies' : k \in Copies \/ k = new
    BY DEF Copies
  <1>3. <<nm.version, nm.settings>> \in Copies
    BY DEF Copies
  <1>4. \A k \in Copies : k[1] \in Nat
    <2>1. Versions \subseteq Nat
      BY SaveConstants DEF Versions
    <2>2. \A i \in 1..Len(wire) : wire[i].kind = "settings" => wire[i].of \in Nat
      BY MessageKinds DEF SaveTypes
    <2>3. cache.of \in Nat
      BY <2>1 DEF SaveTypes, Views
    <2>4. ed.sure => ed.version \in Nat
      BY <2>1, SaveConstants DEF SaveTypes, Pages
    <2>5. call.kind = "update" => call.version \in Nat
      BY <2>1, CallKinds DEF SaveTypes
    <2> QED BY <1>1, <2>2, <2>3, <2>4, <2>5 DEF Copies
  <1>5. \A k \in Copies : k[1] <= nm'.version /\ (k[1] = nm'.version => k[2] = nm'.settings)
    <2>1. \A k \in Copies : k[1] <= nm.version /\ (k[1] = nm.version => k[2] = nm.settings)
      BY <1>3 DEF VersionsTell
    <2> QED BY <1>1, <1>4, <2>1
  <1>6. new[1] = nm'.version /\ new[2] = nm'.settings
    OBVIOUS
  <1> HIDE DEF new
  <1>7. \A k \in Copies' : k[1] <= nm'.version
    BY <1>1, <1>2, <1>5, <1>6
  <1>8. \A k, l \in Copies' : k[1] = l[1] => k[2] = l[2]
    BY <1>2, <1>5, <1>6 DEF VersionsTell
  <1> QED BY <1>7, <1>8 DEF VersionsTell

\* A page is sure of what another was, or of libnm's copy.
Trusts(f, e) ==
  f.sure => \/ e.sure /\ f.version = e.version /\ f.baseline = e.baseline
            \/ f.version = cache.of /\ f.baseline = cache.settings

\* sync_version and update_dirty keep what the user entered, and adopt a
\* version only of libnm's copy.
LEMMA UpdateDirtyDoes ==
  ASSUME NEW e \in Pages, cache \in Views
  PROVE  /\ SyncVersion(e) \in Pages /\ UpdateDirty(e) \in Pages
         /\ SyncVersion(e).saving = e.saving /\ UpdateDirty(e).saving = e.saving
         /\ SyncVersion(e).password = e.password /\ UpdateDirty(e).password = e.password
         /\ Trusts(SyncVersion(e), e) /\ Trusts(UpdateDirty(e), e)
  <1>1. /\ SyncVersion(e) \in Pages /\ SyncVersion(e).saving = e.saving
        /\ SyncVersion(e).password = e.password
    BY DEF SyncVersion, Pages, Views, Whole
  <1>2. Trusts(SyncVersion(e), e)
    <2>1. CASE cache.settings = e.baseline
      <3>1. SyncVersion(e) = [e EXCEPT !.version = cache.version, !.sure = Whole]
        BY <2>1 DEF SyncVersion
      <3>2. /\ SyncVersion(e).sure = Whole /\ SyncVersion(e).version = cache.version
            /\ SyncVersion(e).baseline = e.baseline
        BY <3>1 DEF Pages
      <3> QED BY <2>1, <3>2 DEF Trusts, Whole
    <2>2. CASE cache.settings # e.baseline
      BY <2>2 DEF SyncVersion, Trusts
    <2> QED BY <2>1, <2>2
  <1>3. (e.form # e.baseline \/ e.password # None) \in BOOLEAN
    OBVIOUS
  <1>4. \A f \in Pages : \A d \in BOOLEAN :
          /\ [f EXCEPT !.dirty = d] \in Pages
          /\ [f EXCEPT !.dirty = d].saving = f.saving
          /\ [f EXCEPT !.dirty = d].password = f.password
          /\ [f EXCEPT !.dirty = d].sure = f.sure
          /\ [f EXCEPT !.dirty = d].version = f.version
          /\ [f EXCEPT !.dirty = d].baseline = f.baseline
    BY DEF Pages
  <1>5. /\ UpdateDirty(e) \in Pages /\ UpdateDirty(e).saving = e.saving
        /\ UpdateDirty(e).password = e.password
    BY <1>1, <1>3, <1>4, ZenonT(30) DEF UpdateDirty
  <1>6. Trusts(UpdateDirty(e), e)
    <2>1. CASE e.dirty
      BY <1>3, <1>4, <2>1 DEF UpdateDirty, Trusts
    <2>2. CASE ~e.dirty
      BY <1>1, <1>2, <1>3, <1>4, <2>2 DEF UpdateDirty, Trusts
    <2> QED BY <2>1, <2>2
  <1> QED BY <1>1, <1>2, <1>5, <1>6

\* A profile with another version, settings or secrets is a profile.
LEMMA RaisedProfile ==
  ASSUME NEW n \in Profiles, NEW v \in Values, NEW x \in [Fields -> Bundles], NEW w \in Nat,
         NEW t \in SUBSET Fields
  PROVE  LET m == [settings |-> v, secrets |-> x, version |-> w, touched |-> t]
         IN m \in Profiles /\ m.version = w /\ m.settings = v /\ m.secrets = x /\ m.touched = t
  BY DEF Profiles

\* What is counted is counted up to its bound.
LEMMA CountedUp ==
  ASSUME NEW p \in Budgets
  PROVE  /\ p.others \in Nat /\ p.saves \in Nat /\ p.faults \in Nat
         /\ p.others <= MaxOthers /\ p.saves <= MaxSaves
         /\ p.others < MaxOthers => [p EXCEPT !.others = p.others + 1] \in Budgets
         /\ p.saves < MaxSaves => [p EXCEPT !.saves = p.saves + 1] \in Budgets
         /\ p.faults < MaxRefusals => [p EXCEPT !.faults = p.faults + 1] \in Budgets
  BY SaveConstants DEF Budgets

\* In the initial state libnm knows the profile as it is and nothing is saved.
LEMMA SaveInvInit == ProfileInit => SaveInv
  <1> SUFFICES ASSUME ProfileInit PROVE SaveInv
    OBVIOUS
  <1> USE SaveConstants
  <1> DEFINE x == [i \in Fields |-> [k \in Parts |-> FirstPassword]]
  <1>1. /\ nm = [settings |-> FirstValue, secrets |-> x, version |-> 1, touched |-> {}]
        /\ cache = [settings |-> FirstValue, version |-> 1, of |-> 1]
    BY DEF ProfileInit
  <1>2. fetch = FALSE /\ call = NoCall /\ wire = <<>> /\ ed = Closed /\ save = NoSave
        /\ spent = [others |-> 0, saves |-> 0, faults |-> 0]
    BY DEF ProfileInit
  <1>3. call.kind = "none" /\ Len(wire) = 0 /\ wire \in Seq(Messages) /\ call \in Calls
    BY <1>2 DEF NoCall, Calls
  <1>4. x \in [Fields -> Bundles]
    BY ProfileBoundsAssumption DEF Bundles, Given
  <1> HIDE DEF x
  <1>5. SaveTypes
    <2>1. 1 \in Versions /\ FirstValue \in Values
      BY ProfileBoundsAssumption DEF Versions
    <2>2. nm \in Profiles /\ cache \in Views /\ spent \in Budgets
      BY <1>1, <1>2, <1>4, <2>1 DEF Profiles, Views, Budgets
    <2> QED BY <1>2, <1>3, <2>2 DEF SaveTypes
  <1>6. VersionsAreSpent
    BY <1>1, <1>2, <1>3 DEF VersionsAreSpent
  <1>7. SaveIsShown /\ OneAnswer
    BY <1>2, <1>3 DEF SaveIsShown, OneAnswer
  <1>8. NewsInOrder
    BY <1>1, <1>2, <1>3 DEF NewsInOrder, InOrder
  <1>9. VersionsTell
    <2>1. Copies = {<<1, FirstValue>>}
      BY <1>1, <1>2, <1>3 DEF Copies
    <2> QED BY <1>1, <2>1 DEF VersionsTell
  <1>10. SecretsTell
    BY <1>2, <1>3 DEF SecretsTell
  <1> QED BY <1>5, <1>6, <1>7, <1>8, <1>9, <1>10 DEF SaveInv

\* What a page that is opened, edited or synchronised has is what was known.
LEMMA PageIsKnown ==
  ASSUME SaveInv, Trusts(ed', ed), UNCHANGED <<nm, wire, cache>>, call'.kind # "update"
  PROVE  NewsInOrder' /\ VersionsTell'
  <1>1. SaveTypes /\ NewsInOrder /\ VersionsTell
    BY DEF SaveInv
  <1>2. cache.of \in Nat
    BY <1>1, SaveConstants DEF SaveTypes, Views, Versions
  <1>3. NewsInOrder'
    BY <1>1, <1>2 DEF NewsInOrder, Trusts
  <1>4. /\ \A i \in 1..Len(wire') :
             wire'[i].kind = "settings" => <<wire'[i].of, wire'[i].settings>> \in Copies
        /\ <<cache'.of, cache'.settings>> \in Copies
        /\ ed'.sure => <<ed'.version, ed'.baseline>> \in Copies
    BY DEF Copies, Trusts
  <1>5. nm' \in Profiles
    BY <1>1 DEF SaveTypes
  <1> QED BY <1>1, <1>3, <1>4, <1>5, CopiesAgree

\* Opening and closing the page, editing and the timer change a page that does
\* not save.
LEMMA PageActionsKeep ==
  ASSUME SaveInv, OpenPage \/ ClosePage \/ Edit \/ RefreshLive
  PROVE  SaveInv'
  <1> USE SaveConstants
  <1>1. UNCHANGED <<nm, fetch, call, wire, cache, save, spent>>
    BY DEF OpenPage, ClosePage, Edit, RefreshLive
  <1>2. cache \in Views /\ (ed = Closed \/ ed \in Pages) /\ (save = NoSave \/ save \in Saves)
    BY DEF SaveInv, SaveTypes
  <1>3. /\ ~ed.saving /\ (ed' = Closed \/ (ed' \in Pages /\ ~ed'.saving))
        /\ Trusts(ed', ed)
    <2>1. CASE OpenPage
      <3> DEFINE e == [Closed EXCEPT !.open = TRUE, !.version = cache.version,
                                     !.baseline = cache.settings, !.form = cache.settings,
                                     !.sure = Whole]
      <3>1. e \in Pages /\ ~e.saving
        BY <1>2 DEF Closed, Pages, Given, Views, Whole
      <3>2. Trusts(e, ed)
        BY DEF Trusts, Closed, Whole
      <3>3. ed' = UpdateDirty(e)
        BY <2>1 DEF OpenPage
      <3>4. ed = Closed
        BY <1>2, <2>1 DEF OpenPage, Pages
      <3> HIDE DEF e
      <3>5. ed' \in Pages /\ ~ed'.saving /\ Trusts(ed', e)
        BY <1>2, <3>1, <3>3, UpdateDirtyDoes
      <3> QED BY <3>2, <3>4, <3>5 DEF Trusts
    <2>2. CASE ClosePage
      BY <2>2 DEF ClosePage, Trusts
    <2>3. CASE Edit
      <3>1. PICK v \in Values, p \in Given :
              ed' = UpdateDirty([ed EXCEPT !.form = v, !.password = p])
        BY <2>3 DEF Edit, Given
      <3>2. ed \in Pages /\ ~ed.saving
        <4>1. ed.open /\ ~ed.saving
          BY <2>3 DEF Edit
        <4> QED BY <1>2, <4>1 DEF Closed
      <3> DEFINE e == [ed EXCEPT !.form = v, !.password = p]
      <3>3. e \in Pages /\ ~e.saving /\ Trusts(e, ed)
        BY <3>2 DEF Pages, Trusts
      <3>4. ed' = UpdateDirty(e)
        BY <3>1
      <3> HIDE DEF e
      <3>5. ed' \in Pages /\ ~ed'.saving /\ Trusts(ed', e)
        BY <1>2, <3>3, <3>4, UpdateDirtyDoes
      <3> QED BY <3>2, <3>3, <3>5 DEF Trusts
    <2>4. CASE RefreshLive
      <3>1. ed \in Pages /\ ~ed.saving /\ ed' = SyncVersion(ed)
        BY <1>2, <2>4 DEF RefreshLive, Closed
      <3> QED BY <1>2, <3>1, UpdateDirtyDoes
    <2> QED BY <2>1, <2>2, <2>3, <2>4
  <1>4. ~ed'.saving /\ save = NoSave /\ save.pc = "idle"
    BY <1>3 DEF SaveInv, SaveIsShown
  <1>5. call.kind # "update"
    BY <1>4 DEF SaveInv, OneAnswer
  <1>6. SaveTypes'
    BY <1>1, <1>3 DEF SaveInv, SaveTypes
  <1>7. VersionsAreSpent' /\ OneAnswer'
    BY <1>1 DEF SaveInv, VersionsAreSpent, OneAnswer, IsAnswer
  <1>8. SaveIsShown'
    BY <1>1, <1>4 DEF SaveIsShown
  <1>9. NewsInOrder' /\ VersionsTell'
    BY <1>1, <1>3, <1>5, PageIsKnown
  <1>10. SecretsTell'
    BY <1>1, <1>4, <1>5 DEF SaveInv, SecretsTell
  <1> QED BY <1>6, <1>7, <1>8, <1>9, <1>10 DEF SaveInv

\* SaveProfile of a new save: snapshot, draft, secrets and password are set.
LEMMA NewSave ==
  ASSUME SaveTypes, ed \in Pages, NEW s, s = Begun(ed)
  PROVE  /\ \A c \in {"secrets", "update", "refused", "saved"} : [s EXCEPT !.pc = c] \in Saves
         /\ s.password = ed.password /\ s.baseline = cache.settings /\ s.index = 0
         /\ s.secrets = Entered(ed.password) /\ s.draft = ed.form
  <1>1. Entered(ed.password) \in [Fields -> Bundles]
    BY EnteredIsBundles DEF Pages
  <1>2. cache.settings \in Values /\ ed.form \in Values /\ ed.password \in Given
        /\ 0 \in 0..Secrets
    BY SaveConstants DEF SaveTypes, Pages, Views
  <1>3. s = [pc |-> "idle", index |-> 0, baseline |-> cache.settings, draft |-> ed.form,
             secrets |-> Entered(ed.password), password |-> ed.password]
    BY DEF Begun, NoSave
  <1> QED BY <1>1, <1>2, <1>3 DEF Saves

\* save_next asks for secrets, gives up, or sends the update.
LEMMA SaveNextDoes ==
  ASSUME NEW s, s.index \in 0..Secrets, SaveNext(s)
  PROVE  \/ /\ s.index < Secrets
            /\ save' = [s EXCEPT !.pc = "secrets", !.index = s.index + 1]
            /\ call' = [kind |-> "get", field |-> s.index + 1]
         \/ save' = [s EXCEPT !.pc = "refused"] /\ call' = NoCall
         \/ /\ s.index = Secrets /\ cache.settings = s.baseline
            /\ save' = [s EXCEPT !.pc = "update"] /\ call' = Update2(s)
  <1>1. s.index \in 0..Secrets /\ Secrets \in Nat
    BY SaveConstants
  <1>2. CASE s.index < Secrets
    BY <1>1, <1>2 DEF SaveNext
  <1>3. CASE s.index = Secrets /\ cache.settings # s.baseline
    BY <1>1, <1>3 DEF SaveNext
  <1>4. CASE s.index = Secrets /\ cache.settings = s.baseline
    BY <1>1, <1>4 DEF SaveNext
  <1> QED BY <1>1, <1>2, <1>3, <1>4

\* After save_next there is a save with the same snapshot, secrets and password,
\* which waits for one answer, and an update has the version libnm knows.
LEMMA SaveNextFacts ==
  ASSUME NEW s, SaveNext(s), cache \in Views,
         \A c \in {"secrets", "update", "refused", "saved"} : [s EXCEPT !.pc = c] \in Saves,
         s.index \in 0..Secrets, s.draft \in Values, s.secrets \in [Fields -> Bundles]
  PROVE  /\ save' \in Saves /\ call' \in Calls
         /\ save'.password = s.password /\ save'.baseline = s.baseline
         /\ save'.secrets = s.secrets
         /\ save'.pc \in {"secrets", "update", "refused"}
         /\ call'.kind = "get" => save'.pc = "secrets" /\ call'.field = save'.index
         /\ call'.kind = "update" =>
              /\ save'.pc = "update" /\ s.index = Secrets /\ cache.settings = s.baseline
              /\ call'.version = cache.version /\ call'.secrets = s.secrets
              /\ call'.sure = Whole
         /\ save'.pc = "secrets" => save'.index \in Fields /\ save'.index = s.index + 1
         /\ save'.pc = "update" => call'.kind = "update"
  <1> DEFINE t == [s EXCEPT !.pc = "secrets"]
  <1>0. /\ t \in Saves /\ t.index = s.index /\ t.baseline = s.baseline /\ t.draft = s.draft
        /\ t.secrets = s.secrets /\ t.password = s.password
        /\ \A c : [s EXCEPT !.pc = c] = [t EXCEPT !.pc = c]
        /\ \A c, n : [s EXCEPT !.pc = c, !.index = n] = [t EXCEPT !.pc = c, !.index = n]
    <2>1. t \in Saves
      BY ONLY \A c \in {"secrets", "update", "refused", "saved"} : [s EXCEPT !.pc = c] \in Saves
    <2>2. /\ t.index = s.index /\ t.baseline = s.baseline /\ t.draft = s.draft
          /\ t.secrets = s.secrets /\ t.password = s.password
      OBVIOUS
    <2>3. /\ \A c : [s EXCEPT !.pc = c] = [t EXCEPT !.pc = c]
          /\ \A c, n : [s EXCEPT !.pc = c, !.index = n] = [t EXCEPT !.pc = c, !.index = n]
      OBVIOUS
    <2> HIDE DEF t
    <2> QED BY <2>1, <2>2, <2>3
  <1> HIDE DEF t
  <1>1. CASE /\ s.index < Secrets
             /\ save' = [s EXCEPT !.pc = "secrets", !.index = s.index + 1]
             /\ call' = [kind |-> "get", field |-> s.index + 1]
    <2>1. s.index + 1 \in Fields /\ s.index + 1 \in 0..Secrets
      BY <1>1, SaveConstants DEF Fields
    <2>2. call'.kind = "get" /\ call'.field = s.index + 1 /\ call' \in Calls
      BY <1>1, <2>1 DEF Calls
    <2>3. save' = [t EXCEPT !.pc = "secrets", !.index = s.index + 1]
      BY <1>0, <1>1
    <2>4. /\ save' \in Saves /\ save'.pc = "secrets" /\ save'.index = s.index + 1
          /\ save'.password = t.password /\ save'.baseline = t.baseline
          /\ save'.secrets = t.secrets
      BY <1>0, <2>1, <2>3 DEF Saves
    <2> QED BY <1>0, <2>1, <2>2, <2>4
  <1>2. CASE save' = [s EXCEPT !.pc = "refused"] /\ call' = NoCall
    <2>1. call'.kind = "none" /\ call' \in Calls
      BY <1>2 DEF NoCall, Calls
    <2>2. save' = [t EXCEPT !.pc = "refused"]
      BY <1>0, <1>2
    <2>3. /\ save' \in Saves /\ save'.pc = "refused"
          /\ save'.password = t.password /\ save'.baseline = t.baseline
          /\ save'.secrets = t.secrets
      BY <1>0, <2>2 DEF Saves
    <2> QED BY <1>0, <2>1, <2>3
  <1>3. CASE /\ s.index = Secrets /\ cache.settings = s.baseline
             /\ save' = [s EXCEPT !.pc = "update"] /\ call' = Update2(s)
    <2>1. /\ call' \in Calls /\ call'.kind = "update" /\ call'.version = cache.version
          /\ call'.secrets = s.secrets /\ call'.sure = Whole
      BY <1>3 DEF Calls, Update2, Views, Whole
    <2>2. save' = [t EXCEPT !.pc = "update"]
      BY <1>0, <1>3
    <2>3. /\ save' \in Saves /\ save'.pc = "update"
          /\ save'.password = t.password /\ save'.baseline = t.baseline
          /\ save'.secrets = t.secrets
      BY <1>0, <2>2 DEF Saves
    <2> QED BY <1>0, <1>3, <2>1, <2>3
  <1> QED BY <1>1, <1>2, <1>3, SaveNextDoes

\* A page that is sure and has the version libnm names has libnm's settings.
LEMMA PageIsCurrent ==
  ASSUME SaveInv, ed \in Pages, ed.sure, ed.version = cache.version
  PROVE  ed.baseline = cache.settings
  <1>1. SaveTypes /\ NewsInOrder /\ VersionsTell
    BY DEF SaveInv
  <1>2. cache.of \in Nat /\ cache.version \in Nat
    BY <1>1, SaveConstants DEF SaveTypes, Views, Versions
  <1>3. cache.of = ed.version
    BY <1>1, <1>2 DEF NewsInOrder, InOrder
  <1>4. <<ed.version, ed.baseline>> \in Copies /\ <<cache.of, cache.settings>> \in Copies
    BY DEF Copies
  <1> QED BY <1>1, <1>3, <1>4 DEF VersionsTell

\* When nothing is asked and no save waits, what is on the way is news.
LEMMA NothingIsAsked ==
  ASSUME SaveInv, save.pc \notin {"secrets", "update"}
  PROVE  call = NoCall /\ call.kind = "none" /\ \A i \in 1..Len(wire) : ~IsAnswer(wire[i])
  <1>1. call \in Calls /\ call.kind # "get" /\ call.kind # "update"
    BY DEF SaveInv, OneAnswer, SaveTypes
  <1> QED BY <1>1, CallKinds DEF SaveInv, OneAnswer

\* save_clicked and network_sidebar_actions_save_profile: a save begins from
\* the settings libnm has, or is refused at once.
LEMMA SaveClickedKeeps ==
  ASSUME SaveInv, SaveClicked
  PROVE  SaveInv'
  <1> USE SaveConstants
  <1>1. /\ UNCHANGED <<nm, fetch, wire, cache>>
        /\ ed.open /\ ~ed.saving /\ ed' = [ed EXCEPT !.saving = TRUE] /\ SaveProfile(ed)
        /\ spent.saves < MaxSaves /\ spent' = [spent EXCEPT !.saves = spent.saves + 1]
    BY DEF SaveClicked
  <1>2. SaveTypes /\ VersionsAreSpent /\ NewsInOrder /\ VersionsTell
    BY DEF SaveInv
  <1>3. ed \in Pages
    BY <1>1, <1>2 DEF SaveTypes, Closed
  <1>4. /\ ed' \in Pages /\ ed'.saving /\ ed'.password = ed.password /\ ed'.sure = ed.sure
        /\ ed'.version = ed.version /\ ed'.baseline = ed.baseline
    BY <1>1, <1>3 DEF Pages
  <1>5. save = NoSave /\ save.pc = "idle"
    BY <1>1 DEF SaveInv, SaveIsShown
  <1>6. call = NoCall /\ call.kind = "none" /\ \A i \in 1..Len(wire) : ~IsAnswer(wire[i])
    BY <1>5, NothingIsAsked
  <1> DEFINE s == Begun(ed)
  <1>7. /\ \A c \in {"secrets", "update", "refused", "saved"} : [s EXCEPT !.pc = c] \in Saves
        /\ s.password = ed.password /\ s.baseline = cache.settings /\ s.index = 0
        /\ s.secrets = Entered(ed.password) /\ s.draft = ed.form
    BY <1>2, <1>3, NewSave
  <1>8. cache \in Views /\ s.index \in 0..Secrets /\ s.draft \in Values
        /\ s.secrets \in [Fields -> Bundles]
    BY <1>2, <1>3, <1>7, EnteredIsBundles DEF SaveTypes, Pages
  <1>9. /\ save' \in Saves /\ call' \in Calls
        /\ save'.password = ed.password /\ save'.baseline = cache.settings
        /\ save'.pc \in {"secrets", "update", "refused"}
        /\ call'.kind = "get" => save'.pc = "secrets" /\ call'.field = save'.index
        /\ call'.kind = "update" =>
             /\ save'.pc = "update" /\ Secrets = 0 /\ call'.version = cache.version
             /\ call'.sure = Whole
        /\ save'.pc = "secrets" => /\ save'.index \in Fields /\ save'.index = 1
                                   /\ save'.secrets = Entered(ed.password)
        /\ save'.pc # "refused" => ed.version = cache.version
    <2> HIDE DEF s
    <2>1. CASE ed.version # cache.version
      <3>1. save' = [s EXCEPT !.pc = "refused"] /\ call' = NoCall
        BY <1>1, <2>1 DEF SaveProfile, s
      <3>2. call'.kind = "none" /\ call' \in Calls
        BY <3>1 DEF NoCall, Calls
      <3>3. save' \in Saves
        BY <1>7, <3>1
      <3>4. save'.password = s.password /\ save'.baseline = s.baseline /\ save'.pc = "refused"
        BY <3>1, <3>3 DEF Saves
      <3> QED BY <1>7, <3>2, <3>3, <3>4
    <2>2. CASE ed.version = cache.version
      <3>1. SaveNext(s)
        BY <1>1, <2>2 DEF SaveProfile, s
      <3> QED BY <1>7, <1>8, <2>2, <3>1, SaveNextFacts
    <2> QED BY <2>1, <2>2
  <1> HIDE DEF s
  <1>10. /\ spent' \in Budgets
         /\ spent'.others = spent.others /\ spent'.saves = spent.saves + 1
    <2>1. spent \in Budgets
      BY <1>2 DEF SaveTypes
    <2>2. spent'.others = spent.others /\ spent'.saves = spent.saves + 1
      BY <1>1, <2>1 DEF Budgets
    <2> QED BY <1>1, <2>1, <2>2, CountedUp
  <1>11. SaveTypes'
    BY <1>1, <1>2, <1>4, <1>9, <1>10 DEF SaveTypes
  <1>12. VersionsAreSpent'
    <2>1. nm.version \in Nat /\ spent.others \in Nat /\ spent.saves \in Nat
      BY <1>2, CountedUp DEF SaveTypes, Profiles
    <2>2. nm.version <= 1 + spent.others + spent.saves /\ 1 <= nm.version
      <3>1. ~(save.pc = "secrets" \/ call.kind = "update")
        BY <1>5, <1>6
      <3> QED BY <1>2, <2>1, <3>1 DEF VersionsAreSpent
    <2> QED BY <1>1, <1>10, <2>1, <2>2 DEF VersionsAreSpent
  <1>13. SaveIsShown'
    <2>1. save'.pc # "refused" /\ ed.sure => save'.baseline = ed.baseline
      BY <1>3, <1>9, PageIsCurrent
    <2> QED BY <1>4, <1>9, <2>1 DEF SaveIsShown
  <1>14. OneAnswer'
    BY <1>1, <1>6, <1>9 DEF SaveInv, OneAnswer, IsAnswer
  <1>15. NewsInOrder'
    <2>1. cache.version \in Nat
      BY <1>2 DEF SaveTypes, Views, Versions
    <2> QED BY <1>1, <1>2, <1>4, <1>9, <2>1 DEF NewsInOrder
  <1>16. VersionsTell'
    <2>1. /\ \A i \in 1..Len(wire') :
               wire'[i].kind = "settings" => <<wire'[i].of, wire'[i].settings>> \in Copies
          /\ <<cache'.of, cache'.settings>> \in Copies
          /\ ed'.sure => <<ed'.version, ed'.baseline>> \in Copies
      BY <1>1, <1>4 DEF Copies
    <2>2. call'.kind = "update" /\ call'.sure => <<call'.version, save'.baseline>> \in Copies
      BY <1>9 DEF Copies, Whole
    <2>3. nm' \in Profiles
      BY <1>1, <1>2 DEF SaveTypes
    <2> QED BY <1>1, <1>2, <2>1, <2>2, <2>3, CopiesAgree
  <1>17. SecretsTell'
    <2>1. ASSUME save'.pc = "secrets"
          PROVE  /\ \A i \in save'.index..Secrets : save'.secrets[i] = Entered(ed'.password)[i]
                 /\ \A i \in 1..(save'.index - 1) :
                      i \notin nm'.touched =>
                        save'.secrets[i] = Merge(nm'.secrets[i], Entered(ed'.password)[i])
      BY <1>4, <1>9, <2>1
    <2>2. ASSUME call'.kind = "update"
          PROVE  Fields = {} /\ nm'.touched = {}
      <3>1. Fields = {}
        BY <1>9, <2>2 DEF Fields
      <3> QED BY <1>1, <1>2, <3>1 DEF SaveTypes, Profiles
    <2>3. \A i \in 1..Len(wire') : wire'[i].kind # "secrets"
      BY <1>1, <1>6 DEF IsAnswer
    <2> QED BY <2>1, <2>2, <2>3 DEF SecretsTell
  <1> QED BY <1>11, <1>12, <1>13, <1>14, <1>15, <1>16, <1>17 DEF SaveInv

\* save_finished: the page is released, whatever became of the save.
LEMMA SaveFinishedKeeps ==
  ASSUME SaveInv, SaveFinished
  PROVE  SaveInv'
  <1> USE SaveConstants
  <1>1. /\ UNCHANGED <<nm, fetch, call, wire, cache, spent>>
        /\ save.pc \in {"saved", "refused"} /\ save' = NoSave
    BY DEF SaveFinished
  <1>2. SaveTypes /\ save # NoSave /\ ed.saving /\ ed \in Pages
    BY <1>1 DEF SaveInv, SaveTypes, SaveIsShown
  <1>3. ed' \in Pages /\ ~ed'.saving /\ Trusts(ed', ed)
    <2> DEFINE e == [ed EXCEPT !.saving = FALSE, !.baseline = ed.form,
                               !.password = None, !.dirty = FALSE, !.sure = FALSE]
    <2>1. e \in Pages /\ ~e.saving /\ ~e.sure
      BY <1>2 DEF Pages, Given
    <2>2. CASE save.pc = "saved"
      <3>1. ed' = UpdateDirty(e)
        BY <2>2 DEF SaveFinished
      <3> HIDE DEF e
      <3>2. ed' \in Pages /\ ~ed'.saving /\ Trusts(ed', e)
        BY <1>2, <2>1, <3>1, UpdateDirtyDoes DEF SaveTypes
      <3> QED BY <2>1, <3>2 DEF Trusts
    <2>3. CASE save.pc # "saved"
      <3>1. ed' = [ed EXCEPT !.saving = FALSE]
        BY <2>3 DEF SaveFinished
      <3> QED BY <1>2, <3>1 DEF Pages, Trusts
    <2> QED BY <2>2, <2>3
  <1>4. call = NoCall /\ call.kind = "none" /\ \A i \in 1..Len(wire) : ~IsAnswer(wire[i])
    BY <1>1, NothingIsAsked
  <1>5. SaveTypes'
    BY <1>1, <1>2, <1>3 DEF SaveTypes
  <1>6. VersionsAreSpent'
    BY <1>1, <1>4 DEF SaveInv, VersionsAreSpent
  <1>7. SaveIsShown'
    BY <1>1, <1>3 DEF SaveIsShown
  <1>8. OneAnswer'
    BY <1>1, <1>4 DEF SaveInv, OneAnswer, IsAnswer
  <1>9. NewsInOrder' /\ VersionsTell'
    BY <1>1, <1>3, <1>4, PageIsKnown
  <1>10. SecretsTell'
    BY <1>1, <1>4 DEF SecretsTell, IsAnswer
  <1> QED BY <1>5, <1>6, <1>7, <1>8, <1>9, <1>10 DEF SaveInv

\* An answer that the main loop takes leaves the news in their order.
LEMMA AnswerTaken ==
  ASSUME SaveInv, wire # <<>>, IsAnswer(Head(wire)), wire' = Tail(wire),
         UNCHANGED <<nm, cache, ed>>
  PROVE  /\ wire' \in Seq(Messages)
         /\ \A i \in 1..Len(wire') : ~IsAnswer(wire'[i])
         /\ \A i \in 1..Len(wire') :
              wire'[i].kind = "settings" => <<wire'[i].of, wire'[i].settings>> \in Copies
         /\ InOrder(wire, cache, nm.version)' /\ (ed.sure => ed.version <= cache.of)'
         /\ call = NoCall /\ call.kind = "none" /\ save.pc \in {"secrets", "update"}
         /\ save \in Saves /\ ed.saving /\ ed \in Pages
         /\ Head(wire).kind = "secrets" => save.pc = "secrets"
         /\ Head(wire) \in Messages /\ Head(wire) = wire[1] /\ 1 \in 1..Len(wire)
  <1> USE SaveConstants
  <1>1. SaveTypes /\ SaveIsShown /\ OneAnswer /\ NewsInOrder
    BY DEF SaveInv
  <1>2. /\ wire' \in Seq(Messages)
        /\ \A i \in 1..Len(wire') : i + 1 \in 1..Len(wire) /\ wire'[i] = wire[i + 1]
        /\ Head(wire) = wire[1] /\ 1 \in 1..Len(wire) /\ wire[1] \in Messages
    BY <1>1, TakenMessage DEF SaveTypes
  <1>3. ASSUME NEW i \in 1..Len(wire') PROVE ~IsAnswer(wire'[i])
    <2>1. i + 1 \in 1..Len(wire) /\ wire'[i] = wire[i + 1] /\ i + 1 # 1
      BY <1>2
    <2> QED BY <1>1, <1>2, <2>1 DEF OneAnswer
  <1>4. ASSUME NEW i \in 1..Len(wire'), wire'[i].kind = "settings"
        PROVE  <<wire'[i].of, wire'[i].settings>> \in Copies
    <2>1. i + 1 \in 1..Len(wire) /\ wire'[i] = wire[i + 1]
      BY <1>2
    <2> QED BY <1>4, <2>1 DEF Copies
  <1>5. /\ call = NoCall /\ save.pc \in {"secrets", "update"}
        /\ Head(wire).kind = "secrets" => save.pc = "secrets"
    BY <1>1, <1>2 DEF OneAnswer
  <1>6. save \in Saves /\ ed.saving /\ ed \in Pages /\ call.kind = "none"
    BY <1>1, <1>5 DEF SaveTypes, SaveIsShown, NoCall
  <1>7. InOrder(wire, cache, nm.version)'
    <2>1. /\ nm.version \in Nat /\ cache.of \in Nat /\ cache.version \in Nat
          /\ wire \in Seq(Messages)
      BY <1>1 DEF SaveTypes, Profiles, Views, Versions
    <2>2. Head(wire).kind \notin {"version", "settings"}
      BY DEF IsAnswer
    <2>3. InOrder(wire, cache, nm.version)
      BY <1>1 DEF NewsInOrder
    <2>4. InOrder(Tail(wire), cache, nm.version)
      BY <2>1, <2>2, <2>3, OrderTaken
    <2> QED BY <2>4 DEF InOrder
  <1>8. (ed.sure => ed.version <= cache.of)'
    BY <1>1 DEF NewsInOrder
  <1> QED BY <1>2, <1>3, <1>4, <1>5, <1>6, <1>7, <1>8

\* secrets_done: what was given is taken over, and what was entered once more.
LEMMA SecretsDoneKeeps ==
  ASSUME SaveInv, SecretsDone
  PROVE  SaveInv'
  <1> USE SaveConstants
  <1> DEFINE e == Entered(save.password)
             b == Merge(Merge(save.secrets[save.index], Head(wire).secrets), e[save.index])
             s == [save EXCEPT !.secrets[save.index] = b]
  <1>1. /\ UNCHANGED <<nm, fetch, cache, ed, spent>>
        /\ wire # <<>> /\ Head(wire).kind = "secrets" /\ wire' = Tail(wire) /\ SaveNext(s)
    BY DEF SecretsDone, Receives
  <1>2. SaveTypes /\ VersionsAreSpent /\ SaveIsShown /\ OneAnswer /\ NewsInOrder
        /\ VersionsTell /\ SecretsTell
    BY DEF SaveInv
  <1>3. /\ wire' \in Seq(Messages)
        /\ \A i \in 1..Len(wire') : ~IsAnswer(wire'[i])
        /\ \A i \in 1..Len(wire') :
             wire'[i].kind = "settings" => <<wire'[i].of, wire'[i].settings>> \in Copies
        /\ InOrder(wire, cache, nm.version)' /\ (ed.sure => ed.version <= cache.of)'
        /\ call = NoCall /\ call.kind = "none" /\ save.pc = "secrets"
        /\ save \in Saves /\ ed.saving /\ ed \in Pages
        /\ Head(wire) \in Messages /\ Head(wire) = wire[1] /\ 1 \in 1..Len(wire)
    BY <1>1, AnswerTaken DEF IsAnswer
  <1>4. /\ save.index \in Fields /\ save.index \in 0..Secrets /\ Head(wire).secrets \in Bundles
        /\ save.password = ed.password /\ e \in [Fields -> Bundles]
        /\ save.secrets \in [Fields -> Bundles] /\ e[save.index] \in Bundles
        /\ save.secrets[save.index] = e[save.index]
    <2>1. save.index \in Fields /\ save.index \in 0..Secrets
      BY <1>2, <1>3 DEF OneAnswer, Fields
    <2>2. Head(wire).secrets \in Bundles
      BY <1>1, <1>3, MessageKinds
    <2>3. save.password = ed.password /\ save.password \in Given
          /\ save.secrets \in [Fields -> Bundles]
      BY <1>2, <1>3 DEF SaveIsShown, Saves
    <2>4. e \in [Fields -> Bundles]
      BY <2>3, EnteredIsBundles
    <2>5. save.secrets[save.index] = e[save.index]
      <3>1. save.index \in save.index..Secrets
        BY <2>1 DEF Fields
      <3> QED BY <1>2, <1>3, <2>3, <3>1 DEF SecretsTell
    <2> HIDE DEF e
    <2> QED BY <2>1, <2>2, <2>3, <2>4, <2>5
  <1>5. b = Merge(Head(wire).secrets, e[save.index]) /\ b \in Bundles
    <2> HIDE DEF e
    <2> QED BY <1>4, MergeIsBundle
  <1> HIDE DEF b
  <1>6. /\ \A c \in {"secrets", "update", "refused", "saved"} : [s EXCEPT !.pc = c] \in Saves
        /\ s.index = save.index /\ s.draft \in Values /\ s.secrets \in [Fields -> Bundles]
        /\ s.password = save.password /\ s.baseline = save.baseline
        /\ s.secrets = [save.secrets EXCEPT ![save.index] = b]
    <2>1. s = [save EXCEPT !.secrets = [save.secrets EXCEPT ![save.index] = b]]
      BY <1>3 DEF Saves
    <2>2. [save.secrets EXCEPT ![save.index] = b] \in [Fields -> Bundles]
      BY <1>4, <1>5
    <2> HIDE DEF s
    <2>3. \A x \in [Fields -> Bundles] :
            /\ \A c \in {"secrets", "update", "refused", "saved"} :
                 [[save EXCEPT !.secrets = x] EXCEPT !.pc = c] \in Saves
            /\ [save EXCEPT !.secrets = x].index = save.index
            /\ [save EXCEPT !.secrets = x].draft \in Values
            /\ [save EXCEPT !.secrets = x].secrets = x
            /\ [save EXCEPT !.secrets = x].password = save.password
            /\ [save EXCEPT !.secrets = x].baseline = save.baseline
      BY <1>3 DEF Saves
    <2> QED BY <2>1, <2>2, <2>3
  <1> HIDE DEF s
  <1>7. /\ save' \in Saves /\ call' \in Calls
        /\ save'.password = s.password /\ save'.baseline = s.baseline
        /\ save'.secrets = s.secrets
        /\ save'.pc \in {"secrets", "update", "refused"}
        /\ call'.kind = "get" => save'.pc = "secrets" /\ call'.field = save'.index
        /\ call'.kind = "update" =>
             /\ save'.pc = "update" /\ s.index = Secrets /\ cache.settings = s.baseline
             /\ call'.version = cache.version /\ call'.secrets = s.secrets
             /\ call'.sure = Whole
        /\ save'.pc = "secrets" => save'.index \in Fields /\ save'.index = s.index + 1
    <2>1. cache \in Views /\ s.index \in 0..Secrets
      BY <1>2, <1>4, <1>6 DEF SaveTypes
    <2> QED BY <1>1, <1>6, <2>1, SaveNextFacts
  <1>8. SaveTypes'
    BY <1>1, <1>2, <1>3, <1>7 DEF SaveTypes
  <1>9. VersionsAreSpent'
    BY <1>1, <1>2, <1>3, SMTT(30) DEF VersionsAreSpent, SaveTypes, Profiles, Budgets
  <1>10. SaveIsShown'
    BY <1>1, <1>2, <1>3, <1>6, <1>7 DEF SaveIsShown
  <1>11. OneAnswer'
    BY <1>3, <1>7 DEF OneAnswer, IsAnswer
  <1>12. NewsInOrder'
    <2>1. cache.version \in Nat
      BY <1>2 DEF SaveTypes, Views, Versions
    <2> QED BY <1>1, <1>3, <1>7, <2>1 DEF NewsInOrder
  <1>13. VersionsTell'
    <2>1. /\ <<cache'.of, cache'.settings>> \in Copies
          /\ ed'.sure => <<ed'.version, ed'.baseline>> \in Copies
      BY <1>1 DEF Copies
    <2>2. call'.kind = "update" /\ call'.sure => <<call'.version, save'.baseline>> \in Copies
      BY <1>7 DEF Copies, Whole
    <2>3. nm' \in Profiles /\ nm' = nm
      BY <1>1, <1>2 DEF SaveTypes
    <2> QED BY <1>2, <1>3, <2>1, <2>2, <2>3, CopiesAgree
  <1>14. SecretsTell'
    <2>1. ASSUME NEW i \in 1..save.index, i \notin nm.touched
          PROVE  save'.secrets[i] = Merge(nm.secrets[i], Entered(ed.password)[i])
      <3>1. i \in Fields
        BY <1>4, <2>1 DEF Fields
      <3>2. CASE i = save.index
        <4>1. save'.secrets[i] = b
          BY <1>4, <1>6, <1>7, <3>1, <3>2
        <4>2. Head(wire).secrets = nm.secrets[i]
          BY <1>1, <1>2, <1>3, <2>1, <3>2 DEF SecretsTell
        <4> QED BY <1>4, <1>5, <3>2, <4>1, <4>2
      <3>3. CASE i # save.index
        <4>1. i \in 1..(save.index - 1)
          BY <1>4, <2>1, <3>3 DEF Fields
        <4>2. save'.secrets[i] = save.secrets[i]
          BY <1>4, <1>6, <1>7, <3>1, <3>3
        <4> QED BY <1>2, <1>3, <2>1, <4>1, <4>2 DEF SecretsTell
      <3> QED BY <3>2, <3>3
    <2>2. ASSUME save'.pc = "secrets"
          PROVE  /\ \A i \in save'.index..Secrets :
                      save'.secrets[i] = Entered(ed'.password)[i]
                 /\ \A i \in 1..(save'.index - 1) :
                      i \notin nm'.touched =>
                        save'.secrets[i] = Merge(nm'.secrets[i], Entered(ed'.password)[i])
      <3>1. save'.index = save.index + 1 /\ save.index \in Nat \ {0}
        BY <1>4, <1>6, <1>7, <2>2 DEF Fields
      <3>2. ASSUME NEW i \in save'.index..Secrets
            PROVE  save'.secrets[i] = Entered(ed'.password)[i]
        <4>1. i \in Fields /\ i # save.index /\ i \in save.index..Secrets
          BY <3>1, <3>2 DEF Fields
        <4>2. save'.secrets[i] = save.secrets[i]
          BY <1>4, <1>6, <1>7, <4>1
        <4> QED BY <1>1, <1>2, <1>3, <4>1, <4>2 DEF SecretsTell
      <3>3. \A i \in 1..(save'.index - 1) : i \in 1..save.index
        BY <3>1
      <3> QED BY <1>1, <2>1, <3>2, <3>3
    <2>3. ASSUME call'.kind = "update"
          PROVE  /\ \A i \in Fields :
                      i \notin nm'.touched =>
                        call'.secrets[i] = Merge(nm'.secrets[i], Entered(ed'.password)[i])
                 /\ Secrets \in nm'.touched => call'.version < nm'.version
      <3>1. save.index = Secrets /\ call'.version = cache.version
            /\ call'.secrets = save'.secrets
        BY <1>6, <1>7, <2>3
      <3>2. Secrets \in nm.touched => cache.version < nm.version
        BY <1>1, <1>2, <1>3, <3>1 DEF SecretsTell
      <3> QED BY <1>1, <2>1, <3>1, <3>2 DEF Fields
    <2>4. \A i \in 1..Len(wire') : wire'[i].kind # "secrets"
      BY <1>3 DEF IsAnswer
    <2> QED BY <2>2, <2>3, <2>4 DEF SecretsTell
  <1> QED BY <1>8, <1>9, <1>10, <1>11, <1>12, <1>13, <1>14 DEF SaveInv

\* secrets_done and update_done end a save.
LEMMA ChainEndKeeps ==
  ASSUME SaveInv, CallFailed \/ UpdateDone
  PROVE  SaveInv'
  <1> USE SaveConstants
  <1>1. /\ UNCHANGED <<nm, fetch, call, cache, ed, spent>>
        /\ wire # <<>> /\ Head(wire).kind \in {"failed", "updated"} /\ wire' = Tail(wire)
        /\ \/ save' = [save EXCEPT !.pc = "refused"]
           \/ save' = [save EXCEPT !.pc = "saved"] /\ Head(wire).kind = "updated"
    BY DEF CallFailed, UpdateDone, Receives
  <1>2. SaveTypes /\ VersionsAreSpent /\ SaveIsShown /\ OneAnswer /\ NewsInOrder
        /\ VersionsTell
    BY DEF SaveInv
  <1>3. /\ wire' \in Seq(Messages)
        /\ \A i \in 1..Len(wire') : ~IsAnswer(wire'[i])
        /\ \A i \in 1..Len(wire') :
             wire'[i].kind = "settings" => <<wire'[i].of, wire'[i].settings>> \in Copies
        /\ InOrder(wire, cache, nm.version)' /\ (ed.sure => ed.version <= cache.of)'
        /\ call = NoCall /\ call.kind = "none" /\ save.pc \in {"secrets", "update"}
        /\ save \in Saves /\ ed.saving /\ ed \in Pages
    BY <1>1, AnswerTaken DEF IsAnswer
  <1>4. /\ save' \in Saves /\ save'.pc \in {"refused", "saved"}
        /\ save'.password = save.password /\ save'.baseline = save.baseline
    BY <1>1, <1>3 DEF Saves
  <1>5. SaveTypes'
    BY <1>1, <1>2, <1>3, <1>4 DEF SaveTypes
  <1>6. VersionsAreSpent'
    <2>1. nm.version \in Nat /\ spent.others \in Nat /\ spent.saves \in Nat
      BY <1>2, CountedUp DEF SaveTypes, Profiles
    <2>2. nm.version <= 1 + spent.others + spent.saves /\ 1 <= nm.version
      BY <1>2, <1>3, <2>1 DEF VersionsAreSpent
    <2>3. save'.pc # "secrets" /\ call'.kind # "update"
      BY <1>1, <1>3, <1>4
    <2> QED BY <1>1, <2>1, <2>2, <2>3 DEF VersionsAreSpent
  <1>7. SaveIsShown'
    BY <1>1, <1>2, <1>3, <1>4 DEF SaveIsShown
  <1>8. OneAnswer'
    BY <1>1, <1>3, <1>4 DEF OneAnswer, IsAnswer
  <1>9. NewsInOrder'
    BY <1>1, <1>3 DEF NewsInOrder
  <1>10. VersionsTell'
    <2>1. /\ <<cache'.of, cache'.settings>> \in Copies
          /\ ed'.sure => <<ed'.version, ed'.baseline>> \in Copies
      BY <1>1 DEF Copies
    <2>2. nm' \in Profiles /\ nm' = nm /\ call'.kind # "update"
      BY <1>1, <1>2, <1>3 DEF SaveTypes
    <2> QED BY <1>2, <1>3, <2>1, <2>2, CopiesAgree
  <1>11. SecretsTell'
    BY <1>1, <1>3, <1>4 DEF SecretsTell, IsAnswer
  <1> QED BY <1>5, <1>6, <1>7, <1>8, <1>9, <1>10, <1>11 DEF SaveInv

\* libnm takes over a version, or settings, that it is told.
LEMMA NewsTakenKeeps ==
  ASSUME SaveInv, VersionTold \/ SettingsTold
  PROVE  SaveInv'
  <1> USE SaveConstants
  <1> DEFINE x == Head(wire)
  <1>1. /\ UNCHANGED <<nm, call, ed, save, spent>>
        /\ wire # <<>> /\ wire' = Tail(wire)
        /\ \/ /\ x.kind = "version" /\ fetch' = TRUE
              /\ cache' = [cache EXCEPT !.version = x.version]
           \/ /\ x.kind = "settings" /\ fetch' = fetch
              /\ cache' = [cache EXCEPT !.settings = x.settings, !.of = x.of]
    BY DEF VersionTold, SettingsTold, Receives
  <1>2. SaveTypes /\ VersionsAreSpent /\ SaveIsShown /\ OneAnswer /\ NewsInOrder
        /\ VersionsTell /\ SecretsTell
    BY DEF SaveInv
  <1>3. /\ wire' \in Seq(Messages) /\ Len(wire) \in Nat /\ Len(wire') \in Nat
        /\ \A i \in 1..Len(wire') : i + 1 \in 1..Len(wire) /\ wire'[i] = wire[i + 1]
        /\ x = wire[1] /\ 1 \in 1..Len(wire) /\ x \in Messages
    BY <1>1, <1>2, TakenMessage DEF SaveTypes
  <1>4. /\ x.kind = "version" => x.version \in Nat /\ x.version \in Versions
        /\ x.kind = "settings" => x.settings \in Values /\ x.of \in Nat /\ x.of \in Versions
    BY <1>3, MessageKinds
  <1>5. /\ nm.version \in Nat /\ cache.of \in Nat /\ cache.version \in Nat
        /\ wire \in Seq(Messages) /\ cache \in Views
    BY <1>2 DEF SaveTypes, Profiles, Views, Versions
  <1> HIDE DEF x
  <1>6. /\ cache' \in Views
        /\ \/ x.kind = "version" /\ cache'.of = cache.of /\ cache'.version = x.version
              /\ cache'.settings = cache.settings
           \/ x.kind = "settings" /\ cache'.of = x.of /\ cache'.version = cache.version
              /\ cache'.settings = x.settings
    BY <1>1, <1>4, <1>5 DEF Views
  <1>7. cache'.of \in Nat /\ cache'.version \in Nat /\ cache.of <= cache'.of
        /\ cache.version <= cache'.version
    BY <1>2, <1>3, <1>4, <1>5, <1>6 DEF NewsInOrder, InOrder
  <1>8. SaveTypes'
    BY <1>1, <1>2, <1>3, <1>6 DEF SaveTypes
  <1>9. VersionsAreSpent' /\ SaveIsShown'
    BY <1>1, <1>2 DEF VersionsAreSpent, SaveIsShown
  <1>10. OneAnswer'
    <2>1. ASSUME NEW i \in 1..Len(wire'), NEW j \in 1..Len(wire'),
                 IsAnswer(wire'[i]), IsAnswer(wire'[j])
          PROVE  i = j
      <3>1. i + 1 \in 1..Len(wire) /\ wire'[i] = wire[i + 1]
            /\ j + 1 \in 1..Len(wire) /\ wire'[j] = wire[j + 1]
        BY <1>3
      <3>2. i + 1 = j + 1
        BY <1>2, <2>1, <3>1 DEF OneAnswer
      <3> QED BY <1>3, <3>2
    <2>2. ASSUME NEW i \in 1..Len(wire')
          PROVE  /\ IsAnswer(wire'[i]) => call' = NoCall /\ save'.pc \in {"secrets", "update"}
                 /\ wire'[i].kind = "secrets" => save'.pc = "secrets"
                 /\ wire'[i].kind = "updated" => save'.pc = "update"
      BY <1>1, <1>2, <1>3 DEF OneAnswer
    <2> QED BY <1>1, <1>2, <2>1, <2>2 DEF OneAnswer, IsAnswer
  <1>11. NewsInOrder'
    <2>1. InOrder(wire, cache, nm.version)
      BY <1>2 DEF NewsInOrder
    <2>2. InOrder(Tail(wire), cache', nm.version)
      BY <1>1, <1>5, <1>6, <2>1, OrderTaken DEF x
    <2>3. InOrder(wire, cache, nm.version)'
      BY <1>1, <2>2 DEF InOrder
    <2>4. (ed.sure => ed.version <= cache.of)'
      <3>1. Versions \subseteq Nat
        BY DEF Versions
      <3>2. ed.sure => ed.version \in Nat
        BY <1>2, <3>1 DEF SaveTypes, Pages
      <3> QED BY <1>1, <1>2, <1>5, <1>7, <3>2, SMTT(30) DEF NewsInOrder
    <2>5. (call.kind = "update" => call.version <= cache.version)'
      <3>1. call.kind = "update" => call.version \in Nat
        BY <1>2, CallKinds DEF SaveTypes, Versions
      <3> QED BY <1>1, <1>2, <1>5, <1>7, <3>1 DEF NewsInOrder
    <2> QED BY <2>3, <2>4, <2>5 DEF NewsInOrder
  <1>12. VersionsTell'
    <2>1. ASSUME NEW i \in 1..Len(wire'), wire'[i].kind = "settings"
          PROVE  <<wire'[i].of, wire'[i].settings>> \in Copies
      <3>1. i + 1 \in 1..Len(wire) /\ wire'[i] = wire[i + 1]
        BY <1>3
      <3> QED BY <2>1, <3>1 DEF Copies
    <2>2. <<cache'.of, cache'.settings>> \in Copies
      BY <1>3, <1>6 DEF Copies
    <2>3. /\ ed'.sure => <<ed'.version, ed'.baseline>> \in Copies
          /\ call'.kind = "update" /\ call'.sure => <<call'.version, save'.baseline>> \in Copies
      BY <1>1 DEF Copies
    <2>4. nm' \in Profiles /\ nm' = nm
      BY <1>1, <1>2 DEF SaveTypes
    <2> QED BY <1>2, <2>1, <2>2, <2>3, <2>4, CopiesAgree
  <1>13. SecretsTell'
    <2>1. ASSUME NEW j \in 1..Len(wire'), wire'[j].kind = "secrets"
          PROVE  /\ save.index \notin nm.touched => wire'[j].secrets = nm.secrets[save.index]
                 /\ save.index \in nm.touched =>
                      /\ cache'.version < nm.version
                      /\ \A i \in 1..(j - 1) :
                           wire'[i].kind = "version" => wire'[i].version < nm.version
      <3>1. j + 1 \in 1..Len(wire) /\ wire'[j] = wire[j + 1] /\ j \in Nat \ {0}
        BY <1>3
      <3>3. 1 \in 1..((j + 1) - 1)
        BY <3>1
      <3>4. \A i \in 1..(j - 1) : i + 1 \in 1..((j + 1) - 1) /\ i \in 1..Len(wire')
        BY <1>3, <3>1
      <3>2. /\ save.index \notin nm.touched => wire[j + 1].secrets = nm.secrets[save.index]
            /\ save.index \in nm.touched =>
                 /\ cache.version < nm.version
                 /\ \A i \in 1..((j + 1) - 1) :
                      wire[i].kind = "version" => wire[i].version < nm.version
        BY <1>2, <2>1, <3>1 DEF SecretsTell
      <3> QED BY <1>3, <1>6, <3>1, <3>2, <3>3, <3>4
    <2> QED BY <1>1, <1>2, <2>1 DEF SecretsTell
  <1> QED BY <1>8, <1>9, <1>10, <1>11, <1>12, <1>13 DEF SaveInv

\* An answer is put after all that is on the way, and takes the place of the call.
LEMMA AnswerIsSent ==
  ASSUME SaveInv, NEW m \in Messages, Answer(m), call.kind # "none", UNCHANGED save,
         IsAnswer(m),
         m.kind = "secrets" => call.kind = "get",
         m.kind = "updated" => call.kind = "update"
  PROVE  /\ wire' \in Seq(Messages) /\ Len(wire') = Len(wire) + 1 /\ Len(wire) \in Nat
         /\ \A i \in 1..Len(wire) : wire'[i] = wire[i] /\ ~IsAnswer(wire[i])
         /\ wire'[Len(wire) + 1] = m
         /\ \A i \in 1..Len(wire') :
              wire'[i].kind = "settings" => <<wire'[i].of, wire'[i].settings>> \in Copies
         /\ call' = NoCall /\ call' \in Calls /\ call'.kind = "none"
         /\ InOrder(wire', cache, nm.version) /\ OneAnswer'
  <1>1. SaveTypes /\ OneAnswer /\ NewsInOrder
    BY DEF SaveInv
  <1>2. wire' = Append(wire, m) /\ call' = NoCall /\ wire \in Seq(Messages) /\ call \in Calls
    BY <1>1 DEF Answer, SaveTypes
  <1>3. /\ wire' \in Seq(Messages) /\ Len(wire') = Len(wire) + 1 /\ Len(wire) \in Nat
        /\ \A i \in 1..Len(wire) : wire'[i] = wire[i]
        /\ wire'[Len(wire) + 1] = m
    BY <1>2, SentMessage
  <1>4. call # NoCall /\ call.kind \in {"get", "update"}
    BY <1>2, CallKinds
  <1>5. \A i \in 1..Len(wire) : ~IsAnswer(wire[i])
    BY <1>1, <1>4 DEF OneAnswer
  <1>6. call' \in Calls /\ call'.kind = "none"
    BY <1>2 DEF NoCall, Calls
  <1>7. /\ call.kind = "get" => save.pc = "secrets" /\ save.index \in Fields
        /\ call.kind = "update" => save.pc = "update"
    BY <1>1 DEF OneAnswer
  <1>8. ASSUME NEW i \in 1..Len(wire'), IsAnswer(wire'[i])
        PROVE  i = Len(wire) + 1 /\ wire'[i] = m
    BY <1>3, <1>5, <1>8
  <1>9. ASSUME NEW i \in 1..Len(wire')
        PROVE  /\ IsAnswer(wire'[i]) => call' = NoCall /\ save'.pc \in {"secrets", "update"}
               /\ wire'[i].kind = "secrets" => save'.pc = "secrets"
               /\ wire'[i].kind = "updated" => save'.pc = "update"
    BY <1>2, <1>4, <1>7, <1>8 DEF IsAnswer
  <1>10. save'.pc = "secrets" => save'.index \in Fields
    BY <1>1 DEF OneAnswer
  <1>11. OneAnswer'
    BY <1>6, <1>8, <1>9, <1>10 DEF OneAnswer, IsAnswer
  <1>12. InOrder(wire', cache, nm.version)
    <2>1. nm.version \in Nat /\ cache.of \in Nat /\ cache.version \in Nat
      BY <1>1, SaveConstants DEF SaveTypes, Profiles, Views, Versions
    <2>2. m.kind \notin {"version", "settings"} /\ InOrder(wire, cache, nm.version)
      BY <1>1 DEF IsAnswer, NewsInOrder
    <2> QED BY <1>2, <2>1, <2>2, OrderSent
  <1>13. ASSUME NEW i \in 1..Len(wire'), wire'[i].kind = "settings"
         PROVE  <<wire'[i].of, wire'[i].settings>> \in Copies
    <2>1. i \in 1..Len(wire) /\ wire'[i] = wire[i]
      BY <1>3, <1>13 DEF IsAnswer
    <2> QED BY <1>13, <2>1 DEF Copies
  <1> QED BY <1>2, <1>3, <1>5, <1>6, <1>11, <1>12, <1>13

\* What libnm and the page know is among the copies as long as neither changes.
LEMMA ViewsAreCopies ==
  ASSUME UNCHANGED <<cache, ed>>
  PROVE  /\ <<cache'.of, cache'.settings>> \in Copies
         /\ ed'.sure => <<ed'.version, ed'.baseline>> \in Copies
  BY DEF Copies

\* GetSecrets: what is given is the profile's when it is sent.
LEMMA GiveSecretsKeeps ==
  ASSUME SaveInv, GiveSecrets
  PROVE  SaveInv'
  <1> USE SaveConstants
  <1> DEFINE m == [kind |-> "secrets", secrets |-> nm.secrets[call.field]]
  <1>1. /\ UNCHANGED <<fetch, cache, ed, save, spent>> /\ call.kind = "get" /\ Answer(m)
        /\ nm' = [nm EXCEPT !.touched = @ \ {call.field}]
    BY DEF GiveSecrets
  <1>2. SaveTypes /\ VersionsAreSpent /\ SaveIsShown /\ OneAnswer /\ NewsInOrder
        /\ VersionsTell /\ SecretsTell
    BY DEF SaveInv
  <1>3. call.field \in Fields /\ call.field = save.index /\ save.pc = "secrets"
    BY <1>1, <1>2, CallKinds DEF SaveTypes, OneAnswer
  <1>4. /\ nm \in Profiles /\ nm' \in Profiles /\ nm'.version = nm.version
        /\ nm'.settings = nm.settings /\ nm'.secrets = nm.secrets
        /\ nm'.touched = nm.touched \ {call.field}
    BY <1>1, <1>2 DEF SaveTypes, Profiles
  <1>5. m \in Messages /\ m.kind = "secrets" /\ m.secrets = nm.secrets[save.index]
    <2>1. nm.secrets[call.field] \in Bundles
      BY <1>3, <1>4 DEF Profiles
    <2> QED BY <1>3, <2>1 DEF Messages
  <1> HIDE DEF m
  <1>6. /\ wire' \in Seq(Messages) /\ Len(wire') = Len(wire) + 1 /\ Len(wire) \in Nat
        /\ \A i \in 1..Len(wire) : wire'[i] = wire[i] /\ ~IsAnswer(wire[i])
        /\ wire'[Len(wire) + 1] = m
        /\ \A i \in 1..Len(wire') :
             wire'[i].kind = "settings" => <<wire'[i].of, wire'[i].settings>> \in Copies
        /\ call' = NoCall /\ call' \in Calls /\ call'.kind = "none"
        /\ InOrder(wire', cache, nm.version) /\ OneAnswer'
    BY <1>1, <1>5, AnswerIsSent DEF IsAnswer
  <1>7. SaveTypes'
    BY <1>1, <1>2, <1>4, <1>6 DEF SaveTypes
  <1>8. VersionsAreSpent'
    BY <1>1, <1>2, <1>3, <1>4, <1>6 DEF VersionsAreSpent
  <1>9. SaveIsShown'
    BY <1>1, <1>2 DEF SaveIsShown
  <1>10. NewsInOrder'
    BY <1>1, <1>2, <1>4, <1>6 DEF NewsInOrder
  <1>11. VersionsTell'
    BY <1>1, <1>2, <1>4, <1>6, ViewsAreCopies, CopiesAgree
  <1>12. SecretsTell'
    <2>1. ASSUME NEW j \in 1..Len(wire'), wire'[j].kind = "secrets"
          PROVE  wire'[j].secrets = nm'.secrets[save'.index] /\ save'.index \notin nm'.touched
      <3>1. wire'[j] = m
        BY <1>6, <2>1 DEF IsAnswer
      <3> QED BY <1>1, <1>3, <1>4, <1>5, <3>1
    <2>2. ASSUME NEW i \in 1..(save.index - 1), i \notin nm'.touched
          PROVE  i \notin nm.touched
      <3>1. save.index \in Nat
        BY <1>3 DEF Fields
      <3>2. i # save.index
        BY <2>2, <3>1
      <3> QED BY <1>3, <1>4, <2>2, <3>2
    <2> QED BY <1>1, <1>2, <1>3, <1>4, <1>6, <2>1, <2>2 DEF SecretsTell
  <1> QED BY <1>6, <1>7, <1>8, <1>9, <1>10, <1>11, <1>12 DEF SaveInv

\* RefuseCall and an update that names another version: the save is told.
LEMMA RefusedKeeps ==
  ASSUME SaveInv, call.kind # "none", Answer([kind |-> "failed"]),
         UNCHANGED <<nm, fetch, cache, ed, save>>, spent' \in Budgets,
         spent'.others = spent.others, spent'.saves = spent.saves
  PROVE  SaveInv'
  <1> USE SaveConstants
  <1> DEFINE m == [kind |-> "failed"]
  <1>1. SaveTypes /\ VersionsAreSpent /\ SaveIsShown /\ OneAnswer /\ NewsInOrder
        /\ VersionsTell /\ SecretsTell
    BY DEF SaveInv
  <1>2. m \in Messages /\ m.kind = "failed" /\ Answer(m)
    BY DEF Messages
  <1> HIDE DEF m
  <1>3. /\ wire' \in Seq(Messages) /\ Len(wire') = Len(wire) + 1 /\ Len(wire) \in Nat
        /\ \A i \in 1..Len(wire) : wire'[i] = wire[i] /\ ~IsAnswer(wire[i])
        /\ wire'[Len(wire) + 1] = m
        /\ \A i \in 1..Len(wire') :
             wire'[i].kind = "settings" => <<wire'[i].of, wire'[i].settings>> \in Copies
        /\ call' = NoCall /\ call' \in Calls /\ call'.kind = "none"
        /\ InOrder(wire', cache, nm.version) /\ OneAnswer'
    BY <1>2, AnswerIsSent DEF IsAnswer
  <1>4. SaveTypes'
    BY <1>1, <1>3 DEF SaveTypes
  <1>5. VersionsAreSpent'
    <2>1. nm.version \in Nat /\ spent.others \in Nat /\ spent.saves \in Nat
      BY <1>1, CountedUp DEF SaveTypes, Profiles
    <2> QED BY <1>1, <1>3, <2>1 DEF VersionsAreSpent
  <1>6. SaveIsShown' /\ NewsInOrder'
    BY <1>1, <1>3 DEF SaveIsShown, NewsInOrder
  <1>7. VersionsTell'
    BY <1>1, <1>3, ViewsAreCopies, CopiesAgree DEF SaveTypes
  <1>8. SecretsTell'
    <2>1. \A j \in 1..Len(wire') : wire'[j].kind # "secrets"
      BY <1>2, <1>3 DEF IsAnswer
    <2> QED BY <1>1, <1>3, <2>1 DEF SecretsTell
  <1> QED BY <1>3, <1>4, <1>5, <1>6, <1>7, <1>8 DEF SaveInv

\* NetworkManager refuses a call.
LEMMA RefuseCallKeeps ==
  ASSUME SaveInv, RefuseCall
  PROVE  SaveInv'
  <1>1. /\ UNCHANGED <<nm, fetch, cache, ed, save>> /\ call # NoCall
        /\ Answer([kind |-> "failed"]) /\ spent.faults < MaxRefusals
        /\ spent' = [spent EXCEPT !.faults = spent.faults + 1]
    BY DEF RefuseCall
  <1>2. call \in Calls /\ spent \in Budgets
    BY DEF SaveInv, SaveTypes
  <1>3. call.kind # "none"
    BY <1>1, <1>2, CallKinds
  <1>4. spent' \in Budgets /\ spent'.others = spent.others /\ spent'.saves = spent.saves
    <2>1. spent' \in Budgets
      BY <1>1, <1>2, CountedUp
    <2>2. spent'.others = spent.others /\ spent'.saves = spent.saves
      BY <1>1, <1>2 DEF Budgets
    <2> QED BY <2>1, <2>2
  <1> QED BY <1>1, <1>3, <1>4, RefusedKeeps

\* Update2 with a version-id: the update is accepted only for the version the
\* profile has, then raises it, and the new one is announced before the answer.
LEMMA UpdateKeeps ==
  ASSUME SaveInv, Update
  PROVE  SaveInv'
  <1> USE SaveConstants
  <1>1. UNCHANGED <<fetch, cache, ed, save, spent>> /\ call.kind = "update"
    BY DEF Update
  <1>2. SaveTypes /\ VersionsAreSpent /\ SaveIsShown /\ OneAnswer /\ NewsInOrder
        /\ VersionsTell /\ SecretsTell
    BY DEF SaveInv
  <1>3. CASE call.version # nm.version
    <2>1. Answer([kind |-> "failed"]) /\ UNCHANGED nm
      BY <1>1, <1>3 DEF Update
    <2> QED BY <1>1, <1>2, <2>1, RefusedKeeps DEF SaveTypes
  <1>4. CASE call.version = nm.version
    <2> DEFINE v == nm.version + 1
               x == News(v)
               y == [kind |-> "updated"]
               u == Append(wire, x)
    <2>1. /\ nm' = [nm EXCEPT !.settings = call.settings, !.secrets = call.secrets,
                              !.version = nm.version + 1]
          /\ wire' = wire \o <<x, y>> /\ call' = NoCall
      BY <1>1, <1>4 DEF Update
    <2>2. /\ call \in Calls /\ call.settings \in Values /\ call.secrets \in [Fields -> Bundles]
          /\ save.pc = "update" /\ nm \in Profiles
      BY <1>1, <1>2, CallKinds DEF SaveTypes, OneAnswer
    <2>3. nm' \in Profiles /\ nm'.version = v /\ nm.version \in Nat /\ v \in Nat
      <3>1. nm.version \in Nat /\ v \in Nat /\ nm.touched \in SUBSET Fields
        BY <2>2 DEF Profiles
      <3>2. nm' = [settings |-> call.settings, secrets |-> call.secrets, version |-> v,
                   touched |-> nm.touched]
        BY <2>1, <2>2 DEF Profiles
      <3> HIDE DEF v
      <3> QED BY <2>2, <3>1, <3>2, RaisedProfile
    <2>4. v <= 1 + spent.others + spent.saves /\ 1 <= v /\ v \in Versions
      <3>1. /\ spent.others \in Nat /\ spent.saves \in Nat
            /\ spent.others <= MaxOthers /\ spent.saves <= MaxSaves
        BY <1>2, CountedUp DEF SaveTypes
      <3>2. v <= 1 + spent.others + spent.saves /\ 1 <= v
        BY <1>1, <1>2, <2>3, <3>1 DEF VersionsAreSpent
      <3> QED BY <2>3, <3>1, <3>2 DEF Versions
    <2>5. x \in Messages /\ x.kind = "version" /\ x.version = v /\ y \in Messages
          /\ y.kind = "updated"
      BY <2>4 DEF Messages, News
    <2> HIDE DEF x, y, v
    <2>6. wire \in Seq(Messages)
      BY <1>2 DEF SaveTypes
    <2>7. /\ u \in Seq(Messages) /\ Len(wire) \in Nat /\ Len(u) = Len(wire) + 1
          /\ \A i \in 1..Len(wire) : u[i] = wire[i]
          /\ u[Len(wire) + 1] = x
      BY <2>5, <2>6, SentMessage
    <2>8. wire' = Append(u, y)
      BY <2>1, <2>5, <2>6, TwoSent
    <2> HIDE DEF u
    <2>9. /\ wire' \in Seq(Messages) /\ Len(wire') = Len(u) + 1
          /\ \A i \in 1..Len(u) : wire'[i] = u[i]
          /\ wire'[Len(u) + 1] = y
      BY <2>5, <2>7, <2>8, SentMessage
    <2>10. \A i \in 1..Len(wire) : ~IsAnswer(wire[i])
      BY <1>1, <1>2, CallKinds, <2>2 DEF OneAnswer
    <2>11. ASSUME NEW i \in 1..Len(wire')
           PROVE  \/ i \in 1..Len(wire) /\ wire'[i] = wire[i] /\ ~IsAnswer(wire'[i])
                  \/ i = Len(wire) + 1 /\ wire'[i] = x
                  \/ i = Len(wire) + 2 /\ wire'[i] = y
      <3>1. i \in 1..Len(wire) \/ i = Len(wire) + 1 \/ i = Len(wire) + 2
        BY <2>7, <2>9
      <3> QED BY <2>7, <2>9, <2>10, <3>1
    <2>12. SaveTypes'
      <3>1. call' \in Calls
        BY <2>1 DEF Calls
      <3> QED BY <1>1, <1>2, <2>3, <2>9, <3>1 DEF SaveTypes
    <2>13. call'.kind = "none"
      BY <2>1 DEF NoCall
    <2>14. VersionsAreSpent'
      <3>1. save'.pc # "secrets" /\ call'.kind # "update"
        BY <1>1, <2>2, <2>13
      <3>2. spent.others \in Nat /\ spent.saves \in Nat
        BY <1>2, CountedUp DEF SaveTypes
      <3> QED BY <1>1, <2>3, <2>4, <3>1, <3>2 DEF VersionsAreSpent
    <2>15. SaveIsShown'
      BY <1>1, <1>2 DEF SaveIsShown
    <2>16. OneAnswer'
      <3>1. \A i \in 1..Len(wire') : IsAnswer(wire'[i]) => i = Len(wire) + 2 /\ wire'[i] = y
        BY <2>5, <2>11 DEF IsAnswer
      <3>2. \A i, j \in 1..Len(wire') : IsAnswer(wire'[i]) /\ IsAnswer(wire'[j]) => i = j
        BY <3>1
      <3>3. \A i \in 1..Len(wire') :
              /\ IsAnswer(wire'[i]) => call' = NoCall /\ save'.pc \in {"secrets", "update"}
              /\ wire'[i].kind = "secrets" => save'.pc = "secrets"
              /\ wire'[i].kind = "updated" => save'.pc = "update"
        BY <1>1, <2>1, <2>2, <2>5, <3>1 DEF IsAnswer
      <3> QED BY <1>1, <2>2, <2>13, <3>2, <3>3 DEF OneAnswer, IsAnswer
    <2>17. NewsInOrder'
      <3>1. cache.of \in Nat /\ cache.version \in Nat /\ InOrder(wire, cache, nm.version)
        BY <1>2 DEF SaveTypes, Views, Versions, NewsInOrder
      <3>2. InOrder(u, cache, v)
        BY <2>3, <2>5, <2>6, <3>1, OrderSent DEF u, v
      <3>3. InOrder(Append(u, y), cache, v)
        BY <2>3, <2>5, <2>7, <3>1, <3>2, OrderSent
      <3>4. InOrder(wire, cache, nm.version)'
        BY <1>1, <2>3, <2>8, <3>3
      <3> QED BY <1>1, <1>2, <2>13, <3>4 DEF NewsInOrder
    <2>18. VersionsTell'
      <3>1. ASSUME NEW i \in 1..Len(wire'), wire'[i].kind = "settings"
            PROVE  <<wire'[i].of, wire'[i].settings>> \in Copies
        <4>1. i \in 1..Len(wire) /\ wire'[i] = wire[i]
          BY <2>5, <2>11, <3>1
        <4> QED BY <3>1, <4>1 DEF Copies
      <3>2. nm'.version = nm.version + 1
        BY <2>3 DEF v
      <3> QED BY <1>1, <1>2, <2>3, <2>13, <3>1, <3>2, ViewsAreCopies, CopiesAgree
    <2>19. SecretsTell'
      <3>1. \A j \in 1..Len(wire') : wire'[j].kind # "secrets"
        BY <2>5, <2>11 DEF IsAnswer
      <3> QED BY <1>1, <2>2, <2>13, <3>1 DEF SecretsTell
    <2> QED BY <2>12, <2>14, <2>15, <2>16, <2>17, <2>18, <2>19 DEF SaveInv
  <1> QED BY <1>3, <1>4

\* News that is sent comes after all that is on the way, and answers nothing.
LEMMA NewsSent ==
  ASSUME SaveInv, NEW m \in Messages, ~IsAnswer(m), wire' = Append(wire, m),
         UNCHANGED <<call, save>>
  PROVE  /\ wire' \in Seq(Messages) /\ Len(wire) \in Nat /\ Len(wire') = Len(wire) + 1
         /\ \A i \in 1..Len(wire) : i \in 1..Len(wire') /\ wire'[i] = wire[i]
         /\ \A i \in 1..Len(wire') : i \in 1..Len(wire) \/ wire'[i] = m
         /\ \A i \in 1..Len(wire) :
              wire[i].kind = "settings" => <<wire[i].of, wire[i].settings>> \in Copies
         /\ OneAnswer'
  <1>1. wire \in Seq(Messages) /\ OneAnswer
    BY DEF SaveInv, SaveTypes
  <1>2. /\ wire' \in Seq(Messages) /\ Len(wire) \in Nat /\ Len(wire') = Len(wire) + 1
        /\ \A i \in 1..Len(wire) : wire'[i] = wire[i]
        /\ wire'[Len(wire) + 1] = m
    BY <1>1, SentMessage
  <1>3. \A i \in 1..Len(wire') : i \in 1..Len(wire) \/ wire'[i] = m
    BY <1>2
  <1>4. \A i \in 1..Len(wire') : IsAnswer(wire'[i]) => i \in 1..Len(wire) /\ wire'[i] = wire[i]
    BY <1>2, <1>3
  <1>5. ASSUME NEW i \in 1..Len(wire')
        PROVE  /\ IsAnswer(wire'[i]) => call' = NoCall /\ save'.pc \in {"secrets", "update"}
               /\ wire'[i].kind = "secrets" => save'.pc = "secrets"
               /\ wire'[i].kind = "updated" => save'.pc = "update"
    BY <1>1, <1>4 DEF OneAnswer, IsAnswer
  <1>6. \A i, j \in 1..Len(wire') : IsAnswer(wire'[i]) /\ IsAnswer(wire'[j]) => i = j
    BY <1>1, <1>4 DEF OneAnswer
  <1>7. OneAnswer'
    BY <1>1, <1>5, <1>6 DEF OneAnswer, IsAnswer
  <1>8. \A i \in 1..Len(wire) :
          wire[i].kind = "settings" => <<wire[i].of, wire[i].settings>> \in Copies
    BY DEF Copies
  <1> QED BY <1>2, <1>3, <1>7, <1>8

\* The versions and the order of what is on the way are numbers.
LEMMA SaveNumbers ==
  ASSUME SaveTypes
  PROVE  /\ nm.version \in Nat /\ cache.of \in Nat /\ cache.version \in Nat
         /\ spent.others \in Nat /\ spent.others <= MaxOthers
         /\ spent.saves \in Nat /\ spent.saves <= MaxSaves
         /\ call.kind = "update" => call.version \in Nat
         /\ \A i \in 1..Len(wire) : wire[i].kind = "version" => wire[i].version \in Nat
  <1>1. Versions \subseteq Nat
    BY SaveConstants DEF Versions
  <1>2. nm.version \in Nat /\ cache.of \in Nat /\ cache.version \in Nat
    BY <1>1 DEF SaveTypes, Profiles, Views
  <1>3. /\ spent.others \in Nat /\ spent.others <= MaxOthers
        /\ spent.saves \in Nat /\ spent.saves <= MaxSaves
    BY CountedUp DEF SaveTypes
  <1>4. call.kind = "update" => call.version \in Nat
    BY <1>1, CallKinds DEF SaveTypes
  <1>5. \A i \in 1..Len(wire) : wire[i].kind = "version" => wire[i].version \in Nat
    BY MessageKinds DEF SaveTypes
  <1> QED BY <1>2, <1>3, <1>4, <1>5

\* A change by others, or of iwd, raises the version, and what libnm knows or an
\* update names is older; secrets that change are touched.
LEMMA RaiseKeeps ==
  ASSUME SaveInv, NEW c \in Profiles, Raise(c), c.version = nm.version,
         nm.touched \subseteq c.touched,
         \A i \in Fields : i \notin c.touched => c.secrets[i] = nm.secrets[i]
  PROVE  SaveInv'
  <1> USE SaveConstants
  <1> DEFINE v == nm.version + 1
             m == News(v)
  <1>1. /\ UNCHANGED <<fetch, call, cache, ed, save>>
        /\ spent.others < MaxOthers /\ spent' = [spent EXCEPT !.others = spent.others + 1]
        /\ nm' = [c EXCEPT !.version = c.version + 1] /\ wire' = Append(wire, m)
    BY DEF Raise
  <1>2. SaveTypes /\ VersionsAreSpent /\ SaveIsShown /\ OneAnswer /\ NewsInOrder
        /\ VersionsTell /\ SecretsTell
    BY DEF SaveInv
  <1>3. /\ nm.version \in Nat /\ cache.of \in Nat /\ cache.version \in Nat
        /\ spent.others \in Nat /\ spent.others <= MaxOthers
        /\ spent.saves \in Nat /\ spent.saves <= MaxSaves
        /\ call.kind = "update" => call.version \in Nat
        /\ \A i \in 1..Len(wire) : wire[i].kind = "version" => wire[i].version \in Nat
    BY <1>2, SaveNumbers
  <1>4. /\ nm' \in Profiles /\ nm'.version = v /\ v \in Nat
        /\ nm'.secrets = c.secrets /\ nm'.touched = c.touched
    <2>1. /\ c.settings \in Values /\ c.secrets \in [Fields -> Bundles]
          /\ c.touched \in SUBSET Fields /\ v \in Nat
      BY <1>3 DEF Profiles
    <2>2. nm' = [settings |-> c.settings, secrets |-> c.secrets, version |-> v,
                 touched |-> c.touched]
      BY <1>1 DEF Profiles
    <2> HIDE DEF v
    <2> QED BY <2>1, <2>2, RaisedProfile
  <1>5. /\ spent' \in Budgets
        /\ spent'.others = spent.others + 1 /\ spent'.saves = spent.saves
    <2>1. spent \in Budgets
      BY <1>2 DEF SaveTypes
    <2>2. spent'.others = spent.others + 1 /\ spent'.saves = spent.saves
      BY <1>1, <2>1 DEF Budgets
    <2> QED BY <1>1, <2>1, <2>2, CountedUp
  <1>6. VersionsAreSpent' /\ 1 <= v /\ v <= 1 + spent'.others + spent'.saves
    <2> DEFINE d == IF save.pc = "secrets" \/ call.kind = "update" THEN 1 ELSE 0
    <2>1. d \in {0, 1} /\ nm.version + d <= 1 + spent.others + spent.saves /\ 1 <= nm.version
      BY <1>2 DEF VersionsAreSpent
    <2>2. VersionsAreSpent' <=>
            1 <= nm'.version /\ nm'.version + d <= 1 + spent'.others + spent'.saves
      BY <1>1 DEF VersionsAreSpent
    <2> HIDE DEF d
    <2>3. nm'.version = nm.version + 1
      BY <1>4
    <2> QED BY <1>3, <1>5, <2>1, <2>2, <2>3, SMTT(30)
  <1>7. m \in Messages /\ m.kind = "version" /\ m.version = v /\ ~IsAnswer(m)
    <2>1. v \in Versions
      <3>1. 1 <= v /\ v <= 1 + spent'.others + spent'.saves
        BY <1>6
      <3>2. /\ spent'.others \in Nat /\ spent'.others <= MaxOthers
            /\ spent'.saves \in Nat /\ spent'.saves <= MaxSaves
        BY <1>5, CountedUp
      <3> HIDE DEF v
      <3> QED BY <1>4, <3>1, <3>2 DEF Versions
    <2> QED BY <2>1 DEF Messages, News, IsAnswer
  <1> HIDE DEF m
  <1>8. /\ wire' \in Seq(Messages) /\ Len(wire) \in Nat /\ Len(wire') = Len(wire) + 1
        /\ \A i \in 1..Len(wire) : i \in 1..Len(wire') /\ wire'[i] = wire[i]
        /\ \A i \in 1..Len(wire') : i \in 1..Len(wire) \/ wire'[i] = m
        /\ \A i \in 1..Len(wire) :
             wire[i].kind = "settings" => <<wire[i].of, wire[i].settings>> \in Copies
        /\ OneAnswer'
    BY <1>1, <1>7, NewsSent
  <1>9. SaveTypes'
    BY <1>1, <1>2, <1>4, <1>5, <1>8 DEF SaveTypes
  <1>10. SaveIsShown'
    BY <1>1, <1>2 DEF SaveIsShown
  <1>11. NewsInOrder'
    <2>1. InOrder(wire, cache, nm.version) /\ wire \in Seq(Messages)
      BY <1>2 DEF NewsInOrder, SaveTypes
    <2>2. InOrder(Append(wire, m), cache, v)
      BY <1>3, <1>4, <1>7, <2>1, OrderSent
    <2>3. InOrder(wire, cache, nm.version)'
      BY <1>1, <1>4, <2>2
    <2> QED BY <1>1, <1>2, <2>3 DEF NewsInOrder
  <1>12. VersionsTell'
    <2>1. \A i \in 1..Len(wire') :
            wire'[i].kind = "settings" => <<wire'[i].of, wire'[i].settings>> \in Copies
      BY <1>7, <1>8
    <2>2. call'.kind = "update" /\ call'.sure => <<call'.version, save'.baseline>> \in Copies
      BY <1>1 DEF Copies
    <2>3. nm'.version = nm.version + 1
      BY <1>4
    <2> QED BY <1>1, <1>2, <1>4, <2>1, <2>2, <2>3, ViewsAreCopies, CopiesAgree
  <1>13. SecretsTell'
    <2>1. cache.version <= nm.version
          /\ \A i \in 1..Len(wire) : wire[i].kind = "version" => wire[i].version <= nm.version
      BY <1>2 DEF NewsInOrder, InOrder
    <2>2. ASSUME NEW j \in 1..Len(wire'), wire'[j].kind = "secrets"
          PROVE  /\ save'.index \notin nm'.touched =>
                      wire'[j].secrets = nm'.secrets[save'.index]
                 /\ save'.index \in nm'.touched =>
                      /\ cache'.version < nm'.version
                      /\ \A i \in 1..(j - 1) :
                           wire'[i].kind = "version" => wire'[i].version < nm'.version
      <3>1. j \in 1..Len(wire) /\ wire'[j] = wire[j]
        BY <1>7, <1>8, <2>2
      <3>2. \A i \in 1..(j - 1) : i \in 1..Len(wire) /\ wire'[i] = wire[i]
        BY <1>8, <3>1
      <3>3. save.index \in Fields
        BY <1>2, <2>2, <3>1 DEF OneAnswer
      <3>4. save.index \notin nm.touched => wire[j].secrets = nm.secrets[save.index]
        BY <1>2, <2>2, <3>1 DEF SecretsTell
      <3>5. save'.index \notin nm'.touched => wire'[j].secrets = nm'.secrets[save'.index]
        BY <1>1, <1>4, <3>1, <3>3, <3>4
      <3>6. cache'.version < nm'.version
        BY <1>1, <1>3, <1>4, <2>1, SMTT(30)
      <3>7. ASSUME NEW i \in 1..(j - 1), wire'[i].kind = "version"
            PROVE  wire'[i].version < nm'.version
        <4>1. i \in 1..Len(wire) /\ wire'[i] = wire[i]
          BY <3>2, <3>7
        <4>2. wire[i].version \in Nat /\ wire[i].version <= nm.version
          BY <1>3, <2>1, <3>7, <4>1
        <4>3. nm'.version = nm.version + 1
          BY <1>4
        <4> QED BY <1>3, <4>1, <4>2, <4>3
      <3> QED BY <3>5, <3>6, <3>7
    <2>3. ASSUME save.pc = "secrets", NEW i \in 1..(save.index - 1), i \notin nm'.touched
          PROVE  save.secrets[i] = Merge(nm'.secrets[i], Entered(ed.password)[i])
      <3>1. i \in Fields /\ i \notin nm.touched
        <4>1. save.index \in Fields
          BY <1>2, <2>3 DEF OneAnswer
        <4> QED BY <1>4, <2>3, <4>1 DEF Fields
      <3>2. save.secrets[i] = Merge(nm.secrets[i], Entered(ed.password)[i])
        BY <1>2, <2>3, <3>1 DEF SecretsTell
      <3> QED BY <1>4, <2>3, <3>1, <3>2
    <2>4. ASSUME call.kind = "update"
          PROVE  /\ \A i \in Fields :
                      i \notin nm'.touched =>
                        call.secrets[i] = Merge(nm'.secrets[i], Entered(ed.password)[i])
                 /\ Secrets \in nm'.touched => call.version < nm'.version
      <3>1. call.version <= cache.version
        BY <1>2, <2>4 DEF NewsInOrder
      <3>2. call.version < nm'.version
        BY <1>3, <1>4, <2>1, <2>4, <3>1
      <3> QED BY <1>2, <1>4, <2>4, <3>2 DEF SecretsTell
    <2> QED BY <1>1, <1>2, <2>2, <2>3, <2>4 DEF SecretsTell
  <1> QED BY <1>6, <1>8, <1>9, <1>10, <1>11, <1>12, <1>13 DEF SaveInv

\* iwd raises the version while it gives a secret; someone changes the settings,
\* or a secret.
LEMMA OthersKeep ==
  ASSUME SaveInv, IwdRaises \/ OtherWrites
  PROVE  SaveInv'
  <1>1. nm \in Profiles
    BY DEF SaveInv, SaveTypes
  <1>2. CASE IwdRaises
    BY <1>1, <1>2, RaiseKeeps DEF IwdRaises
  <1>3. CASE \E v \in Values \ {nm.settings} : Raise([nm EXCEPT !.settings = v])
    <2>1. PICK v \in Values : Raise([nm EXCEPT !.settings = v])
      BY <1>3
    <2> DEFINE c == [nm EXCEPT !.settings = v]
    <2>2. /\ c \in Profiles /\ c.version = nm.version /\ c.touched = nm.touched
          /\ c.secrets = nm.secrets
      BY <1>1 DEF Profiles
    <2> QED BY <2>1, <2>2, RaiseKeeps
  <1>4. CASE \E i \in Fields, k \in Parts : \E p \in Passwords \ {nm.secrets[i][k]} :
               Raise([nm EXCEPT !.secrets[i][k] = p, !.touched = @ \cup {i}])
    <2>1. PICK i \in Fields, k \in Parts, p \in Passwords :
            Raise([nm EXCEPT !.secrets[i][k] = p, !.touched = @ \cup {i}])
      BY <1>4
    <2> DEFINE b == [nm.secrets[i] EXCEPT ![k] = p]
               x == [nm.secrets EXCEPT ![i] = b]
               t == nm.touched \cup {i}
               c == [nm EXCEPT !.secrets[i][k] = p, !.touched = @ \cup {i}]
    <2>2. /\ nm.settings \in Values /\ nm.secrets \in [Fields -> Bundles]
          /\ nm.version \in Nat /\ t \in SUBSET Fields
      BY <1>1 DEF Profiles
    <2>3. b \in Bundles
      <3>1. nm.secrets[i] \in Bundles
        BY <2>2
      <3> QED BY <3>1 DEF Bundles, Given
    <2>4. c = [nm EXCEPT !.secrets = x, !.touched = t]
      OBVIOUS
    <2> HIDE DEF b, c, t
    <2>5. x \in [Fields -> Bundles] /\ \A j \in Fields : j # i => x[j] = nm.secrets[j]
      BY <2>2, <2>3
    <2> HIDE DEF x
    <2>8. c = [settings |-> nm.settings, secrets |-> x, version |-> nm.version, touched |-> t]
      BY <1>1, <2>4 DEF Profiles
    <2>6. c \in Profiles /\ c.version = nm.version /\ c.touched = t /\ c.secrets = x
      BY <2>2, <2>5, <2>8 DEF Profiles
    <2>9. nm.touched \subseteq t /\ \A j \in Fields : j \notin t => j # i
      BY DEF t
    <2>7. Raise(c)
      BY <2>1 DEF c
    <2> QED BY <2>5, <2>6, <2>7, <2>9, RaiseKeeps
  <1> QED BY <1>2, <1>3, <1>4 DEF OtherWrites

\* GetSettings is answered with the profile as it is, after all that was sent
\* before.
LEMMA GiveSettingsKeeps ==
  ASSUME SaveInv, GiveSettings
  PROVE  SaveInv'
  <1> USE SaveConstants
  <1> DEFINE m == [kind |-> "settings", settings |-> nm.settings, of |-> nm.version]
  <1>1. /\ UNCHANGED <<nm, call, cache, ed, save, spent>> /\ fetch' = FALSE
        /\ wire' = Append(wire, m)
    BY DEF GiveSettings
  <1>2. SaveTypes /\ VersionsAreSpent /\ SaveIsShown /\ OneAnswer /\ NewsInOrder
        /\ VersionsTell /\ SecretsTell
    BY DEF SaveInv
  <1>3. /\ nm.version \in Nat /\ cache.of \in Nat /\ cache.version \in Nat
        /\ spent.others \in Nat /\ spent.others <= MaxOthers
        /\ spent.saves \in Nat /\ spent.saves <= MaxSaves
    BY <1>2, SaveNumbers
  <1>4. /\ m \in Messages /\ m.kind = "settings" /\ m.settings = nm.settings
        /\ m.of = nm.version /\ ~IsAnswer(m)
    <2>1. nm.version \in Versions
      BY <1>2, <1>3 DEF VersionsAreSpent, Versions
    <2>2. nm.settings \in Values
      BY <1>2 DEF SaveTypes, Profiles
    <2> QED BY <2>1, <2>2 DEF Messages, IsAnswer
  <1> HIDE DEF m
  <1>5. /\ wire' \in Seq(Messages) /\ Len(wire) \in Nat /\ Len(wire') = Len(wire) + 1
        /\ \A i \in 1..Len(wire) : i \in 1..Len(wire') /\ wire'[i] = wire[i]
        /\ \A i \in 1..Len(wire') : i \in 1..Len(wire) \/ wire'[i] = m
        /\ \A i \in 1..Len(wire) :
             wire[i].kind = "settings" => <<wire[i].of, wire[i].settings>> \in Copies
        /\ OneAnswer'
    BY <1>1, <1>4, NewsSent
  <1>6. SaveTypes'
    BY <1>1, <1>2, <1>5 DEF SaveTypes
  <1>7. VersionsAreSpent' /\ SaveIsShown'
    BY <1>1, <1>2 DEF VersionsAreSpent, SaveIsShown
  <1>8. NewsInOrder'
    <2>1. InOrder(wire, cache, nm.version) /\ wire \in Seq(Messages)
      BY <1>2 DEF NewsInOrder, SaveTypes
    <2>2. InOrder(Append(wire, m), cache, nm.version)
      BY <1>3, <1>4, <2>1, OrderSent
    <2>3. InOrder(wire, cache, nm.version)'
      BY <1>1, <2>2
    <2> QED BY <1>1, <1>2, <2>3 DEF NewsInOrder
  <1>9. VersionsTell'
    <2>1. <<m.of, m.settings>> \in Copies
      BY <1>4 DEF Copies
    <2>2. \A i \in 1..Len(wire') :
            wire'[i].kind = "settings" => <<wire'[i].of, wire'[i].settings>> \in Copies
      BY <1>5, <2>1
    <2>3. call'.kind = "update" /\ call'.sure => <<call'.version, save'.baseline>> \in Copies
      BY <1>1 DEF Copies
    <2>4. nm' \in Profiles /\ nm' = nm
      BY <1>1, <1>2 DEF SaveTypes
    <2> QED BY <1>1, <1>2, <2>2, <2>3, <2>4, ViewsAreCopies, CopiesAgree
  <1>10. SecretsTell'
    <2>1. ASSUME NEW j \in 1..Len(wire'), wire'[j].kind = "secrets"
          PROVE  /\ j \in 1..Len(wire) /\ wire'[j] = wire[j]
                 /\ \A i \in 1..(j - 1) : wire'[i] = wire[i]
      <3>1. j \in 1..Len(wire) /\ wire'[j] = wire[j]
        BY <1>4, <1>5, <2>1
      <3>2. \A i \in 1..(j - 1) : i \in 1..Len(wire)
        BY <1>5, <3>1
      <3> QED BY <1>5, <3>1, <3>2
    <2> QED BY <1>1, <1>2, <2>1 DEF SecretsTell
  <1> QED BY <1>5, <1>6, <1>7, <1>8, <1>9, <1>10 DEF SaveInv

\* No handler of the page, callback, message or change by others breaks what a
\* save rests on.
LEMMA SaveInvStep == SaveInv /\ [ProfileNext]_profileVars => SaveInv'
  <1> SUFFICES ASSUME SaveInv, [ProfileNext]_profileVars PROVE SaveInv'
    OBVIOUS
  <1>1. CASE OpenPage \/ ClosePage \/ Edit \/ RefreshLive
    BY <1>1, PageActionsKeep
  <1>2. CASE SaveClicked
    BY <1>2, SaveClickedKeeps
  <1>3. CASE SaveFinished
    BY <1>3, SaveFinishedKeeps
  <1>4. CASE Deliver
    BY <1>4, SecretsDoneKeeps, ChainEndKeeps, NewsTakenKeeps DEF Deliver
  <1>5. CASE Serve
    BY <1>5, GiveSecretsKeeps, UpdateKeeps, RefuseCallKeeps DEF Serve
  <1>6. CASE IwdRaises \/ OtherWrites
    BY <1>6, OthersKeep
  <1>7. CASE GiveSettings
    BY <1>7, GiveSettingsKeeps
  <1>8. CASE UNCHANGED profileVars
    BY <1>8 DEF profileVars, SaveInv, SaveTypes, VersionsAreSpent, SaveIsShown, OneAnswer,
                NewsInOrder, InOrder, VersionsTell, Copies, SecretsTell
  <1> QED BY <1>1, <1>2, <1>3, <1>4, <1>5, <1>6, <1>7, <1>8 DEF ProfileNext

\* The inductive invariant of the editor page, the chain of calls of a save, and
\* what libnm is told (sections/connection-settings.c, actions/profile-save.c).
THEOREM SaveInvariantHolds == ProfileSpec => []SaveInv
  <1> QED BY SaveInvInit, SaveInvStep, PTL DEF ProfileSpec

\* Profile, libnm's copy, page and save have their types; libnm is never ahead of
\* NetworkManager, and the page saves exactly while there is a save
\* (save_clicked, save_finished).
LEMMA SaveInvTypes == SaveInv => ProfileTypeOK
  <1> SUFFICES ASSUME SaveInv PROVE ProfileTypeOK
    OBVIOUS
  <1> USE SaveConstants
  <1>1. SaveTypes /\ VersionsAreSpent /\ SaveIsShown /\ NewsInOrder
    BY DEF SaveInv
  <1>2. nm.version \in Versions
    <2>1. /\ nm.version \in Nat
          /\ spent.others \in Nat /\ spent.others <= MaxOthers
          /\ spent.saves \in Nat /\ spent.saves <= MaxSaves
      BY <1>1, SaveNumbers
    <2> QED BY <1>1, <2>1 DEF VersionsAreSpent, Versions
  <1>3. nm \in [settings : Values, secrets : [Fields -> Bundles], version : Versions,
                touched : SUBSET Fields]
    BY <1>1, <1>2 DEF SaveTypes, Profiles
  <1>4. fetch \in BOOLEAN /\ call.kind \in {"none", "get", "update"}
    BY <1>1, CallKinds DEF SaveTypes
  <1>5. cache \in Views /\ cache.version <= nm.version
    BY <1>1 DEF SaveTypes, NewsInOrder, InOrder
  <1>6. ed = Closed \/ ed \in Pages
    BY <1>1 DEF SaveTypes
  <1>7. /\ save.pc \in {"idle", "secrets", "update", "refused", "saved"}
        /\ (save.pc # "idle") <=> ed.saving
    <2>1. save \in Saves => save.pc \in {"secrets", "update", "refused", "saved"}
      BY DEF Saves
    <2> QED BY <1>1, <2>1 DEF SaveTypes, SaveIsShown
  <1> QED BY <1>3, <1>4, <1>5, <1>6, <1>7 DEF ProfileTypeOK, Views, Pages

\* Type correctness of the editor page and its save (save_clicked, save_finished).
THEOREM SaveTypesHold == ProfileSpec => []ProfileTypeOK
  <1> QED BY SaveInvariantHolds, SaveInvTypes, PTL

\* An update that changes the profile names the version the profile has, and
\* replaces the secrets by those it carries.
LEMMA AcceptedIsCurrent ==
  ASSUME SaveInv, [ProfileNext]_profileVars, Accepted
  PROVE  /\ call.kind = "update" /\ call.version = nm.version
         /\ nm'.secrets = call.secrets
  <1>1. call.kind = "update" /\ call'.kind = "none" /\ nm' # nm
    BY DEF Accepted
  <1>2. CASE Update
    <2>1. nm \in Profiles
      BY DEF SaveInv, SaveTypes
    <2> QED BY <1>1, <1>2, <2>1 DEF Update, Profiles
  <1>3. CASE OtherWrites \/ IwdRaises
    BY <1>1, <1>3 DEF OtherWrites, IwdRaises, Raise
  <1>4. CASE GiveSecrets
    BY <1>1, <1>4 DEF GiveSecrets
  <1>5. CASE UNCHANGED nm
    BY <1>1, <1>5
  <1>6. Update \/ OtherWrites \/ IwdRaises \/ GiveSecrets \/ UNCHANGED nm
    BY DEF ProfileNext, Deliver, Serve, OpenPage, ClosePage, Edit, RefreshLive,
           SaveClicked, SaveFinished, SecretsDone, CallFailed, UpdateDone, VersionTold,
           SettingsTold, RefuseCall, GiveSettings, profileVars
  <1> QED BY <1>2, <1>3, <1>4, <1>5, <1>6

\* NetworkManager accepts an update for a version whose settings libnm had only
\* while the profile has the settings the save began with, and those of the page
\* if the page was sure of its version (sync_version, save_next, "Reject concurrent
\* changes instead of overwriting a newer profile"), for any number of settings
\* with secrets, saves and changes.
THEOREM UpdatesAreNotLost == ProfileSpec => NoLostUpdate
  <1>1. SaveInv /\ [ProfileNext]_profileVars =>
          [Accepted /\ call.sure =>
             /\ nm.settings = save.baseline
             /\ ed.sure => nm.settings = ed.baseline]_profileVars
    <2> SUFFICES ASSUME SaveInv, [ProfileNext]_profileVars, Accepted, call.sure
                 PROVE  /\ nm.settings = save.baseline
                        /\ ed.sure => nm.settings = ed.baseline
      OBVIOUS
    <2>1. call.kind = "update" /\ call.version = nm.version
      BY AcceptedIsCurrent
    <2>2. nm.settings = save.baseline
      <3>1. <<call.version, save.baseline>> \in Copies /\ <<nm.version, nm.settings>> \in Copies
        BY <2>1 DEF Copies
      <3> QED BY <2>1, <3>1 DEF SaveInv, VersionsTell
    <2>3. ed.saving /\ save.pc = "update"
      BY <2>1 DEF SaveInv, OneAnswer, SaveIsShown, NoSave
    <2> QED BY <2>2, <2>3 DEF SaveInv, SaveIsShown
  <1> QED BY <1>1, SaveInvariantHolds, PTL DEF ProfileSpec, NoLostUpdate

\* An accepted update leaves every secret that was not entered as NetworkManager
\* has it, but in a setting asked before the last one whose secrets changed after
\* it was asked (secrets_done, "all other secrets remain intact"), for any number
\* of settings with secrets.
THEOREM OtherSecretsRemain == ProfileSpec => SecretsRemain
  <1>1. SaveInv /\ [ProfileNext]_profileVars =>
          [Accepted =>
             \A i \in Fields :
               i = Secrets \/ i \notin nm.touched =>
                 nm'.secrets[i] = Merge(nm.secrets[i], Entered(ed.password)[i])]_profileVars
    <2> SUFFICES ASSUME SaveInv, [ProfileNext]_profileVars, Accepted, NEW i \in Fields,
                        i = Secrets \/ i \notin nm.touched
                 PROVE  nm'.secrets[i] = Merge(nm.secrets[i], Entered(ed.password)[i])
      OBVIOUS
    <2>1. /\ call.kind = "update" /\ call.version = nm.version
          /\ nm'.secrets = call.secrets
      BY AcceptedIsCurrent
    <2>2. SaveTypes /\ SecretsTell
      BY DEF SaveInv
    <2>3. i \notin nm.touched
      <3>1. nm.version \in Nat
        BY <2>2, SaveNumbers
      <3>2. Secrets \in nm.touched => call.version < nm.version
        BY <2>1, <2>2 DEF SecretsTell
      <3> QED BY <2>1, <3>1, <3>2
    <2> QED BY <2>1, <2>2, <2>3 DEF SecretsTell
  <1> QED BY <1>1, SaveInvariantHolds, PTL DEF ProfileSpec, SecretsRemain

\* A save overwrites no settings that libnm had seen whole and the page has not
\* been shown, and no secret that was not entered (save_next, secrets_done), for
\* any number of settings with secrets, saves and changes.
THEOREM SavesOverwriteNothing == ProfileSpec => NothingIsOverwritten
  <1> QED BY SaveTypesHold, UpdatesAreNotLost, OtherSecretsRemain, PTL
          DEF NothingIsOverwritten
=============================================================================
