---------------------------- MODULE ProfileSave ----------------------------
(***************************************************************************)
(* Editing a saved Wi-Fi profile in the sidebar (sections/                  *)
(* connection-settings.c) and writing it back (actions/profile-save.c)      *)
(* while others change the profile too.                                     *)
(*                                                                          *)
(* NetworkManager and libnm are external.  NetworkManager keeps a profile   *)
(* with a version number that every change raises, and refuses an update    *)
(* that names another version.  A change announces the new version at once; *)
(* libnm takes it over when the announcement arrives, and only then asks    *)
(* for the settings.  What NetworkManager sends arrives in the order it was *)
(* sent, and it may answer two calls in any order.  The settings without    *)
(* secrets are one value; each setting that has secrets has a password,     *)
(* which the page may replace, and another secret, which it never does.     *)
(* The fields of and sure are history: which version the settings are of,   *)
(* and whether settings and version belonged together when they were used.  *)
(***************************************************************************)
EXTENDS Integers, Sequences

CONSTANTS Values,      \* settings without secrets
          Passwords,   \* secrets
          None,        \* no secret
          FirstValue, FirstPassword,  \* what the profile has at first
          Secrets,     \* settings of the profile whose secrets are asked for
          MaxOthers,   \* changes by others, and by iwd when it gives a secret
          MaxSaves,    \* saves
          MaxRefusals  \* calls that NetworkManager refuses

ASSUME ProfileBoundsAssumption ==
  /\ {Secrets, MaxOthers, MaxSaves, MaxRefusals} \subseteq Nat
  /\ None \notin Values \cup Passwords
  /\ FirstValue \in Values /\ FirstPassword \in Passwords

VARIABLES nm,      \* the profile in NetworkManager; touched is history: the settings
                   \* whose secrets others changed since they were last given
          fetch,   \* libnm waits for the settings
          call,    \* the call that NetworkManager has not answered
          wire,    \* messages on the way from NetworkManager
          cache,   \* the profile as libnm knows it
          ed,      \* the editor page
          save,    \* the save in progress
          spent    \* changes, saves and faults so far

profileVars == <<nm, fetch, call, wire, cache, ed, save, spent>>

Fields == 1..Secrets
Parts == {"password", "other"}

\* What a setting has when the secrets that are there replace those it had.
Merge(had, there) == [k \in Parts |-> IF there[k] # None THEN there[k] ELSE had[k]]

\* The password is a secret of the last setting that has secrets.
Entered(password) ==
  [i \in Fields |-> [k \in Parts |->
     IF i = Secrets /\ k = "password" THEN password ELSE None]]

NoCall == [kind |-> "none"]
Closed == [open |-> FALSE, version |-> 0, baseline |-> None, form |-> None,
           password |-> None, dirty |-> FALSE, saving |-> FALSE, sure |-> FALSE]
NoSave == [pc |-> "idle", index |-> 0, baseline |-> None, draft |-> None,
           secrets |-> Entered(None), password |-> None]

ProfileInit ==
  /\ nm = [settings |-> FirstValue,
           secrets |-> [i \in Fields |-> [k \in Parts |-> FirstPassword]],
           version |-> 1, touched |-> {}]
  /\ cache = [settings |-> FirstValue, version |-> 1, of |-> 1]
  /\ fetch = FALSE
  /\ call = NoCall
  /\ wire = <<>>
  /\ ed = Closed
  /\ save = NoSave
  /\ spent = [others |-> 0, saves |-> 0, faults |-> 0]

----------------------------------------------------------------------------
(* The editor page                                                          *)

\* libnm's settings are those of the version it names.
Whole == cache.of = cache.version

\* Mutant: any version is adopted.
SyncVersion_Any(e) == [e EXCEPT !.version = cache.version, !.sure = Whole]

\* sync_version: adopt a version whose settings are the editor's snapshot.
SyncVersion(e) ==
  IF cache.settings = e.baseline
  THEN [e EXCEPT !.version = cache.version, !.sure = Whole]
  ELSE e

\* update_dirty.
UpdateDirty(e) ==
  [(IF e.dirty THEN e ELSE SyncVersion(e)) EXCEPT
     !.dirty = e.form # e.baseline \/ e.password # None]

\* network_sidebar_edit_profile builds the page from what libnm knows.
OpenPage ==
  /\ ~ed.open
  /\ ed' = UpdateDirty([Closed EXCEPT !.open = TRUE, !.version = cache.version,
                                      !.baseline = cache.settings,
                                      !.form = cache.settings, !.sure = Whole])
  /\ UNCHANGED <<nm, fetch, call, wire, cache, save, spent>>

\* Mutant: the page can be popped while it saves.
ClosePage_WhileSaving ==
  /\ ed.open
  /\ ed' = Closed
  /\ UNCHANGED <<nm, fetch, call, wire, cache, save, spent>>

\* A page that saves cannot be popped.
ClosePage ==
  /\ ed.open /\ ~ed.saving
  /\ ed' = Closed
  /\ UNCHANGED <<nm, fetch, call, wire, cache, save, spent>>

\* field_changed, field_revert and revert_all.
Edit ==
  /\ ed.open /\ ~ed.saving
  /\ \E v \in Values, p \in Passwords \cup {None} :
       /\ <<v, p>> # <<ed.form, ed.password>>
       /\ ed' = UpdateDirty([ed EXCEPT !.form = v, !.password = p])
  /\ UNCHANGED <<nm, fetch, call, wire, cache, save, spent>>

\* refresh_live, on a timer.
RefreshLive ==
  /\ ed.open /\ ~ed.dirty /\ ~ed.saving
  /\ ed' = SyncVersion(ed)
  /\ UNCHANGED <<nm, fetch, call, wire, cache, save, spent>>

----------------------------------------------------------------------------
(* Saving                                                                   *)

\* The update of a save, for the version libnm knows now.
Update2(s) == [kind |-> "update", version |-> cache.version, settings |-> s.draft,
               secrets |-> s.secrets, sure |-> Whole]

\* Mutant: what changed while the secrets were fetched is not looked at.
SaveNext_Trusting(s) ==
  IF s.index < Secrets
  THEN /\ save' = [s EXCEPT !.pc = "secrets", !.index = @ + 1]
       /\ call' = [kind |-> "get", field |-> s.index + 1]
  ELSE /\ save' = [s EXCEPT !.pc = "update"]
       /\ call' = Update2(s)

\* Mutant: a save that met a change begins again, from its own snapshot.
SaveNext_Retries(s) ==
  IF s.index = Secrets /\ cache.settings = s.baseline
  THEN /\ save' = [s EXCEPT !.pc = "update"]
       /\ call' = Update2(s)
  ELSE LET i == s.index % Secrets
       IN /\ save' = [s EXCEPT !.pc = "secrets", !.index = i + 1]
          /\ call' = [kind |-> "get", field |-> i + 1]

\* save_next: ask for the next secret; when all are there, look once more at
\* the settings, and send the update for the version libnm knows now.
SaveNext(s) ==
  CASE s.index < Secrets ->
         /\ save' = [s EXCEPT !.pc = "secrets", !.index = @ + 1]
         /\ call' = [kind |-> "get", field |-> s.index + 1]
    [] s.index = Secrets /\ cache.settings # s.baseline ->
         /\ save' = [s EXCEPT !.pc = "refused"]
         /\ call' = NoCall
    [] s.index = Secrets /\ cache.settings = s.baseline ->
         /\ save' = [s EXCEPT !.pc = "update"]
         /\ call' = Update2(s)

\* What a save has when it begins.
Begun(e) == [NoSave EXCEPT !.baseline = cache.settings, !.draft = e.form,
                           !.password = e.password, !.secrets = Entered(e.password)]

\* Mutant: the version of the page is not looked at.
SaveProfile_Unchecked(e) == SaveNext(Begun(e))

\* network_sidebar_actions_save_profile.
SaveProfile(e) ==
  LET s == Begun(e)
  IN IF e.version # cache.version
     THEN save' = [s EXCEPT !.pc = "refused"] /\ call' = NoCall
     ELSE SaveNext(s)

\* save_clicked; what is checked of the fields is left out.
SaveClicked ==
  /\ ed.open /\ ed.dirty /\ ~ed.saving
  /\ spent.saves < MaxSaves
  /\ spent' = [spent EXCEPT !.saves = @ + 1]
  /\ ed' = [ed EXCEPT !.saving = TRUE]
  /\ SaveProfile(ed)
  /\ UNCHANGED <<nm, fetch, wire, cache>>

Receives(kind) == wire # <<>> /\ Head(wire).kind = kind /\ wire' = Tail(wire)

\* Mutant: saved secrets are not taken over.
SecretsDone_Forgets ==
  /\ Receives("secrets")
  /\ SaveNext(save)
  /\ UNCHANGED <<nm, fetch, cache, ed, spent>>

\* Mutant: an entered password replaces all secrets of its setting.
SecretsDone_Replaces ==
  /\ Receives("secrets")
  /\ SaveNext([save EXCEPT !.secrets[save.index] =
                 IF save.index = Secrets /\ save.password # None
                 THEN @ ELSE Merge(@, Head(wire).secrets)])
  /\ UNCHANGED <<nm, fetch, cache, ed, spent>>

\* secrets_done: the saved secrets of the setting are taken over into the
\* draft, and then those that were entered once more.
SecretsDone ==
  /\ Receives("secrets")
  /\ SaveNext([save EXCEPT !.secrets[save.index] =
                 Merge(Merge(@, Head(wire).secrets), Entered(save.password)[save.index])])
  /\ UNCHANGED <<nm, fetch, cache, ed, spent>>

\* secrets_done and update_done with an error.
CallFailed ==
  /\ Receives("failed")
  /\ save' = [save EXCEPT !.pc = "refused"]
  /\ UNCHANGED <<nm, fetch, call, cache, ed, spent>>

\* update_done.
UpdateDone ==
  /\ Receives("updated")
  /\ save' = [save EXCEPT !.pc = "saved"]
  /\ UNCHANGED <<nm, fetch, call, cache, ed, spent>>

\* save_finished: what was saved is the new snapshot of the editor.
SaveFinished ==
  /\ save.pc \in {"saved", "refused"}
  /\ ed' = IF save.pc = "saved"
           THEN UpdateDirty([ed EXCEPT !.saving = FALSE, !.baseline = ed.form,
                                       !.password = None, !.dirty = FALSE,
                                       !.sure = FALSE])
           ELSE [ed EXCEPT !.saving = FALSE]
  /\ save' = NoSave
  /\ UNCHANGED <<nm, fetch, call, wire, cache, spent>>

\* libnm takes over an announced version, and asks for the settings.
VersionTold ==
  /\ Receives("version")
  /\ cache' = [cache EXCEPT !.version = Head(wire).version]
  /\ fetch' = TRUE
  /\ UNCHANGED <<nm, call, ed, save, spent>>

\* libnm replaces its copy of the settings.
SettingsTold ==
  /\ Receives("settings")
  /\ cache' = [cache EXCEPT !.settings = Head(wire).settings, !.of = Head(wire).of]
  /\ UNCHANGED <<nm, fetch, call, ed, save, spent>>

----------------------------------------------------------------------------
(* NetworkManager (external)                                                *)

Answer(m) == wire' = Append(wire, m) /\ call' = NoCall

\* The announcement that goes out with a change.
News(version) == [kind |-> "version", version |-> version]

\* GetSecrets.
GiveSecrets ==
  /\ call.kind = "get"
  /\ Answer([kind |-> "secrets", secrets |-> nm.secrets[call.field]])
  /\ nm' = [nm EXCEPT !.touched = @ \ {call.field}]
  /\ UNCHANGED <<fetch, cache, ed, save, spent>>

\* Update2 with a version-id.
Update ==
  /\ call.kind = "update"
  /\ IF call.version = nm.version
     THEN /\ nm' = [nm EXCEPT !.settings = call.settings, !.secrets = call.secrets,
                              !.version = @ + 1]
          /\ wire' = wire \o <<News(nm.version + 1), [kind |-> "updated"]>>
          /\ call' = NoCall
     ELSE /\ Answer([kind |-> "failed"])
          /\ UNCHANGED nm
  /\ UNCHANGED <<fetch, cache, ed, save, spent>>

RefuseCall ==
  /\ call # NoCall
  /\ spent.faults < MaxRefusals
  /\ spent' = [spent EXCEPT !.faults = @ + 1]
  /\ Answer([kind |-> "failed"])
  /\ UNCHANGED <<nm, fetch, cache, ed, save>>

\* A change that is not the editor's raises the version and is announced.
Raise(changed) ==
  /\ spent.others < MaxOthers
  /\ spent' = [spent EXCEPT !.others = @ + 1]
  /\ nm' = [changed EXCEPT !.version = @ + 1]
  /\ wire' = Append(wire, News(nm.version + 1))
  /\ UNCHANGED <<fetch, call, cache, ed, save>>

\* iwd raises the version while it gives a secret.
IwdRaises == call.kind = "get" /\ Raise(nm)

\* Someone else changes the settings, or a secret.
OtherWrites ==
  \/ \E v \in Values \ {nm.settings} : Raise([nm EXCEPT !.settings = v])
  \/ \E i \in Fields, k \in Parts : \E p \in Passwords \ {nm.secrets[i][k]} :
       Raise([nm EXCEPT !.secrets[i][k] = p, !.touched = @ \cup {i}])

\* GetSettings.
GiveSettings ==
  /\ fetch /\ fetch' = FALSE
  /\ wire' = Append(wire, [kind |-> "settings", settings |-> nm.settings,
                           of |-> nm.version])
  /\ UNCHANGED <<nm, call, cache, ed, save, spent>>

----------------------------------------------------------------------------

Deliver == SecretsDone \/ CallFailed \/ UpdateDone \/ VersionTold \/ SettingsTold
Serve == GiveSecrets \/ Update \/ RefuseCall

ProfileNext ==
  \/ OpenPage \/ ClosePage \/ Edit \/ RefreshLive
  \/ SaveClicked \/ SaveFinished
  \/ Deliver \/ Serve \/ IwdRaises \/ OtherWrites \/ GiveSettings

ProfileSpec == ProfileInit /\ [][ProfileNext]_profileVars

\* The main loop takes what has arrived, and NetworkManager answers.
ProfileFairness == /\ WF_profileVars(Deliver) /\ WF_profileVars(Serve)
                   /\ WF_profileVars(SaveFinished) /\ WF_profileVars(GiveSettings)

FairProfileSpec == ProfileSpec /\ ProfileFairness

----------------------------------------------------------------------------
(* Properties                                                               *)

MaxVersion == 1 + MaxOthers + MaxSaves
Versions == 1..MaxVersion
Given == Passwords \cup {None}
Bundles == [Parts -> Given]

\* Type invariant of the profile, libnm's copy, the editor and the save.
ProfileTypeOK ==
  /\ nm \in [settings : Values, secrets : [Fields -> Bundles], version : Versions,
             touched : SUBSET Fields]
  /\ fetch \in BOOLEAN
  /\ call.kind \in {"none", "get", "update"}
  /\ cache \in [settings : Values, version : Versions, of : Versions]
  /\ cache.version <= nm.version
  /\ ed = Closed \/
     ed \in [open : {TRUE}, version : Versions, baseline : Values, form : Values,
             password : Given, dirty : BOOLEAN, saving : BOOLEAN, sure : BOOLEAN]
  /\ save.pc \in {"idle", "secrets", "update", "refused", "saved"}
  /\ (save.pc # "idle") <=> ed.saving

\* The step that writes the profile for the editor.
Accepted == call.kind = "update" /\ call'.kind = "none" /\ nm' # nm

\* A save does not overwrite what others wrote ("Reject concurrent changes
\* instead of overwriting a newer profile"): the settings that an accepted
\* update replaces are those libnm had when the save began, although the
\* version it names is read when the secrets are there; and they are those the
\* page was made from.  The first is so unless libnm named that version while
\* it still waited for its settings (call.sure), the second unless it did so
\* when the page took its version over, or the page still has the version from
\* before its own last save (ed.sure).  In those cases the code does overwrite
\* a change of others.
NoLostUpdate ==
  [][Accepted /\ call.sure =>
       /\ nm.settings = save.baseline
       /\ ed.sure => nm.settings = ed.baseline]_profileVars

\* A save replaces the password that was entered and no other secret ("all
\* other secrets remain intact"): the other secret of that setting and those of
\* other settings are what they were in NetworkManager when the update was
\* accepted.  Only a setting asked before the last one may get back what it
\* had when it was asked, if someone changed its secrets while those of the
\* next were fetched.
SecretsRemain ==
  [][Accepted =>
       \A i \in Fields :
         i = Secrets \/ i \notin nm.touched =>
           nm'.secrets[i] = Merge(nm.secrets[i], Entered(ed.password)[i])]_profileVars

\* A page that is saving, and so cannot be left, is released in the end.
SaveEnds == ed.saving ~> ~ed.saving

\* A save overwrites no change that libnm had seen whole: neither settings the
\* page has not been shown nor a secret that was not entered.
NothingIsOverwritten ==
  /\ []ProfileTypeOK
  /\ NoLostUpdate
  /\ SecretsRemain

----------------------------------------------------------------------------
(* The inductive invariant                                                  *)

Calls == {NoCall} \cup [kind : {"get"}, field : Fields]
         \cup [kind : {"update"}, version : Versions, settings : Values,
               secrets : [Fields -> Bundles], sure : BOOLEAN]

Messages == [kind : {"secrets"}, secrets : Bundles]
            \cup [kind : {"updated", "failed"}]
            \cup [kind : {"version"}, version : Versions]
            \cup [kind : {"settings"}, settings : Values, of : Versions]

Pages == [open : {TRUE}, version : Versions, baseline : Values, form : Values,
          password : Given, dirty : BOOLEAN, saving : BOOLEAN, sure : BOOLEAN]

Saves == [pc : {"secrets", "update", "refused", "saved"}, index : 0..Secrets,
          baseline : Values, draft : Values, secrets : [Fields -> Bundles],
          password : Given]

Profiles == [settings : Values, secrets : [Fields -> Bundles], version : Nat,
             touched : SUBSET Fields]
Views == [settings : Values, version : Versions, of : Versions]
Budgets == [others : 0..MaxOthers, saves : 0..MaxSaves, faults : 0..MaxRefusals]

\* Everything has its type, and the bounds hold for what is counted.
SaveTypes ==
  /\ nm \in Profiles
  /\ fetch \in BOOLEAN
  /\ call \in Calls
  /\ wire \in Seq(Messages)
  /\ cache \in Views
  /\ ed = Closed \/ ed \in Pages
  /\ save = NoSave \/ save \in Saves
  /\ spent \in Budgets

\* Every version but the first is a change of others or the update of a save,
\* and a save may send one.
VersionsAreSpent ==
  /\ 1 <= nm.version
  /\ nm.version + (IF save.pc = "secrets" \/ call.kind = "update" THEN 1 ELSE 0)
       <= 1 + spent.others + spent.saves

\* A save is the page's, has its password, and began with its snapshot.
SaveIsShown ==
  /\ (save # NoSave) <=> ed.saving
  /\ ed.saving => save.password = ed.password
  /\ ed.saving /\ ed.sure /\ save.pc # "refused" => save.baseline = ed.baseline

IsAnswer(m) == m.kind \in {"secrets", "updated", "failed"}

\* A save waits for one answer, and that is the call's, or on the way.
OneAnswer ==
  /\ \A i, j \in 1..Len(wire) : IsAnswer(wire[i]) /\ IsAnswer(wire[j]) => i = j
  /\ \A i \in 1..Len(wire) :
       /\ IsAnswer(wire[i]) => call = NoCall /\ save.pc \in {"secrets", "update"}
       /\ wire[i].kind = "secrets" => save.pc = "secrets"
       /\ wire[i].kind = "updated" => save.pc = "update"
  /\ call.kind = "get" => save.pc = "secrets" /\ call.field = save.index
  /\ call.kind = "update" => save.pc = "update"
  /\ save.pc = "secrets" => save.index \in Fields

\* Versions are announced, and settings told, in their order; every version is
\* announced, and before its settings.  w is on the way to a libnm that knows c,
\* from a NetworkManager whose version is n.
InOrder(w, c, n) ==
  /\ c.of <= c.version /\ c.version <= n
  /\ \A i \in 1..Len(w) :
       /\ w[i].kind = "version" => c.version <= w[i].version /\ w[i].version <= n
       /\ w[i].kind = "settings" => c.of <= w[i].of /\ w[i].of <= n
  /\ \A i, j \in 1..Len(w) :
       /\ j < i /\ w[i].kind = "version" /\ w[j].kind = "version" =>
            w[j].version <= w[i].version
       /\ j < i /\ w[i].kind = "settings" /\ w[j].kind = "settings" => w[j].of <= w[i].of
  /\ \A i \in 1..Len(w) :
       w[i].kind = "settings" =>
         \/ w[i].of <= c.version
         \/ \E j \in 1..Len(w) : j < i /\ w[j].kind = "version" /\ w[i].of <= w[j].version
  /\ n <= c.version \/ \E j \in 1..Len(w) : w[j].kind = "version" /\ n <= w[j].version

\* And libnm knows settings at least as new as those of a page that is sure, and
\* a version at least as new as an update names.
NewsInOrder ==
  /\ InOrder(wire, cache, nm.version)
  /\ ed.sure => ed.version <= cache.of
  /\ call.kind = "update" => call.version <= cache.version

\* Who is known to have had the settings of a version: NetworkManager, libnm,
\* a message, the page and an update, when they are sure.
Copies ==
  {<<nm.version, nm.settings>>, <<cache.of, cache.settings>>}
  \cup {<<wire[i].of, wire[i].settings>> : i \in {j \in 1..Len(wire) : wire[j].kind = "settings"}}
  \cup (IF ed.sure THEN {<<ed.version, ed.baseline>>} ELSE {})
  \cup (IF call.kind = "update" /\ call.sure THEN {<<call.version, save.baseline>>} ELSE {})

\* They agree, and the profile's version is the newest.
VersionsTell ==
  /\ \A k \in Copies : k[1] <= nm.version
  /\ \A k, l \in Copies : k[1] = l[1] => k[2] = l[2]

\* Secrets that nobody has touched since they were given are those of the
\* profile; of those that somebody has, the last given is older than any
\* version that libnm learns before it.
SecretsTell ==
  /\ \A j \in 1..Len(wire) :
       wire[j].kind = "secrets" =>
         /\ save.index \notin nm.touched => wire[j].secrets = nm.secrets[save.index]
         /\ save.index \in nm.touched =>
              /\ cache.version < nm.version
              /\ \A i \in 1..(j - 1) :
                   wire[i].kind = "version" => wire[i].version < nm.version
  /\ save.pc = "secrets" =>
       /\ \A i \in save.index..Secrets :
            save.secrets[i] = Entered(ed.password)[i]
       /\ \A i \in 1..(save.index - 1) :
            i \notin nm.touched =>
              save.secrets[i] = Merge(nm.secrets[i], Entered(ed.password)[i])
  /\ call.kind = "update" =>
       /\ \A i \in Fields :
            i \notin nm.touched =>
              call.secrets[i] = Merge(nm.secrets[i], Entered(ed.password)[i])
       /\ Secrets \in nm.touched => call.version < nm.version

SaveInv == /\ SaveTypes
           /\ VersionsAreSpent
           /\ SaveIsShown
           /\ OneAnswer
           /\ NewsInOrder
           /\ VersionsTell
           /\ SecretsTell
=============================================================================
