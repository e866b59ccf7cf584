---------------------------- MODULE AwgController ----------------------------
(***************************************************************************)
(* The sidebar's AmneziaWG controller with its inventory of saved profiles *)
(* (amneziawg/controller.c, inventory.c, admission.c, model.c).            *)
(*                                                                         *)
(* Everything runs on the main loop: a handler is one step, written as a   *)
(* function on the sidebar's state k.  One profile name stands for all.    *)
(* What answers later is outside k or a call in k.calls: the service (its  *)
(* own view of the profile is "world"), the user and the import loader     *)
(* (dialogs, which may be answered after they were dismissed), the runtime *)
(* source (AwgRuntimeSource), and the message bus (AwgBackend, whose       *)
(* properties are assumed here: every call is answered once, a cancelled   *)
(* one with "cancelled").  Three fields of k are history, read by no       *)
(* handler: "owed", a list was asked for and has not come; "unheard", the  *)
(* last check ended and nobody was told; "stale", a command was run that   *)
(* waits for its answer, and no check was started since.                   *)
(***************************************************************************)
EXTENDS Naturals, FiniteSets

CONSTANTS MaxActivities,  \* bound on activities
          Observed,       \* what a check of the runtime source can find
          MaxFlips,       \* bound on changes of authorization, visibility and other work
          MaxFaults,      \* bound on calls that fail and checks that end silently
          MaxEvents       \* bound on all of these together

ASSUME BoundsAssumption ==
  /\ MaxActivities \in Nat /\ MaxFlips \in Nat /\ MaxFaults \in Nat
  /\ MaxEvents \in Nat
  /\ Observed \subseteq {"unknown", "inactive", "active", "conflict"}

VARIABLES
  k,          \* the controller, its inventory, the runtime source, the calls
  world,      \* the service has the profile saved (external)
  ext,        \* another interaction of the sidebar is under way
  dialogs,    \* dialogs and loads that have not been answered
  agreed,     \* the activities whose confirmation the user gave, for the properties
  flips, faults

vars == <<k, world, ext, dialogs, agreed, flips, faults>>

Commands     == {"import", "replace", "up", "down", "delete"}
Interactions == {"import_select", "import_load", "replace_confirm", "delete_confirm"}
Activities   == {"idle"} \cup Commands \cup Interactions
NoConfirm    == [op |-> "none", id |-> 0]
Unknown      == {"helper", "quick"}

\* A call of network_sidebar_awg_backend_execute.
Call(op, id) == [op |-> op, id |-> id, open |-> TRUE, cancelled |-> FALSE, at |-> "sent",
                 res |-> "none", saved |-> FALSE]

Init ==
  /\ k = [phase |-> "new", auth |-> FALSE, act |-> "idle", id |-> 0, confirm |-> NoConfirm,
          verify |-> FALSE, mon |-> FALSE, checking |-> FALSE, seen |-> "unknown", saved |-> FALSE,
          enabled |-> FALSE, suspended |-> FALSE, dirty |-> FALSE, timer |-> FALSE,
          pending |-> FALSE, request |-> 0, recent |-> FALSE, known |-> FALSE, missing |-> Unknown,
          calls |-> {}, owed |-> FALSE, unheard |-> FALSE, stale |-> FALSE]
  /\ world \in BOOLEAN /\ ext = FALSE /\ dialogs = {} /\ agreed = {} /\ flips = 0 /\ faults = 0

\* The bounds: each counts for itself, and all together.
Events == k.id + flips + faults
Flip   == flips < MaxFlips /\ Events < MaxEvents /\ flips' = flips + 1
Fault  == faults < MaxFaults /\ Events < MaxEvents /\ faults' = faults + 1

Running(x) == x.phase = "running"

-----------------------------------------------------------------------------
(* The inventory.                                                          *)

\* schedule_queued_refresh.
ScheduleQueued(x) ==
  IF Running(x) /\ x.auth /\ x.enabled /\ ~x.suspended /\ x.dirty /\ ~x.pending
  THEN [x EXCEPT !.timer = TRUE] ELSE x

\* network_sidebar_awg_inventory_queue_refresh, and _schedule_retry.
QueueRefresh(x) ==
  IF Running(x) THEN ScheduleQueued([x EXCEPT !.dirty = TRUE, !.owed = TRUE]) ELSE x

\* Mutant: the end of the suspension schedules nothing.
SetSuspended_Quiet(x, b) == [x EXCEPT !.suspended = b]

\* network_sidebar_awg_inventory_set_suspended.
SetSuspended(x, b) ==
  LET y == [x EXCEPT !.suspended = b]
  IN IF x.suspended /\ ~b THEN ScheduleQueued(y) ELSE y

\* Mutant: the wait is cancelled but still counts as pending.
CancelRequest_Pending(x) ==
  [x EXCEPT !.calls = {IF c.op = "list" THEN [c EXCEPT !.cancelled = TRUE] ELSE c : c \in @}]

\* cancel_request.
CancelRequest(x) ==
  [x EXCEPT !.pending = FALSE,
            !.calls = {IF c.op = "list" THEN [c EXCEPT !.cancelled = TRUE] ELSE c : c \in @}]

\* reset_inventory.
ResetInventory(x) ==
  [CancelRequest(x) EXCEPT !.timer = FALSE, !.dirty = FALSE, !.recent = FALSE, !.known = FALSE,
                           !.missing = Unknown, !.saved = FALSE, !.owed = FALSE]

\* Mutant: what the preempted request was to bring is forgotten.
Preempt_Forget(x) ==
  LET y == SetSuspended(x, TRUE)
  IN IF y.pending THEN CancelRequest(y) ELSE y

\* network_sidebar_awg_inventory_preempt.
Preempt(x) ==
  LET y == SetSuspended(x, TRUE)
  IN IF y.pending THEN QueueRefresh(CancelRequest(y)) ELSE y

\* network_sidebar_awg_runtime_source_poll and _request_refresh, as far as they
\* show here: the second one also drops what was observed.
RuntimePoll(x)    == [x EXCEPT !.checking = x.mon, !.unheard = FALSE]
RuntimeRefresh(x) == [RuntimePoll(x) EXCEPT !.seen = IF x.mon THEN "unknown" ELSE @, !.stale = FALSE]

\* A number no outstanding request has: ++inventory->request_id.
NewRequest(x) ==
  CHOOSE n \in 1 .. Cardinality(x.calls) + 1 : \A c \in x.calls : ~(c.op = "list" /\ c.id = n)

\* inventory_can_dispatch.
CanDispatch(x) == Running(x) /\ x.auth /\ ~ext

\* network_sidebar_awg_inventory_request_refresh.  A request that may not be
\* dispatched is finished at once, and what was due is due no more.
RequestRefresh(x, force) ==
  IF ~Running(x) \/ ~x.auth THEN x
  ELSE IF ~x.enabled THEN QueueRefresh(x)
  ELSE IF x.pending THEN x
  ELSE IF x.suspended THEN QueueRefresh(x)
  ELSE IF ~force /\ (x.timer \/ x.recent) THEN x
  ELSE LET y == RuntimePoll([x EXCEPT !.timer = FALSE, !.dirty = FALSE, !.recent = TRUE])
       IN IF ~CanDispatch(y) THEN ScheduleQueued([y EXCEPT !.owed = FALSE])
          ELSE [y EXCEPT !.pending = TRUE, !.request = NewRequest(x), !.owed = TRUE,
                         !.calls = @ \cup {Call("list", NewRequest(x))}]

\* network_sidebar_awg_controller_request_inventory.
RequestInventory(x, force) ==
  IF Running(x) /\ x.auth THEN RequestRefresh(RuntimePoll(x), force) ELSE x

-----------------------------------------------------------------------------
(* Admission (admission.c).                                                *)

\* network_sidebar_awg_action_missing_dependencies.
MissingFor(x, op) ==
  IF op = "down" /\ ~x.known THEN x.missing \cap {"service"}
  ELSE IF op \in {"down", "delete"} /\ x.seen \in {"inactive", "conflict"} THEN x.missing \ {"quick"}
  ELSE x.missing

\* action_blocked_reason.  A conflict stands for manual intervention too.
Blocked(x, op, continuing) ==
  LET dependencies == IF MissingFor(x, op) = {} THEN "none" ELSE "dependencies"
  IN CASE ~x.auth                                        -> "authorization"
       [] x.auth /\ ~continuing /\ x.act # "idle"        -> "busy"
       [] OTHER ->
          IF op \in {"import", "replace"} THEN dependencies
          ELSE IF op \in {"up", "delete"} /\ ~x.saved THEN "profile"
          ELSE IF x.seen \in {"unknown", "conflict"} THEN x.seen
          ELSE IF op # "delete" /\ (x.seen = "active") = (op = "up") THEN "already"
          ELSE dependencies

Allowed(x, op, continuing) == Blocked(x, op, continuing) = "none"

\* operation_is_allowed, its refreshes.
Refused(x, op, continuing) ==
  LET why == Blocked(x, op, continuing)
  IN IF why = "profile" THEN RequestInventory(x, TRUE)
     ELSE IF why = "unknown" THEN RuntimeRefresh(x) ELSE x

-----------------------------------------------------------------------------
(* Activities.                                                             *)

\* activity_matches.
ActivityMatches(x, id) == Running(x) /\ x.act # "idle" /\ x.id = id

\* begin_activity.
BeginActivity(x, act) == SetSuspended([x EXCEPT !.id = @ + 1, !.act = act], TRUE)

\* Mutant: the activity is cleared to no activity at all.
FinishActivity_None(x) == SetSuspended([x EXCEPT !.act = "none", !.verify = FALSE], FALSE)

\* finish_activity of the current activity.
FinishActivity(x) == SetSuspended([x EXCEPT !.act = "idle", !.verify = FALSE], FALSE)

\* Mutant: the end of an operation waits for the runtime source, whether it looks
\* or not.
CompleteMutation_NoFinish(x, op) ==
  LET q == IF op \in {"import", "replace", "delete"} THEN QueueRefresh(x) ELSE x
      r == RuntimeRefresh([q EXCEPT !.verify = q.act \in Commands])
  IN IF ~r.verify THEN FinishActivity(r) ELSE r

\* Mutant: the runtime source is polled, and what it has seen before stays.
CompleteMutation_Poll(x, op) ==
  LET q == IF op \in {"import", "replace", "delete"} THEN QueueRefresh(x) ELSE x
      r == RuntimePoll([q EXCEPT !.verify = q.act \in Commands])
  IN IF ~r.verify \/ ~r.auth \/ ~r.checking THEN FinishActivity(r) ELSE r

\* complete_mutation_action_with_purpose: the activity lasts until the runtime
\* source has looked again.
CompleteMutation(x, op) ==
  LET q == IF op \in {"import", "replace", "delete"} THEN QueueRefresh(x) ELSE x
      r == RuntimeRefresh([q EXCEPT !.verify = q.act \in Commands])
  IN IF ~r.verify \/ ~r.auth \/ ~r.checking THEN FinishActivity(r) ELSE r

\* Mutant: every activity is given up, those that wait for the service too.
LoseAuthorization_All(x) ==
  SetSuspended(ResetInventory([x EXCEPT !.auth = FALSE, !.act = "idle", !.confirm = NoConfirm,
                                !.verify = FALSE, !.mon = FALSE, !.checking = FALSE,
                                !.unheard = FALSE, !.stale = FALSE, !.seen = "unknown"]), FALSE)

\* set_authorized(FALSE).
LoseAuthorization(x) ==
  LET a == IF x.act \in Interactions
           THEN [x EXCEPT !.auth = FALSE, !.act = "idle", !.confirm = NoConfirm]
           ELSE [x EXCEPT !.auth = FALSE]
      m == [a EXCEPT !.mon = FALSE, !.checking = FALSE, !.seen = "unknown", !.unheard = FALSE,
                     !.stale = FALSE]
      v == IF m.verify THEN FinishActivity(m) ELSE m
  IN SetSuspended(ResetInventory(v), v.act # "idle")

\* set_authorized.
SetAuthorized(x, b) ==
  IF ~b THEN LoseAuthorization(x)
  ELSE LET a == ScheduleQueued([x EXCEPT !.auth = TRUE])
       IN IF x.auth THEN a
          ELSE RequestInventory([a EXCEPT !.mon = TRUE, !.checking = TRUE, !.unheard = FALSE], TRUE)

\* dispatch_service_action of the current activity.
DispatchAction(x, op) ==
  IF ext THEN FinishActivity(x)
  ELSE LET y == Preempt(x)
       IN IF ~y.auth THEN FinishActivity(y)
          ELSE IF op # "down" /\ ~Allowed(y, op, TRUE) THEN FinishActivity(Refused(y, op, TRUE))
          ELSE IF MissingFor(y, op) # {} THEN FinishActivity(y)
          ELSE [y EXCEPT !.calls = @ \cup {Call(op, y.id)}]

-----------------------------------------------------------------------------
(* What the user asks for and answers.  A dialog is available, or not.     *)

Show(x, kind) == dialogs' = dialogs \cup {[kind |-> kind, id |-> x.id]}
Answered(d)   == dialogs' = dialogs \ {d}
CanBegin      == Running(k) /\ k.id < MaxActivities /\ Events < MaxEvents

\* network_sidebar_awg_controller_import.
Import ==
  /\ CanBegin
  /\ IF ~Allowed(k, "import", FALSE) THEN k' = Refused(k, "import", FALSE) /\ UNCHANGED dialogs
     ELSE LET b == BeginActivity(k, "import_select")
          IN \/ k' = k /\ UNCHANGED dialogs
             \/ k' = b /\ Show(b, "select")
             \/ k' = FinishActivity(b) /\ UNCHANGED dialogs
  /\ UNCHANGED <<world, ext, agreed, flips, faults>>

\* network_sidebar_awg_controller_import_file_selected, _selection_cancelled.
FileSelected ==
  \E d \in dialogs :
    /\ d.kind = "select"
    /\ IF ActivityMatches(k, d.id) /\ k.act = "import_select"
       THEN \/ /\ k' = [k EXCEPT !.act = "import_load"]
               /\ dialogs' = (dialogs \ {d}) \cup {[kind |-> "load", id |-> d.id]}
            \/ k' = FinishActivity(k) /\ Answered(d)
       ELSE k' = k /\ Answered(d)
    /\ UNCHANGED <<world, ext, agreed, flips, faults>>

\* network_sidebar_awg_controller_import_loaded, _import_failed.
ImportLoaded ==
  \E d \in dialogs :
    /\ d.kind = "load" /\ Answered(d)
    /\ IF ActivityMatches(k, d.id) /\ k.act = "import_load"
       THEN k' \in {DispatchAction([k EXCEPT !.act = "import"], "import"), FinishActivity(k)}
       ELSE k' = k
    /\ UNCHANGED <<world, ext, agreed, flips, faults>>

\* network_sidebar_awg_controller_cancel_import.
CancelImport ==
  /\ Running(k) /\ k.act \in {"import_select", "import_load"}
  /\ k' = FinishActivity(k)
  /\ UNCHANGED <<world, ext, dialogs, agreed, flips, faults>>

\* network_sidebar_awg_controller_set_active.
SetActive(op) ==
  /\ CanBegin
  /\ k' = IF Allowed(k, op, FALSE) THEN DispatchAction(BeginActivity(k, op), op)
          ELSE Refused(k, op, FALSE)
  /\ UNCHANGED <<world, ext, dialogs, agreed, flips, faults>>

\* network_sidebar_awg_controller_confirm_delete and request_confirmation.
ConfirmDelete ==
  /\ CanBegin
  /\ IF ~Allowed(k, "delete", FALSE) THEN k' = Refused(k, "delete", FALSE) /\ UNCHANGED dialogs
     ELSE LET b == BeginActivity(k, "delete_confirm")
          IN \/ k' = k /\ UNCHANGED dialogs
             \/ k' = [b EXCEPT !.confirm = [op |-> "delete", id |-> b.id]] /\ Show(b, "delete")
             \/ k' = FinishActivity(b) /\ UNCHANGED dialogs
  /\ UNCHANGED <<world, ext, agreed, flips, faults>>

\* Mutant: any answer to a dialog of that kind will do.
ConfirmationMatches_AnyId(x, kind, id) ==
  x.confirm.id = x.id /\ x.act = (IF kind = "replace" THEN "replace_confirm" ELSE "delete_confirm")

\* confirmation_matches.
ConfirmationMatches(x, kind, id) ==
  /\ ActivityMatches(x, id) /\ x.confirm.id = id
  /\ \/ kind = "replace" /\ x.act = "replace_confirm" /\ x.confirm.op = "import"
     \/ kind = "delete"  /\ x.act = "delete_confirm"  /\ x.confirm.op = "delete"

\* network_sidebar_awg_controller_confirmation_response, to a confirmation that matches.
Response(x, kind, yes) ==
  LET y == [x EXCEPT !.confirm = NoConfirm]
      refused == IF yes THEN Refused(y, kind, TRUE) ELSE y
  IN IF yes /\ Allowed(y, kind, TRUE) THEN DispatchAction([y EXCEPT !.act = kind], kind)
     ELSE IF kind = "replace" THEN CompleteMutation(refused, "import") ELSE FinishActivity(refused)

ConfirmationResponse ==
  \E d \in dialogs, yes \in BOOLEAN :
    /\ d.kind \in {"replace", "delete"} /\ Answered(d)
    /\ agreed' = IF yes THEN agreed \cup {d} ELSE agreed
    /\ k' = IF ConfirmationMatches(k, d.kind, d.id) THEN Response(k, d.kind, yes) ELSE k
    /\ UNCHANGED <<world, ext, flips, faults>>

-----------------------------------------------------------------------------
(* Answers.                                                                *)

\* request_is_current.
RequestIsCurrent(x, c) == Running(x) /\ x.auth /\ x.pending /\ x.request = c.id

\* finish_request.
FinishRequest(x, c) ==
  IF RequestIsCurrent(x, c) THEN ScheduleQueued([x EXCEPT !.pending = FALSE]) ELSE x

\* The failures of inventory_result_cb that are tried again.
InventoryFailed(x) == QueueRefresh(x)

Reach(x, b) == [x EXCEPT !.missing = IF b THEN @ \ {"service"} ELSE @ \cup {"service"}]

\* apply_inventory_reply of a valid report; the runtime source is given its names.
ApplyReply(x, c, quick) ==
  LET y == [x EXCEPT !.known = TRUE, !.missing = IF quick THEN {} ELSE {"quick"},
                     !.saved = c.saved, !.owed = FALSE]
  IN IF y.saved = x.saved THEN y ELSE RuntimeRefresh(y)

\* inventory_result_cb.
InventoryResult(x, c, r, quick) ==
  IF ~RequestIsCurrent(x, c) THEN x
  ELSE FinishRequest(
         CASE r = "success"        -> ApplyReply(x, c, quick)
           [] r = "cancelled"      -> x
           [] r = "not_authorized" -> LoseAuthorization(Reach(x, TRUE))
           [] r = "timed_out"      -> InventoryFailed(x)
           [] OTHER                -> InventoryFailed(Reach(x, r = "busy")), c)

\* The success branch of backend_service_result.
Succeeded(x, op) ==
  IF op = "delete" THEN FinishActivity(QueueRefresh(RuntimeRefresh([x EXCEPT !.saved = FALSE])))
  ELSE IF op \in {"import", "replace"} /\ x.auth
       THEN CompleteMutation([x EXCEPT !.saved = TRUE], op)
       ELSE CompleteMutation(x, op)

\* service_action_matches.
ServiceActionMatches(x, c) == ActivityMatches(x, c.id)

\* backend_service_result.
ServiceResult(x, c, r) ==
  IF ~ServiceActionMatches(x, c) THEN x
  ELSE CASE r = "cancelled"      -> FinishActivity(x)
         [] r = "timed_out"      -> CompleteMutation(x, c.op)
         [] r = "failed"         -> CompleteMutation(QueueRefresh(Reach(x, FALSE)), c.op)
         [] r = "not_authorized" -> LET y == LoseAuthorization(Reach(x, TRUE))
                                    IN IF ServiceActionMatches(y, c) THEN FinishActivity(y) ELSE y
         [] r = "busy"           -> CompleteMutation(Reach(x, TRUE), c.op)
         [] r = "success"        -> Succeeded(Reach(x, TRUE), c.op)
         [] r = "recheck"        -> CompleteMutation(QueueRefresh(Reach(x, TRUE)), c.op)
         [] r = "refused"        -> CompleteMutation(Reach(x, TRUE), c.op)

\* request_confirmation after REPLACE_CONFIRMATION_REQUIRED: authorization may be
\* gone, and the dialog may not be available.
ReplaceRequired(x, c) ==
  LET y == Reach(x, TRUE)
  IN IF ~ServiceActionMatches(x, c) THEN k' = x /\ UNCHANGED dialogs
     ELSE IF ~y.auth THEN k' = FinishActivity(y) /\ UNCHANGED dialogs
     ELSE \/ k' = CompleteMutation(y, "import") /\ UNCHANGED dialogs
          \/ /\ k' = [y EXCEPT !.confirm = [op |-> "import", id |-> y.id], !.act = "replace_confirm"]
             /\ Show(y, "replace")

\* The call is over for the sidebar.  A service that was not asked in vain may still
\* be at it.
Closed(c, r) ==
  LET left == c.op # "list" /\ c.at = "sent" /\ r # "not_authorized"
  IN [k EXCEPT !.calls = (@ \ {c}) \cup (IF left THEN {[c EXCEPT !.open = FALSE]} ELSE {})]

Deliver(c, r) ==
  IF c.op = "list" THEN UNCHANGED dialogs /\ \E quick \in BOOLEAN : k' = InventoryResult(Closed(c, r), c, r, quick)
  ELSE IF r = "replace_required" THEN ReplaceRequired(Closed(c, r), c)
  ELSE UNCHANGED dialogs /\ k' = ServiceResult(Closed(c, r), c, r)

\* The answer comes, or the call fails on the way: the backend's own deadline, a bus
\* or a service that cannot be reached, a refusal.
CallEnds ==
  \E c \in k.calls :
    /\ c.open
    /\ \/ c.cancelled /\ Deliver(c, "cancelled") /\ UNCHANGED faults
       \/ ~c.cancelled /\ c.at = "done" /\ Deliver(c, c.res) /\ UNCHANGED faults
       \/ /\ ~c.cancelled /\ Fault
          /\ \E r \in {"timed_out", "failed", "not_authorized"} : Deliver(c, r)
    /\ UNCHANGED <<world, ext, agreed, flips>>

\* The service (external, AwgService): one command at a time, in the order they were
\* sent; a command that fails may have had its effect.
ServiceRuns(waitedFor) ==
  \E c \in k.calls :
    /\ c.at = "sent" /\ c.open = waitedFor
    /\ LET earlier == \E d \in k.calls : d.op # "list" /\ d.at = "sent" /\ ~d.open /\ d # c
           done(r, w) == /\ world' = w
                         /\ k' = [k EXCEPT !.stale = @ \/ (waitedFor /\ c.op \in {"up", "down"}),
                               !.calls = (@ \ {c}) \cup
                               (IF waitedFor THEN {[c EXCEPT !.at = "done", !.res = r, !.saved = w]} ELSE {})]
       IN IF earlier /\ waitedFor THEN done("busy", world)
          ELSE CASE c.op = "list"                        -> done("success", world)
                 [] c.op = "import" /\ world             -> done("replace_required", world)
                 [] c.op = "import" /\ ~world            -> done("success", TRUE) \/ done("refused", TRUE)
                                                              \/ done("refused", FALSE)
                 [] c.op = "replace"                     -> done("success", TRUE) \/ done("refused", world)
                 [] c.op = "delete"                      -> done("success", FALSE) \/ done("refused", FALSE)
                                                              \/ done("refused", world)
                 [] c.op \in {"up", "down"}              -> done("success", world) \/ done("recheck", world)
    /\ UNCHANGED <<ext, dialogs, agreed, flips, faults>>

\* runtime_source_changed.
RuntimeChanged(x) == IF Running(x) /\ x.verify /\ (~x.auth \/ ~x.checking) THEN FinishActivity(x) ELSE x

\* A check of the runtime source ends (external, AwgRuntimeSource), and now and then
\* nobody is told of it (scheduled_refresh_cb).
CheckEnds ==
  /\ k.checking
  /\ \E s \in Observed, told \in BOOLEAN :
       /\ IF told THEN UNCHANGED faults ELSE Fault
       /\ LET x == [k EXCEPT !.checking = FALSE, !.seen = s, !.unheard = ~told]
          IN k' = IF told THEN RuntimeChanged(x) ELSE x
  /\ UNCHANGED <<world, ext, dialogs, agreed, flips>>

\* refresh_source_cb.
RefreshTimer ==
  /\ k.timer
  /\ LET x == [k EXCEPT !.timer = FALSE]
     IN k' = IF ~Running(x) \/ ~x.auth THEN [x EXCEPT !.dirty = FALSE, !.owed = FALSE]
             ELSE IF ~x.enabled \/ x.suspended THEN x ELSE RequestRefresh(x, TRUE)
  /\ UNCHANGED <<world, ext, dialogs, agreed, flips, faults>>

-----------------------------------------------------------------------------
(* The application.                                                        *)

\* network_sidebar_awg_controller_start.
Start ==
  /\ k.phase = "new"
  /\ k' = [k EXCEPT !.phase = "running"]
  /\ UNCHANGED <<world, ext, dialogs, agreed, flips, faults>>

\* backend_authorization_changed.
AuthorizationChanged ==
  /\ Running(k)
  /\ \/ ~k.auth /\ k' = SetAuthorized(k, TRUE) /\ UNCHANGED flips
     \/ k.auth /\ Flip /\ \E b \in BOOLEAN : k' = SetAuthorized(k, b)
  /\ UNCHANGED <<world, ext, dialogs, agreed, faults>>

\* network_sidebar_awg_inventory_set_enabled.
SetEnabled(x, b) ==
  LET y == [x EXCEPT !.enabled = b]
  IN IF b THEN ScheduleQueued(y) ELSE [y EXCEPT !.timer = FALSE]

\* The sidebar is shown (present_sidebar) or hidden.
ShowOrHide ==
  /\ Running(k)
  /\ \/ ~k.enabled /\ UNCHANGED flips
        /\ \E asked \in BOOLEAN :
             LET x == SetEnabled(k, TRUE) IN k' = IF asked THEN RequestInventory(x, TRUE) ELSE x
     \/ k.enabled /\ Flip /\ k' = SetEnabled(k, FALSE)
  /\ UNCHANGED <<world, ext, dialogs, agreed, faults>>

\* periodic_refresh_cb of the application, and the interval of the inventory.
Periodic ==
  /\ Running(k) /\ k.enabled
  /\ k' = RequestInventory(k, FALSE)
  /\ UNCHANGED <<world, ext, dialogs, agreed, flips, faults>>

TimePasses ==
  /\ k.recent /\ k' = [k EXCEPT !.recent = FALSE]
  /\ UNCHANGED <<world, ext, dialogs, agreed, flips, faults>>

\* Another part of the sidebar starts or ends an interaction of its own.
ExternalInteraction ==
  /\ \/ ~ext /\ Flip
     \/ ext /\ UNCHANGED flips
  /\ ext' = ~ext
  /\ UNCHANGED <<k, world, dialogs, agreed, faults>>

\* controller_stop_internal, with the dialogs dismissed for good.
Stop ==
  /\ Running(k)
  /\ k' = [ResetInventory(k) EXCEPT !.phase = "stopped", !.id = @ + 1, !.act = "idle",
             !.verify = FALSE, !.auth = FALSE, !.confirm = NoConfirm, !.enabled = FALSE,
             !.mon = FALSE, !.checking = FALSE, !.seen = "unknown", !.unheard = FALSE,
             !.stale = FALSE, !.calls = {[c EXCEPT !.cancelled = TRUE] : c \in @}]
  /\ dialogs' = {}
  /\ UNCHANGED <<world, ext, agreed, flips, faults>>

-----------------------------------------------------------------------------

User == Import \/ FileSelected \/ ImportLoaded \/ CancelImport \/ SetActive("up") \/ SetActive("down")
          \/ ConfirmDelete \/ ConfirmationResponse

Next ==
  \/ User
  \/ CallEnds \/ ServiceRuns(TRUE) \/ ServiceRuns(FALSE) \/ CheckEnds \/ RefreshTimer
  \/ Start \/ AuthorizationChanged \/ ShowOrHide \/ Periodic \/ TimePasses \/ ExternalInteraction
  \/ Stop

Spec == Init /\ [][Next]_vars

-----------------------------------------------------------------------------
(* Properties.                                                             *)

Open == {c \in k.calls : c.open /\ c.op # "list"}

TypeOK ==
  /\ k.phase \in {"new", "running", "stopped"} /\ k.act \in Activities
  /\ k.id \in 0 .. MaxActivities + 1 /\ k.request \in Nat
  /\ k.seen \in {"unknown", "inactive", "active", "conflict"}
  /\ \A f \in {k.auth, k.verify, k.mon, k.checking, k.saved, k.enabled, k.suspended, k.dirty,
               k.timer, k.pending, k.recent, k.known, k.owed, k.unheard, k.stale, world, ext} :
       f \in BOOLEAN
  /\ k.missing \subseteq {"service", "helper", "quick"}

\* A command that changes the system is sent for one activity at a time, and the
\* answer that is waited for is that activity's: nothing is chained to a command whose
\* outcome is still open (service_action_matches, admission_context).
OneCommand ==
  Running(k) => \A c \in Open : c.id = k.id /\ c.op = k.act /\ ~k.verify

\* The service is told to delete or replace a profile only for an activity for which
\* the user himself agreed to just that: no dialog of an earlier activity, dismissed or
\* answered late, stands for it (confirmation_matches).
Confirmed ==
  \A c \in k.calls : c.op \in {"delete", "replace"} => [kind |-> c.op, id |-> c.id] \in agreed

\* The state of the profile that is shown once an operation is over was looked up after the
\* command: a check that had seen the world before it may end at any moment, and is only
\* shown while the operation still is (complete_mutation_action_with_purpose,
\* controller.c:551).  A command given up before its answer is not meant.
ShownIsCurrent == Running(k) /\ k.act = "idle" => ~k.stale

\* A list that was asked for, preempted or refused is asked for again until it has come, and
\* as soon as it may be asked for there is a timer: neither user activity, the hidden sidebar
\* nor a failed call makes the inventory forget it (schedule_queued_refresh).  Two things do:
\* the loss of authorization, and another interaction under way when its turn comes.
RefreshIsArmed ==
  Running(k) /\ k.auth =>
    /\ k.owed => k.dirty \/ k.pending
    /\ k.enabled /\ k.act = "idle" /\ k.dirty /\ ~k.pending => k.timer

\* A refresh that counts as pending has a call whose answer will end it, whatever was
\* preempted before: otherwise the inventory would never be read again
\* (cancel_request, request_is_current).
PendingIsOwned ==
  Running(k) /\ k.pending =>
    \E c \in k.calls : c.op = "list" /\ c.open /\ ~c.cancelled /\ c.id = k.request

\* An activity that is shown has someone who will end it: a call, a dialog or load that
\* carries its number, or a check of the runtime source that is under way (finish_activity
\* and its callers).  One case is left: the check ended and the controller was not told of
\* it, although runtime_source.h:62 promises that (scheduled_refresh_cb, runtime_source.c:957).
\* Then the activity waits for the next poll or change, which the source still watches for.
ActivityIsOwned ==
  Running(k) /\ k.act # "idle" =>
    IF k.act \in Interactions THEN \E d \in dialogs : d.id = k.id
    ELSE IF k.verify THEN k.mon /\ (k.checking \/ k.unheard) ELSE Open # {}

\* User operations run one at a time, also when authorization is lost meanwhile, an answer to
\* a confirmation only counts for the activity that asked, and an operation is shown until
\* what it did is.
OneOperation ==
  /\ TypeOK
  /\ OneCommand
  /\ Confirmed
  /\ ShownIsCurrent

\* A list that is due, a pending list and an open activity each have a timer, a call, a
\* question or a check under way that will end the wait; where the code leaves them without,
\* the part says so.
EveryWaitIsOwned ==
  /\ RefreshIsArmed
  /\ PendingIsOwned
  /\ ActivityIsOwned

-----------------------------------------------------------------------------
(* The inductive invariant behind OneOperation and EveryWaitIsOwned.       *)

Phases   == {"new", "running", "stopped"}
Seens    == {"unknown", "inactive", "active", "conflict"}
Confirms == [op : {"none", "import", "delete"}, id : Nat]
Missings == SUBSET {"service", "helper", "quick"}
Answers  == {"success", "replace_required", "refused", "busy", "recheck"}
Calls    == [op : Commands \cup {"list"}, id : Nat, open : BOOLEAN, cancelled : BOOLEAN,
             at : {"sent", "done"}, res : Answers \cup {"none"}, saved : BOOLEAN]
Dialogs  == [kind : {"select", "load", "replace", "delete"}, id : Nat]

Controllers ==
  [phase : Phases, auth : BOOLEAN, act : Activities, id : Nat, confirm : Confirms,
   verify : BOOLEAN, mon : BOOLEAN, checking : BOOLEAN, seen : Seens, saved : BOOLEAN,
   enabled : BOOLEAN, suspended : BOOLEAN, dirty : BOOLEAN, timer : BOOLEAN,
   pending : BOOLEAN, request : Nat, recent : BOOLEAN, known : BOOLEAN, missing : Missings,
   calls : SUBSET Calls, owed : BOOLEAN, unheard : BOOLEAN, stale : BOOLEAN]

Types ==
  /\ k \in Controllers /\ IsFiniteSet(k.calls) /\ world \in BOOLEAN /\ ext \in BOOLEAN
  /\ dialogs \subseteq Dialogs /\ agreed \subseteq Dialogs

Lists(x) == {c \in x.calls : c.op = "list"}
Cmds(x)  == {c \in x.calls : c.op # "list"}

\* The outstanding requests have different numbers, and the one that is waited for is
\* among them.
ListsAreTold(x) ==
  /\ \A c \in Lists(x) : c.open
  /\ \A c, d \in Lists(x) : c.id = d.id => c = d
PendingIsListed(x) ==
  x.pending => /\ Running(x) /\ x.auth
               /\ \E c \in Lists(x) : ~c.cancelled /\ c.id = x.request

\* Background refreshes are suspended while an activity lasts, and only then.
SuspendedIsBusy(x) ==
  x.phase # "stopped" => (x.suspended <=> x.act # "idle")
QueuedIsArmed(x) ==
  Running(x) /\ x.auth /\ x.enabled /\ ~x.suspended /\ x.dirty /\ ~x.pending => x.timer
\* What is owed is queued or waited for.
OwedIsQueued(x) == x.owed => x.dirty \/ x.pending
Watched(x) ==
  /\ x.auth <=> x.mon
  /\ x.phase = "new" => x.act = "idle" /\ ~x.auth
  /\ x.verify => x.act \in Commands

InventoryIsSound(x) ==
  /\ ListsAreTold(x) /\ PendingIsListed(x) /\ SuspendedIsBusy(x) /\ QueuedIsArmed(x)
  /\ OwedIsQueued(x) /\ Watched(x)

\* Who waits for the runtime source waits for a check, and not for a command whose effect no
\* check has seen.
CheckIsAwaited(x) ==
  x.phase # "stopped" =>
    /\ x.verify => x.auth /\ (x.checking \/ x.unheard)
    /\ x.stale => x.act \in {"up", "down"} /\ ~x.verify

\* There is one open command, of the activity that is shown, until that one waits for the
\* runtime source.
CommandIsShown ==
  k.phase # "stopped" =>
    /\ \A c \in Open : c.id = k.id /\ c.op = k.act /\ ~k.verify /\ ~c.cancelled
    /\ \A c, d \in Open : c = d
    /\ k.act \in Commands /\ ~k.verify => Open # {}

Kind(act) == CASE act = "import_select"   -> "select"
               [] act = "import_load"     -> "load"
               [] act = "replace_confirm" -> "replace"
               [] act = "delete_confirm"  -> "delete"

\* An activity asks one question at a time, the one that it is at.
DialogIsAsked ==
  k.phase # "stopped" =>
    /\ \A d \in dialogs : d.id <= k.id
    /\ \A d, e \in dialogs : d.id = e.id => d = e
    /\ k.act \in Commands => \A d \in dialogs : d.id # k.id
    /\ k.act \in Interactions => [kind |-> Kind(k.act), id |-> k.id] \in dialogs
    /\ k.act = "replace_confirm" => k.confirm = [op |-> "import", id |-> k.id]
    /\ k.act = "delete_confirm" => k.confirm = [op |-> "delete", id |-> k.id]

IdIsBounded == k.id <= MaxActivities + (IF k.phase = "stopped" THEN 1 ELSE 0)

CallsAreMade ==
  \A c \in Cmds(k) : /\ c.at = "done" => c.res # "none"
                     /\ c.res = "replace_required" => c.op = "import"

IndInv ==
  /\ Types
  /\ InventoryIsSound(k)
  /\ CheckIsAwaited(k)
  /\ CommandIsShown
  /\ DialogIsAsked
  /\ IdIsBounded
  /\ CallsAreMade
  /\ Confirmed
=============================================================================
