----------------------------- MODULE AwgService -----------------------------
(***************************************************************************)
(* The system service (amneziawg_service.c): it admits D-Bus calls,        *)
(* authorizes their senders with polkit, starts one helper at a time       *)
(* through the runner, lets user actions preempt inventories, and exits    *)
(* when it is idle.  The runner (amneziawg_helper_runner.c) appears with   *)
(* what the service sees of it: a run, its result, children still to reap. *)
(*                                                                         *)
(* One action is one callback of the GLib main loop.  Callbacks end in     *)
(* progress_pending_action and may start a helper; these two are steps of  *)
(* their own that follow at once: no other callback runs while pc is not   *)
(* "loop".  Refused calls change nothing and are not actions.              *)
(***************************************************************************)
EXTENDS Naturals, FiniteSets

CONSTANTS Requests,       \* request objects
          Senders,        \* unique bus names
          NoRequest,      \* the NULL request
          MaxPending,     \* MAX_PENDING_AUTHORIZATIONS
          MaxGeneration   \* the last value of policy_generation

ASSUME RequestsAssumption == NoRequest \notin Requests
ASSUME BoundsAssumption == MaxPending \in Nat /\ MaxGeneration \in Nat

VARIABLES
  req,         \* [Requests -> Calls or Unused]
  reply,       \* [Requests -> Replies]: the answer to the last call it stood for
  slots,       \* [Senders -> SUBSET Kinds]: pending_senders
  count,       \* pending_authorizations
  active,      \* active_request
  pending,     \* pending_action
  authority,   \* the polkit authority is connected
  validating,  \* policy_pending
  ready,       \* policy_ready
  generation,  \* policy_generation
  checked,     \* policy_check_generation
  bus,         \* the bus name: not asked for, asked for, object exported
  idle,        \* the idle timer is armed
  stopping,
  failed,
  loop,        \* "quit" once g_main_loop_quit was called
  run,         \* the runner's run, named by its request
  sent,        \* its result_sent
  children,    \* pending_child_reaps is not empty
  broken,      \* the runner's failed
  pc

calls   == <<req, reply, slots, count, active, pending>>
policy  == <<authority, validating, ready, generation, checked, bus>>
runner  == <<run, sent, children, broken>>
process == <<idle, stopping, failed, loop>>
vars    == <<calls, policy, runner, process, pc>>

Kinds   == {"inventory", "action"}
Replies == {"none", "refused", "result"}
Calls   == [stage : {"auth", "policy", "waiting", "active"},
            kind  : Kinds,
            from  : Senders,
            gen   : 0 .. MaxGeneration]

\* A request object that is not allocated.
Unused == [stage |-> "free"]

Live(r)        == req[r] # Unused
Authorizing(r) == req[r].stage \in {"auth", "policy"}
OrNone         == Requests \cup {NoRequest}

TypeOK ==
  /\ req \in [Requests -> Calls \cup {Unused}]
  /\ reply \in [Requests -> Replies]
  /\ slots \in [Senders -> SUBSET Kinds]
  /\ count \in 0 .. MaxPending
  /\ active \in OrNone /\ pending \in OrNone
  /\ authority \in BOOLEAN /\ validating \in BOOLEAN /\ ready \in BOOLEAN
  /\ generation \in 0 .. MaxGeneration /\ checked \in 0 .. MaxGeneration
  /\ bus \in {"none", "requested", "exported"}
  /\ idle \in BOOLEAN /\ stopping \in BOOLEAN /\ failed \in BOOLEAN
  /\ loop \in {"running", "quit"}
  /\ run \in OrNone /\ sent \in BOOLEAN /\ children \in BOOLEAN /\ broken \in BOOLEAN
  /\ pc \in {"loop", "progress", "start"}

Init ==
  /\ req = [r \in Requests |-> Unused]
  /\ reply = [r \in Requests |-> "none"]
  /\ slots = [s \in Senders |-> {}]
  /\ count = 0 /\ active = NoRequest /\ pending = NoRequest
  /\ authority = FALSE /\ validating = TRUE /\ ready = FALSE
  /\ generation = 0 /\ checked = 0 /\ bus = "none"
  /\ idle = FALSE /\ stopping = FALSE /\ failed = FALSE /\ loop = "running"
  /\ run = NoRequest /\ sent = FALSE /\ children = FALSE /\ broken = FALSE
  /\ pc = "loop"

-----------------------------------------------------------------------------
(* Helpers of the service.                                                 *)

Callback == pc = "loop" /\ loop = "running"

\* An action that is authorized and waits for the runner.
Waiting == pending # NoRequest /\ ~Authorizing(pending)

\* The callback goes on in progress_pending_action, which returns at once when
\* no action waits.
CallProgress == pc' = IF Waiting' THEN "progress" ELSE "loop"

\* Mutant: the children left behind are forgotten.
Busy_RunOnly == run # NoRequest

\* network_sidebar_awg_helper_runner_is_busy.
Busy == run # NoRequest \/ children

\* Mutant: pending authorizations are not counted as work.
PendingWork_Uncounted ==
  active # NoRequest \/ pending # NoRequest \/ validating \/ Busy

\* service_has_pending_work.
PendingWork ==
  \/ active # NoRequest \/ pending # NoRequest
  \/ count # 0 \/ validating \/ Busy

\* Mutant: the idle timer is removed but never armed.
UpdateIdle_Unarmed ==
  /\ idle' = FALSE
  /\ loop' = IF ~PendingWork' /\ stopping' THEN "quit" ELSE loop

\* service_update_idle_state, at the end of a step.
UpdateIdle ==
  /\ idle' = (~PendingWork' /\ ~stopping')
  /\ loop' = IF ~PendingWork' /\ stopping' THEN "quit" ELSE loop

\* A reply that was sent stays (reply_sent).
Answer(r, a) == reply' = IF reply[r] = "none" THEN [reply EXCEPT ![r] = a] ELSE reply

\* Mutant: the sender's slot is not given back.
RequestFree_KeepsSlot(r) ==
  /\ req' = [req EXCEPT ![r] = Unused]
  /\ count' = IF Authorizing(r) /\ count > 0 THEN count - 1 ELSE count
  /\ active' = IF active = r THEN NoRequest ELSE active
  /\ pending' = IF pending = r THEN NoRequest ELSE pending
  /\ UNCHANGED slots

\* request_free, but for the idle state.
RequestFree(r) ==
  /\ req' = [req EXCEPT ![r] = Unused]
  /\ slots' = [slots EXCEPT ![req[r].from] = @ \ {req[r].kind}]
  /\ count' = IF Authorizing(r) /\ count > 0 THEN count - 1 ELSE count
  /\ active' = IF active = r THEN NoRequest ELSE active
  /\ pending' = IF pending = r THEN NoRequest ELSE pending

\* Mutant: an action that is already authorized keeps waiting.
CancelPendingAuthorizations_KeepsGrant(freed) ==
  /\ reply' = [r \in Requests |->
                 IF Authorizing(r) /\ reply[r] = "none" THEN "refused" ELSE reply[r]]
  /\ req' = [r \in Requests |-> IF r \in freed THEN Unused ELSE req[r]]
  /\ slots' = [s \in Senders |->
                 slots[s] \ {req[r].kind : r \in {g \in freed : req[g].from = s}}]
  /\ count' = count - Cardinality(freed)
  /\ pending' = IF Waiting THEN pending ELSE NoRequest
  /\ UNCHANGED active

(***************************************************************************)
(* cancel_pending_authorizations: a waiting action is answered and freed,  *)
(* a request that is being authorized is answered and left to its          *)
(* callback.  The requests in "freed" are freed as well.                   *)
(***************************************************************************)
CancelPendingAuthorizations(freed) ==
  LET waiting == IF Waiting THEN {pending} ELSE {}
      told    == waiting \cup {r \in Requests : Authorizing(r)}
      gone    == waiting \cup freed
  IN /\ reply' = [r \in Requests |->
                    IF r \in told /\ reply[r] = "none" THEN "refused" ELSE reply[r]]
     /\ req' = [r \in Requests |-> IF r \in gone THEN Unused ELSE req[r]]
     /\ slots' = [s \in Senders |->
                    slots[s] \ {req[r].kind : r \in {g \in gone : req[g].from = s}}]
     /\ count' = count - Cardinality(freed)
     /\ pending' = NoRequest
     /\ UNCHANGED active

\* service_fail_unsafe_policy.
FailUnsafePolicy(freed) ==
  /\ failed' = TRUE /\ stopping' = TRUE
  /\ CancelPendingAuthorizations(freed)

\* publish_result and helper_result_cb: the result goes out once.
PublishResult ==
  /\ sent' = TRUE
  /\ reply' = IF sent \/ reply[active] # "none" THEN reply
              ELSE [reply EXCEPT ![active] = "result"]

-----------------------------------------------------------------------------
(* The policy of the service itself.                                       *)

\* finish_policy_validation after a failure.
PolicyFails ==
  /\ FailUnsafePolicy({}) /\ validating' = FALSE
  /\ UNCHANGED <<authority, ready, generation, checked, bus>>
  /\ UpdateIdle

PolicyStopped ==
  /\ stopping /\ validating' = FALSE
  /\ UNCHANGED <<calls, authority, ready, generation, checked, bus, stopping, failed>>
  /\ UpdateIdle

AuthorityReady ==
  /\ Callback /\ validating /\ ~authority
  /\ UNCHANGED <<runner, pc>>
  /\ \/ PolicyStopped
     \/ ~stopping /\ PolicyFails
     \/ /\ ~stopping /\ authority' = TRUE /\ checked' = generation
        /\ UNCHANGED <<calls, validating, ready, generation, bus, process>>

\* Changes that came in the meantime are coalesced into one new check.
ServicePolicyChecked ==
  /\ Callback /\ validating /\ authority
  /\ UNCHANGED <<runner, pc>>
  /\ \/ PolicyStopped
     \/ ~stopping /\ PolicyFails
     \/ /\ ~stopping /\ checked # generation
        /\ checked' = generation
        /\ UNCHANGED <<calls, authority, validating, ready, generation, bus, process>>
     \/ /\ ~stopping /\ checked = generation
        /\ ready' = TRUE /\ validating' = FALSE
        /\ bus' = IF bus = "none" THEN "requested" ELSE bus
        /\ UNCHANGED <<calls, authority, generation, checked, stopping, failed>>
        /\ UpdateIdle

\* The cancelled check still has to return.
PolicyValidationTimeout ==
  /\ Callback /\ validating /\ ~stopping
  /\ FailUnsafePolicy({})
  /\ UNCHANGED <<policy, runner, pc>>
  /\ UpdateIdle

\* Mutant: the generation is raised beyond its last value.
AuthorizationChanged_Unbounded ==
  /\ Callback /\ authority /\ ~stopping
  /\ generation' = generation + 1 /\ ready' = FALSE /\ validating' = TRUE
  /\ checked' = IF validating THEN checked ELSE generation + 1
  /\ CancelPendingAuthorizations({})
  /\ UNCHANGED <<authority, bus, stopping, failed, runner, pc>>
  /\ UpdateIdle

(***************************************************************************)
(* authorization_changed_cb: the policy, the sessions or the owner of      *)
(* polkit changed.  The generation does not wrap.                          *)
(***************************************************************************)
AuthorizationChanged ==
  /\ Callback /\ authority /\ ~stopping
  /\ \/ /\ generation = MaxGeneration
        /\ FailUnsafePolicy({})
        /\ UNCHANGED policy
     \/ /\ generation < MaxGeneration
        /\ generation' = generation + 1 /\ ready' = FALSE /\ validating' = TRUE
        /\ checked' = IF validating THEN checked ELSE generation + 1
        /\ CancelPendingAuthorizations({})
        /\ UNCHANGED <<authority, bus, stopping, failed>>
  /\ UNCHANGED <<runner, pc>>
  /\ UpdateIdle

\* bus_acquired_cb and name_acquired_cb.
BusAcquired ==
  /\ Callback /\ bus = "requested" /\ ~stopping
  /\ \/ bus' = "exported" /\ UNCHANGED <<calls, stopping, failed>>
     \/ /\ stopping' = TRUE /\ failed' = TRUE
        /\ CancelPendingAuthorizations({}) /\ UNCHANGED bus
  /\ UNCHANGED <<authority, validating, ready, generation, checked, runner, pc>>
  /\ UpdateIdle

\* shutdown_signal_cb and name_lost_cb; the runner is told to stop, which makes
\* its run end sooner.
Shutdown ==
  /\ Callback
  /\ \/ UNCHANGED failed
     \/ bus # "none" /\ failed' = TRUE
  /\ stopping' = TRUE
  /\ CancelPendingAuthorizations({})
  /\ UNCHANGED <<policy, runner, pc>>
  /\ UpdateIdle

IdleTimeout ==
  /\ Callback /\ idle
  /\ idle' = FALSE
  /\ loop' = IF PendingWork THEN loop ELSE "quit"
  /\ UNCHANGED <<calls, policy, runner, stopping, failed, pc>>

-----------------------------------------------------------------------------
(* D-Bus calls and their authorization.                                    *)

\* sender_can_admit and the limit on pending authorizations.
CanAdmit(s, kind) == count < MaxPending /\ kind \notin slots[s]

\* begin_authorization.
BeginAuthorization(s, r, kind) ==
  /\ ~Live(r)
  /\ req' = [req EXCEPT ![r] = [stage |-> "auth", kind |-> kind, from |-> s,
                                gen |-> generation]]
  /\ reply' = [reply EXCEPT ![r] = "none"]
  /\ slots' = [slots EXCEPT ![s] = @ \cup {kind}]
  /\ count' = count + 1
  /\ pending' = IF kind = "action" THEN r ELSE pending
  /\ idle' = FALSE
  /\ UNCHANGED <<active, policy, runner, stopping, failed, loop, pc>>

HandleExecute(s, r) ==
  /\ Callback /\ bus = "exported" /\ ~stopping /\ ready
  /\ active # NoRequest => req[active].kind = "inventory"
  /\ pending = NoRequest
  /\ CanAdmit(s, "action")
  /\ BeginAuthorization(s, r, "action")

HandleListProfiles(s, r) ==
  /\ Callback /\ bus = "exported" /\ ~stopping /\ ready
  /\ active = NoRequest
  /\ ~Waiting
  /\ CanAdmit(s, "inventory")
  /\ BeginAuthorization(s, r, "inventory")

\* authorization_is_current, but for the clock: the deadline may have passed.
AuthorizationIsCurrent(r) ==
  /\ Authorizing(r) /\ reply[r] = "none"
  /\ ~stopping /\ ready /\ req[r].gen = generation

\* reject_authorization, and the refusal in continue_authorized_request.
RejectAuthorization(r) ==
  /\ Answer(r, "refused")
  /\ RequestFree(r)
  /\ CallProgress
  /\ UNCHANGED <<policy, runner, stopping, failed>>
  /\ UpdateIdle

\* The caller is authorized: now the policy itself is checked once more.
AuthorizationChecked(r) ==
  /\ Callback /\ req[r].stage = "auth"
  /\ \/ RejectAuthorization(r)
     \/ /\ AuthorizationIsCurrent(r)
        /\ req' = [req EXCEPT ![r].stage = "policy"]
        /\ UNCHANGED <<reply, slots, count, active, pending, policy, runner,
                       process, pc>>

\* The refusals of continue_authorized_request.
CannotContinue(r) ==
  \/ stopping
  \/ active # NoRequest /\ ~(pending = r /\ req[active].kind = "inventory")
  \/ Waiting /\ pending # r
  \/ pending # r /\ Busy

(***************************************************************************)
(* continue_authorized_request: an action supersedes inventories that are  *)
(* being authorized, stops and answers one that runs, and waits for the    *)
(* runner.                                                                 *)
(***************************************************************************)
ContinueAction(r) ==
  LET superseded == {i \in Requests : Authorizing(i) /\ req[i].kind = "inventory"}
      preempts   == active # NoRequest
  IN /\ req' = [req EXCEPT ![r].stage = "waiting"]
     /\ count' = count - 1
     /\ sent' = (sent \/ preempts)
     /\ reply' = [i \in Requests |->
                    IF reply[i] # "none" THEN reply[i]
                    ELSE IF i \in superseded THEN "refused"
                    ELSE IF preempts /\ ~sent /\ i = active THEN "result"
                    ELSE reply[i]]
     /\ pc' = "progress"
     /\ UNCHANGED <<slots, active, pending, policy, run, children, broken, process>>

ContinueInventory(r) ==
  /\ req' = [req EXCEPT ![r].stage = "active"]
  /\ count' = count - 1
  /\ active' = r
  /\ pc' = "start"
  /\ UNCHANGED <<reply, slots, pending, policy, runner, process>>

RequestPolicyChecked(r) ==
  /\ Callback /\ req[r].stage = "policy"
  /\ \/ RejectAuthorization(r)
     \/ /\ AuthorizationIsCurrent(r)
        /\ FailUnsafePolicy({r})
        /\ UNCHANGED <<policy, runner, pc>>
        /\ UpdateIdle
     \/ /\ AuthorizationIsCurrent(r) /\ ~CannotContinue(r)
        /\ IF pending = r THEN ContinueAction(r) ELSE ContinueInventory(r)

\* cancel_authorization by the timer: the callback still owns the request.
AuthorizationTimeout(r) ==
  /\ Callback /\ Authorizing(r)
  /\ Answer(r, "refused")
  /\ pending' = IF pending = r THEN NoRequest ELSE pending
  /\ UNCHANGED <<req, slots, count, active, policy, runner, process>>
  /\ CallProgress

-----------------------------------------------------------------------------
(* The pending action and the runner.                                      *)

\* Mutant: the request is freed without a reply.
GiveUpPendingAction_Silently ==
  /\ RequestFree(pending)
  /\ UNCHANGED <<reply, policy, runner, stopping, failed>>
  /\ UpdateIdle

\* Stopping, or the preempt deadline has passed.
GiveUpPendingAction ==
  /\ Answer(pending, "refused")
  /\ RequestFree(pending)
  /\ UNCHANGED <<policy, runner, stopping, failed>>
  /\ UpdateIdle

\* progress_pending_action, with an action that waits.
ProgressPendingAction ==
  /\ pc = "progress"
  /\ \/ pc' = "loop" /\ GiveUpPendingAction
     \/ /\ ~stopping /\ (active # NoRequest \/ Busy)
        /\ pc' = "loop"
        /\ UNCHANGED <<calls, process, policy, runner>>
     \/ /\ ~stopping /\ active = NoRequest /\ ~Busy
        /\ req' = [req EXCEPT ![pending].stage = "active"]
        /\ active' = pending /\ pending' = NoRequest
        /\ pc' = "start"
        /\ UNCHANGED <<reply, slots, count, policy, runner, process>>

\* Mutant: no timer is armed for the preemption.
PreemptTimeout_Unarmed == FALSE

PreemptTimeout ==
  /\ Callback /\ Waiting
  /\ GiveUpPendingAction
  /\ UNCHANGED pc

(***************************************************************************)
(* start_helper.  When the spawn fails, the result and the change are      *)
(* delivered before it returns; the change frees the request.              *)
(***************************************************************************)
StartHelper ==
  /\ pc = "start"
  /\ UNCHANGED <<children, broken, policy>>
  /\ \/ /\ ~broken /\ ~Busy
        /\ run' = active /\ sent' = FALSE
        /\ UNCHANGED <<calls, process>>
     \/ /\ Answer(active, IF broken \/ Busy THEN "refused" ELSE "result")
        /\ RequestFree(active)
        /\ UNCHANGED <<run, sent, stopping, failed>>
        /\ UpdateIdle
  /\ CallProgress

(***************************************************************************)
(* finish_run and helper_runner_changed_cb.  Sentinels that were killed    *)
(* but not reaped yet, and a detached helper, may stay behind.             *)
(***************************************************************************)
FinishRun ==
  /\ Callback /\ run # NoRequest
  /\ PublishResult
  /\ run' = NoRequest
  /\ children' \in BOOLEAN
  /\ RequestFree(active)
  /\ CallProgress
  /\ UNCHANGED <<broken, policy, stopping, failed>>
  /\ UpdateIdle

\* detach_stalled_helper: the helper of an action survives its kill for too long
\* and becomes a child left behind; the run ends without it.
DetachStalledHelper ==
  /\ Callback /\ run # NoRequest /\ req[run].kind = "action" /\ ~children
  /\ children' = TRUE
  /\ UNCHANGED <<run, sent, broken, calls, policy, process, pc>>

\* Mutant: the early answer releases the active request.
PublishAtHardDeadline_Releases ==
  /\ Callback /\ run # NoRequest /\ req[run].kind = "inventory" /\ ~sent
  /\ PublishResult
  /\ RequestFree(active)
  /\ UNCHANGED <<run, children, broken, policy, process, pc>>

\* An inventory past its hard deadline is answered before it is cleaned up.
PublishAtHardDeadline ==
  /\ Callback /\ run # NoRequest /\ req[run].kind = "inventory" /\ ~sent
  /\ PublishResult
  /\ UNCHANGED <<req, slots, count, active, pending, run, children, broken,
                 policy, process, pc>>

\* mark_failed: a child is lost.  The service stops admitting; the run goes on.
RunnerFails ==
  /\ Callback /\ run # NoRequest /\ ~broken
  /\ broken' = TRUE
  /\ IF failed THEN UNCHANGED <<calls, stopping, failed>> ELSE FailUnsafePolicy({})
  /\ UNCHANGED <<run, sent, children, policy>>
  /\ UpdateIdle
  /\ CallProgress

\* The last child left behind dies; it is reaped by whoever looks next.
ChildrenDie ==
  /\ Callback /\ children
  /\ children' = FALSE
  /\ UNCHANGED <<run, sent, broken, calls, policy, process, pc>>

\* Mutant: the reaper does not report.
ReapChildren_Quietly ==
  /\ Callback
  /\ UNCHANGED vars

\* reap_children_cb, every second, reports a change.
ReapChildren ==
  /\ Callback
  /\ UNCHANGED <<calls, policy, runner, stopping, failed>>
  /\ UpdateIdle
  /\ CallProgress

-----------------------------------------------------------------------------

PolicyStep ==
  AuthorityReady \/ ServicePolicyChecked \/ PolicyValidationTimeout
    \/ AuthorizationChanged \/ BusAcquired \/ Shutdown \/ IdleTimeout

CallStep ==
  \E r \in Requests :
    \/ \E s \in Senders : HandleExecute(s, r) \/ HandleListProfiles(s, r)
    \/ AuthorizationChecked(r) \/ RequestPolicyChecked(r) \/ AuthorizationTimeout(r)

RunnerStep ==
  ProgressPendingAction \/ PreemptTimeout \/ StartHelper \/ FinishRun
    \/ DetachStalledHelper \/ PublishAtHardDeadline \/ RunnerFails \/ ChildrenDie
    \/ ReapChildren

\* The process has exited.
Exited == loop = "quit" /\ pc = "loop" /\ UNCHANGED vars

Next == PolicyStep \/ CallStep \/ RunnerStep \/ Exited

-----------------------------------------------------------------------------
(***************************************************************************)
(* Fairness.  A callback runs to its end.  GLib dispatches a timer that    *)
(* expired and polls the runner, so a step that a timer or a poll takes is *)
(* taken if it stays possible or becomes possible again and again between  *)
(* other callbacks.  A cancelled polkit call returns, and an action's run  *)
(* ends (its stalled helper is detached); an inventory's run may last.     *)
(* The children that were left behind need not die.  While the policy is   *)
(* checked or the idle timer runs no action waits for the runner, so that  *)
(* weak fairness does for them.                                            *)
(***************************************************************************)
CancelledCallReturns(r) ==
  reply[r] # "none" /\ (AuthorizationChecked(r) \/ RequestPolicyChecked(r))

AuthorizationExpires(r) == reply[r] = "none" /\ AuthorizationTimeout(r)

ActionRunEnds == run # NoRequest /\ req[run].kind = "action" /\ FinishRun

Fairness ==
  /\ WF_vars(ProgressPendingAction \/ StartHelper)
  /\ \A r \in Requests : SF_vars(AuthorizationExpires(r) \/ CancelledCallReturns(r))
  /\ WF_vars(AuthorityReady \/ ServicePolicyChecked)
  /\ SF_vars(PreemptTimeout)
  /\ SF_vars(ActionRunEnds \/ PublishAtHardDeadline)
  /\ SF_vars(ReapChildren)
  /\ WF_vars(IdleTimeout)

Spec == Init /\ [][Next]_vars /\ Fairness

-----------------------------------------------------------------------------
(* Invariants.                                                             *)

(***************************************************************************)
(* The bookkeeping agrees with the requests that exist: count is the       *)
(* number being authorized, a sender's slot is taken exactly while one     *)
(* request of that kind from it lives, and each live request is owned by   *)
(* its callback, by pending_action or by active_request.  It is kept by    *)
(* begin_authorization, finish_authorization and request_free.             *)
(***************************************************************************)
Bookkeeping ==
  /\ count = Cardinality({r \in Requests : Live(r) /\ Authorizing(r)})
  /\ \A s \in Senders, k \in Kinds :
       Cardinality({r \in Requests : Live(r) /\ req[r].from = s /\ req[r].kind = k})
         = IF k \in slots[s] THEN 1 ELSE 0
  /\ \A r \in Requests : Live(r) =>
       /\ (req[r].stage = "active") <=> (active = r)
       /\ (req[r].stage = "waiting") => (pending = r)
       /\ reply[r] = "none" /\ req[r].kind = "action" => r \in {active, pending}

(***************************************************************************)
(* A grant does not outlive a change of the policy or of the sessions: an  *)
(* action that waits for the runner, and a request about to be started,    *)
(* were authorized under the current generation, which the service has     *)
(* checked, and the service is not stopping.                               *)
(***************************************************************************)
GrantIsCurrent ==
  \A r \in Requests :
    Live(r) /\ (req[r].stage = "waiting" \/ (pc = "start" /\ active = r)) =>
      ready /\ ~stopping /\ req[r].gen = generation

(***************************************************************************)
(* A request is handed to the runner only when it will be accepted: no     *)
(* helper runs, no child of an earlier one is left and the runner has not  *)
(* failed.  start_helper's "busy" reply to an authorized caller is never   *)
(* sent; an early answer to an inventory does not free the runner.         *)
(***************************************************************************)
HandoffIsAccepted == pc = "start" => run = NoRequest /\ ~children /\ ~broken

(***************************************************************************)
(* helper_runner_changed_cb keeps active_request until the run is over:    *)
(* the run is always the active request's, there is no active request      *)
(* without a run but the one being started, and while it runs its caller   *)
(* has an answer exactly when the runner has sent its result.              *)
(***************************************************************************)
RunHasItsCaller ==
  /\ run # NoRequest => active = run /\ Live(run) /\ (sent <=> reply[run] # "none")
  /\ active # NoRequest => run = active \/ pc = "start"

(***************************************************************************)
(* The process leaves its main loop only with every admitted call answered *)
(* and freed, no policy check under way, no helper and no child to reap.   *)
(***************************************************************************)
QuitLeavesNothing ==
  loop = "quit" =>
    /\ \A r \in Requests : ~Live(r)
    /\ ~validating /\ run = NoRequest /\ ~children

-----------------------------------------------------------------------------
(* Action properties and liveness.                                         *)

(***************************************************************************)
(* No request object is freed before its caller was answered, and the      *)
(* answer that was sent is never replaced while the request lives.         *)
(***************************************************************************)
NoSilentDrop ==
  [][\A r \in Requests : Live(r) =>
       /\ req'[r] = Unused => reply'[r] # "none"
       /\ reply[r] # "none" => reply'[r] = reply[r]]_vars

(***************************************************************************)
(* Every admitted call is answered, however polkit, the runner or an       *)
(* unkillable inventory behave: the authorization, preemption and hard     *)
(* deadlines cover all the stages of a request.                            *)
(***************************************************************************)
AnsweredEventually ==
  \A r \in Requests : (Live(r) /\ reply[r] = "none") ~> (reply[r] # "none")

(***************************************************************************)
(* A service that is stopping leaves its main loop, provided inventories   *)
(* end and killed children die.                                            *)
(***************************************************************************)
HelpersDie == SF_vars(FinishRun) /\ SF_vars(ChildrenDie)

StoppingEnds == HelpersDie => (stopping ~> loop = "quit")

\* A service without work gets some or exits: the idle timer is armed.
QuietServiceExits == ~PendingWork ~> (PendingWork \/ loop = "quit")

\* The service and the runner agree on who runs: a helper is only started where the
\* runner accepts it, and a run keeps the request that will be answered with its result.
RunsAreOwned ==
  /\ TypeOK
  /\ HandoffIsAccepted
  /\ RunHasItsCaller

\* Every admitted call is answered: none is freed without a reply, and the deadlines of
\* authorization, preemption and runner end every wait.
CallsAreAnswered == NoSilentDrop /\ AnsweredEventually

\* The process ends when it is told to, once its helpers are gone, and when nobody needs
\* it: no callback forgets to recompute the idle state.
ServiceEnds == StoppingEnds /\ QuietServiceExits

-----------------------------------------------------------------------------
(***************************************************************************)
(* The inductive invariant of the proofs in AwgServiceProofs.              *)
(***************************************************************************)

\* pending_authorizations counts the requests whose callback is still to come.
CountIsTrue ==
  /\ IsFiniteSet({r \in Requests : Authorizing(r)})
  /\ count = Cardinality({r \in Requests : Authorizing(r)})

\* A slot is taken exactly while a request of that sender and kind lives, and
\* no two requests share one.
SlotsAreTrue ==
  /\ \A s \in Senders, k \in Kinds :
       k \in slots[s] <=> \E r \in Requests : Live(r) /\ req[r].from = s /\ req[r].kind = k
  /\ \A q, r \in Requests :
       Live(q) /\ Live(r) /\ req[q].from = req[r].from /\ req[q].kind = req[r].kind => q = r

\* active_request and pending_action name live requests of the right stage, and
\* every request that is past its authorization has an owner.
OwnersAreTrue ==
  /\ active # NoRequest => Live(active) /\ req[active].stage = "active"
  /\ pending # NoRequest => /\ Live(pending) /\ req[pending].stage # "active"
                            /\ req[pending].kind = "action" /\ reply[pending] = "none"
  /\ \A r \in Requests : Live(r) =>
       /\ req[r].stage = "active" => active = r
       /\ req[r].stage = "waiting" => pending = r
       /\ reply[r] = "none" /\ req[r].kind = "action" => r \in {active, pending}

\* What each point of control relies on.
ControlIsTrue ==
  /\ pc = "progress" => Waiting
  /\ pc = "start" => active # NoRequest /\ reply[active] = "none"
  /\ loop = "quit" => pc = "loop"
  /\ failed \/ broken => stopping

IndInv ==
  /\ TypeOK
  /\ CountIsTrue /\ SlotsAreTrue /\ OwnersAreTrue
  /\ ControlIsTrue
  /\ GrantIsCurrent /\ HandoffIsAccepted /\ RunHasItsCaller
  /\ QuitLeavesNothing
=============================================================================
