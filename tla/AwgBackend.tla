------------------------------ MODULE AwgBackend ------------------------------
(***************************************************************************)
(* The sidebar's side of the system service (amneziawg/backend.c): what it *)
(* believes about its authorization, and calls with a deadline, a caller   *)
(* that may cancel and a transport that may answer late.                   *)
(*                                                                         *)
(* polkitd and the message bus are external.  polkitd decides a check      *)
(* before it sends the answer; its messages arrive in the order sent.      *)
(***************************************************************************)
EXTENDS Naturals, Sequences

CONSTANTS Calls,        \* calls of the controller and the inventory
          MaxFlips,     \* bound on policy changes
          MaxFailures   \* bound on failures of polkitd and of the bus

ASSUME BackendBoundsAssumption == MaxFlips \in Nat /\ MaxFailures \in Nat

VARIABLES
  phase,      \* started, stopping
  auth,       \* authority, check pending, recheck, retry timer, last report
  granted,    \* the policy (external)
  asked,      \* the check at polkitd: none, asked, or decided
  inbox,      \* messages of polkitd
  call,       \* [Calls -> BackendCall]
  flips, failures

backendVars == <<phase, auth, granted, asked, inbox, call, flips, failures>>

NewCall == [st |-> "none", over |-> FALSE, cancelled |-> FALSE, transport |-> FALSE,
            callbacks |-> 0, result |-> "none"]
Results == {"none", "cancelled", "timed_out", "bus_unavailable", "not_authorized", "busy",
            "failed", "reply"}

BackendInit ==
  /\ phase = "new"
  /\ auth = [authority |-> "none", check |-> FALSE, recheck |-> FALSE, retry |-> FALSE, told |-> FALSE]
  /\ granted \in BOOLEAN /\ asked = "none" /\ inbox = <<>>
  /\ call = [c \in Calls |-> NewCall] /\ flips = 0 /\ failures = 0

IsRunning == phase = "running"
Failure(p) == IF p THEN failures < MaxFailures /\ failures' = failures + 1 ELSE UNCHANGED failures

-----------------------------------------------------------------------------
(* Authorization.                                                          *)

\* notify_authorization.
Told(a, b) == [a EXCEPT !.told = b, !.retry = @ /\ ~b]

\* start_authorization_check.
CanCheck(a) == a.authority = "ready" /\ ~a.check
Checked(a)  == IF CanCheck(a) THEN [a EXCEPT !.check = TRUE] ELSE a
Ask(a)      == asked' = IF CanCheck(a) THEN "asked" ELSE asked

\* Mutant: a failed check is not tried again.
WithRetry_Never(a) == a

\* schedule_authorization_retry.
WithRetry(a) == [a EXCEPT !.retry = TRUE]

\* network_sidebar_awg_backend_start and request_authority.
StartBackend ==
  /\ phase = "new" /\ phase' = "running"
  /\ auth' = [auth EXCEPT !.authority = "getting"]
  /\ UNCHANGED <<granted, asked, inbox, call, flips, failures>>

\* authority_ready_cb.
AuthorityReady ==
  /\ IsRunning /\ auth.authority = "getting"
  /\ \E ok \in BOOLEAN :
       /\ Failure(~ok)
       /\ LET a == [auth EXCEPT !.authority = IF ok THEN "ready" ELSE "none"]
          IN /\ auth' = IF ok THEN Checked(a) ELSE WithRetry(a)
             /\ Ask(a)
  /\ UNCHANGED <<phase, granted, inbox, call, flips>>

\* network_sidebar_awg_backend_invalidate_authorization on a.
Invalidated(a) ==
  IF a.check THEN [Told(a, FALSE) EXCEPT !.recheck = TRUE] ELSE Checked(Told(a, FALSE))

\* authority_changed_cb and authority_owner_changed_cb.
AuthorityChanged ==
  /\ IsRunning /\ inbox # <<>> /\ Head(inbox) = "changed"
  /\ inbox' = Tail(inbox)
  /\ auth' = Invalidated(auth) /\ Ask(auth)
  /\ UNCHANGED <<phase, granted, call, flips, failures>>

\* Mutant: the answer that came is used, whatever happened since it was asked for.
Finished_Now(a, b) == Told([a EXCEPT !.check = FALSE, !.recheck = FALSE], b)

\* finish_authorization_check: an answer that a change has overtaken is not used,
\* and asked for again.
Finished(a, b) ==
  IF a.recheck THEN Checked(Told([a EXCEPT !.check = FALSE, !.recheck = FALSE], FALSE))
  ELSE Told([a EXCEPT !.check = FALSE], b)

\* authorization_check_cb.
CheckAnswered ==
  /\ inbox # <<>> /\ Head(inbox) # "changed"
  /\ inbox' = Tail(inbox)
  /\ LET a == Finished(auth, Head(inbox) = "yes")
     IN auth' = IF ~IsRunning THEN [auth EXCEPT !.check = FALSE]
                ELSE IF Head(inbox) = "error" THEN WithRetry(a) ELSE a
  /\ asked' = IF auth'.check THEN "asked" ELSE "none"
  /\ UNCHANGED <<phase, granted, call, flips, failures>>

\* authorization_retry_cb.
RetryAuthorization ==
  /\ IsRunning /\ auth.retry
  /\ LET a == [auth EXCEPT !.retry = FALSE]
     IN /\ auth' = IF a.authority = "none" THEN [a EXCEPT !.authority = "getting"] ELSE Checked(a)
        /\ Ask(a)
  /\ UNCHANGED <<phase, granted, inbox, call, flips, failures>>

\* polkitd (external): the policy changes, a check is decided, answered or fails.
PolicyChanges ==
  /\ flips < MaxFlips /\ flips' = flips + 1
  /\ granted' = ~granted
  /\ inbox' = IF auth.authority = "ready" THEN Append(inbox, "changed") ELSE inbox
  /\ UNCHANGED <<phase, auth, asked, call, failures>>

Decide ==
  /\ asked = "asked"
  /\ asked' = IF granted THEN "yes" ELSE "no"
  /\ UNCHANGED <<phase, auth, granted, inbox, call, flips, failures>>

Answer ==
  /\ asked \in {"yes", "no"}
  /\ \E fails \in BOOLEAN :
       /\ Failure(fails)
       /\ inbox' = Append(inbox, IF fails THEN "error" ELSE asked)
  /\ asked' = "sent"
  /\ UNCHANGED <<phase, auth, granted, call, flips>>

-----------------------------------------------------------------------------
(* Calls.                                                                  *)

\* Mutant: nothing remembers that the call was completed.
Delivered_Again(x, r) ==
  [x EXCEPT !.st = "done", !.callbacks = IF @ < 2 THEN @ + 1 ELSE @, !.result = r]

\* deliver_result.
Delivered(x, r) ==
  IF x.callbacks > 0 THEN x
  ELSE [x EXCEPT !.st = "done", !.callbacks = @ + 1, !.result = r]

\* Mutant: the deadline and the answer of the transport are not told of a stop.
MustEnd_Deaf(x) ==
  IF x.st = "done" THEN "done" ELSE IF x.over THEN "timed_out" ELSE "none"

\* backend_call_remaining: why the call must end now, or none.
MustEnd(x) ==
  IF x.st = "done" THEN "done"
  ELSE IF ~IsRunning \/ x.cancelled THEN "cancelled"
  ELSE IF x.over THEN "timed_out" ELSE "none"

Set(c, x) == call' = [call EXCEPT ![c] = x]

\* Mutant: a call to a stopped backend is answered by leaving it open.
Execute_Lost(c) ==
  /\ call[c].st = "none" /\ phase # "new"
  /\ Set(c, IF ~IsRunning THEN [call[c] EXCEPT !.st = "lost"]
            ELSE [call[c] EXCEPT !.st = "bus", !.transport = TRUE])
  /\ UNCHANGED <<phase, auth, granted, asked, inbox, flips, failures>>

\* network_sidebar_awg_backend_execute.
Execute(c) ==
  /\ call[c].st = "none" /\ phase # "new"
  /\ Set(c, IF ~IsRunning THEN Delivered(call[c], "cancelled")
            ELSE [call[c] EXCEPT !.st = "bus", !.transport = TRUE])
  /\ UNCHANGED <<phase, auth, granted, asked, inbox, flips, failures>>

\* service_bus_ready_cb, and with it the transport's first answer.
BusReady(c) ==
  /\ call[c].transport /\ call[c].st \in {"bus", "done"}
  /\ \E ok \in BOOLEAN :
       /\ Failure(~ok)
       /\ LET x   == [call[c] EXCEPT !.transport = FALSE]
              end == MustEnd(x)
          IN Set(c, IF end = "done" THEN Delivered(x, "cancelled")
                    ELSE IF end # "none" THEN Delivered(x, end)
                    ELSE IF ~ok THEN Delivered(x, "bus_unavailable")
                    ELSE [x EXCEPT !.st = "sent", !.transport = TRUE])
  /\ UNCHANGED <<phase, auth, granted, asked, inbox, flips>>

\* service_call_cb.  A caller that is told the service refuses it invalidates its
\* authorization in the callback (backend_service_result, inventory_result_cb).
CallReturns(c) ==
  /\ call[c].transport /\ call[c].st = "sent"
  /\ \E r \in {"reply", "busy", "not_authorized", "timed_out", "failed"} :
       LET x   == [call[c] EXCEPT !.transport = FALSE]
           end == MustEnd(x)
           a   == end = "none" /\ r = "not_authorized"
       IN /\ Set(c, Delivered(x, IF end # "none" THEN end ELSE r))
          /\ auth' = IF a THEN Invalidated(auth) ELSE auth
          /\ IF a THEN Ask(auth) ELSE UNCHANGED asked
  /\ UNCHANGED <<phase, granted, inbox, flips, failures>>

\* Mutant: the deadline only counts while the bus is being reached.
Deadline_BusOnly(c) ==
  /\ call[c].st = "bus" /\ call[c].over
  /\ Set(c, Delivered(call[c], MustEnd(call[c])))
  /\ UNCHANGED <<phase, auth, granted, asked, inbox, flips, failures>>

\* call_deadline_cb.
Deadline(c) ==
  /\ call[c].st \in {"bus", "sent"} /\ call[c].over
  /\ Set(c, Delivered(call[c], MustEnd(call[c])))
  /\ UNCHANGED <<phase, auth, granted, asked, inbox, flips, failures>>

\* The caller gives up (preemption of an inventory); time passes.
Cancel(c) ==
  /\ call[c].st \in {"bus", "sent"} /\ ~call[c].cancelled
  /\ Set(c, [call[c] EXCEPT !.cancelled = TRUE])
  /\ UNCHANGED <<phase, auth, granted, asked, inbox, flips, failures>>

TimePasses(c) ==
  /\ call[c].st \in {"bus", "sent"} /\ ~call[c].over
  /\ Set(c, [call[c] EXCEPT !.over = TRUE])
  /\ UNCHANGED <<phase, auth, granted, asked, inbox, flips, failures>>

\* backend_stop_internal.
StopBackend ==
  /\ IsRunning /\ phase' = "stopped"
  /\ auth' = [auth EXCEPT !.authority = "none", !.retry = FALSE, !.recheck = FALSE]
  /\ UNCHANGED <<granted, asked, inbox, call, flips, failures>>

-----------------------------------------------------------------------------

CallStep(c) == Execute(c) \/ BusReady(c) \/ CallReturns(c) \/ Deadline(c) \/ Cancel(c) \/ TimePasses(c)

BackendNext ==
  \/ StartBackend \/ StopBackend \/ AuthorityReady \/ AuthorityChanged
  \/ CheckAnswered \/ RetryAuthorization \/ PolicyChanges \/ Decide \/ Answer
  \/ \E c \in Calls : CallStep(c)

BackendSpec == BackendInit /\ [][BackendNext]_backendVars

\* The main loop runs its callbacks, polkitd answers, time passes; a transport need
\* not answer, and the policy need not change.
LiveBackendSpec ==
  /\ BackendSpec
  /\ WF_backendVars(StartBackend) /\ WF_backendVars(AuthorityReady)
  /\ WF_backendVars(AuthorityChanged) /\ WF_backendVars(CheckAnswered)
  /\ WF_backendVars(RetryAuthorization) /\ WF_backendVars(Decide) /\ WF_backendVars(Answer)
  /\ \A c \in Calls : WF_backendVars(TimePasses(c)) /\ WF_backendVars(Deadline(c))

-----------------------------------------------------------------------------
(* Properties.                                                             *)

BackendTypeOK ==
  /\ phase \in {"new", "running", "stopped"}
  /\ auth \in [authority : {"none", "getting", "ready"}, check : BOOLEAN, recheck : BOOLEAN,
               retry : BOOLEAN, told : BOOLEAN]
  /\ asked \in {"none", "asked", "yes", "no", "sent"}
  /\ call \in [Calls -> [st : {"none", "bus", "sent", "done"}, over : BOOLEAN, cancelled : BOOLEAN,
                         transport : BOOLEAN, callbacks : 0 .. 2, result : Results]]

\* The sidebar takes itself for authorized only if the policy grants it, or the
\* message that it no longer does is waiting: no answer that was decided before a
\* change is believed after it (finish_authorization_check,
\* network_sidebar_awg_backend_invalidate_authorization).
BeliefIsCurrent ==
  IsRunning /\ auth.told => granted \/ \E k \in 1 .. Len(inbox) : inbox[k] = "changed"

\* The callback of a call runs exactly once, whichever of reply, cancellation, stop
\* and deadline come and in whatever order (deliver_result).
AnsweredOnce ==
  \A c \in Calls : call[c].callbacks = IF call[c].st = "done" THEN 1 ELSE 0

\* Nothing but a cancellation is reported once the backend has stopped or the caller
\* has cancelled: a reply that is already on its way is not taken for an answer
\* (backend_call_remaining).
NoAnswerAfterStop ==
  [][\A c \in Calls :
       call'[c].callbacks # call[c].callbacks /\ (phase = "stopped" \/ call[c].cancelled)
         => call'[c].result = "cancelled"]_backendVars

\* A call ends although no transport answers.
CallEnds == \A c \in Calls : call[c].st = "bus" ~> call[c].st = "done"

\* When the policy no longer changes, the sidebar comes to know it.
BeliefSettles == <>[](phase = "running") => <>[](auth.told = granted)

\* An answer is as good as what the backend knows: a call's callback runs at most once,
\* and what is believed about the policy is not from before a change that was noticed.
AnswersAreSound ==
  /\ BackendTypeOK
  /\ BeliefIsCurrent
  /\ AnsweredOnce

\* Every wait of the backend ends: a call is answered, though not after the backend was
\* stopped, and the belief comes to rest on the policy in force.
BackendSettles ==
  /\ NoAnswerAfterStop
  /\ CallEnds
  /\ BeliefSettles

-----------------------------------------------------------------------------
(* The inductive invariant behind AnswersAreSound.                         *)

Messages == {"changed", "yes", "no", "error"}

\* The policy is as an affirmative answer said, or word of the change is coming.
WordIsComing == granted \/ \E k \in 1 .. Len(inbox) : inbox[k] = "changed"

\* At most one check is under way, and polkitd holds it or its one answer is in the
\* inbox.
CheckIsTracked ==
  /\ inbox \in Seq(Messages)
  /\ auth.check <=> asked # "none"
  /\ auth.recheck => IsRunning /\ auth.check
  /\ \A k \in 1 .. Len(inbox) : inbox[k] # "changed" => asked = "sent"
  /\ \A k, m \in 1 .. Len(inbox) : inbox[k] # "changed" /\ inbox[m] # "changed" => k = m

\* The changes of the policy are subscribed to before a check is asked for, and
\* until the backend stops.
SubscribedFirst ==
  /\ phase = "new" => auth.authority = "none" /\ ~auth.check /\ ~auth.told
  /\ IsRunning /\ (auth.check \/ auth.told) => auth.authority = "ready"

\* An affirmative answer that is still to be used is current, unless word of a change
\* comes before it is used or after.
AnswersAreCurrent ==
  IsRunning =>
    /\ auth.told => WordIsComing
    /\ asked = "yes" /\ ~auth.recheck => WordIsComing
    /\ (\E k \in 1 .. Len(inbox) : inbox[k] = "yes") /\ ~auth.recheck => WordIsComing

BackendInv ==
  /\ BackendTypeOK
  /\ AnsweredOnce
  /\ CheckIsTracked
  /\ SubscribedFirst
  /\ AnswersAreCurrent

=============================================================================
