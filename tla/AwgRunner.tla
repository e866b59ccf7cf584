----------------------------- MODULE AwgRunner -----------------------------
(***************************************************************************)
(* One helper run seen from inside: the runner of the service              *)
(* (amneziawg_helper_runner.c) with its supervisor of process groups       *)
(* (amneziawg_supervisor.c), and the helper's side of supervision          *)
(* (amneziawg_process.c, amneziawg_subprocess.c).  Service and helper are  *)
(* two processes that exchange one request at a time over a socket pair.   *)
(* Every program the helper runs is a process group; a sentinel of the     *)
(* service holds the group's number.                                       *)
(*                                                                         *)
(* The clock is 0 before forward_at; then forward_at, cleanup_at and       *)
(* hard_at have passed, and from 3 on it counts polls that are a grace     *)
(* period apart.  Grace periods before may end at any moment, and have     *)
(* ended once the deadline that caps them passed.  An inventory has no     *)
(* time for cleanup: its second deadline is its first.                     *)
(* The poll callback is split where the helper can act in between.         *)
(***************************************************************************)
EXTENDS Naturals, FiniteSets

CONSTANTS Groups,      \* process group numbers
          None,        \* no group, no message
          Operations,  \* subset of {"up", "list", "other"}
          MaxGroups,   \* MAX_SUPERVISED_GROUPS
          MaxFaults,   \* bound on failures and on the service's requests to stop
          MaxRuns      \* bound on the runs, failures and requests together

ASSUME GroupsAssumption == None \notin Groups /\ "helper" \notin Groups
ASSUME OperationsAssumption == Operations \subseteq {"up", "list", "other"}
ASSUME MaxGroupsAssumption == MaxGroups \in Nat \ {0} /\ MaxFaults \in Nat /\ MaxRuns \in Nat

VARIABLES
  job,       \* the run of the runner
  sup,       \* its supervisor
  at,        \* where the service is in helper_poll_cb
  tracked,   \* released_groups
  reaps,     \* pending_child_reaps: "helper" or the group of a sentinel
  h,         \* the helper's variables
  hp,        \* the helper process
  msg,       \* request in the socket pair
  ack,       \* reply in the socket pair
  prog,      \* [Groups -> the program]: "left" means that its first process
             \* exited and descendants run, "dead" that only zombies are left
  killed,    \* groups whose living members were sent SIGKILL
  sentinel,  \* [Groups -> the sentinel]
  lost,      \* groups whose sentinel somebody else killed
  backends,  \* groups that finalize_release let go
  stray,     \* a number was signalled that nothing held
  faults,    \* failures and requests to stop so far
  runs,      \* runs so far
  clock

service == <<job, sup, at, tracked, reaps, backends>>
helper  == <<h, hp>>
channel == <<msg, ack>>
system  == <<prog, killed, sentinel, lost, stray>>
runnerVars    == <<service, helper, channel, system, faults, runs, clock>>

OrNoGroup   == Groups \cup {None}
Reasons  == {"none", "timeout", "shutdown", "io", "preempted"}
Statuses == {"none", "success", "failed", "rollback", "signaled", "setup", "timeout"}
SupervisionRequests == [type : {"REGISTER", "UNREGISTER", "TERMINATING", "RELEASE", "WITHDRAW"},
             group : Groups]
ASSUME SupervisionAssumption == None \notin SupervisionRequests

\* RunStopReason and the fields of AwgHelperRun that decide something.
Runs ==
  [op : {"up", "list", "other"}, on : BOOLEAN,     \* on: runner->run is set
   stop : Reasons, io : BOOLEAN, exited : BOOLEAN, reaped : BOOLEAN, clean : BOOLEAN,
   int : BOOLEAN, kill : BOOLEAN, status : Statuses, forward : BOOLEAN,
   result : Statuses]

\* The supervisor; pend is the group whose release is pending (group_released).
Supervisors ==
  [owned : SUBSET Groups, pend : OrNoGroup, term : SUBSET Groups, dead : SUBSET Groups,
   retired : SUBSET Groups, allow : BOOLEAN, cancelled : BOOLEAN, cleanup : BOOLEAN,
   closed : BOOLEAN, failed : BOOLEAN]

\* The helper: ret is where a dispatched escalation goes back to.
Helpers ==
  [pc : {"work", "register", "wait", "term", "terming", "reap", "unregister",
         "dispatch", "release", "commit", "cas", "withdraw", "exit"},
   ret : {"work", "wait", "reap"}, cur : OrNoGroup, target : OrNoGroup,
   active : OrNoGroup, retained : OrNoGroup, asent : BOOLEAN, rsent : BOOLEAN,
   level : 0 .. 2, cleanup : BOOLEAN, committed : BOOLEAN, open : BOOLEAN,
   ok : BOOLEAN, last : BOOLEAN, status : Statuses]

\* The polls after hard_at by which a run has ended.
LastPoll == 3 + 5

RunnerTypeOK ==
  /\ job \in Runs /\ sup \in Supervisors /\ h \in Helpers
  /\ at \in {"loop", "poll", "stop", "repoll", "complete", "finish"}
  /\ tracked \subseteq Groups /\ reaps \subseteq Groups \cup {"helper"}
  /\ hp \in {"none", "running", "dying", "zombie"}
  /\ msg \in SupervisionRequests \cup {None} /\ ack \in {"none", "ok", "cancelled", "refused"}
  /\ prog \in [Groups -> {"none", "gated", "running", "left", "dead"}]
  /\ sentinel \in [Groups -> {"none", "alive", "zombie"}]
  /\ killed \subseteq Groups /\ lost \subseteq Groups
  /\ backends \subseteq Groups /\ stray \in BOOLEAN
  /\ faults \in 0 .. MaxFaults /\ runs \in 0 .. MaxRuns /\ clock \in 0 .. LastPoll

NewRun(op) ==
  [op |-> op, on |-> TRUE, stop |-> "none", io |-> FALSE, exited |-> FALSE,
   reaped |-> FALSE, clean |-> FALSE, int |-> FALSE, kill |-> FALSE,
   status |-> "none", forward |-> FALSE, result |-> "none"]

NewSupervisor(op) ==
  [owned |-> {}, pend |-> None, term |-> {}, dead |-> {}, retired |-> {},
   allow |-> op = "up", cancelled |-> FALSE, cleanup |-> FALSE,
   closed |-> FALSE, failed |-> FALSE]

NewHelper ==
  [pc |-> "work", ret |-> "work", cur |-> None, target |-> None, active |-> None,
   retained |-> None, asent |-> FALSE, rsent |-> FALSE, level |-> 0,
   cleanup |-> FALSE, committed |-> FALSE, open |-> TRUE, ok |-> TRUE,
   last |-> FALSE, status |-> "none"]

RunnerInit ==
  /\ \E op \in Operations : job = [NewRun(op) EXCEPT !.on = FALSE]
  /\ sup = NewSupervisor(job.op) /\ at = "loop" /\ tracked = {} /\ reaps = {}
  /\ h = NewHelper /\ hp = "none" /\ msg = None /\ ack = "none"
  /\ prog = [g \in Groups |-> "none"] /\ sentinel = [g \in Groups |-> "none"]
  /\ killed = {} /\ lost = {} /\ backends = {} /\ stray = FALSE
  /\ faults = 0 /\ runs = 0 /\ clock = 0

-----------------------------------------------------------------------------
(* Processes (external).                                                   *)

Fault == faults < MaxFaults /\ runs + faults < MaxRuns /\ faults' = faults + 1
FaultIf(p) == IF p THEN Fault ELSE UNCHANGED faults

\* A member of the group runs; zombies and the sentinel do not count.
Alive(g) == prog[g] \in {"gated", "running", "left"}

\* The number is taken: by a process or an unreaped zombie.
Held(g) == prog[g] # "none" \/ sentinel[g] # "none"

\* kill(-g, SIGKILL) for every g of S.  A program may take its time to die.
KillGroups(S) ==
  /\ killed' = killed \cup {g \in S : Alive(g)}
  /\ sentinel' = [g \in Groups |-> IF g \in S /\ sentinel[g] = "alive" THEN "zombie"
                                   ELSE sentinel[g]]
  /\ stray' = (stray \/ \E g \in S : ~Held(g))
  /\ UNCHANGED <<prog, lost>>

\* The helper's death kills its direct children (PR_SET_PDEATHSIG).
HelperDies ==
  /\ hp' = "zombie"
  /\ killed' = killed \cup {g \in Groups : prog[g] \in {"gated", "running"}}

\* The program's first process exits, alone or leaving descendants behind.
ProgramEnds(g) ==
  /\ prog[g] = "running"
  /\ \E p \in {"left", "dead"} :
       /\ prog' = [prog EXCEPT ![g] = p]
       /\ killed' = IF p = "dead" THEN killed \ {g} ELSE killed
  /\ UNCHANGED <<service, helper, channel, sentinel, lost, stray, faults, runs, clock>>

\* The descendants exit, or SIGKILL takes effect.
GroupEnds(g) ==
  /\ prog[g] = "left" \/ g \in killed
  /\ prog' = [prog EXCEPT ![g] = "dead"]
  /\ killed' = killed \ {g}
  /\ backends' = backends \ {g}
  /\ UNCHANGED <<job, sup, at, tracked, reaps, helper, channel, sentinel, lost, stray,
                 faults, runs, clock>>

\* Somebody kills a sentinel that the service still needs.
SentinelLost(g) ==
  /\ sentinel[g] = "alive" /\ g \in sup.owned
  /\ sentinel' = [sentinel EXCEPT ![g] = "zombie"]
  /\ lost' = lost \cup {g}
  /\ Fault
  /\ UNCHANGED <<service, helper, channel, prog, killed, stray, runs, clock>>

Tick ==
  /\ job.on /\ clock < 3
  /\ clock' = IF job.op = "list" /\ clock = 0 THEN 2 ELSE clock + 1
  /\ UNCHANGED <<service, helper, channel, system, faults, runs>>

-----------------------------------------------------------------------------
(* The helper.                                                             *)

Running == hp = "running"

\* network_sidebar_amneziawg_process_termination_requested.
TerminationRequested ==
  ~h.committed /\ (h.level = 2 \/ (h.level = 1 /\ ~h.cleanup))

\* The deadline of the current phase has passed.
PhaseIsOver == clock >= (IF h.cleanup THEN 2 ELSE 1)

\* supervision_exchange, first half.  With the channel closed, or after the
\* last deadline, nothing is sent and the exchange fails at once.
Send(type, g) ==
  IF h.open /\ clock < 2
    THEN msg' = [type |-> type, group |-> g] /\ ack' = "none"
    ELSE msg' = msg /\ ack' = "refused"

\* Second half: the reply arrived, or the wait failed: refused, closed by the
\* service, or not answered in time.  A failure closes the helper's end, and
\* the request may still be read.
Acknowledged == ack = "ok"
TimedOut     == ack = "none" /\ ~sup.closed
Exchanged    == ack \in {"ok", "refused"} \/ sup.closed \/ TimedOut
CloseUnless(ok) == h.open /\ ok

\* awg_subprocess_run: fork a gated child and ask the service to own its group.
Fork(g) ==
  /\ Running /\ h.pc = "work" /\ ~h.last
  /\ ~TerminationRequested /\ ~PhaseIsOver /\ ~Held(g)
  /\ prog' = [prog EXCEPT ![g] = "gated"] /\ lost' = lost \ {g}
  /\ Send("REGISTER", g)
  /\ h' = [h EXCEPT !.pc = "register", !.cur = g]
  /\ UNCHANGED <<service, hp, killed, sentinel, stray, faults, runs, clock>>

\* Mutant: the gate opens whatever the service answered.
Register_OpensGate ==
  /\ Running /\ h.pc = "register" /\ Exchanged
  /\ LET g == h.cur
         start == ~TerminationRequested
     IN /\ h' = [h EXCEPT !.active = IF Acknowledged THEN g ELSE @, !.asent = FALSE,
                          !.open = CloseUnless(Acknowledged),
                          !.pc = IF start THEN "wait" ELSE "term", !.ok = start]
        /\ prog' = [prog EXCEPT ![g] = IF start /\ @ = "gated" THEN "running" ELSE @]
  /\ ack' = "none" /\ FaultIf(TimedOut)
  /\ UNCHANGED <<service, hp, msg, killed, sentinel, lost, stray, runs, clock>>

\* network_sidebar_amneziawg_process_register_group.
Register ==
  /\ Running /\ h.pc = "register" /\ Exchanged
  /\ LET g == h.cur
         start == Acknowledged /\ ~TerminationRequested
     IN /\ h' = [h EXCEPT !.active = IF Acknowledged THEN g ELSE @, !.asent = FALSE,
                          !.open = CloseUnless(Acknowledged),
                          !.pc = IF start THEN "wait" ELSE "term", !.ok = start]
        /\ prog' = [prog EXCEPT ![g] = IF start /\ @ = "gated" THEN "running" ELSE @]
  /\ ack' = "none" /\ FaultIf(TimedOut)
  /\ UNCHANGED <<service, hp, msg, killed, sentinel, lost, stray, runs, clock>>

\* The wait loop ends without the program's exit: cancelled, too late, or I/O.
GiveUpProgram ==
  /\ Running /\ h.pc = "wait"
  /\ TerminationRequested \/ PhaseIsOver \/ prog[h.cur] = "running"
  /\ h' = [h EXCEPT !.pc = "term", !.ok = FALSE]
  /\ UNCHANGED <<service, hp, channel, system, faults, runs, clock>>

\* The program exited.  A successful awg-quick up whose userspace backend runs
\* is kept (retain_group), everything else is terminated with its descendants.
ProgramExits ==
  /\ Running /\ h.pc = "wait" /\ prog[h.cur] \in {"left", "dead"}
  /\ \/ h' = [h EXCEPT !.pc = "term", !.ok = TRUE]
     \/ h' = [h EXCEPT !.pc = "term", !.ok = FALSE]
     \/ /\ job.op = "up" /\ ~h.cleanup /\ h.retained = None
        /\ h' = [h EXCEPT !.pc = "work", !.cur = None, !.retained = h.cur,
                          !.rsent = h.asent, !.active = None, !.asent = FALSE]
  /\ UNCHANGED <<service, hp, channel, system, faults, runs, clock>>

\* begin_group_termination: only a registered group is announced.
Terminate ==
  /\ Running /\ h.pc = "term"
  /\ IF h.cur \in {h.active, h.retained}
       THEN Send("TERMINATING", h.cur)
       ELSE msg' = msg /\ ack' = "ok"
  /\ h' = [h EXCEPT !.pc = "terming"]
  /\ UNCHANGED <<service, hp, system, faults, runs, clock>>

\* Whatever the answer, the group is killed: terminate_group, finish_group,
\* terminate_retained_group.
Terminating ==
  /\ Running /\ h.pc = "terming" /\ Exchanged
  /\ KillGroups({h.cur})
  /\ h' = [h EXCEPT !.pc = "reap", !.open = CloseUnless(Acknowledged),
                    !.ok = @ /\ Acknowledged]
  /\ ack' = "none" /\ FaultIf(TimedOut)
  /\ UNCHANGED <<service, hp, msg, runs, clock>>

\* reap_child and reap_descendants.
Reap ==
  /\ Running /\ h.pc = "reap" /\ prog[h.cur] = "dead"
  /\ prog' = [prog EXCEPT ![h.cur] = "none"]
  /\ UNCHANGED <<service, helper, channel, killed, sentinel, lost, stray, faults, runs, clock>>

\* The helper goes on after a program: with the next one or with the rollback.
AfterProgram(r, ok) ==
  [r EXCEPT !.pc = IF r.last THEN "exit" ELSE "work", !.cur = None,
            !.cleanup = @ \/ ~ok,
            !.status = IF r.last /\ ~ok THEN "rollback" ELSE @]

\* reap_group gave up: the group stays registered.
ReapFails ==
  /\ Running /\ h.pc = "reap"
  /\ PhaseIsOver \/ prog[h.cur] = "left"
  /\ h' = AfterProgram(h, FALSE)
  /\ UNCHANGED <<service, hp, channel, system, faults, runs, clock>>

\* Mutant: the group is forgotten only once the service has answered.
Unregister_KeepsGroup ==
  /\ Running /\ h.pc = "reap" /\ prog[h.cur] = "none"
  /\ IF h.cur \in {h.active, h.retained}
       THEN /\ Send("UNREGISTER", h.cur)
            /\ h' = [h EXCEPT !.pc = "unregister"]
       ELSE h' = AfterProgram(h, h.ok) /\ UNCHANGED channel
  /\ UNCHANGED <<service, hp, system, faults, runs, clock>>

\* unregister_group forgets the group before it asks.
Unregister ==
  /\ Running /\ h.pc = "reap" /\ prog[h.cur] = "none"
  /\ IF h.cur \in {h.active, h.retained}
       THEN /\ Send("UNREGISTER", h.cur)
            /\ h' = [h EXCEPT !.pc = "unregister",
                              !.active = IF @ = h.cur THEN None ELSE @,
                              !.retained = IF @ = h.cur THEN None ELSE @]
       ELSE h' = AfterProgram(h, h.ok) /\ UNCHANGED channel
  /\ UNCHANGED <<service, hp, system, faults, runs, clock>>

Unregistered ==
  /\ Running /\ h.pc = "unregister" /\ Exchanged
  /\ h' = AfterProgram([h EXCEPT !.open = CloseUnless(Acknowledged)],
                       h.ok /\ Acknowledged)
  /\ ack' = "none" /\ FaultIf(TimedOut)
  /\ UNCHANGED <<service, hp, msg, system, runs, clock>>

\* network_sidebar_amneziawg_process_dispatch_termination of an escalation, at
\* a point where no request is in progress.  (A first request sends SIGTERM,
\* which the program may ignore.)
Dispatch ==
  /\ Running /\ h.pc \in {"work", "wait", "reap"} /\ h.level = 2 /\ ~h.committed
  /\ \/ /\ h.active # None /\ ~h.asent
        /\ h' = [h EXCEPT !.pc = "dispatch", !.ret = h.pc, !.target = h.active,
                          !.asent = TRUE]
        /\ Send("TERMINATING", h.active)
     \/ /\ h.active = None \/ h.asent
        /\ h.retained \notin {None, h.active} /\ ~h.rsent
        /\ h' = [h EXCEPT !.pc = "dispatch", !.ret = h.pc, !.target = h.retained,
                          !.rsent = TRUE]
        /\ Send("TERMINATING", h.retained)
  /\ UNCHANGED <<service, hp, system, faults, runs, clock>>

Dispatched ==
  /\ Running /\ h.pc = "dispatch" /\ Exchanged
  /\ KillGroups({h.target})
  /\ h' = [h EXCEPT !.pc = h.ret, !.target = None, !.open = CloseUnless(Acknowledged)]
  /\ ack' = "none" /\ FaultIf(TimedOut)
  /\ UNCHANGED <<service, hp, msg, runs, clock>>

\* Something else fails: the rollback starts (set_cleanup_mode).
StartRollback ==
  /\ Running /\ h.pc = "work" /\ ~h.cleanup
  /\ h' = [h EXCEPT !.cleanup = TRUE]
  /\ UNCHANGED <<service, hp, channel, system, faults, runs, clock>>

\* The rollback is over; a backend that was kept is terminated.
EndRollback ==
  /\ Running /\ h.pc = "work" /\ h.cleanup
  /\ \E s \in {"failed", "rollback"} :
       h' = [h EXCEPT !.pc = IF h.retained = None THEN "exit" ELSE "term",
                      !.cur = h.retained, !.last = TRUE, !.ok = TRUE, !.status = s]
  /\ UNCHANGED <<service, hp, channel, system, faults, runs, clock>>

\* An operation other than up ends; a late cancellation is still reported.
Finish ==
  /\ Running /\ h.pc = "work" /\ ~h.cleanup /\ job.op # "up"
  /\ h' = [h EXCEPT !.pc = "exit", !.last = TRUE,
                    !.status = IF TerminationRequested \/ PhaseIsOver THEN "failed"
                               ELSE "success"]
  /\ UNCHANGED <<service, hp, channel, system, faults, runs, clock>>

\* network_sidebar_amneziawg_process_release_retained_group, up to the request.
ReleaseRetained ==
  /\ Running /\ h.pc = "work" /\ ~h.cleanup /\ job.op = "up"
  /\ IF h.level > 0 \/ PhaseIsOver
       THEN h' = [h EXCEPT !.cleanup = TRUE] /\ UNCHANGED channel
       ELSE IF h.retained = None
         THEN h' = [h EXCEPT !.pc = "commit"] /\ UNCHANGED channel
         ELSE h' = [h EXCEPT !.pc = "release"] /\ Send("RELEASE", h.retained)
  /\ UNCHANGED <<service, hp, system, faults, runs, clock>>

\* The service may have cancelled the release: then the channel stays open.
Released ==
  /\ Running /\ h.pc = "release" /\ (Exchanged \/ ack = "cancelled")
  /\ h' = IF Acknowledged THEN [h EXCEPT !.pc = "commit"]
          ELSE [h EXCEPT !.pc = "work", !.cleanup = TRUE,
                         !.open = CloseUnless(ack = "cancelled")]
  /\ ack' = "none" /\ FaultIf(TimedOut)
  /\ UNCHANGED <<service, hp, msg, system, runs, clock>>

\* commit_operation: its checks.  A release that cannot be committed is
\* withdrawn before the rollback.
CommitOperation ==
  /\ Running /\ h.pc = "commit"
  /\ IF ~PhaseIsOver /\ h.active = None /\ h.level = 0
       THEN h' = [h EXCEPT !.pc = "cas"] /\ UNCHANGED channel
       ELSE IF h.retained = None
         THEN h' = [h EXCEPT !.pc = "work", !.cleanup = TRUE] /\ UNCHANGED channel
         ELSE h' = [h EXCEPT !.pc = "withdraw", !.cleanup = TRUE] /\ Send("WITHDRAW", h.retained)
  /\ UNCHANGED <<service, hp, system, faults, runs, clock>>

\* commit_operation: the compare-and-swap.  Signals are blocked.
Commit ==
  /\ Running /\ h.pc = "cas"
  /\ h' = [h EXCEPT !.committed = TRUE, !.retained = None, !.pc = "exit",
                    !.last = TRUE, !.status = "success"]
  /\ prog' = [g \in Groups |-> IF g = h.retained /\ prog[g] = "dead" THEN "none" ELSE prog[g]]
  /\ UNCHANGED <<service, hp, channel, killed, sentinel, lost, stray, faults, runs, clock>>

Withdrawn ==
  /\ Running /\ h.pc = "withdraw" /\ Exchanged
  /\ h' = [h EXCEPT !.pc = "work", !.open = CloseUnless(Acknowledged)]
  /\ ack' = "none" /\ FaultIf(TimedOut)
  /\ UNCHANGED <<service, hp, msg, system, runs, clock>>

\* Of a dead helper the exit status and a gated child are left (and committed, for
\* the properties).
Remains(status) ==
  [NewHelper EXCEPT !.open = FALSE, !.status = status, !.committed = h.committed,
                    !.cur = IF h.pc = "register" THEN h.cur ELSE None]

\* The helper's main returns, and reaps what is ready of its own children.
Exit ==
  /\ Running /\ h.pc = "exit"
  /\ HelperDies
  /\ prog' = [g \in Groups |-> IF g \notin tracked /\ prog[g] = "dead" THEN "none" ELSE prog[g]]
  /\ h' = Remains(h.status) /\ ack' = "none"
  /\ UNCHANGED <<service, msg, sentinel, lost, stray, faults, runs, clock>>

\* The helper dies: by the runner's SIGKILL, or on its own.
Crash ==
  /\ hp = "dying" \/ (Running /\ h.pc # "exit")
  /\ HelperDies /\ FaultIf(hp = "running")
  /\ h' = Remains("signaled") /\ ack' = "none"
  /\ UNCHANGED <<service, msg, prog, sentinel, lost, stray, runs, clock>>

HelperNext ==
  \/ (\E g \in Groups : Fork(g)) \/ Register
  \/ GiveUpProgram \/ ProgramExits \/ Terminate \/ Terminating \/ Reap
  \/ ReapFails \/ Unregister \/ Unregistered \/ Dispatch \/ Dispatched
  \/ StartRollback \/ EndRollback \/ Finish \/ ReleaseRetained \/ Released
  \/ CommitOperation \/ Commit \/ Withdrawn \/ Exit \/ Crash

-----------------------------------------------------------------------------
(* The supervisor.                                                         *)

\* scan_process_group; a scan that fails counts as a refusal.
Scan(g) == IF Alive(g) THEN {"live", "failed"} ELSE {"empty", "failed"}

\* reap_retired_sentinels: those that waitpid finds dead by now.
ReapRetired(s) ==
  \E S \in SUBSET s.retired :
    /\ sup' = [s EXCEPT !.retired = @ \ S]
    /\ sentinel' = [g \in Groups |-> IF g \in S THEN "none" ELSE sentinel[g]]

\* sentinels_are_safe.
SentinelsAreSafe ==
  \A g \in sup.owned : sentinel[g] = "zombie" =>
    g \in sup.dead \cup sup.term \/ (g # sup.pend /\ ~Alive(g))

\* RELEASE; the second refusal is not an error of the helper.
ReleaseStatus(g, scan) ==
  IF sup.cleanup \/ sup.pend # None THEN "refused"
  ELSE IF sup.cancelled THEN "cancelled"
  ELSE IF /\ sup.allow /\ sup.owned = {g} /\ g \notin sup.term \cup sup.dead
          /\ scan = "live"
       THEN "ok"
  ELSE "refused"

\* handle_message, the status of each request.  scan is what /proc shows, made
\* whether the new sentinel could join the group.
MessageStatus(m, scan, made) ==
  LET g == m.group IN
  CASE m.type = "REGISTER" ->
         IF \/ sup.cleanup \/ sup.pend # None \/ g \in sup.owned \/ ~made
            \/ Cardinality(sup.owned) + Cardinality(sup.retired) >= MaxGroups
         THEN "refused" ELSE "ok"
    [] m.type = "UNREGISTER" ->
         IF g \in sup.owned /\ scan = "empty" THEN "ok" ELSE "refused"
    [] m.type = "TERMINATING" ->
         IF g \in sup.owned /\ SentinelsAreSafe THEN "ok" ELSE "refused"
    [] m.type = "RELEASE" -> ReleaseStatus(g, scan)
    [] m.type = "WITHDRAW" ->
         IF ~sup.cleanup /\ g \in sup.owned /\ g = sup.pend /\ g \notin sup.dead
         THEN "ok" ELSE "refused"

\* handle_message, what a granted request changes.
Granted(m) ==
  LET g == m.group
      unpend == IF sup.pend = g THEN None ELSE sup.pend
  IN CASE m.type = "REGISTER" -> [sup EXCEPT !.owned = @ \cup {g}]
       [] m.type = "UNREGISTER" ->
            [sup EXCEPT !.owned = @ \ {g}, !.pend = unpend, !.term = @ \ {g},
                        !.dead = @ \ {g}, !.retired = @ \cup {g}]
       [] m.type = "TERMINATING" -> [sup EXCEPT !.term = @ \cup {g}, !.pend = unpend]
       [] m.type = "RELEASE" -> [sup EXCEPT !.pend = g]
       [] m.type = "WITHDRAW" -> [sup EXCEPT !.pend = None]

\* The sentinel of a request's group afterwards: spawned, or sent SIGKILL.
SentinelAfter(m) ==
  CASE m.type = "REGISTER" -> [sentinel EXCEPT ![m.group] = "alive"]
    [] m.type = "UNREGISTER" -> [sentinel EXCEPT ![m.group] = "zombie"]
    [] OTHER -> sentinel

\* Mutant: every signal counts.
Signalled_Counts ==
  IF hp = "running" /\ ~h.committed /\ h.pc # "cas"
    THEN [h EXCEPT !.level = @ + 1] ELSE h

\* SIGTERM or SIGINT reaches the helper: termination_signal_handler, or
\* collect_pending_termination where signals are blocked.  Between the checks of
\* commit_operation and its compare-and-swap a signal waits and comes too late.
Signalled ==
  IF hp = "running" /\ ~h.committed /\ h.level < 2 /\ h.pc # "cas"
    THEN [h EXCEPT !.level = @ + 1] ELSE h

\* begin_stop: the first reason stands, and only it sends SIGTERM.
StopRun(r, reason) == [r EXCEPT !.stop = IF @ = "none" THEN reason ELSE @]
StopSignal == IF job.stop = "none" /\ ~job.reaped /\ ~job.clean THEN Signalled ELSE h

\* fail_helper_io.
FailIo(r) == StopRun([r EXCEPT !.io = TRUE], "io")

Polling == at \in {"poll", "repoll"}
AfterPoll == IF at = "poll" THEN "stop" ELSE "complete"

\* poll_supervisor when the supervisor failed, now or before.
PollFailed ==
  /\ job' = IF job.stop = "none" THEN FailIo(job) ELSE job
  /\ h' = StopSignal
  /\ at' = AfterPoll

\* Whether the helper's end is open: a child that was just forked may still have a
\* copy of it (process_prepare_child).  Nothing is forked after the cleanup deadline,
\* so no child has kept its copy by hard_at.
Copied == h.cur # None /\ prog[h.cur] = "gated" /\ clock < 3
Ends   == {h.open, h.open \/ Copied}

\* network_sidebar_awg_supervisor_poll reads a request and answers it, which fails
\* when the other end is closed.
HandleMessage ==
  /\ Polling /\ ~sup.failed /\ ~sup.closed /\ msg # None
  /\ \E scan \in Scan(msg.group), made \in BOOLEAN, open \in Ends :
       /\ FaultIf(scan = "failed" \/ (~made /\ Held(msg.group)))
       /\ LET status == MessageStatus(msg, scan, made /\ Held(msg.group))
              next   == IF status = "ok" THEN Granted(msg) ELSE sup
              fine   == status # "refused" /\ open
          IN /\ sup' = IF fine THEN next ELSE [next EXCEPT !.failed = TRUE, !.closed = TRUE]
             /\ sentinel' = IF status = "ok" THEN SentinelAfter(msg) ELSE sentinel
             /\ ack' = IF h.open THEN status ELSE ack
             /\ IF fine THEN UNCHANGED <<job, h, at>> ELSE PollFailed
  /\ msg' = None
  /\ UNCHANGED <<tracked, reaps, backends, hp, prog, killed, lost, stray, runs, clock>>

\* The supervisor is finished: only retired sentinels are reaped.
PollFinished ==
  /\ Polling /\ (sup.failed \/ sup.closed)
  /\ ReapRetired(sup)
  /\ IF sup.failed THEN PollFailed ELSE at' = AfterPoll /\ UNCHANGED <<job, h>>
  /\ UNCHANGED <<tracked, reaps, backends, hp, channel, prog, killed, lost, stray, faults, runs, clock>>

\* No request is left and the sentinels are in order; the end of the channel is
\* noticed.
PollDrained ==
  /\ Polling /\ ~sup.failed /\ ~sup.closed /\ msg = None /\ SentinelsAreSafe
  /\ \E open \in Ends : ReapRetired([sup EXCEPT !.closed = ~open])
  /\ at' = AfterPoll
  /\ UNCHANGED <<job, tracked, reaps, backends, helper, channel, prog, killed,
                 lost, stray, faults, runs, clock>>

\* A sentinel died for no reason the supervisor knows: every group is killed.
PollUnsafe ==
  /\ Polling /\ ~sup.failed /\ ~sup.closed /\ msg = None /\ ~SentinelsAreSafe
  /\ sup' = [sup EXCEPT !.cleanup = TRUE, !.failed = TRUE, !.closed = TRUE, !.dead = sup.owned]
  /\ KillGroups(sup.owned \ sup.dead)
  /\ PollFailed
  /\ UNCHANGED <<tracked, reaps, backends, hp, channel, faults, runs, clock>>

-----------------------------------------------------------------------------
(* The runner.  helper_poll_cb starts at "loop" and goes through "poll",   *)
(* "stop", "repoll", "complete" and "finish".                              *)

IsBusy == job.on \/ reaps # {}

\* Mutant: what the helper says is believed although the run was stopped.
EffectiveStatus_HelperFirst(r) ==
  CASE r.status # "none" -> r.status
    [] r.stop = "timeout" \/ r.forward -> "timeout"
    [] OTHER -> "signaled"

\* effective_status.
EffectiveStatus(r) ==
  LET status == IF r.io /\ r.stop = "none" THEN "setup" ELSE r.status IN
  IF r.stop = "preempted" THEN "signaled"
  ELSE IF status = "rollback" THEN "rollback"
  ELSE IF r.stop = "timeout" \/ r.forward THEN "timeout"
  ELSE IF r.stop = "shutdown" THEN "signaled"
  ELSE IF r.stop = "io" THEN "setup"
  ELSE status

\* publish_result: the first result stands.  A profile report that cannot be
\* decoded is no success.
Published(r, decoded) ==
  LET status == EffectiveStatus(r) IN
  [r EXCEPT !.result = IF @ # "none" THEN @
                       ELSE IF r.op = "list" /\ status = "success" /\ ~decoded THEN "setup"
                       ELSE status]

\* Mutant: a child left behind does not keep the runner busy.
Start_WhileReaping ==
  /\ at = "loop" /\ ~job.on
  /\ \E op \in Operations, io \in BOOLEAN :
       /\ job' = IF io THEN [NewRun(op) EXCEPT !.io = TRUE, !.stop = "io"]
                 ELSE NewRun(op)
       /\ sup' = NewSupervisor(op)
       /\ FaultIf(io)
       /\ h' = [NewHelper EXCEPT !.level = IF io THEN 1 ELSE 0]
  /\ runs + faults < MaxRuns /\ runs' = runs + 1
  /\ hp' = "running" /\ msg' = None /\ ack' = "none" /\ clock' = 0
  /\ UNCHANGED <<at, tracked, reaps, backends, system>>

\* network_sidebar_awg_helper_runner_start with spawn_helper.  Some of the
\* descriptors may not be set up (io).
Start ==
  /\ at = "loop" /\ ~IsBusy
  /\ \E op \in Operations, io \in BOOLEAN :
       /\ job' = IF io THEN [NewRun(op) EXCEPT !.io = TRUE, !.stop = "io"]
                 ELSE NewRun(op)
       /\ sup' = NewSupervisor(op)
       /\ FaultIf(io)
       /\ h' = [NewHelper EXCEPT !.level = IF io THEN 1 ELSE 0]
  /\ runs + faults < MaxRuns /\ runs' = runs + 1
  /\ hp' = "running" /\ msg' = None /\ ack' = "none" /\ clock' = 0
  /\ UNCHANGED <<at, tracked, reaps, backends, system>>

\* The helper could not be spawned.
StartFails ==
  /\ at = "loop" /\ ~IsBusy
  /\ \E op \in Operations :
       job' = [Published([NewRun(op) EXCEPT !.status = "setup"], TRUE) EXCEPT !.on = FALSE]
  /\ UNCHANGED <<sup, at, tracked, reaps, backends, helper, channel, system, faults, runs, clock>>

\* network_sidebar_awg_helper_runner_stop, called by the service.
Stop(reason) ==
  /\ at = "loop" /\ job.on /\ (reason = "preempted" => job.op = "list")
  /\ LET r == StopRun(job, reason)
     IN job' = IF job.op = "list" /\ reason = "preempted" THEN Published(r, TRUE) ELSE r
  /\ h' = StopSignal
  /\ Fault
  /\ UNCHANGED <<sup, at, tracked, reaps, backends, hp, channel, system, runs, clock>>

\* helper_has_exited.
HelperExited == hp = "zombie" /\ ~job.reaped

\* The inventory's output or the operation's input fails; nothing else has them.
PipeFails(io) == io /\ job.op # "up" /\ job.stop = "none" /\ ~job.reaped
AfterPipes(io) == IF PipeFails(io) THEN FailIo(job) ELSE job

\* The forward deadline passed, and no release is pending.
ForwardIsLate(r) ==
  /\ r.stop = "none" /\ ~r.forward /\ ~r.reaped /\ ~HelperExited
  /\ clock >= 1 /\ sup.pend = None

\* helper_poll_cb up to poll_supervisor: input and output may fail, the exit of
\* the helper is noticed, the forward deadline cancels.
Observe ==
  /\ at = "loop" /\ job.on
  /\ \E io \in BOOLEAN :
       LET r    == AfterPipes(io)
           late == ForwardIsLate(r)
       IN /\ job' = [r EXCEPT !.exited = HelperExited, !.forward = @ \/ late]
          /\ FaultIf(PipeFails(io))
          /\ sup' = IF late THEN [sup EXCEPT !.allow = FALSE, !.cancelled = TRUE] ELSE sup
          /\ h' = IF PipeFails(io) THEN StopSignal ELSE IF late THEN Signalled ELSE h
  /\ at' = "poll"
  /\ clock' = IF clock \in 3 .. LastPoll - 1 THEN clock + 1 ELSE clock
  /\ UNCHANGED <<tracked, reaps, backends, hp, channel, system, runs>>

\* Grace periods are capped by hard_at.
GraceIsOver(over) == over \/ clock >= 3

\* SIGKILL was sent to the helper of an action, and it is still there.
Detachable == job.op # "list" /\ job.kill /\ ~job.exited

\* The cleanup deadline stops the run, and so does a channel that stays closed.
TimesOut == job.stop = "none" /\ ~job.exited /\ clock >= 2
StaysClosed(over) ==
  job.stop = "none" /\ ~TimesOut /\ ~job.exited /\ sup.closed /\ over
Stopped(over) ==
  IF TimesOut THEN StopRun(job, "timeout") ELSE IF StaysClosed(over) THEN FailIo(job) ELSE job

\* When the grace of a stop is over, SIGINT and later SIGKILL follow.
Escalates(over) == job.stop # "none" /\ ~job.kill /\ GraceIsOver(over)
Kills(over) == Escalates(over) /\ job.int
Escalated(over) ==
  IF Escalates(over)
    THEN [Stopped(over) EXCEPT !.int = TRUE, !.kill = Kills(over), !.clean = sup.owned = {}]
    ELSE Stopped(over)

\* helper_poll_cb after poll_supervisor, while the helper is not reaped.
Enforce ==
  /\ at = "stop" /\ ~job.reaped /\ ~(clock >= 3 /\ Detachable)
  /\ \E over \in BOOLEAN, decoded \in BOOLEAN :
       /\ job' = IF job.op = "list" /\ clock >= 3 /\ ~job.exited
                 THEN Published(Escalated(over), decoded) ELSE Escalated(over)
       /\ h' = IF StaysClosed(over) \/ (TimesOut /\ ~(job.forward /\ job.op = "list")) THEN StopSignal
               ELSE IF Escalates(over) /\ ~job.int THEN Signalled ELSE h
       /\ hp' = IF Kills(over) /\ hp = "running" THEN "dying" ELSE hp
       /\ sup' = IF Escalates(over)
                 THEN [sup EXCEPT !.cleanup = TRUE, !.dead = IF Kills(over) THEN sup.owned ELSE @]
                 ELSE sup
       /\ KillGroups(IF Kills(over) THEN sup.owned \ sup.dead ELSE {})
  /\ at' = IF job.exited THEN "repoll" ELSE "loop"
  /\ UNCHANGED <<tracked, reaps, backends, channel, faults, runs, clock>>

\* detach_stalled_helper: SIGKILL did not end the helper of an action in time.
DetachHelper ==
  /\ at = "stop" /\ ~job.reaped /\ Detachable
  /\ job' = [job EXCEPT !.reaped = TRUE, !.io = TRUE, !.status = "setup"]
  /\ sup' = [sup EXCEPT !.failed = TRUE, !.closed = TRUE]
  /\ reaps' = reaps \cup {"helper"}
  /\ at' = "complete"
  /\ UNCHANGED <<tracked, backends, helper, channel, system, faults, runs, clock>>

\* The helper was reaped in an earlier round.
Reaped ==
  /\ at = "stop" /\ job.reaped
  /\ at' = "complete"
  /\ UNCHANGED <<job, sup, tracked, reaps, backends, helper, channel, system, faults, runs, clock>>

\* reap_helper.
ReapHelper ==
  /\ at = "complete" /\ job.exited /\ ~job.reaped
  /\ job' = [job EXCEPT !.reaped = TRUE, !.status = h.status]
  /\ hp' = "none"
  /\ UNCHANGED <<sup, at, tracked, reaps, backends, h, channel, system, faults, runs, clock>>

\* waitpid(-g) until nothing is ready, for every g of S.  The sentinels are
\* children of the service, everything else once its helper is dead.
Adopted(g) == hp \in {"none", "zombie"} \/ g \in tracked
ReapGroups(S, sen) ==
  /\ prog' = [g \in Groups |->
       IF g \in S /\ Adopted(g) /\ prog[g] = "dead" THEN "none" ELSE prog[g]]
  /\ sentinel' = [g \in Groups |-> IF g \in S /\ sen[g] = "zombie" THEN "none" ELSE sen[g]]
ChildrenLeft(S) ==
  {g \in S : sentinel[g] = "alive" \/ (Adopted(g) /\ Alive(g))}

Completing == at = "complete" /\ job.reaped /\ ~job.clean

\* complete_helper_supervision has nothing to do.
CompleteSkipped ==
  /\ at = "complete" /\ job.reaped /\ job.clean
  /\ at' = "finish"
  /\ UNCHANGED <<job, sup, tracked, reaps, backends, helper, channel, system, faults, runs, clock>>

\* The helper is reaped but its end of the channel is still open: a short grace from
\* the round that reaped it, then the supervisor is aborted.
AwaitClose ==
  /\ Completing /\ ~sup.closed
  /\ \/ /\ job.exited \/ clock < 3
        /\ at' = "finish" /\ UNCHANGED <<job, sup>>
     \/ /\ ~job.exited
        /\ job' = [StopRun(job, "io") EXCEPT !.io = TRUE]
        /\ sup' = [sup EXCEPT !.failed = TRUE, !.closed = TRUE]
        /\ UNCHANGED at
  /\ UNCHANGED <<tracked, reaps, backends, helper, channel, system, faults, runs, clock>>

\* Mutant: the helper's status is not looked at.
CleanExit_AnyStatus == job.stop = "none" /\ ~job.io /\ ~sup.failed

CleanExit == job.stop = "none" /\ ~job.io /\ job.status = "success" /\ ~sup.failed

\* network_sidebar_awg_supervisor_finalize_release finds a group to let go.
CanLetGo ==
  /\ CleanExit /\ ~sup.cleanup /\ sup.pend # None
  /\ sup.owned = {sup.pend} /\ sup.pend \notin sup.term \cup sup.dead

\* Mutant: the supervisor goes on owning what it let go.
LetGo_KeepsGroup ==
  /\ Completing /\ sup.closed /\ CanLetGo
  /\ backends' = backends \cup {g \in {sup.pend} : Alive(g)}
  /\ tracked' = tracked \cup {g \in {sup.pend} : Alive(g)}
  /\ sup' = [sup EXCEPT !.pend = None]
  /\ ReapGroups({sup.pend}, [sentinel EXCEPT ![sup.pend] = "zombie"])
  /\ UNCHANGED <<job, at, reaps, helper, channel, killed, lost, stray, faults, runs, clock>>

\* finalize_release and track_released_group.
LetGo ==
  /\ Completing /\ sup.closed /\ CanLetGo
  /\ backends' = backends \cup {g \in {sup.pend} : Alive(g)}
  /\ tracked' = tracked \cup {g \in {sup.pend} : Alive(g)}
  /\ sup' = [sup EXCEPT !.owned = {}]
  /\ ReapGroups({sup.pend}, [sentinel EXCEPT ![sup.pend] = "zombie"])
  /\ UNCHANGED <<job, at, reaps, helper, channel, killed, lost, stray, faults, runs, clock>>

NoGroupsLeft ==
  /\ Completing /\ sup.closed /\ sup.owned = {}
  /\ job' = [job EXCEPT !.clean = TRUE]
  /\ at' = "finish"
  /\ UNCHANGED <<sup, tracked, reaps, backends, helper, channel, system, faults, runs, clock>>

\* The rest of complete_helper_supervision: groups that should not be there are
\* killed and reaped.  The dead are those that were killed in an earlier round.
CleanGroups ==
  /\ Completing /\ sup.closed /\ sup.owned # {} /\ ~CanLetGo
  /\ sup.dead # sup.owned
  /\ job' = [job EXCEPT !.io = @ \/ job.stop = "none"]
  /\ sup' = [sup EXCEPT !.cleanup = TRUE, !.dead = sup.owned]
  /\ KillGroups(sup.owned \ sup.dead)
  /\ at' = "finish"
  /\ UNCHANGED <<tracked, reaps, backends, helper, channel, faults, runs, clock>>

\* Mutant: a group that does not die keeps its run.
ReapCleanedGroups_Patient ==
  /\ Completing /\ sup.closed /\ sup.owned # {} /\ ~CanLetGo
  /\ sup.dead = sup.owned
  /\ LET left == ChildrenLeft(sup.owned)
     IN /\ sup' = [sup EXCEPT !.owned = left, !.dead = left]
        /\ job' = [job EXCEPT !.io = @ \/ job.stop = "none", !.clean = left = {}]
        /\ tracked' = tracked
  /\ ReapGroups(sup.owned, sentinel)
  /\ at' = "finish"
  /\ UNCHANGED <<reaps, backends, helper, channel, killed, lost, stray, faults, runs, clock>>

\* network_sidebar_awg_supervisor_poll_cleanup; an action does not wait for
\* groups that do not die: they are detached, and only reaped later.
ReapCleanedGroups ==
  /\ Completing /\ sup.closed /\ sup.owned # {} /\ ~CanLetGo
  /\ sup.dead = sup.owned
  /\ \E over \in BOOLEAN :
       LET left   == ChildrenLeft(sup.owned)
           detach == job.op # "list" /\ GraceIsOver(over)
           keep   == IF detach THEN {} ELSE left
       IN /\ sup' = [sup EXCEPT !.owned = keep, !.dead = keep]
          /\ job' = [job EXCEPT !.io = @ \/ job.stop = "none",
                                !.clean = keep = {}]
          /\ tracked' = IF detach THEN tracked \cup left ELSE tracked
  /\ ReapGroups(sup.owned, sentinel)
  /\ at' = "finish"
  /\ UNCHANGED <<reaps, backends, helper, channel, killed, lost, stray, faults, runs, clock>>

\* Input the helper never read is a failure.
InputIsLeft(unread) == unread /\ job.op = "other" /\ job.stop = "none"
AtTheEnd(unread) == [job EXCEPT !.io = @ \/ InputIsLeft(unread)]

\* maybe_finish_helper with finish_run and run_free; otherwise an inventory is
\* answered at its hard deadline.
FinishPoll ==
  /\ at = "finish"
  /\ \E unread \in BOOLEAN, decoded \in BOOLEAN :
       IF job.clean /\ sup.closed
         THEN /\ job' = [NewRun(job.op) EXCEPT !.on = FALSE,
                                 !.result = Published(AtTheEnd(unread), decoded).result]
              /\ sup' = NewSupervisor(job.op)
              /\ reaps' = reaps \cup sup.retired
              /\ h' = NewHelper /\ msg' = None /\ ack' = "none" /\ clock' = 0
              /\ FaultIf(InputIsLeft(unread))
         ELSE /\ job' = IF job.op = "list" /\ clock >= 3 THEN Published(job, decoded) ELSE job
              /\ UNCHANGED <<sup, reaps, h, msg, ack, faults, clock>>
  /\ at' = "loop"
  /\ UNCHANGED <<tracked, backends, hp, system, runs>>

\* reap_children_cb with reap_pending_children.
ReapReleased ==
  /\ at = "loop"
  /\ tracked' = ChildrenLeft(tracked)
  /\ reaps' = {x \in reaps : x = "helper" /\ hp # "zombie"}
  /\ hp' = IF "helper" \in reaps /\ hp = "zombie" THEN "none" ELSE hp
  /\ ReapGroups(tracked \cup (reaps \ {"helper"}), sentinel)
  /\ UNCHANGED <<job, sup, at, backends, h, channel, killed, lost, stray, faults, runs, clock>>

RunnerPoll ==
  \/ Observe \/ HandleMessage \/ PollFinished \/ PollDrained \/ PollUnsafe
  \/ Enforce \/ DetachHelper \/ Reaped \/ ReapHelper \/ CompleteSkipped \/ AwaitClose \/ LetGo
  \/ NoGroupsLeft \/ CleanGroups \/ ReapCleanedGroups \/ FinishPoll

SystemNext ==
  \E g \in Groups : ProgramEnds(g) \/ GroupEnds(g) \/ SentinelLost(g)

RunnerNext ==
  \/ Start \/ StartFails \/ (\E reason \in {"shutdown", "preempted"} : Stop(reason))
  \/ RunnerPoll \/ ReapReleased \/ HelperNext \/ SystemNext \/ Tick

RunnerSpec == RunnerInit /\ [][RunnerNext]_runnerVars

-----------------------------------------------------------------------------
(* Properties.                                                             *)

\* Every program that runs is in a group that the service owns through a living
\* sentinel, so that a crash of the service ends it; or it was let go after a
\* committed activation, or it was sent SIGKILL, or somebody took the sentinel
\* away (prepare_child, register_group, spawn_sentinel).
NoOrphan ==
  \A g \in Groups :
    prog[g] \in {"running", "left"} /\ g \notin killed =>
      (g \in sup.owned /\ sentinel[g] = "alive") \/ g \in backends \/ g \in lost

\* Neither the service nor the helper signals a group number that nothing holds
\* any more and that may belong to an unrelated program (unregister_group).
NoStraySignal == ~stray

\* A group is let go only when the helper committed the activation and exited
\* with success, and nothing stopped the run (commit_operation, finalize_release).
ReleaseIsCommitted ==
  [][backends' \ backends # {} =>
       h.committed /\ h.status = "success" /\ job.stop = "none" /\ ~sup.failed]_runnerVars

\* The program of a reported tunnel is not killed: neither by the supervisor nor
\* by an escalation that the helper still dispatches.
BackendSurvives == backends \cap killed = {}

\* A success is reported only of a helper that exited with success before anybody
\* stopped the run; an activation was committed then, and no program is left but
\* its backend and what was killed (effective_status, complete_helper_supervision).
SuccessIsClean ==
  [][job.on /\ job.result # "success" /\ job'.result = "success" =>
       /\ h.status = "success" /\ job.stop = "none" /\ ~job.io
       /\ job.op = "up" => h.committed
       /\ \A g \in Groups : Alive(g) => g \in backends \/ g \in killed]_runnerVars

\* The runner behaves as the service expects: no second helper while a process
\* or a sentinel of an earlier run is left, one result per run
\* (network_sidebar_awg_helper_runner_is_busy, publish_result).
View == INSTANCE AwgRunnerView WITH
          on <- job.on, sent <- job.on /\ job.result # "none",
          process <- hp # "none", children <- reaps # {}
RunnerView == View!Spec

\* The run of an action ends even when the helper or its programs survive
\* SIGKILL, and an inventory is answered at least: a fixed number of polls after
\* hard_at nothing is owed any more (detach_stalled_helper,
\* detach_stalled_group_cleanup, publish_result at hard_at).
EndsInTime ==
  job.on /\ clock = LastPoll => job.op = "list" /\ job.result # "none"

\* What the supervision of process groups is for: whoever dies, and whichever message is
\* late, each running group is known to somebody who will end it, no signal reaches a
\* group number that has come to stand for another group, and a backend that was released
\* is not killed.
GroupsAreSupervised ==
  /\ RunnerTypeOK
  /\ NoOrphan
  /\ NoStraySignal
  /\ BackendSurvives

\* Success means the same to helper, runner and service: a group is let go only after a
\* commit and a clean exit, and success is only published with nothing stopped or failed.
SuccessIsAgreed == ReleaseIsCommitted /\ SuccessIsClean

-----------------------------------------------------------------------------
(* The inductive invariant behind GroupsAreSupervised, EndsInTime,         *)
(* SuccessIsAgreed and RunnerView.                                         *)

\* Where the helper is, with a dispatched escalation left out.
Where == IF h.pc = "dispatch" THEN h.ret ELSE h.pc

\* Where the helper waits for an answer, and where it has a program.
Exchanging == {"register", "terming", "unregister", "dispatch", "release", "withdraw"}
Handling   == {"register", "wait", "term", "terming", "reap", "unregister"}

\* The helper process and the run: who has to reap it, and what the run knows of its end.
RunIsBooked ==
  /\ at # "loop" => job.on
  /\ job.on => reaps \subseteq {"helper"}
  /\ hp # "none" <=> "helper" \in reaps \/ (job.on /\ ~job.reaped)
  /\ job.on /\ ~job.reaped => "helper" \notin reaps
  /\ hp = "running" => job.on /\ ~job.reaped /\ ~job.kill
  /\ job.on /\ job.exited /\ ~job.reaped => hp = "zombie"
  /\ at \in {"repoll", "complete"} /\ ~job.reaped => job.exited
  /\ at = "repoll" => ~job.reaped
  /\ at = "finish" => job.reaped
  /\ job.on /\ ~job.reaped => job.status = "none"
  /\ job.on /\ job.reaped =>
       \/ job.status = "setup"
       \/ "helper" \notin reaps /\ job.status = h.status /\ h.status # "none"
  /\ job.on /\ job.reaped => sup.closed \/ ~h.open
  /\ job.on /\ hp = "zombie" /\ ~job.reaped => ~h.open /\ h.status # "none"
  /\ hp = "running" /\ h.pc = "exit" => h.status # "none"

\* The supervisor's sets: a group it owns has a sentinel until the run cleans up, what it
\* calls dead was killed, and a cleanup admits no further group.
OwnedAreKept ==
  /\ sup.failed => sup.closed
  /\ job.clean => sup.owned = {} /\ (sup.cleanup \/ sup.closed)
  /\ job.kill => sup.cleanup /\ sup.dead = sup.owned
  /\ ~job.on => sup.owned = {} /\ sup.retired = {}
  /\ sup.dead \subseteq sup.owned
  /\ \A g \in sup.owned :
       /\ sentinel[g] # "none" \/ (job.reaped /\ g \in sup.dead)
       /\ g \notin tracked \cup sup.retired
       /\ Alive(g) /\ g \notin killed => sentinel[g] = "alive" \/ g \in lost
  /\ \A g \in sup.dead : sentinel[g] # "alive" /\ (Alive(g) => g \in killed)
  /\ \A g \in sup.retired : sentinel[g] = "zombie" /\ g \notin tracked
  /\ \A g \in tracked : sentinel[g] # "alive"

\* Every group that lives is owned, was let go, was killed, or waits at its gate.
GroupsAreKnown ==
  /\ \A g \in killed : Alive(g)
  /\ \A g \in tracked : prog[g] # "none" /\ (Alive(g) => g \in killed \cup backends)
  /\ \A g \in backends : g \in tracked \ killed /\ prog[g] = "left"
  /\ \A g \in Groups : prog[g] \in {"running", "left"} => g \in killed \cup backends \cup sup.owned
  /\ hp \in {"none", "zombie"} => \A g \in Groups : prog[g] \in {"gated", "running"} => g \in killed

\* What the helper takes for registered is owned by the service, the group it handles is
\* still there or registered, and it signals nothing that it has forgotten.
HelperHolds ==
  hp = "running" =>
    /\ {h.active, h.retained} \subseteq sup.owned \cup {None}
    /\ IF Where \in Handling THEN h.cur \in Groups \ tracked ELSE h.cur = None
    /\ Where = "wait" => h.cur = h.active
    /\ Where \in {"register", "wait", "term", "terming"} =>
         prog[h.cur] # "none" \/ h.cur \in {h.active, h.retained}
    /\ h.pc = "unregister" => prog[h.cur] = "none"
    /\ h.pc = "dispatch" => h.target \in {h.active, h.retained} \ {None} /\ h.level = 2
    /\ h.retained # None => prog[h.retained] \notin {"gated", "running"} /\ job.op = "up"
    /\ h.cur # None /\ h.cur = h.retained => h.cleanup

\* One request and one answer at a time: an answer is the answer to what is asked, and
\* nothing is left to be read of what was answered.
HelperHears ==
  hp = "running" =>
    /\ h.pc \notin Exchanging => ack = "none"
    /\ ack = "ok" /\ h.pc # "terming" => h.open
    /\ ack = "ok" /\ h.pc = "register" => h.cur \in sup.owned
    /\ h.open /\ (h.pc \notin Exchanging \/ ack # "none") => msg = None
    /\ h.last => h.status # "none"

\* What a request that is still to be read may ask for.
RequestsAreSound ==
  msg # None /\ ~sup.closed =>
    /\ msg.type = "REGISTER" => msg.group \notin sup.retired \cup tracked
    /\ hp = "running" /\ h.open => (msg.type = "REGISTER" <=> h.pc = "register")
    /\ msg.type = "REGISTER" /\ hp = "running" /\ h.open => msg.group = h.cur
    /\ msg.type = "UNREGISTER" /\ hp = "running" => msg.group \notin {h.active, h.retained}
    /\ msg.type = "RELEASE" =>
         /\ ~h.committed
         /\ hp = "running" => h.cleanup \/ (h.pc = "release" /\ msg.group = h.retained)
         /\ msg.group \in sup.owned => prog[msg.group] \notin {"gated", "running"}

\* The path to a committed activation: what was done to the group to be let go, and what
\* the helper still has when it reports success.
CommitIsClean ==
  /\ job.on /\ (sup.allow \/ sup.pend # None) => job.op = "up"
  /\ sup.pend \in sup.owned => prog[sup.pend] \notin {"gated", "running"}
  /\ hp = "running" =>
       /\ h.pc \in {"release", "commit", "cas"} => ~h.cleanup /\ ~h.committed /\ job.op = "up"
       /\ h.pc = "cas" => h.level = 0
       /\ h.committed => h.pc = "exit" /\ ~h.cleanup
       /\ h.status = "success" => h.pc = "exit" /\ ~h.cleanup /\ (job.op = "up" => h.committed)
       /\ sup.pend # None /\ ~h.cleanup =>
            h.committed \/ (h.pc \in {"release", "commit", "cas"} /\ sup.pend = h.retained)
       /\ \A g \in killed :
            g = h.retained \/ (Where \in {"register", "wait"} /\ g = h.cur) =>
              sup.cleanup \/ h.cleanup \/ h.level = 2
       /\ job.op # "up" /\ ~h.cleanup =>
            \A g \in Groups : Alive(g) => g \in tracked \cup killed \cup {h.cur}
  /\ job.on /\ h.committed /\ sup.pend \in sup.owned /\ sup.pend \in killed => sup.cleanup
  /\ job.on /\ h.status = "success" =>
       IF job.op = "up" THEN h.committed ELSE \A g \in Groups : Alive(g) => g \in tracked \cup killed

\* A group that may be let go has its place; a run that is to succeed has not been
\* through a cleanup.
SuccessIsUnspoilt ==
  at = "finish" /\ job.stop = "none" /\ ~job.io /\ ~job.clean => ~sup.closed

\* How far the end of a run has come, by the polls since hard_at.
Stopping(stop, int, kill) ==
  /\ job.stop # "none"
  /\ clock >= int => job.int
  /\ clock >= kill => job.kill
Settled == job.reaped /\ sup.closed /\ sup.dead = sup.owned

EndIsNear ==
  job.on =>
    /\ at \notin {"loop", "poll"} /\ clock >= 4 /\ (job.reaped \/ job.exited) => sup.closed
    /\ IF job.op = "list"
         THEN (at = "loop" /\ clock >= 4) \/ clock >= 5 => job.result # "none"
         ELSE /\ at = "loop" /\ clock >= 4 =>
                   clock <= 6 /\ (Settled \/ (~job.reaped /\ Stopping(4, 5, 6)))
              /\ at \in {"poll", "stop"} /\ clock >= 5 =>
                   clock <= 7 /\ (Settled \/ (~job.reaped /\ Stopping(5, 6, 7)))
              /\ at \in {"repoll", "complete"} /\ clock >= 4 =>
                   clock <= 7 /\ (job.exited \/ clock = 4 \/ Settled)
                              /\ (clock = 7 => job.kill \/ Settled)
              /\ at = "finish" /\ clock >= 4 =>
                   clock <= 7 /\ (job.clean \/ (Settled /\ clock <= 6))

RunnerInv ==
  /\ RunnerTypeOK
  /\ RunIsBooked
  /\ OwnedAreKept
  /\ GroupsAreKnown
  /\ HelperHolds
  /\ HelperHears
  /\ RequestsAreSound
  /\ CommitIsClean
  /\ SuccessIsUnspoilt
  /\ EndIsNear
  /\ NoStraySignal
=============================================================================
