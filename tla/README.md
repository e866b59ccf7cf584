# TLA+ models of nm-sidebar

nm-sidebar is a GTK 4 sidebar for NetworkManager. Beside the view code it manages
AmneziaWG tunnels itself, with a privileged helper that survives crashes by keeping a
journal per session. This directory holds TLA+ models of the parts with state, TLC
configurations that check them on small instances, and TLAPS proofs.

Paths below are relative to the repository. Run everything from this directory:
`tlc -config MCTunnelOne.cfg MCTunnel`, `tlapm AwgTunnelProofs.tla`.

## 1. Inventory

| Part | State it keeps | Operations | Hard behaviour | What makes it correct |
|---|---|---|---|---|
| Runtime journal (`src/amneziawg/runtime_journal.c`) | one file per session: state, index, DNS backend and state, firewall scope | serialize, parse, classify | read by another process at any time | a valid journal means what recovery assumes |
| Helper: tunnel, session, switch, remove (`src/helper/amneziawg_helper_{tunnel,session,switch,remove}.c`) | journal, snapshot, DNS file; a copy of the journal in memory | up (with switch), down, remove | crash between any two steps, half-done awg-quick, lost resolver replies, links changed by others, deadlines | every effect on the network is journalled; one session; cleanup is claimed only when proved |
| Helper: DNS, firewall, awg-quick (`amneziawg_dns.c`, `amneziawg_firewall.c`, `amneziawg_helper_quick.c`, `amneziawg_quick_diagnostics.c`) | settings of resolved, resolvconf, nft, iptables | apply, revert; capture, probe; run | uncertain outcomes, tools that disappear | the outcome reported is never better than the truth |
| Helper: storage, profiles (`amneziawg_helper_storage.c`, `amneziawg_helper_profiles.c`) | lock, directories, saved profiles | atomic write, remove, import, replace, delete, list | failure after the rename, exchange and rollback | a profile is old or new, never lost |
| Process supervision (`amneziawg_process.c`, `amneziawg_supervisor.c`, `amneziawg_subprocess.c`) | process groups, retained group, commit flag | register, release, withdraw, terminate | signals and deadlines racing the commit | no orphaned group; commit exactly once |
| Runner (`amneziawg_helper_runner.c`) | one run: helper, groups, stop reason, result | start, stop, hard deadline, reap | result published before cleanup ends | result once; never two helpers at once |
| Service (`amneziawg_service.c`, `amneziawg_policy.c`) | active and pending request, policy generation, pending senders | D-Bus methods, authorization, preemption, idle exit | a grant that is stale when used; action preempts inventory | every request answered once, under a current grant |
| Sidebar side (`src/amneziawg/{backend,controller,admission,model,inventory}.c`) | activity, inventory, reports | user actions, refresh, verification | replies and observations in any order | "User operations take priority over background refreshes and run one at a time" (README.md) |
| Runtime source (`src/amneziawg/{runtime_source,link_identity}.c`) | records, generation, queued scan | monitor events, scan, publish | scan finishing after a change | never publishes a superseded scan; changes are eventually shown |
| Command socket and CLI (`src/gui/command_server.c`, `src/core`, `src/cli`) | socket path, startup lock, bound identity | start, accept, close | two sidebars starting, one closing | a server never unlinks another's socket |
| Sidebar visibility and dialogs (`src/gui/app.c`, `profile_{editor,import}_presenter.c`, `amneziawg_presenter.c`, `src/actions/editor_session.c`) | interaction owners, deferred restore, session generation, bus watch | show, hide, toggle, open chooser or editor, cancel, exited | late callbacks; dialogs that take over from each other | the sidebar comes back as last wished for; a late callback never acts on a newer session |
| Profile editor and save (`src/sections/connection-settings.c`, `src/actions/profile-save.c`) | snapshot and version of a profile, dirty flag, chain of calls | open, edit, save, refresh | others change the profile between two calls | nothing of others is overwritten unseen; a page that saves is released |
| NetworkManager actions, sections, labels (`src/actions/network_actions.c`, `src/sections`, `src/data`, `src/gui`) | widgets and libnm objects | clicks and signals | mostly view code | - |

Interactions: the GTK controller calls the service over D-Bus; the service authorizes
the sender and lets the runner start one helper process; the helper takes the runtime
lock, works on storage and network, and exits with a status. Independently the runtime
source reads journals and netlink and classifies them for display.

`PROJECT.json` lists the hazards of each part at their lines.

## 2. Plan

1. *(done)* `AwgJournal`, `AwgTunnel`, `AwgLedger`, `AwgTunnelProofs`: the helper's sessions.
2. *(done)* `AwgService`: authorization, pending slots, preemption, idle exit; `AwgRunner`:
   the inside of a run and supervision, shown to implement `AwgRunnerView`, the runner the
   service relies on.
3. *(done)* `AwgRuntimeSource` and `AwgLinks`, `AwgBackend`, `AwgController`.
4. *(done)* `AwgProfiles`: import, replace, delete, list, with crashes.
5. *(done)* `CommandServer`, `SidebarInteraction`, `ProfileSave`.
6. *(done)* Proofs of every safety property of the helper's sessions, the service, the
   runner (with its abstract specification), the runtime source, the backend, the
   controller, the command socket, the sidebar's visibility, the profile store, the links
   and the saves of a profile, see section 5.

Abstract specifications: the session ledger (`AwgLedger`, implemented by `AwgTunnel`) and
the runner as the service sees it (`AwgRunnerView`, implemented by `AwgRunner`).

## 3. Modules

| Module | Role |
|---|---|
| `AwgJournal` | fields of a journal, the consistency rule, the classification |
| `AwgTunnel` | the helper: storage, network, one process with a program counter, the environment, all properties |
| `AwgLedger` | abstract specification: the book of sessions |
| `MCTunnel` | names, scopes and symmetry for TLC |
| `AwgService` | the system service: calls, authorization, preemption, idle exit, and the runner as it sees it |
| `AwgRunnerView` | abstract specification: what the service relies on of its runner |
| `AwgRunner` | runner, supervisor, helper process and process groups |
| `AwgProfiles` | the profile store with durability and the administrator's edits |
| `AwgLinks` | link dumps, the event filter, the guard of an interface's identity |
| `AwgRuntimeSource` | the sidebar's cached view of runtime directory and links |
| `AwgBackend` | the sidebar's authorization and its calls to the service |
| `AwgController` | user operations, confirmations, the inventory and its refreshes |
| `CommandServer` | command socket, its thread, and the command line tool |
| `SidebarInteraction` | visibility of the sidebar, choosers, editor sessions |
| `ProfileSave` | the profile editor page and the chain of calls that saves |
| `MC*` | constants and symmetry of each specification for TLC |
| `AwgTunnelProofs`, `AwgControllerProofs`, `AwgLinksProofs`, `AwgProfilesProofs`, `CommandServerProofs` | theorems about the module each extends, section 5 |
| `AwgServiceProofs` | theorems about `AwgService` and `AwgRunner`, section 5; it extends both, so what both have is named apart in `AwgRunner` (`RunnerInit`, `RunnerSpec`, `RunnerTypeOK`, ...) |
| `SidebarViewProofs` | theorems about `AwgRuntimeSource` and `AwgBackend`; named apart in `AwgBackend` (`BackendInit`, `BackendSpec`, `StopBackend`, ...) |
| `SidebarInteractionProofs` | theorems about `SidebarInteraction` and `ProfileSave`; named apart in `ProfileSave` (`ProfileInit`, `ProfileSpec`, `ProfileTypeOK`, `spent`, ...) |

### How AwgTunnel corresponds to the code

*State.* `marker`, `snapshot`, `payload` are the files `<name>.*` in the runtime
directory, `profiles` the saved configurations. `link`, `routes`, `fw`, `linkDns`,
`confDns` are what awg-quick and the resolvers hold for a name; `flight` is a request to
systemd-resolved whose reply was lost and that may still be carried out. `jr` is the
`journal` structure in memory, `blocked` is `dns_recovery_blocked`, `prep` the activation
made by `prepare_up`, `queue` the previous sessions a switch still has to disconnect.

*Control.* `pc` names the next step. Each action performs at most one journal write or
one external command, with all the checks around it, so `Crash` can fall between any
two. Routines with several callers (the DNS transaction, the teardown, the cleanup
verification) appear once; `ctx` says for whom they work and hence where they return.

| Code | Actions |
|---|---|
| `main` | `StartUp`, `StartDown`, `StartRemove`, `Exit` |
| `awg_helper_switch_up`, `disconnect_previous` | `PrepareUp`, `CheckPrevious`, `DisconnectNext`, `ConfirmPrevious`, `StartTarget` |
| `awg_helper_remove`, `awg_helper_profiles_delete` | `StartRemove`, `Delete` |
| `awg_helper_tunnel_down` | `BeginDown`, `BlockUnsettledDns`, `IdentifyLink`, `CommitDown` |
| `apply_dns_durably`, `revert_dns_durably`, `complete_dns_change` | `SkipDns`, `RefuseRevert`, `DnsIntent`, `ResolvedChange`, `ResolvconfChange`, `CompleteDnsChange` |
| `teardown_owned_interface`, `abort_before_interface_teardown` | `Teardown`, `RecordUnconfirmed`, `MarkTeardown`, `QuickDown`, `CheckTeardown`, `AbortTeardown`, `Reactivate` |
| `verify_runtime_cleanup`, `finalize_runtime_entries` | `VerifyCleanup`, `ProbeFirewall`, `RecheckLink`, `RecordComplete`, `RemoveConfig`, `RemoveDns`, `RemoveMarker` |
| `awg_helper_tunnel_activate` | `CheckTarget`, `WriteSnapshot`, `WritePayload`, `WriteActivating`, `DiscardUnstarted`, `QuickUp`, `IncludeScope`, `HandleFailedUp`, `ClaimLink`, `CommitActive`, `ConfirmActive`, `ReleaseGroup` |
| `rollback_activation` | `Rollback`, `IdentifyForRollback`, then the shared steps |

*Faults.* The constant `Faults` selects what can go wrong, see the comment on
`FaultKinds`. A journal write may fail before or after its rename; awg-quick may stop at
any of its stages; a resolver change may be rejected, partly applied, or lost and applied
later; links and firewall tools change behind the helper's back. `Calm` ends all faults;
it is there for the liveness property only. There is no bound on the number of
operations, faults or crashes: the state space is finite by itself.

*Abstractions.* The link token is kept as "owned" or not; an interface renamed while it
keeps its token, and a changed index under the same token, are not modelled. The previous
sessions are disconnected in any order. Contents of configurations matter only through
the DNS backend they lead to. The runtime directory is volatile like the network state,
so a reboot clears both and is not an event of the model. Firewall tools are installed and
removed at any moment. `unseen` and `known` are history: the namespaces awg-quick could use
for a session although no capture that was written has seen their tool. Saved profiles can
be deleted but not added; imports belong to the profile store. One helper at a time is what the
runtime lock gives; that the awg-quick process group of a killed helper is dead before
the next one takes the lock is assumed here and is the subject of `AwgRunner`
(`GroupsAreSupervised`): the runner waits for a detached helper to be reaped, but a group
that even SIGKILL does not end is detached without keeping the runner busy
(amneziawg_helper_runner.c:304). Its commands may then overlap those of the next helper. The
code accepts that and no property here speaks of it: `EndsInTime` and `RunnerView` say that
the run ends and the next helper starts alone, not that the group is gone.

### How AwgService corresponds to the code

*State.* `req` holds the `AwgServiceRequest` objects with the stage they are in (polkit is
asked about the caller, the policy is checked again, waiting for the runner, active);
`slots`, `count`, `active`, `pending` are `pending_senders`, `pending_authorizations`,
`active_request`, `pending_action`. `reply[r]` is the answer the caller of `r` has got
("refused" stands for every reply that is not the result of a run) and stays after the
request is freed, until the object stands for another call. `run`, `sent`, `children`,
`broken` are the runner's run, `result_sent`, `pending_child_reaps` not being empty, and
`failed`.

*Control.* The service is one thread; an action is one callback of its main loop. Every
callback may be next, which covers all orders of D-Bus calls, polkit answers, timers and
runner events. `progress_pending_action` and `start_helper`, with which callbacks end, are
steps of their own (`pc`), taken before any other callback.

| Code | Actions |
|---|---|
| `handle_execute`, `handle_list_profiles`, `begin_authorization` | `HandleExecute`, `HandleListProfiles` |
| `authorization_checked_cb`, `request_policy_checked_cb`, `continue_authorized_request` | `AuthorizationChecked`, `RequestPolicyChecked` |
| `authorization_timeout_cb`, `preempt_timeout_cb`, `idle_timeout_cb`, `policy_validation_timeout_cb` | `AuthorizationTimeout`, `PreemptTimeout`, `IdleTimeout`, `PolicyValidationTimeout` |
| `authority_ready_cb`, `service_policy_checked_cb`, `authorization_changed_cb` | `AuthorityReady`, `ServicePolicyChecked`, `AuthorizationChanged` |
| `bus_acquired_cb` with `name_acquired_cb`, `shutdown_signal_cb`, `name_lost_cb` | `BusAcquired`, `Shutdown` |
| `progress_pending_action`, `start_helper` | `ProgressPendingAction`, `StartHelper` |
| `helper_result_cb`, `helper_runner_changed_cb` as the runner calls them | `FinishRun`, `PublishAtHardDeadline`, `RunnerFails`, `ReapChildren`; within the runner `DetachStalledHelper`, `ChildrenDie` |

*Abstractions.* Time is not counted: a timer may fire as long as it is armed, and a
deadline that is read may have passed. polkit's answers and the outcome of a policy check
are free choices. A stop request to the runner only makes its run end sooner; for a
preempted inventory it also sends the answer at once, which is modelled. A refused call
changes nothing and is no action. `g_main_loop_quit` is taken as the end of the loop,
although GLib may dispatch callbacks that are ready in the same iteration.

### How AwgRunner corresponds to the code

*State.* `job` is the `AwgHelperRun`, `sup` the supervisor's groups, `reaps` is
`pending_child_reaps`, `tracked` `released_groups`, `backends` the groups that
`finalize_release` let go; `h` are the helper's variables, `hp` its process, `msg` and
`ack` what is in the socket pair. `prog`, `sentinel`, `killed` are
the processes of a group; `stray` notes a signal to a number that nothing held any more.

*Control.* Service and helper are two processes. The poll callback of the runner is split
where the helper can act in between (`at`): look at the child (`Observe`), one supervision
message (`HandleMessage`), deadlines and escalation (`Enforce`, `DetachHelper`), reaping
(`ReapHelper`), completion and cleanup of groups (`AwaitClose` to `FinishPoll`). The
helper's side (`HelperNext`) forks a program behind the start gate, registers it, waits,
terminates, reaps and unregisters it, and commits or withdraws an activation. Requests
time out in the helper and may be granted afterwards. `clock` stands for the three
deadlines of a run; after the last one it counts polls that are a grace period apart.

*Abstractions.* The contents of pipes are outcomes. A freshly forked child may hold a copy
of the helper's end of the socket until `hard_at` at most; a child that SIGKILL does not end
in the few system calls before it closes the copy is left out, since `maybe_finish_helper`
would wait for it. A group number may be used again as
soon as neither a process nor a sentinel holds it.

### How the sidebar's side corresponds to the code

`AwgRuntimeSource`: an action is a callback of the main loop (`MonitorChanged`,
`LinkEvents`, `Scheduled`, `Retry`, `ScanComplete`, `PublishActive`), a call of the
controller, a step of the worker thread, or a change of the world. The scan looks at
markers and links one after the other, so the world may change under it. Of the generation
counters only whether the running scan is still current is kept.

`AwgLinks`: the kernel changes links and notifies; a dump reads one link at a time and is
interrupted by links that come or go, as the kernel does it. The program is either the
sidebar, which keeps an observation and filters events, or the helper with its guard. As in
`link_identity.c:449` the filter tracks, of several records with the name, the last one.

`AwgBackend`: what is believed about the authorization, with check, recheck and retry, and
per call the deadline, the caller's cancellation, the answer of the bus and the callback.

`AwgController`: each handler of controller, inventory, admission and model is a function
on the record `k`, and the steps compose them as the code calls them. Backend and runtime
source appear as what `AwgBackend` and `AwgRuntimeSource` promise. One profile stands for
all. Dialogs and loads may be answered after they were given up. `owed`, `unheard` and
`stale` are history: a list that was asked for and has not come, a check that ended without
the controller being told, and a shown state that was looked up before the last command.

`CommandServer`: a starting sidebar takes the lock, looks at the path, probes what it
finds, removes a stale socket, binds and listens; the thread accepts, answers and hands
commands to the main loop; closing stops the thread and clears the path under the lock; a
server found unhealthy is closed and started again. A client connects (`Connect`), sends its
line (`SendLine`, `PingLine`) and waits; between the two the server may take the connection,
wait 0.25 s for the line and close it. A line that was sent is read and run even if the
client has gone. `--quit` pings until a ping is not delivered. The thread ends when it sees
the stop flag, which it reads without a lock, or when `accept` fails: on the socket that is
shut, and likewise on its descriptor once that is closed or has become another file, for
which `accept` fails too since no other socket of the process listens.

`SidebarInteraction`: `app` holds owners, deferred owners and the requested visibility of
gui/app.c; `session` and `procs` are the editor session and the callbacks of its processes,
each with the generation it belongs to. An editor that already runs takes over the request
of a new one, which then exits. The 100 ms timer of a lost focus (app.c:753-776) is no state:
`DismissIfUnfocused` is possible whenever its callback would hide the sidebar, and counts as
the user's wish, since he has clicked elsewhere.

`ProfileSave`: the page's snapshot, version and dirty state, and `SaveProfile`,
`SecretsDone`, `SaveNext`, `UpdateDone`, `SaveFinished` as in the code. NetworkManager
refuses an update with another version. A change announces its version at once, and libnm
takes that over (`VersionTold`) before it has asked for and got the settings
(`GiveSettings`, `SettingsTold`). Each setting that has secrets has a password, which the
page may replace for the last one, and another secret. `sure`, `of` and `touched` are
history: whether a version was taken over together with its settings, which version libnm's
settings are of, and which settings' secrets others changed since they were given.

`AwgProfiles`, in the helper: each system call of import, replace, delete, list and prepare
that can fail or be followed by a crash is a step. A crash finds in each directory one of
the entries it had since its last synchronisation, and a torn file if the file was not
synchronised. The administrator edits without the lock.

Definitions whose name ends in `_Something` and whose comment starts with "Mutant" are
plausible wrong versions of the definition that follows them. They are not used by the
specification: they serve to see that each property fails when the code is wrong.

## 4. Runs

| Run (configuration) | Instance | Checks | States |
|---|---|---|---|
| `one_session` (`MCTunnelOne.cfg`) | 1 name, 1 scope, all faults | `NoOrphanedEffects`, `JournalDnsIsTrue`, `ActiveIsWhole`, `SettledStatesAreSettled`, `FirewallIsTracked`, `RecoveryHasItsFiles`, types; `DeletedProfileIsClean`, `ManualStaysBlocked`, `RecoverySucceeds` | 0.45 million |
| `switch` (`MCTunnelSwitch.cfg`) | 2 names, 1 scope, all faults but `observe` and `tools`, symmetric names | `OneSession`; `SuccessIsEarned`, `ImplementsLedger` | 2.3 million |
| `service` (`MCService.cfg`) | 2 requests, 2 senders, 2 pending authorizations, 2 policy generations | `Bookkeeping`, `GrantIsCurrent`, `RunsAreOwned`, `QuitLeavesNothing`; `CallsAreAnswered`, `ServiceEnds` | 32 thousand |
| `runner` (`MCRunner.cfg`) | 1 group, all operations, 2 runs and faults together | `GroupsAreSupervised`, `EndsInTime`; `SuccessIsAgreed`, `RunnerView` | 2.2 million |
| `runtime_source` (`MCRuntimeSource.cfg`) | 2 names, room for 1, 2 changes and faults together, 2 calls | `NoChangeIsMissed`; `SessionIsFollowed`, `Settles` | 0.5 million |
| `links` (`MCLinks.cfg`) | 2 indices, 3 names, 3 changes, symmetric foreign names | `FilterIsSound`; `GuardIsContinuous` | 1 million |
| `backend` (`MCBackend.cfg`) | 2 calls, 2 policy changes, 2 faults | `AnswersAreSound`; `BackendSettles` | 0.36 million |
| `controller` (`MCController.cfg`) | 2 activities, 1 flip, 1 fault, 3 of these events together | `OneOperation`, `EveryWaitIsOwned` | 1.5 million |
| `profiles` (`MCProfiles.cfg`) | 2 operations, 1 edit, 2 faults, 1 crash | `StoreIsConsistent`; `AvailableWasValid` | 0.6 million |
| `command` (`MCCommand.cfg`) | 2 sidebars, 1 client, 3 starts, 1 fault, backlog 1 | `SocketIsExclusive`; `CommandsTakeEffect` | 0.2 million |
| `interaction` (`MCInteraction.cfg`) | 6 generations, 1 foreign editor, 2 faults | `SidebarFollowsWishes`; `EditorEndsOnce` | 0.15 million |
| `save` (`MCSave.cfg`) | 3 values, 2 passwords, 2 settings with secrets, 1 change by others, 2 saves, 1 fault | `NothingIsOverwritten`; `SaveEnds` | 0.35 million |

Several properties are conjunctions of named parts, stated just before them in the
modules with the code they are about; the type invariants are among the parts.
`PROJECT.json` has a wrong version of the code for every part.

*Why these bounds.*
- `AwgTunnel` needs no bound on operations, faults or crashes. With one scope "a tool is
  gone" and "all tools are gone" coincide; the safety properties are proved for every set
  of scopes and names. Two names are needed for a switch, and since at most one session
  exists (`OneSession`) a third would only add another bystander.
- Two requests are an inventory under way and the action that preempts it, or two
  authorizations at once. A refusal for too many authorizations changes nothing, so the
  limit itself is not exercised; the last policy generation is the one at which the
  counter would wrap.
- Runs, failures and stop requests of the runner share one budget, as do changes and
  failures for the runtime source and the events of the controller: one unusual event
  during a run, or a second run after an undisturbed one, but not both. Within a run each
  step may be the one that is late.
- One place in the cache with two names makes the limit matter.
- Two activities of the controller are what it takes for a late answer to meet a newer
  activity. The number of list requests is not bounded: a new one takes a number that no
  outstanding call has.
- Three starts of two sidebars are a stale socket, its replacement, and a repair.
- Two saves are needed for one to follow another before libnm has learned of it, two
  settings with secrets for one to be asked before the other. One change by others is
  announced, told and fetched in three steps, and iwd's changes count with it.

Deadlock is checked where the system never stops (helper, service, runner and save, whose
states always allow a further step). The other configurations switch it off: the bounds
are used up, or the program has been shut down.

*What they show.*
- `NoOrphanedEffects`, `FirewallIsTracked`: wherever the helper dies and whenever tools come
  and go, whatever is on the network has a journal, and the journal's scope covers its
  firewall rules, but for the window given below.
- `JournalDnsIsTrue`: a journal never claims more about DNS than is true, although
  resolver requests may be carried out late.
- `ActiveIsWhole`: an aborted disconnect promotes a session again only if nothing of it
  was taken down.
- `SettledStatesAreSettled`, `RecoveryHasItsFiles`: what a later helper relies on when it
  resumes a cleanup.
- `SuccessIsEarned`, `DeletedProfileIsClean`: exit status 0 and the deletion of a profile
  are justified by the network, not only by the journal.
- `ManualStaysBlocked`: README.md's "tunnels requiring manual intervention remain
  blocked" holds for every later sequence of operations.
- `RecoverySucceeds`: what the sidebar shows as active or recoverable can be removed by
  one undisturbed disconnect, with one exception stated in the property: a link that
  disappeared together with a firewall tool leaves rules that nothing removes, and the
  session stays in `firewall_pending` until somebody deletes them.

- `GrantIsCurrent`: a grant obtained before a policy or session change starts nothing,
  also for an action that is already authorized and waits for the runner.
- `RunsAreOwned`: the service never starts a helper next to another one or next to an
  unreaped child, and an early answer leaves the run its owner.
- `CallsAreAnswered`, `Bookkeeping`: every admitted call is answered, by the deadlines if
  by nothing else, and its slot is given back.
- `QuitLeavesNothing`, `ServiceEnds`: the process ends without work, and does end.
- `GroupsAreSupervised`: whatever dies and whichever message is late, each program has
  somebody who ends it, and no signal goes to a number that stands for another group.
- `SuccessIsAgreed`, `EndsInTime`: a backend is released only by a committed and clean
  success; a run is over five grace periods after its hard deadline, whatever does not die.
- `RunnerView`: the runner is what `AwgService` takes it for.
- `NoChangeIsMissed`, `Settles`: stale scans are not published, a change noticed during a
  scan leads to another one, and once the world is quiet the view is the truth.
- `SessionIsFollowed`: a session that is up is not pushed out of a full cache.
- `FilterIsSound`, `GuardIsContinuous`: no event that could change an observation is
  ignored; the guard never vouches for a link that was replaced in between.
- `AnswersAreSound`, `BackendSettles`: one answer per call, and all calls end.
- `OneOperation`, `EveryWaitIsOwned`: one command at a time; the state shown when it is over
  was looked up after it; and a list that is owed, a pending list and an open activity have
  a timer, a call, a dialog or a check under way that will end the wait, but for the cases
  given below.
- `StoreIsConsistent`, `AvailableWasValid`: a profile is old or new after a failure or a
  crash, and is reported available only as the file that was checked.
- `SocketIsExclusive`, `CommandsTakeEffect`: no sidebar removes another one's socket,
  `--quit` succeeds only when the server is closed or did not get the ping, and an
  acknowledged command is carried out.
- `SidebarFollowsWishes`, `EditorEndsOnce`: after choosers, editors and failed launches the
  sidebar is as last wished for, and it does come back.
- `NothingIsOverwritten`, `SaveEnds`: a save overwrites neither settings nor secrets that
  libnm had seen whole, and the page is released; the limits are given below.

*What the code does not guarantee*, and the properties therefore do not say:
- A firewall tool that is installed after prepare_up captured the scope (tunnel.c:586) and
  used by `awg-quick up` (665) puts rules into a namespace that no journal names until the
  capture after awg-quick (677), or that of the next disconnect, is written. A helper killed
  in between leaves them there until the next disconnect captures again (922); if the tool
  has been removed by then, and the link has gone so that awg-quick down does not run, that
  disconnect finishes without having looked. `unseen` is this set of namespaces in
  `FirewallIsTracked` and `NoOrphanedEffects`; it is empty as soon as a capture is written
  while those tools are there.
- `scheduled_refresh_cb` (runtime_source.c:957) ends a check without the callback although
  runtime_source.h:62 says "Progress transitions are reported through the changed
  callback". An activity in its verify step then waits on no call, timer or dialog, but for
  the next poll or change of the source (`unheard` in `ActivityIsOwned`).
- A refresh whose turn comes while another interaction is under way, or that is owed when
  authorization is lost, is dropped (inventory.c:478) and made up for by the periodic
  refresh only (`owed` in `RefreshIsArmed`).
- With more profiles and sessions than the cache holds the scan stays incomplete and is
  retried for ever (excluded in `Settles`).
- When the runtime directory is there but cannot be watched and one above it can,
  `ensure_file_monitor` (runtime_source.c:1105) takes that one for ready: what changes in
  the runtime directory is not noticed until something else asks for a scan (excluded by
  `mon.failed` in `CacheIsCurrent`).
- An administrator's edit made after the exchange and before a rollback, or after the
  rename and before a failing synchronisation, is lost. An edit in place that restores the
  modification time is not noticed by replace (list compares the change time). A delete
  that finds no file does not synchronise. Staging files of killed helpers stay. A
  "stopped" result may come with the new file in place.
- `finish_quit_command` takes a ping that was not delivered for the end of the server
  (main.c:146). A ping is also not delivered when no socket is left for it (ipc.c:171), when
  the backlog stays full for a second, and when the server has closed the connection because
  the line did not come in 0.25 s (ipc.c:187): then `--quit` returns 0 with that server
  listening (excluded by `failed` in `QuitIsTrue`). During a repair there is no listener.
  Commands acknowledged but queued behind a quit are dropped with the process.
- Against profile-save.c:129 "Reject concurrent changes instead of overwriting a newer
  profile", a save does overwrite a change of others that libnm has heard of and not seen:
  others write, libnm takes over the new version (`VersionTold`), and the update is sent
  with it while libnm's settings, and hence the comparison of save_next, are still the old
  ones. It is enough that the change falls just before the last secret is given: `OpenPage`,
  `Edit`, `SaveClicked`, `GiveSecrets`, `SecretsDone`, `OtherWrites`, `GiveSecrets`,
  `VersionTold`, `SecretsDone`, `Update` is a behaviour of the model. The page itself may
  adopt such a version in sync_version (connection-settings.c:143). And a page that has just
  saved compares its next save with libnm's copy (profile-save.c:152), which may be what
  others have put back. `NoLostUpdate` says that these are the only cases: the update
  overwrites nothing when libnm had the settings of the version it names (`call.sure`) and,
  as far as the page is concerned, when the page had (`ed.sure`).
- Against profile-save.c:78 "all other secrets remain intact", the secrets of a setting that
  was asked for before the last one may be put back to what they were when it was asked, if
  others change them while those of the next are fetched (`touched` in `SecretsRemain`).
  Secrets of the last setting, and those that nobody changes meanwhile, remain, the other
  secrets of the setting whose password is replaced among them.

*Fairness of the service.* A callback runs to its end. Timers (`AuthorizationExpires`,
`PreemptTimeout`, `IdleTimeout`, the reaper) and the runner's poll are dispatched sooner or
later, which is strong fairness because other callbacks come in between; a cancelled polkit
call returns; an action's run ends, since its helper is detached when it survives the kill.
polkit need not answer by itself, an inventory's run need not end, and children need not
die; `StoppingEnds` adds the last two as its hypothesis `HelpersDie`.

*Fairness of the sidebar's side.* Callbacks whose event has happened are dispatched (weak
fairness for each: timers, file monitor, netlink socket, end of a scan, messages of the
bus); the worker thread and the command thread go on; polkitd and NetworkManager answer or
their deadlines pass. `SidebarInteraction` also assumes that the user closes the editors
and choosers that are open; showing and hiding are never forced. The controller has no
liveness property: with its handlers as functions on one record the liveness graph is too
large for a run, and `EveryWaitIsOwned` states the safety side of it. The runner's is the
bounded `EndsInTime`.

*Fairness of the helper.* Only `WF_vars(HelperStep)`: a running helper goes on until it
exits. It is a sequential process whose waits all carry a deadline, so nothing it does
blocks for ever; it may be killed at any step while faults last. Requests and the
environment are never forced. The property also needs all firewall tools to be runnable
(`Calm`): a scope that could not be captured is recorded as all namespaces and is confirmed
clean only when all can be read.

## 5. Proofs

Everything below is proved for every value of the constants: any number of names, requests,
calls, sidebars, clients, links, operations and changes, and any bound on them. The
assumptions are the `ASSUME`s of the modules, which TLC evaluates in the runs: bounds are
natural numbers, a value that stands for "none" is not one of the real ones, faults are of
the known kinds, link indices are a finite set of positive numbers, the sidebar's profile
names a finite set, a run is for at least one process group, and neither a group nor a
request is the value that stands for none.

| Module | Theorem | Statement |
|---|---|---|
| `AwgTunnelProofs` | `InvariantHolds` | `Spec => []IndInv` |
| | `TypeCorrect` | `Spec => []TypeOK` |
| | `EffectsAreNeverOrphaned` | `Spec => []NoOrphanedEffects` |
| | `JournalsTellTheTruthOnDns` | `Spec => []JournalDnsIsTrue` |
| | `SettledStatesHold` | `Spec => []SettledStatesAreSettled` |
| | `FirewallScopesCover` | `Spec => []FirewallIsTracked` |
| | `AtMostOneSession` | `Spec => []OneSession` |
| | `DeletionIsClean` | `Spec => DeletedProfileIsClean` |
| | `LedgerIsImplemented` | `Spec => ImplementsLedger` |
| | `SessionInvariantHolds` | `Spec => []SessionInv` |
| | `ActiveSessionsAreWhole` | `Spec => []ActiveIsWhole` |
| | `RecoveryFilesAreThere` | `Spec => []RecoveryHasItsFiles` |
| | `ExitStatusIsEarned` | `Spec => SuccessIsEarned` |
| | `OutOfHandStaysBlocked` | `Spec => ManualStaysBlocked` |
| `AwgServiceProofs` | `InvariantHolds` | `Spec => []IndInv` |
| | `GrantsAreCurrent` | `Spec => []GrantIsCurrent` |
| | `RunsStayOwned` | `Spec => []RunsAreOwned` |
| | `QuittingLeavesNothing` | `Spec => []QuitLeavesNothing` |
| | `BooksAreTrue` | `Spec => []Bookkeeping` |
| | `NoCallIsDropped` | `Spec => NoSilentDrop`, the safety half of `CallsAreAnswered` |
| | `RunnerInvariantHolds` | `RunnerSpec => []RunnerInv` |
| | `GroupsStaySupervised` | `RunnerSpec => []GroupsAreSupervised` |
| | `RunsEndInTime` | `RunnerSpec => []EndsInTime` |
| | `SuccessStaysAgreed` | `RunnerSpec => SuccessIsAgreed` |
| | `RunnerKeepsView` | `RunnerSpec => RunnerView`: the runner implements `AwgRunnerView` |
| `SidebarViewProofs` | `InvariantHolds` | `Spec => []IndInv` |
| | `ChangesAreNoticed` | `Spec => []NoChangeIsMissed` |
| | `SessionStaysFollowed` | `Spec => SessionIsFollowed` |
| | `BackendInvariantHolds` | `BackendSpec => []BackendInv` |
| | `AnswersStaySound` | `BackendSpec => []AnswersAreSound` |
| | `StopSilencesAnswers` | `BackendSpec => NoAnswerAfterStop`, the safety part of `BackendSettles` |
| `AwgControllerProofs` | `InvariantHolds` | `Spec => []IndInv` |
| | `OperationsStaySingle` | `Spec => []OneOperation` |
| | `WaitsStayOwned` | `Spec => []EveryWaitIsOwned` |
| `AwgLinksProofs` | `InvariantHolds` | `Spec => []IndInv` |
| | `FilterStaysSound` | `Spec => []FilterIsSound` |
| | `GuardStaysContinuous` | `Spec => GuardIsContinuous` |
| `AwgProfilesProofs` | `InvariantHolds` | `Spec => []IndInv` |
| | `StoreStaysConsistent` | `Spec => []StoreIsConsistent` |
| | `AvailabilityIsEarned` | `Spec => AvailableWasValid` |
| `CommandServerProofs` | `InvariantHolds` | `Spec => []IndInv` |
| | `SocketStaysExclusive` | `Spec => []SocketIsExclusive` |
| `SidebarInteractionProofs` | `InvariantHolds` | `Spec => []IndInv` |
| | `SidebarObeys` | `Spec => []SidebarFollowsWishes` |
| | `NoSessionEndsEarly` | `Spec => NotEndedEarly`, the safety half of `EditorEndsOnce` |
| | `SaveInvariantHolds` | `ProfileSpec => []SaveInv` |
| | `SaveTypesHold` | `ProfileSpec => []ProfileTypeOK` |
| | `UpdatesAreNotLost` | `ProfileSpec => NoLostUpdate` |
| | `OtherSecretsRemain` | `ProfileSpec => SecretsRemain` |
| | `SavesOverwriteNothing` | `ProfileSpec => NothingIsOverwritten` |

Each module ends with its inductive invariant, a conjunction of named parts; TLC checked
every one of them on the instance of its run before it was proved. Each proof has a lemma
per action (or per group of actions that disturb the same parts), one for the initial
states, and one that puts the actions together.

*AwgTunnel.* That a journal on disk accounts for the network (`DiskAccounts`) is not
inductive: the helper writes the journal it has in memory, so that one must account for the
network as well at every step that may write it (`MemoryAccounts`); a failed write leaves
either of them, and both must do. A DNS change is recorded from its outcome, so while it is
under way the value about to be recorded must be true already (`DnsFacts`), and a request of
unknown fate must block all later steps. `StepFacts` says what each step has established (no
link after a successful down, nothing at all once the cleanup is being recorded, the journal
on disk before awg-quick runs), `PreparedIsCurrent` that a prepared activation knows the
firewall tools that prepare_up captured, and `OneSession` makes the session in memory the
only one. The lemmas `WriteMarkerEffect` and `RefreshEffect` say what a journal write may
leave behind. `SessionInv` is a second invariant on top of this one: what the phase of an
operation and the step under way tell of routes, files and the states of journals. From it
follow what exit status 0 and a promotion to active rest on.

*AwgService.* `req` and its four summaries (`slots`, `count`, `active`, `pending`) are kept
consistent by every callback (`CountIsTrue`, `SlotsAreTrue`, `OwnersAreTrue`), and
`ControlIsTrue` says what the tail calls of a callback rely on. A grant is used only by the
request that the owners name, which is why `GrantIsCurrent` is proved together with them.

*AwgRunner.* Two processes, a socket pair and the groups they start are kept consistent by
what each may assume of the others. `RunIsBooked` says who has to reap the helper, so that
no second one starts beside it. A group lives only while the service owns it through a
sentinel, has let it go or has killed it (`OwnedAreKept`, `GroupsAreKnown`), from which
`NoOrphan` and `BackendSurvives` follow. For `NoStraySignal` the helper's view is needed:
what it takes for registered is owned, what it is about to signal is not forgotten yet
(`HelperHolds`), and an answer it reads is the answer to what it asked, also after a
request of its own has timed out (`HelperHears`, `RequestsAreSound`). `CommitIsClean` and
`SuccessIsUnspoilt` follow an activation from the request to let its group go to the
published success. `EndIsNear` says for every place of the poll callback how far stop,
interruption, kill and detachment have come by each poll after `hard_at`; `EndsInTime` is
not inductive without it. The lemmas follow the functions of the poll first (`StopDoes`,
`ObserveDoes`, `HandleMessageDoes`, `EnforceDoes`, `PublishedDoes`); for the refinement the
steps of the helper, of the system and most of the poll are stutters (`HelperIsQuiet`,
`SystemIsQuiet`, `PollIsQuiet`).

*AwgRuntimeSource.* The cache is true because of what would contradict it: `CacheFollows`
says that while it is fresh the socket is open and the monitor is where the directory is,
or has something to tell, and then every record is so or an event that passes the filter
waits. A scan brings this about (`ScanFollows`) because it started after the monitors were
set up, and what happened since is in the socket, in the monitor, or has overtaken it; an
overtaken scan is followed by another one (`OutdatedIsPending`). `MonitorTells` is why a
monitor that watches the wrong directory is never silent about it. `SourceFits` relates the
source's own flags; without "fresh, pending or running" in it, a timer that fires with
nothing to do would leave the controller waiting for a result. The lemmas follow the
functions on the flags first (`RefreshDoes`, `EnsureMonitorDoes`, `PublishFirstDoes`), so
that each callback only has to say what it does to cache and scan.

*AwgBackend.* A positive answer of polkit is current when it is given and may be stale when
it is read. `AnswersAreCurrent` says that in between word of the change is in the inbox or
was read already and has made the backend ask again; this needs that the changes are
subscribed to first (`SubscribedFirst`) and that one check is under way (`CheckIsTracked`).

*AwgController.* What waits (`ListsAreTold`, `PendingIsListed`, `CommandIsShown`,
`DialogIsAsked`) has a call or dialog with its number, and whatever carries an older number
is ignored; background refreshes are suspended exactly during an activity
(`SuspendedIsBusy`). A state that is older than the last command is only there while the
activity is, and whatever is owed is due or pending. The lemmas follow the functions that
the handlers are composed of.

*AwgLinks.* `DumpFollows`: of each link a dump has passed, it has what the link is, or what
became of the link is in the socket. `CacheFollows` and `GuardFollows` carry this over to
the observation and to the guard: nothing is wrong unless a notification waits that the
filter, or the guard, does not let pass. An observation depends on links of the name or the
token only (`ObserveSees`). Of those with the name the filter tracks the last one only; it
is enough because two links never have one name (`NamesDiffer`), so that of several records
in a dump all but one are out of date, and what they became is in the socket. A notification
it drops is then of a link that does not matter now. That a dump which links interrupt is
thrown away is not needed for either property: the socket was open before.

*AwgProfiles.* `StepsFit`, `Candidate` and `StagingFollows` say which steps an operation
has and what is under the staging name at each; `OldOrNew` what the profile is at each step
nobody disturbed, on disk and after a crash; `StampsGrow` and `EditFollows` that an edit
made before the exchange is seen by the comparison of times, unless it restores them. An
inspection earns "available" because the file that was checked is still the same one
(`InspectionHolds`).

*CommandServer.* Only the holder of the startup lock changes the path
(`PathIsAsSeen`), each start makes one socket with an inode of its own
(`OneSocketEach`, `InodesAreUnique`), and a listening socket is the one at the path
(`ListenersAreReached`). `RivalFacts` counts who was alive while another started, and the
client's connections keep to the server they led to, so that a closed one stays closed. A
ping between connection and line is on the server that took the command as long as that
listens (`QuitFacts`), so it can only miss it when the connection was closed for its line.

*SidebarInteraction.* Callbacks are of generations that were given out
(`GenerationsAreFresh`), the owners recorded in the application are those of the dialogs
that are open (`DialogsAreBooked`), and what a query or a watch reports about the bus name
witnesses that an editor serves the request or is gone (`EditorsAreWitnessed`).

*ProfileSave.* `Copies` are the pairs of a version and settings that somebody is known to
have had together: NetworkManager, libnm for the version its settings are of, each message
with settings, a page that is sure and an update that is sure. Two of them with the same
version have the same settings (`VersionsTell`), because only NetworkManager makes versions
and each is paid for (`VersionsAreSpent`). What libnm is told arrives in order and every
version is announced before its settings (`NewsInOrder`), so a page that is sure has a
version libnm's settings are not older than. A save waits for one answer (`OneAnswer`).
Secrets that somebody has changed since they were given are older than a version that libnm
does not know yet when they arrive (`SecretsTell`), so an update that follows the last of
them at once is refused; for an earlier one this does not hold, and the property leaves it
out. The number of settings with secrets is a parameter of all this.

*Checked by TLC only.*
- Liveness: `RecoverySucceeds`, `CallsAreAnswered`, `ServiceEnds`, `Settles`,
  `BackendSettles`, `CommandsTakeEffect`, `EditorEndsOnce`, `SaveEnds`. It is beyond the
  prover, as is the fairness it rests on; the safety halves listed above are proved.

## 6. Not modelled

- Parsing and formatting: journal text, configurations, rule listings, awg-quick's trace,
  D-Bus encodings, the netlink wire format, command line arguments.
- Path and ownership checks of the storage, except as outcomes.
- The comparison of polkit's actions with the expected ones (`amneziawg_policy.c`): one
  enumeration, a free choice in `AwgService`.
- NetworkManager actions and sections (`network_actions.c`, `src/sections` apart from the
  editor page, `src/data`, labels): calls to libnm whose callbacks report an error, and
  widgets rebuilt from libnm's objects; the state is NetworkManager's.
- Of the sidebar: a failing layer shell, confirmation dialogs and toasts of the presenter,
  scrolling; of the editor page: filling and checking fields, IP settings, adding a profile.
- Reuse of inode numbers by the file system of the command socket (tmpfs does not), and
  callbacks that GLib dispatches in the iteration in which the service quits.
