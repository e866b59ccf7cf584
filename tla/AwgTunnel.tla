----------------------------- MODULE AwgTunnel ------------------------------
(***************************************************************************)
(* The privileged helper that brings AmneziaWG sessions up and down:       *)
(* amneziawg_helper_tunnel.c with the switch, the removal, the session     *)
(* identity and the DNS and firewall steps it calls.                       *)
(*                                                                         *)
(* The runtime lock admits one helper at a time, so one program counter    *)
(* is enough.  What makes the code hard is that every step may be cut:     *)
(* the helper dies between any two steps, a journal write fails before or  *)
(* after its rename, awg-quick or the resolver stop half way, a deadline   *)
(* passes, and the link is deleted or replaced behind the helper's back.   *)
(* One action performs at most one journal write or one external command,  *)
(* so a crash can fall between any two of them.                            *)
(***************************************************************************)
EXTENDS AwgJournal

CONSTANTS Names,   \* names of profiles, sessions and interfaces
          Faults   \* the kinds of fault that may happen, see FaultKinds

(***************************************************************************)
(* "io"      a write or removal fails, before or after it took effect      *)
(* "observe" a netlink dump or the read of a file fails                    *)
(* "stop"    a phase deadline passes or termination is requested           *)
(* "crash"   the helper is killed                                          *)
(* "link"    somebody else deletes, creates or renames an interface; also  *)
(*           the death of a userspace backend, which takes its link along  *)
(* "tools"   a firewall tool is installed, removed or not trusted          *)
(* "dns"     the resolver rejects a change or its reply is lost            *)
(* "quick"   awg-quick is not started, fails or is killed half way, or its *)
(*           supervisor does not answer                                    *)
(***************************************************************************)
FaultKinds == {"io", "observe", "stop", "crash", "link", "tools", "dns", "quick"}

ASSUME FaultsAssumption == Faults \subseteq FaultKinds

VARIABLES
  \* storage: /run/nm-sidebar/amneziawg and /etc/amnezia
  marker,    \* [Names -> Journals or NoMarker]: the runtime journals
  snapshot,  \* [Names -> BOOLEAN]: the runtime copy of the configuration
  payload,   \* [Names -> Payloads]: the runtime DNS file
  profiles,  \* the saved profiles
  \* the network the session changes
  link,      \* [Names -> Links]
  routes,    \* [Names -> {"none", "partial", "full"}]: routes and policy rules
  fw,        \* [Names -> SUBSET Scopes]: namespaces that hold a session's rules
  linkDns,   \* [Names -> Applied]: systemd-resolved, per link
  confDns,   \* [Names -> Applied]: resolvconf, per name
  flight,    \* [Names -> Flights]: a request to resolved of unknown fate
  tools,     \* firewall tools that can be run
  unseen,    \* [Names -> SUBSET Scopes]: history, namespaces awg-quick could
             \* use for a session without a recorded capture of their tool
  \* the helper process
  pc,        \* the next step
  op,        \* the requested operation
  target,    \* and its name
  queue,     \* previous sessions still to disconnect
  prep,      \* the journal prepare_up made for the target
  known,     \* history: the tools there were when prepare_up captured them
  cur,       \* the session being worked on
  jr,        \* its journal in memory
  ctx,       \* which routine the shared steps work for
  blocked,   \* dns_recovery_blocked
  began,     \* began_active
  prev,      \* dns_state before the DNS change
  dnsres,    \* outcome, then result, of the DNS change
  quick,     \* result of awg-quick
  exit,      \* exit status of the last helper that returned
  faults     \* the kinds of fault still possible

disk    == <<marker, snapshot, payload, profiles>>
network == <<link, routes, fw, linkDns, confDns, flight, tools, unseen>>
request == <<op, target, queue, prep, known>>
locals  == <<cur, jr, ctx, blocked, began, prev, dnsres, quick>>
vars    == <<disk, network, pc, request, locals, exit, faults>>

Payloads == {"missing", "empty", "servers"}
Links    == {"none",      \* no interface of this name
             "raw",       \* created by awg-quick, not yet claimed by the token
             "owned",     \* carries the token of this name's journal
             "foreign"}   \* somebody else's interface
Applied  == {"absent", "partial", "applied"}
Flights  == {"none", "apply", "revert"}

Pcs == {"idle", "prepare", "admit", "next", "settled", "begin", "block",
        "identify", "commit_down", "intent", "call", "record", "teardown",
        "mark", "unconfirmed", "quick_down", "check", "abort", "reactivate",
        "verify", "probe", "recheck", "complete", "rm_config", "rm_dns",
        "rm_marker", "discard", "activate", "snapshot", "payload",
        "activating", "quick_up", "scope", "failed_up", "up_refresh",
        "commit", "confirm", "release", "rollback", "rb_refresh", "delete",
        "finish", "fail"}
Contexts == {"none", "down", "activate", "rollback", "abort", "early", "discard"}

TypeOK ==
  /\ marker \in [Names -> Journals \cup {NoMarker}]
  /\ snapshot \in [Names -> BOOLEAN]
  /\ payload \in [Names -> Payloads]
  /\ profiles \subseteq Names
  /\ link \in [Names -> Links]
  /\ routes \in [Names -> {"none", "partial", "full"}]
  /\ fw \in [Names -> SUBSET Scopes]
  /\ linkDns \in [Names -> Applied]
  /\ confDns \in [Names -> Applied]
  /\ flight \in [Names -> Flights]
  /\ tools \subseteq Scopes
  /\ unseen \in [Names -> SUBSET Scopes]
  /\ known \subseteq Scopes
  /\ pc \in Pcs
  /\ op \in {"none", "up", "down", "remove"}
  /\ target \in Names
  /\ queue \subseteq Names
  /\ prep \in Journals
  /\ cur \in Names
  /\ jr \in Journals
  /\ ctx \in Contexts
  /\ blocked \in BOOLEAN
  /\ began \in BOOLEAN
  /\ prev \in DnsStates
  /\ dnsres \in {"none", "ok", "failed", "failed_may", "uncertain",
                 "uncertain_may", "change_failed", "journal_failed"}
  /\ quick \in {"none", "ok", "failed", "early", "not_started"}
  /\ exit \in {"none", "success", "failure"}
  /\ faults \subseteq Faults

-----------------------------------------------------------------------------
(* Storage and observation.                                                *)

\* Mutant: the firewall scope is captured only after awg-quick has run.
NewJournal_NoScope(backend, scope) ==
  [state |-> "activating", ifindex |-> FALSE, backend |-> backend,
   was |-> FALSE, dns |-> "absent", scope |-> {}]

\* A journal as prepare_up fills it in (the zeroed structure is "none").
NewJournal(backend, scope) ==
  [state |-> "activating", ifindex |-> FALSE, backend |-> backend,
   was |-> FALSE, dns |-> "absent", scope |-> scope]

BlankJournal == NewJournal("none", {})

Stop == "stop" \in faults

\* A read-only step may fail although the state would let it succeed.
Disturbed == Stop \/ "observe" \in faults

(***************************************************************************)
(* awg_helper_storage_write_runtime_marker.  The serializer refuses an     *)
(* inconsistent journal.  The file is replaced by rename; the directory    *)
(* sync and the check that follow may still report a failure, so a failed  *)
(* write leaves the old or the new journal behind.                         *)
(***************************************************************************)
WriteMarker(j, ok) ==
  /\ UNCHANGED <<snapshot, payload, profiles>>
  /\ \/ ok /\ FieldsAreValid(j) /\ marker' = [marker EXCEPT ![cur] = j]
     \/ ~ok /\ FieldsAreValid(j) /\ "io" \in faults
        /\ marker' = [marker EXCEPT ![cur] = j]
     \/ ~ok /\ ("io" \in faults \/ ~FieldsAreValid(j)) /\ UNCHANGED marker

\* Mutant: the error of unlinkat is not reported.
Removal_IgnoresErrors(ok, gone) == (ok /\ gone) \/ "io" \in faults

(***************************************************************************)
(* remove_and_sync succeeds on a missing entry, and a failed directory     *)
(* sync reports failure after the entry is gone.                           *)
(***************************************************************************)
Removal(ok, gone) ==
  /\ ok => gone
  /\ ~ok => "io" \in faults

\* awg_helper_session_owned_link_state, when the dump succeeds.
OwnedLinkState(n) ==
  CASE link[n] = "none"  -> "absent"
    [] link[n] = "owned" -> "present"
    [] OTHER             -> "conflict"

Seen(n) == {OwnedLinkState(n)} \cup (IF "observe" \in faults THEN {"unknown"} ELSE {})

\* awg_helper_session_runtime_state reports neither a journal nor an interface.
RuntimeIsFree(n) == marker[n] = NoMarker /\ link[n] = "none"

(***************************************************************************)
(* awg_helper_session_refresh_owned_interface: r is what the caller learns *)
(* about the link; the index of a link seen for the first time is          *)
(* journalled, and kept in memory even when that write fails.              *)
(***************************************************************************)
RefreshOwnedInterface(r) ==
  \E seen \in Seen(cur) :
    \/ /\ seen = "present" /\ ~jr.ifindex
       /\ jr' = [jr EXCEPT !.ifindex = TRUE]
       /\ \E ok \in BOOLEAN :
            /\ WriteMarker([jr EXCEPT !.ifindex = TRUE], ok)
            /\ r = IF ok THEN "present" ELSE "unknown"
    \/ /\ seen = "present" => jr.ifindex
       /\ r = seen
       /\ UNCHANGED <<disk, jr>>

\* Mutant: a disconnect insists on a DNS payload.
RuntimeFilesMatch_NeedsServers(n, backend) ==
  snapshot[n] /\ payload[n] = "servers"

\* The files a disconnect needs: load_runtime_dns, the snapshot, and the
\* agreement between the journal's backend and the DNS file.
RuntimeFilesMatch(n, backend) ==
  /\ snapshot[n]
  /\ payload[n] # "missing"
  /\ backend = "none" <=> payload[n] = "empty"

\* awg_firewall_capture_scope as include_current_firewall_scope uses it: all
\* namespaces when a tool cannot be inspected.
CapturedScopes == {tools} \cup (IF "tools" \in faults THEN {Scopes} ELSE {})

\* A capture whose journal is written has seen the tools there are now.
Captured(recorded) ==
  unseen' = IF recorded THEN [unseen EXCEPT ![cur] = @ \ tools] ELSE unseen

\* Mutant: sessions that need recovery are not listed.
RuntimeNames_ActiveOnly == {n \in Names : marker[n].state = "active"}

\* awg_helper_storage_list_runtime_names.
RuntimeNames == {n \in Names : marker[n] # NoMarker}

-----------------------------------------------------------------------------
(* The request: the helper's main function, the switch and the removal.    *)

Init ==
  /\ marker = [n \in Names |-> NoMarker]
  /\ snapshot = [n \in Names |-> FALSE]
  /\ payload = [n \in Names |-> "missing"]
  /\ profiles \in SUBSET Names
  /\ link = [n \in Names |-> "none"]
  /\ routes = [n \in Names |-> "none"]
  /\ fw = [n \in Names |-> {}]
  /\ linkDns = [n \in Names |-> "absent"]
  /\ confDns = [n \in Names |-> "absent"]
  /\ flight = [n \in Names |-> "none"]
  /\ tools \in SUBSET Scopes
  /\ unseen = [n \in Names |-> {}] /\ known = {}
  /\ pc = "idle" /\ op = "none" /\ queue = {} /\ prep = BlankJournal
  /\ target \in Names /\ cur = target
  /\ jr = BlankJournal /\ ctx = "none"
  /\ blocked = FALSE /\ began = FALSE /\ prev = "absent"
  /\ dnsres = "none" /\ quick = "none" /\ exit = "none"
  /\ faults = Faults

\* The lock is taken and the operation dispatched.
Start(o, first, n) ==
  /\ pc = "idle"
  /\ pc' = first /\ op' = o /\ target' = n /\ cur' = n /\ exit' = "none"
  /\ ctx' = IF first = "begin" THEN "down" ELSE "none"
  /\ UNCHANGED <<disk, network, queue, prep, known, jr, blocked, began, prev,
                 dnsres, quick, faults>>

StartUp(n)     == Start("up", "prepare", n)
StartDown(n)   == Start("down", "begin", n)
StartRemove(n) == Start("remove", "begin", n)

\* Where a session that awg_helper_tunnel_down cleaned up leads.
AfterDown == CASE op = "up"     -> "settled"
               [] op = "remove" -> "delete"
               [] OTHER         -> "finish"

\* Memory is gone when the process is: by exit or by a crash.
Forget ==
  /\ pc' = "idle" /\ op' = "none" /\ queue' = {} /\ prep' = BlankJournal
  /\ known' = {}
  /\ cur' = target /\ jr' = BlankJournal /\ ctx' = "none"
  /\ blocked' = FALSE /\ began' = FALSE /\ prev' = "absent"
  /\ dnsres' = "none" /\ quick' = "none"
  /\ UNCHANGED <<disk, network, target, faults>>

\* main: a success that is not committed is withdrawn after a late stop.
Exit ==
  /\ Forget
  /\ \/ pc = "finish" /\ exit' = "success"
     \/ pc = "finish" /\ op # "up" /\ Stop /\ exit' = "failure"
     \/ pc = "fail" /\ exit' = "failure"

Crash ==
  /\ "crash" \in faults /\ pc # "idle"
  /\ Forget
  /\ exit' = "none"

(***************************************************************************)
(* awg_helper_switch_up, up to prepare_up: the sessions to disconnect are  *)
(* listed, then the activation is prepared without changing anything.      *)
(***************************************************************************)
PrepareUp ==
  /\ pc = "prepare"
  /\ \/ /\ target \in profiles
        /\ RuntimeIsFree(target)
        /\ \E backend \in Backends : prep' = NewJournal(backend, tools)
        /\ known' = tools
        /\ queue' = RuntimeNames
        /\ pc' = "admit"
     \/ /\ \/ target \notin profiles
           \/ ~RuntimeIsFree(target)
           \/ Disturbed
           \/ faults \cap {"tools", "dns"} # {}
        /\ pc' = "fail"
        /\ UNCHANGED <<prep, known, queue>>
  /\ UNCHANGED <<disk, network, op, target, locals, exit, faults>>

\* Mutant: a new worker takes up the resolved change of an earlier one.
UnsettledResolved_Never(m) == FALSE

\* A change of systemd-resolved whose fate no journal tells.
UnsettledResolved(m) == m.backend = "resolved" /\ m.dns = "unknown"

\* awg_helper_tunnel_check_down accepts session n.
CheckDown(n) ==
  LET m == marker[n]
  IN IF m = NoMarker THEN link[n] = "none"
     ELSE IF m.state \in {"cleanup_complete", "firewall_pending"}
     THEN OwnedLinkState(n) = "absent"
     ELSE /\ OwnedLinkState(n) = "present"
          /\ m.state # "cleanup_unconfirmed"
          /\ ~UnsettledResolved(m)
          /\ RuntimeFilesMatch(n, m.backend)

\* The whole admission pass comes before the first disconnect.
CheckPrevious ==
  /\ pc = "admit"
  /\ \/ (\A n \in queue : CheckDown(n)) /\ pc' = "next"
     \/ ((\E n \in queue : ~CheckDown(n)) \/ Disturbed) /\ pc' = "fail"
  /\ UNCHANGED <<disk, network, request, locals, exit, faults>>

\* disconnect_previous: a tunnel object of its own for every session.
DisconnectNext ==
  /\ pc = "next" /\ queue # {}
  /\ \/ \E n \in queue :
          /\ cur' = n /\ queue' = queue \ {n}
          /\ ctx' = "down" /\ blocked' = FALSE /\ pc' = "begin"
     \/ Stop /\ pc' = "fail" /\ UNCHANGED <<cur, queue, ctx, blocked>>
  /\ UNCHANGED <<disk, network, op, target, prep, known, jr, began, prev, dnsres,
                 quick, exit, faults>>

\* disconnect_previous, after down: nothing of the session may remain.
ConfirmPrevious ==
  /\ pc = "settled"
  /\ \/ RuntimeIsFree(cur) /\ pc' = "next"
     \/ (~RuntimeIsFree(cur) \/ Disturbed) /\ pc' = "fail"
  /\ UNCHANGED <<disk, network, request, locals, exit, faults>>

\* The journals are listed again; the target starts only if none remains.
StartTarget ==
  /\ pc = "next" /\ queue = {}
  /\ \/ /\ RuntimeNames = {}
        /\ cur' = target /\ jr' = prep /\ ctx' = "activate" /\ began' = FALSE
        /\ blocked' = FALSE /\ dnsres' = "none" /\ quick' = "none"
        /\ prev' = "absent" /\ pc' = "activate"
     \/ (RuntimeNames # {} \/ Disturbed) /\ pc' = "fail" /\ UNCHANGED locals
  /\ UNCHANGED <<disk, network, request, exit, faults>>

\* Mutant: the profile is deleted without another look at the runtime state.
Delete_Unchecked ==
  /\ pc = "delete" /\ pc' = "finish"
  /\ profiles' = profiles \ {target}
  /\ UNCHANGED <<marker, snapshot, payload, network, request, locals, exit, faults>>

\* awg_helper_remove after down, and awg_helper_profiles_delete.
Delete ==
  /\ pc = "delete"
  /\ \/ /\ RuntimeIsFree(target)
        /\ \E ok, gone \in BOOLEAN :
             /\ Removal(ok, gone)
             /\ target \notin profiles => ok
             /\ profiles' = IF gone THEN profiles \ {target} ELSE profiles
             /\ pc' = IF ok THEN "finish" ELSE "fail"
     \/ /\ ~RuntimeIsFree(target) \/ Disturbed
        /\ pc' = "fail" /\ UNCHANGED profiles
  /\ UNCHANGED <<marker, snapshot, payload, network, request, locals, exit, faults>>

-----------------------------------------------------------------------------
(* awg_helper_tunnel_down.                                                 *)

\* Where the start of a disconnect leads, by the journal and the link seen.
DownRoute(m, seen) ==
  IF m = NoMarker
  THEN IF seen = "absent" THEN AfterDown ELSE "fail"
  ELSE IF seen \notin {"absent", "present"} \/ m.state = "cleanup_unconfirmed"
  THEN "fail"
  ELSE IF m.state = "cleanup_complete"
  THEN IF seen = "present" THEN "fail" ELSE "complete"
  ELSE IF m.state = "firewall_pending"
  THEN IF seen = "present" THEN "fail" ELSE "verify"
  ELSE IF UnsettledResolved(m) THEN "block"
  ELSE IF seen = "present" /\ ~m.ifindex THEN "identify"
  ELSE "commit_down"

BeginDown ==
  /\ pc = "begin"
  /\ \/ \E seen \in Seen(cur) :
          /\ pc' = DownRoute(marker[cur], seen)
          /\ jr' = IF marker[cur] = NoMarker THEN jr ELSE marker[cur]
     \/ Stop /\ pc' = "fail" /\ UNCHANGED jr
  /\ UNCHANGED <<disk, network, request, cur, ctx, blocked, began, prev, dnsres,
                 quick, exit, faults>>

(***************************************************************************)
(* A new worker has no evidence about a resolved change that an earlier    *)
(* one left unsettled: it gives up for good.                               *)
(***************************************************************************)
BlockUnsettledDns ==
  LET j == [jr EXCEPT !.state = "cleanup_unconfirmed"]
  IN /\ pc = "block"
     /\ blocked' = TRUE /\ jr' = j /\ pc' = "fail"
     /\ \E ok \in BOOLEAN : WriteMarker(j, ok)
     /\ UNCHANGED <<network, request, cur, ctx, began, prev, dnsres, quick,
                    exit, faults>>

IdentifyLink ==
  /\ pc = "identify"
  /\ \E r \in {"absent", "conflict", "present", "unknown"} :
       /\ RefreshOwnedInterface(r)
       /\ pc' = IF r = "present" THEN "commit_down" ELSE "fail"
  /\ UNCHANGED <<network, request, cur, ctx, blocked, began, prev, dnsres,
                 quick, exit, faults>>

\* was_active is history: only the state on disk says the session was active.
CommitDown ==
  /\ pc = "commit_down"
  /\ \/ /\ ~RuntimeFilesMatch(cur, jr.backend) \/ "observe" \in faults
        /\ pc' = "fail"
        /\ UNCHANGED <<disk, unseen, jr, began>>
     \/ /\ RuntimeFilesMatch(cur, jr.backend)
        /\ began' = (jr.state = "active")
        /\ \E scope \in CapturedScopes, ok \in BOOLEAN :
             LET j == [jr EXCEPT !.state = "cleanup_required",
                                 !.scope = @ \cup scope]
             IN /\ jr' = j
                /\ WriteMarker(j, ok)
                /\ Captured(ok)
                /\ pc' = IF ok THEN "intent" ELSE "fail"
  /\ UNCHANGED <<link, routes, fw, linkDns, confDns, flight, tools, request, cur,
                 ctx, blocked, prev, dnsres, quick, exit, faults>>

-----------------------------------------------------------------------------
(* apply_dns_durably and revert_dns_durably: the journal says "unknown"    *)
(* while a change is under way.                                            *)

Applying == ctx \in {"activate", "abort"}

\* What the caller of the DNS transaction does with its result r.
AfterDns(r, nowBlocked) ==
  CASE ctx = "activate" -> IF r = "ok" THEN "commit" ELSE "rollback"
    [] ctx = "abort"    -> IF r = "ok" THEN "reactivate" ELSE "fail"
    [] ctx = "rollback" -> IF nowBlocked THEN "fail" ELSE "teardown"
    [] OTHER            -> IF nowBlocked THEN "fail"
                           ELSE IF r = "ok" THEN "teardown" ELSE "abort"

NothingToChange ==
  IF Applying THEN jr.backend = "none" \/ jr.dns = "applied"
              ELSE jr.dns = "absent"

SkipDns ==
  /\ pc = "intent"
  /\ blocked \/ NothingToChange
  /\ LET r == IF blocked THEN "uncertain"
              ELSE IF Applying /\ jr.backend = "none" /\ jr.dns # "absent"
              THEN "journal_failed" ELSE "ok"
     IN dnsres' = r /\ pc' = AfterDns(r, blocked)
  /\ UNCHANGED <<disk, network, request, cur, jr, ctx, blocked, began, prev,
                 quick, exit, faults>>

\* A resolvconf entry is not touched while the link is unknown or not ours.
RefuseRevert ==
  /\ pc = "intent" /\ ~blocked /\ ~NothingToChange
  /\ ~Applying /\ jr.backend = "resolvconf"
  /\ Seen(cur) \cap {"unknown", "conflict"} # {}
  /\ prev' = jr.dns /\ dnsres' = "uncertain" /\ pc' = "record"
  /\ UNCHANGED <<disk, network, request, cur, jr, ctx, blocked, began, quick,
                 exit, faults>>

DnsIntent ==
  LET j == [jr EXCEPT !.dns = "unknown"]
  IN /\ pc = "intent" /\ ~blocked /\ ~NothingToChange
     /\ ~Applying /\ jr.backend = "resolvconf" => OwnedLinkState(cur) # "conflict"
     /\ prev' = jr.dns
     /\ \E ok \in BOOLEAN :
          /\ WriteMarker(j, ok)
          /\ \/ ok /\ jr' = j /\ pc' = "call" /\ UNCHANGED dnsres
             \/ /\ ~ok /\ UNCHANGED jr
                /\ dnsres' = "journal_failed"
                /\ pc' = AfterDns("journal_failed", blocked)
     /\ UNCHANGED <<network, request, cur, ctx, blocked, began, quick, exit, faults>>

(***************************************************************************)
(* resolved_change: a guard binds every request to the link.  dnsres is    *)
(* the DnsChangeOutcome, "_may" standing for may_have_changed:             *)
(*   failed         no request was sent, or the bus is not there           *)
(*   uncertain      the link or the service could not be bound             *)
(*   failed_may     a request was rejected, earlier ones may have worked   *)
(*   uncertain_may  the reply was lost: the request may land later         *)
(***************************************************************************)
ResolvedChange ==
  /\ pc = "call" /\ jr.backend = "resolved"
  /\ \/ /\ link[cur] = "owned" /\ dnsres' = "ok"
        /\ linkDns' = [linkDns EXCEPT ![cur] = IF Applying THEN "applied" ELSE "absent"]
        /\ UNCHANGED flight
     \/ /\ \/ dnsres' = "failed" /\ faults \cap {"dns", "stop"} # {}
           \/ dnsres' = "uncertain" /\ (link[cur] # "owned" \/ "dns" \in faults)
        /\ UNCHANGED <<linkDns, flight>>
     \/ /\ link[cur] = "owned" /\ faults \cap {"dns", "stop"} # {}
        /\ dnsres' = "failed_may"
        /\ \/ UNCHANGED linkDns
           \/ Applying /\ linkDns' = [linkDns EXCEPT ![cur] = "partial"]
        /\ UNCHANGED flight
     \/ /\ link[cur] = "owned" /\ faults \cap {"dns", "stop", "link"} # {}
        /\ dnsres' = "uncertain_may"
        /\ \/ UNCHANGED linkDns
           \/ Applying /\ linkDns' \in {[linkDns EXCEPT ![cur] = d] : d \in {"partial", "applied"}}
           \/ ~Applying /\ linkDns' = [linkDns EXCEPT ![cur] = "absent"]
        /\ \E f \in {"none", IF Applying THEN "apply" ELSE "revert"} :
             flight' = [flight EXCEPT ![cur] = f]
  /\ pc' = "record"
  /\ UNCHANGED <<disk, link, routes, fw, confDns, tools, unseen, request, cur, jr, ctx,
                 blocked, began, prev, quick, exit, faults>>

\* resolvconf -a and -d, by a key made of the name; always may_have_changed.
ResolvconfChange ==
  /\ pc = "call" /\ jr.backend = "resolvconf"
  /\ \/ /\ dnsres' = "ok"
        /\ confDns' = [confDns EXCEPT ![cur] = IF Applying THEN "applied" ELSE "absent"]
     \/ /\ faults \cap {"dns", "stop"} # {} /\ dnsres' = "failed_may"
        /\ \/ UNCHANGED confDns
           \/ confDns' = [confDns EXCEPT ![cur] = "partial"]
           \/ confDns' = [confDns EXCEPT ![cur] = IF Applying THEN "applied" ELSE "absent"]
  /\ pc' = "record"
  /\ UNCHANGED <<disk, link, routes, fw, linkDns, flight, tools, unseen, request,
                 cur, jr, ctx, blocked, began, prev, quick, exit, faults>>

\* Mutant: the outcome of the call is stored where a dns_state belongs.
SettledDns_StoresOutcome(outcome) ==
  IF outcome = "ok" THEN IF Applying THEN "applied" ELSE "absent" ELSE outcome

\* Mutant: a rejected request is taken for one that changed nothing.
SettledDns_RejectedIsNothing(outcome) ==
  CASE outcome = "ok" -> IF Applying THEN "applied" ELSE "absent"
    [] outcome \in {"failed", "failed_may", "uncertain"} -> prev
    [] OTHER -> "unknown"

\* The dns_state that complete_dns_change records for an outcome.
SettledDns(outcome) ==
  CASE outcome = "ok" -> IF Applying THEN "applied" ELSE "absent"
    [] outcome \in {"failed", "uncertain"} -> prev
    [] OTHER -> "unknown"

CompleteDnsChange ==
  LET uncertain == dnsres \in {"uncertain", "uncertain_may"}
      j == [jr EXCEPT !.dns = SettledDns(dnsres),
                      !.state = IF uncertain THEN "cleanup_unconfirmed" ELSE @]
  IN /\ pc = "record"
     /\ jr' = j
     /\ blocked' = (blocked \/ uncertain)
     /\ \E ok \in BOOLEAN :
          /\ WriteMarker(j, ok)
          /\ dnsres' = IF ~ok THEN "journal_failed"
                       ELSE IF uncertain THEN "uncertain"
                       ELSE IF dnsres = "ok" THEN "ok" ELSE "change_failed"
     /\ pc' = AfterDns(dnsres', blocked')
     /\ UNCHANGED <<network, request, cur, ctx, began, prev, quick, exit, faults>>

-----------------------------------------------------------------------------
(* teardown_owned_interface and abort_before_interface_teardown.           *)

Teardown ==
  /\ pc = "teardown"
  /\ \E r \in {"absent", "conflict", "present", "unknown"} :
       /\ RefreshOwnedInterface(r)
       /\ pc' = CASE r = "present" -> "mark"
                  [] r = "absent"  -> "unconfirmed"
                  [] OTHER         -> "fail"
  /\ UNCHANGED <<network, request, cur, ctx, blocked, began, prev, dnsres,
                 quick, exit, faults>>

\* The link is missing, or could not be identified after a failed activation:
\* what it left behind cannot be told.
RecordUnconfirmed ==
  LET j == [jr EXCEPT !.state = "cleanup_unconfirmed"]
  IN /\ pc = "unconfirmed"
     /\ jr' = j /\ pc' = "fail"
     /\ \E ok \in BOOLEAN : WriteMarker(j, ok)
     /\ UNCHANGED <<network, request, cur, ctx, blocked, began, prev, dnsres,
                    quick, exit, faults>>

\* Until the outcome of "awg-quick down" is known the cleanup is unconfirmed.
MarkTeardown ==
  LET j == [jr EXCEPT !.state = "cleanup_unconfirmed"]
  IN /\ pc = "mark"
     /\ jr' = j
     /\ \E ok \in BOOLEAN :
          WriteMarker(j, ok) /\ pc' = IF ok THEN "quick_down" ELSE "fail"
     /\ UNCHANGED <<network, request, cur, ctx, blocked, began, prev, dnsres,
                    quick, exit, faults>>

(***************************************************************************)
(* awg-quick down: the PreDown hook refuses a link without the token.  A   *)
(* firewall tool that is gone cannot remove its rules.                     *)
(***************************************************************************)
QuickDown ==
  /\ pc = "quick_down"
  /\ \/ /\ faults \cap {"quick", "stop"} # {} /\ quick' = "not_started"
        /\ UNCHANGED network
     \/ /\ link[cur] # "owned" \/ "quick" \in faults
        /\ quick' = "failed"
        /\ UNCHANGED network
     \/ /\ link[cur] = "owned" /\ quick' = "ok"
        /\ link' = [link EXCEPT ![cur] = "none"]
        /\ routes' = [routes EXCEPT ![cur] = "none"]
        /\ fw' = [fw EXCEPT ![cur] = @ \ tools]
        /\ linkDns' = [linkDns EXCEPT ![cur] = "absent"]
        /\ flight' = [flight EXCEPT ![cur] = "none"]
        /\ UNCHANGED <<confDns, tools, unseen>>
     \/ /\ link[cur] = "owned" /\ "quick" \in faults /\ quick' = "failed"
        /\ routes' \in {routes, [routes EXCEPT ![cur] = IF @ = "none" THEN @ ELSE "partial"],
                        [routes EXCEPT ![cur] = "none"]}
        /\ fw' \in {fw, [fw EXCEPT ![cur] = @ \ tools]}
        /\ \/ UNCHANGED <<link, linkDns, flight>>
           \/ /\ link' = [link EXCEPT ![cur] = "none"]
              /\ linkDns' = [linkDns EXCEPT ![cur] = "absent"]
              /\ flight' = [flight EXCEPT ![cur] = "none"]
        /\ UNCHANGED <<confDns, tools, unseen>>
  /\ pc' = "check"
  /\ UNCHANGED <<disk, request, cur, jr, ctx, blocked, began, prev, dnsres,
                 exit, faults>>

\* Mutant: any failed "down" may be aborted while the link is there.
MayAbort_AnyFailure(seen) == seen = "present"

\* Only a link that is still there after a "down" that never ran permits the
\* abort.
MayAbort(seen) == seen = "present" /\ quick = "not_started"

\* Only a link that is gone after a successful "down" is a cleanup to verify.  A
\* rollback whose DNS revert failed ends here.
CheckTeardown ==
  LET j == [jr EXCEPT !.state = "cleanup_required"]
  IN /\ pc = "check"
     /\ \E seen \in Seen(cur) :
          \/ /\ seen = "absent" /\ quick = "ok"
             /\ jr' = j
             /\ \E ok \in BOOLEAN :
                  /\ WriteMarker(j, ok)
                  /\ pc' = IF ~ok \/ (ctx = "rollback" /\ dnsres # "ok")
                           THEN "fail" ELSE "verify"
          \/ /\ ~(seen = "absent" /\ quick = "ok")
             /\ pc' = IF MayAbort(seen) THEN "abort" ELSE "fail"
             /\ UNCHANGED <<disk, jr>>
     /\ UNCHANGED <<network, request, cur, ctx, blocked, began, prev, dnsres,
                    quick, exit, faults>>

AbortTeardown ==
  /\ pc = "abort"
  /\ \E seen \in Seen(cur) :
       \/ /\ blocked \/ seen \in {"unknown", "absent"} \/ (seen = "present" /\ Stop)
          /\ pc' = "fail" /\ UNCHANGED <<disk, jr, ctx>>
       \/ /\ ~blocked /\ seen = "conflict"
          /\ LET j == [jr EXCEPT !.state = "cleanup_unconfirmed"]
             IN jr' = j /\ \E ok \in BOOLEAN : WriteMarker(j, ok)
          /\ pc' = "fail" /\ UNCHANGED ctx
       \/ /\ ~blocked /\ seen = "present"
          /\ LET j == [jr EXCEPT !.state = "cleanup_required"]
             IN /\ jr' = j
                /\ \E ok \in BOOLEAN :
                     /\ WriteMarker(j, ok)
                     /\ \/ ok /\ began /\ ctx' = "abort" /\ pc' = "intent"
                        \/ ~(ok /\ began) /\ pc' = "fail" /\ UNCHANGED ctx
  /\ UNCHANGED <<network, request, cur, blocked, began, prev, dnsres, quick,
                 exit, faults>>

\* The end of an aborted disconnect: the session is active again.
Reactivate ==
  LET j == [jr EXCEPT !.state = "active"]
  IN /\ pc = "reactivate"
     /\ jr' = j /\ pc' = "fail"
     /\ \E ok \in BOOLEAN : WriteMarker(j, ok)
     /\ UNCHANGED <<network, request, cur, ctx, blocked, began, prev, dnsres,
                    quick, exit, faults>>

-----------------------------------------------------------------------------
(* verify_runtime_cleanup and finalize_runtime_entries.                    *)

VerifyCleanup ==
  LET j == [jr EXCEPT !.state = "firewall_pending", !.was = FALSE]
  IN /\ pc = "verify"
     /\ \E seen \in Seen(cur) :
          \/ /\ \/ blocked \/ jr.dns # "absent" \/ seen # "absent"
                \/ jr.state \notin {"cleanup_required", "firewall_pending"}
             /\ pc' = "fail" /\ UNCHANGED <<disk, jr>>
          \/ /\ ~blocked /\ jr.dns = "absent" /\ seen = "absent"
             /\ jr.state \in {"cleanup_required", "firewall_pending"}
             /\ jr' = j
             /\ \E ok \in BOOLEAN :
                  WriteMarker(j, ok) /\ pc' = IF ok THEN "probe" ELSE "fail"
     /\ UNCHANGED <<network, request, cur, ctx, blocked, began, prev, dnsres,
                    quick, exit, faults>>

\* Mutant: a namespace whose tool is gone is skipped.
ProbeFirewall_SkipsMissingTools ==
  /\ pc = "probe"
  /\ pc' = IF fw[cur] \cap jr.scope \cap tools = {} THEN "recheck" ELSE "fail"
  /\ UNCHANGED <<disk, network, request, locals, exit, faults>>

\* awg_firewall_probe: absent only if every namespace of the scope was read.
ProbeFirewall ==
  /\ pc = "probe"
  /\ \/ /\ jr.scope \subseteq tools
        /\ fw[cur] \cap jr.scope = {}
        /\ pc' = "recheck"
     \/ /\ \/ ~(jr.scope \subseteq tools)
           \/ fw[cur] \cap jr.scope # {}
           \/ faults \cap {"tools", "stop"} # {}
        /\ pc' = "fail"
  /\ UNCHANGED <<disk, network, request, locals, exit, faults>>

RecheckLink ==
  /\ pc = "recheck"
  /\ \/ /\ OwnedLinkState(cur) = "absent"
        /\ jr' = [jr EXCEPT !.state = "cleanup_complete"]
        /\ pc' = "complete"
     \/ /\ OwnedLinkState(cur) # "absent" \/ Disturbed
        /\ pc' = "fail" /\ UNCHANGED jr
  /\ UNCHANGED <<disk, network, request, cur, ctx, blocked, began, prev, dnsres,
                 quick, exit, faults>>

\* Mutant: the files are removed without the complete journal on disk.
RecordComplete_Unwritten ==
  /\ pc = "complete" /\ pc' = "rm_config"
  /\ UNCHANGED <<disk, network, request, locals, exit, faults>>

RecordComplete ==
  LET final == ~blocked /\ jr.state = "cleanup_complete" /\ jr.dns = "absent" /\ ~jr.was
  IN /\ pc = "complete"
     /\ \/ ~final /\ pc' = "fail" /\ UNCHANGED disk
        \/ /\ final
           /\ \E ok \in BOOLEAN :
                WriteMarker(jr, ok) /\ pc' = IF ok THEN "rm_config" ELSE "fail"
     /\ UNCHANGED <<network, request, locals, exit, faults>>

RemoveConfig ==
  /\ pc = "rm_config"
  /\ \E ok, gone \in BOOLEAN :
       /\ Removal(ok, gone)
       /\ snapshot' = IF gone THEN [snapshot EXCEPT ![cur] = FALSE] ELSE snapshot
       /\ pc' = IF ok THEN "rm_dns" ELSE "fail"
  /\ UNCHANGED <<marker, payload, profiles, network, request, locals, exit, faults>>

RemoveDns ==
  /\ pc = "rm_dns"
  /\ \E ok, gone \in BOOLEAN :
       /\ Removal(ok, gone)
       /\ payload' = IF gone THEN [payload EXCEPT ![cur] = "missing"] ELSE payload
       /\ pc' = IF ok THEN "rm_marker" ELSE "fail"
  /\ UNCHANGED <<marker, snapshot, profiles, network, request, locals, exit, faults>>

\* A failed activation ends in its own failure however well it is cleaned up.
RemoveMarker ==
  /\ pc = "rm_marker"
  /\ \E ok, gone \in BOOLEAN :
       /\ Removal(ok, gone)
       /\ marker' = IF gone THEN [marker EXCEPT ![cur] = NoMarker] ELSE marker
       /\ pc' = IF ok /\ ctx = "down" THEN AfterDown ELSE "fail"
  /\ UNCHANGED <<snapshot, payload, profiles, network, request, locals, exit, faults>>

-----------------------------------------------------------------------------
(* awg_helper_tunnel_activate.                                             *)

\* Preparation may precede several disconnects: look again.
CheckTarget ==
  /\ pc = "activate"
  /\ \/ RuntimeIsFree(cur) /\ pc' = "snapshot"
     \/ (~RuntimeIsFree(cur) \/ Disturbed) /\ pc' = "fail"
  /\ UNCHANGED <<disk, network, request, locals, exit, faults>>

WriteSnapshot ==
  /\ pc = "snapshot"
  /\ \/ snapshot' = [snapshot EXCEPT ![cur] = TRUE] /\ pc' = "payload"
     \/ /\ "io" \in faults /\ pc' = "discard"
        /\ snapshot' \in {snapshot, [snapshot EXCEPT ![cur] = TRUE]}
  /\ UNCHANGED <<marker, payload, profiles, network, request, locals, exit, faults>>

WritePayload ==
  LET p == [payload EXCEPT ![cur] = IF jr.backend = "none" THEN "empty" ELSE "servers"]
  IN /\ pc = "payload"
     /\ \/ payload' = p /\ pc' = "activating"
        \/ "io" \in faults /\ payload' \in {payload, p} /\ pc' = "discard"
     /\ UNCHANGED <<marker, snapshot, profiles, network, request, locals, exit, faults>>

WriteActivating ==
  /\ pc = "activating"
  /\ \E ok \in BOOLEAN :
       WriteMarker(jr, ok) /\ pc' = IF ok THEN "quick_up" ELSE "discard"
  /\ UNCHANGED <<network, request, locals, exit, faults>>

\* discard_unstarted_runtime: awg-quick cannot have run.
DiscardUnstarted ==
  /\ pc = "discard"
  /\ ctx' = "discard"
  /\ \/ /\ jr' = [jr EXCEPT !.state = "cleanup_complete", !.dns = "absent",
                            !.was = FALSE, !.scope = {}]
        /\ pc' = "complete"
     \/ Stop /\ pc' = "fail" /\ UNCHANGED jr
  /\ UNCHANGED <<disk, network, request, cur, blocked, began, prev, dnsres,
                 quick, exit, faults>>

(***************************************************************************)
(* awg-quick up on the snapshot: it creates the link, claims it with the   *)
(* token (PreUp hook), then routes and firewall rules.  "early" is         *)
(* failed_before_routes, the evidence awg_quick_diagnostics gathers; a     *)
(* name in use makes it fail without an effect.                            *)
(***************************************************************************)
QuickUp ==
  /\ pc = "quick_up"
  /\ \/ /\ faults \cap {"quick", "stop"} # {}
        /\ quick' = "not_started" /\ pc' = "discard"
        /\ UNCHANGED <<link, routes, fw>>
     \/ /\ link[cur] # "none" \/ "quick" \in faults
        /\ quick' \in {"failed", "early"} /\ pc' = "scope"
        /\ UNCHANGED <<link, routes, fw>>
     \/ /\ link[cur] = "none" /\ quick' = "ok" /\ pc' = "scope"
        /\ link' = [link EXCEPT ![cur] = "owned"]
        /\ routes' = [routes EXCEPT ![cur] = "full"]
        /\ \E rules \in SUBSET tools : fw' = [fw EXCEPT ![cur] = @ \cup rules]
     \/ /\ link[cur] = "none" /\ faults \cap {"quick", "stop"} # {} /\ pc' = "scope"
        /\ \/ /\ quick' \in {"failed", "early"}
              /\ link' \in {[link EXCEPT ![cur] = l] : l \in {"raw", "owned"}}
              /\ UNCHANGED <<routes, fw>>
           \/ /\ quick' = "failed"
              /\ link' \in {[link EXCEPT ![cur] = l] : l \in {"none", "owned"}}
              /\ routes' \in {[routes EXCEPT ![cur] = r] : r \in {"partial", "full"}}
              /\ \E rules \in SUBSET tools : fw' = [fw EXCEPT ![cur] = @ \cup rules]
  /\ unseen' = [unseen EXCEPT ![cur] = (@ \cap fw[cur]) \cup (tools \ known)]
  /\ UNCHANGED <<disk, linkDns, confDns, flight, tools, request, cur, jr, ctx,
                 blocked, began, prev, dnsres, exit, faults>>

\* Whatever the outcome, the namespaces in use now join the journal's scope.
IncludeScope ==
  /\ pc = "scope"
  /\ \E scope \in CapturedScopes, ok \in BOOLEAN :
       LET j == [jr EXCEPT !.scope = @ \cup scope]
       IN /\ jr' = j
          /\ WriteMarker(j, ok)
          /\ Captured(ok)
          /\ pc' = IF quick # "ok" \/ ~ok THEN "failed_up" ELSE "up_refresh"
  /\ UNCHANGED <<link, routes, fw, linkDns, confDns, flight, tools, request, cur,
                 ctx, blocked, began, prev, dnsres, quick, exit, faults>>

\* Mutant: any failed activation whose link is gone is taken for an early one.
FailedEarly_AnyFailure == ~blocked /\ jr.dns = "absent"

\* try_finalize_early_up_failure: only this run of awg-quick can prove that
\* nothing but a link that is gone again was made.
FailedEarly ==
  /\ quick = "early" /\ ~blocked
  /\ jr.state = "activating" /\ ~jr.was /\ ~jr.ifindex /\ jr.dns = "absent"

HandleFailedUp ==
  /\ pc = "failed_up"
  /\ \E seen \in Seen(cur) :
       \/ /\ FailedEarly /\ seen = "absent"
          /\ ctx' = "early" /\ pc' = "verify"
          /\ jr' = [jr EXCEPT !.state = "cleanup_required"]
       \/ ~(FailedEarly /\ seen = "absent") /\ pc' = "rollback" /\ UNCHANGED <<ctx, jr>>
  /\ UNCHANGED <<disk, network, request, cur, blocked, began, prev, dnsres,
                 quick, exit, faults>>

ClaimLink ==
  /\ pc = "up_refresh"
  /\ \/ \E r \in {"absent", "conflict", "present", "unknown"} :
          /\ RefreshOwnedInterface(r)
          /\ \/ r = "present" /\ pc' = "intent"
             \/ (r # "present" \/ Stop) /\ pc' = "rollback"
     \/ Stop /\ pc' = "rollback" /\ UNCHANGED <<disk, jr>>
  /\ UNCHANGED <<network, request, cur, ctx, blocked, began, prev, dnsres,
                 quick, exit, faults>>

CommitActive ==
  LET j == [jr EXCEPT !.state = "active", !.was = TRUE]
  IN /\ pc = "commit"
     /\ \/ Stop /\ pc' = "rollback" /\ UNCHANGED <<disk, jr>>
        \/ \E ok \in BOOLEAN :
             /\ WriteMarker(j, ok)
             /\ \/ ok /\ jr' = j /\ pc' = "confirm"
                \/ /\ ~ok /\ pc' = "rollback"
                   /\ jr' = [jr EXCEPT !.state = "activating", !.was = FALSE]
     /\ UNCHANGED <<network, request, cur, ctx, blocked, began, prev, dnsres,
                    quick, exit, faults>>

ConfirmActive ==
  /\ pc = "confirm"
  /\ \/ marker[cur] # NoMarker /\ link[cur] = "owned" /\ pc' = "release"
     \/ /\ marker[cur] = NoMarker \/ link[cur] # "owned" \/ Disturbed
        /\ pc' = "rollback"
  /\ UNCHANGED <<disk, network, request, locals, exit, faults>>

\* process_release_retained_group: the commit point of the supervision, missed
\* after a late stop or when the supervisor does not answer.
ReleaseGroup ==
  /\ pc = "release"
  /\ pc' = "finish" \/ (faults \cap {"quick", "stop"} # {} /\ pc' = "rollback")
  /\ UNCHANGED <<disk, network, request, locals, exit, faults>>

-----------------------------------------------------------------------------
(* rollback_activation.                                                    *)

Rollback ==
  LET j == [jr EXCEPT !.state = "cleanup_required"]
  IN /\ pc = "rollback"
     /\ \/ blocked /\ pc' = "fail" /\ UNCHANGED <<disk, jr, ctx>>
        \/ /\ ~blocked /\ ctx' = "rollback" /\ jr' = j
           /\ \E ok \in BOOLEAN :
                WriteMarker(j, ok) /\ pc' = IF ok THEN "rb_refresh" ELSE "fail"
     /\ UNCHANGED <<network, request, cur, blocked, began, prev, dnsres, quick,
                    exit, faults>>

IdentifyForRollback ==
  /\ pc = "rb_refresh"
  /\ \E r \in {"absent", "conflict", "present", "unknown"} :
       /\ RefreshOwnedInterface(r)
       /\ pc' = IF r \in {"absent", "present"} THEN "intent" ELSE "unconfirmed"
  /\ UNCHANGED <<network, request, cur, ctx, blocked, began, prev, dnsres,
                 quick, exit, faults>>

-----------------------------------------------------------------------------
(* The rest of the system.                                                 *)

\* The link of a session is deleted by somebody else, or its userspace
\* backend dies.  Rules that do not hang on the link stay.
LinkVanishes(n) ==
  /\ "link" \in faults /\ link[n] \in {"raw", "owned"}
  /\ link' = [link EXCEPT ![n] = "none"]
  /\ linkDns' = [linkDns EXCEPT ![n] = "absent"]
  /\ flight' = [flight EXCEPT ![n] = "none"]
  /\ routes' = [routes EXCEPT ![n] = IF @ = "none" THEN @ ELSE "partial"]
  /\ UNCHANGED <<disk, fw, confDns, tools, unseen, pc, request, locals, exit, faults>>

ForeignLink(n) ==
  /\ "link" \in faults
  /\ \/ link[n] = "none" /\ link' = [link EXCEPT ![n] = "foreign"]
     \/ link[n] = "foreign" /\ link' = [link EXCEPT ![n] = "none"]
  /\ UNCHANGED <<disk, routes, fw, linkDns, confDns, flight, tools, unseen, pc,
                 request, locals, exit, faults>>

\* A request whose reply was lost reaches systemd-resolved after all.
FlightLands(n) ==
  /\ flight[n] # "none"
  /\ linkDns' \in {[linkDns EXCEPT ![n] = d] :
                     d \in IF flight[n] = "apply" THEN {"partial", "applied"} ELSE {"absent"}}
  /\ flight' = [flight EXCEPT ![n] = "none"]
  /\ UNCHANGED <<disk, link, routes, fw, confDns, tools, unseen, pc, request,
                 locals, exit, faults>>

\* Firewall tools are installed and removed at any moment.
ToolsChange ==
  /\ "tools" \in faults
  /\ tools' \in SUBSET Scopes \ {tools}
  /\ UNCHANGED <<disk, link, routes, fw, linkDns, confDns, flight, unseen, pc,
                 request, locals, exit, faults>>

\* From here on nothing goes wrong any more and every tool can be run.
Calm ==
  /\ faults # {} /\ tools = Scopes
  /\ faults' = {}
  /\ UNCHANGED <<disk, network, pc, request, locals, exit>>

HelperStep ==
  \/ PrepareUp \/ CheckPrevious \/ DisconnectNext \/ ConfirmPrevious
  \/ StartTarget \/ Delete
  \/ BeginDown \/ BlockUnsettledDns \/ IdentifyLink \/ CommitDown
  \/ SkipDns \/ RefuseRevert \/ DnsIntent \/ ResolvedChange \/ ResolvconfChange
  \/ CompleteDnsChange
  \/ Teardown \/ RecordUnconfirmed \/ MarkTeardown \/ QuickDown \/ CheckTeardown
  \/ AbortTeardown \/ Reactivate
  \/ VerifyCleanup \/ ProbeFirewall \/ RecheckLink \/ RecordComplete
  \/ RemoveConfig \/ RemoveDns \/ RemoveMarker
  \/ CheckTarget \/ WriteSnapshot \/ WritePayload \/ WriteActivating
  \/ DiscardUnstarted \/ QuickUp \/ IncludeScope \/ HandleFailedUp \/ ClaimLink
  \/ CommitActive \/ ConfirmActive \/ ReleaseGroup
  \/ Rollback \/ IdentifyForRollback
  \/ Exit

Environment ==
  \/ Crash \/ ToolsChange \/ Calm
  \/ \E n \in Names : LinkVanishes(n) \/ ForeignLink(n) \/ FlightLands(n)

Request == \E n \in Names : StartUp(n) \/ StartDown(n) \/ StartRemove(n)

Next == HelperStep \/ Environment \/ Request

\* A helper that runs keeps running until it exits or is killed; requests and
\* the environment are never forced.
Spec == Init /\ [][Next]_vars /\ WF_vars(HelperStep)

-----------------------------------------------------------------------------
(* Properties.                                                             *)

(***************************************************************************)
(* The network holds nothing that was made for a session of this name, as  *)
(* far as the helper can ever know: a firewall tool installed between the  *)
(* capture of prepare_up and awg-quick lets rules into a namespace that no *)
(* journal names until a later capture is written; see FirewallIsTracked.  *)
(***************************************************************************)
LeavesNothing(n) ==
  /\ link[n] \notin {"raw", "owned"}
  /\ routes[n] = "none"
  /\ fw[n] \subseteq unseen[n]
  /\ linkDns[n] = "absent" /\ confDns[n] = "absent" /\ flight[n] = "none"

(***************************************************************************)
(* No effect of a session outlives its journal: whatever fails, and        *)
(* wherever the helper dies, a link, route, firewall rule, DNS setting or  *)
(* pending resolver request always has a journal that accounts for it      *)
(* (rules in a namespace no capture could see excepted, LeavesNothing).    *)
(* (activate writes the journal before awg-quick; finalize_runtime_entries *)
(* removes it last.)                                                       *)
(***************************************************************************)
NoOrphanedEffects == \A n \in Names : marker[n] = NoMarker => LeavesNothing(n)

(***************************************************************************)
(* The dns field of a journal tells the truth: "absent" means no setting   *)
(* and no request under way, "applied" means settled and in force (a       *)
(* resolved setting lives as long as its link).  apply_dns_durably,        *)
(* revert_dns_durably and complete_dns_change.                             *)
(***************************************************************************)
JournalDnsIsTrue ==
  \A n \in RuntimeNames :
    LET m == marker[n]
    IN /\ m.dns = "absent" =>
            linkDns[n] = "absent" /\ confDns[n] = "absent" /\ flight[n] = "none"
       /\ m.dns = "applied" =>
            /\ flight[n] = "none"
            /\ m.backend = "resolved" /\ link[n] = "owned" => linkDns[n] = "applied"
            /\ m.backend = "resolvconf" => confDns[n] = "applied"

(***************************************************************************)
(* A journal that says "active", with its link there, is a whole session:  *)
(* all routes, DNS in force.  In particular a disconnect that is aborted   *)
(* may promote the session again only if awg-quick down never ran          *)
(* ("A surviving link cannot prove that down left routing and firewall     *)
(* intact", awg_helper_tunnel_down).                                       *)
(***************************************************************************)
ActiveIsWhole ==
  \A n \in RuntimeNames :
    marker[n].state = "active" /\ link[n] = "owned" =>
      /\ routes[n] = "full"
      /\ marker[n].backend = "resolved" => linkDns[n] = "applied"
      /\ marker[n].backend = "resolvconf" => confDns[n] = "applied"

(***************************************************************************)
(* The two settled states mean what their recovery relies on: after        *)
(* "cleanup_complete" only files are left, after "firewall_pending" only   *)
(* files and firewall rules.                                               *)
(***************************************************************************)
SettledStatesAreSettled ==
  \A n \in RuntimeNames :
    /\ marker[n].state = "cleanup_complete" => LeavesNothing(n)
    /\ marker[n].state = "firewall_pending" =>
         /\ link[n] \notin {"raw", "owned"} /\ routes[n] = "none"
         /\ linkDns[n] = "absent" /\ confDns[n] = "absent" /\ flight[n] = "none"

(***************************************************************************)
(* Tools come and go at any moment, and yet no firewall namespace that     *)
(* holds rules of a session is missing from the scope of its journal       *)
(* ("Never forget a namespace because a tool was removed, replaced, or     *)
(* could no longer be inspected", include_current_firewall_scope), but for *)
(* one window that the code leaves open: a tool installed after prepare_up *)
(* captured the scope and used by awg-quick up, until the capture after    *)
(* awg-quick, or that of the next disconnect, is written while the tool is *)
(* still there.  A helper killed in between, or a tool removed again in    *)
(* between, leaves rules that no journal names.                            *)
(***************************************************************************)
FirewallIsTracked ==
  \A n \in RuntimeNames : fw[n] \subseteq marker[n].scope \cup unseen[n]

\* A journal that is not complete has the snapshot and the DNS file that a
\* disconnect loads, and they agree with it: activate writes them first and
\* finalize_runtime_entries removes them after the complete journal.
RecoveryHasItsFiles ==
  \A n \in RuntimeNames :
    marker[n].state # "cleanup_complete" => RuntimeFilesMatch(n, marker[n].backend)

\* awg_helper_switch_up never lets two sessions exist, not even half cleaned.
OneSession ==
  \A m, n \in Names : marker[m] # NoMarker /\ marker[n] # NoMarker => m = n

(***************************************************************************)
(* Exit status 0 is earned: after Connect the target is journalled active  *)
(* and no other name has a journal or an effect; after Disconnect nothing  *)
(* of the session is left; after Remove the saved profile is gone too.     *)
(***************************************************************************)
SuccessIsEarned ==
  [][exit' = "success" /\ pc # "idle" =>
       /\ op = "up" =>
            /\ marker[target] # NoMarker /\ marker[target].state = "active"
            /\ \A n \in Names \ {target} : marker[n] = NoMarker /\ LeavesNothing(n)
       /\ op # "up" => marker[target] = NoMarker /\ LeavesNothing(target)
       /\ op = "remove" => target \notin profiles]_vars

\* "Failed runtime cleanup prevents profile removal" (README.md): a profile is
\* deleted only when neither a journal nor an interface nor an effect remains.
DeletedProfileIsClean ==
  [][\A n \in profiles \ profiles' : RuntimeIsFree(n) /\ LeavesNothing(n)]_vars

\* The classification shown for session n while no helper runs.
ShownAs(n) == Classify(marker[n], OwnedLinkState(n))

(***************************************************************************)
(* "tunnels requiring manual intervention remain blocked" (README.md):     *)
(* once a session at rest needs manual intervention, no sequence of        *)
(* operations removes its journal, hence none starts another session or    *)
(* deletes its profile.                                                    *)
(***************************************************************************)
ManualStaysBlocked ==
  \A n \in Names :
    [](pc = "idle" /\ ShownAs(n) = "manual_intervention" => [](marker[n] # NoMarker))

(***************************************************************************)
(* What is offered as active or recoverable can be disconnected: once      *)
(* nothing fails any more, a disconnect that starts ends with everything   *)
(* removed, unless rules of a removed firewall tool were left behind by a  *)
(* link that is gone.                                                      *)
(***************************************************************************)
RecoverySucceeds ==
  \A n \in Names :
    (/\ faults = {} /\ pc = "begin" /\ op = "down" /\ cur = n
     /\ marker[n] # NoMarker
     /\ ShownAs(n) = "active" \/ IsRecoverable(ShownAs(n))
     /\ link[n] = "owned" \/ fw[n] = {})
    ~> (exit = "success" /\ marker[n] = NoMarker)

-----------------------------------------------------------------------------
(* The invariant behind these properties, for every set of names, scopes   *)
(* and faults (proved in AwgTunnelProofs).                                 *)

\* The link of the session and its routes are gone.
LinkIsGone(n) == link[n] \notin {"raw", "owned"} /\ routes[n] = "none"

NoDns(n) == linkDns[n] = "absent" /\ confDns[n] = "absent" /\ flight[n] = "none"

\* What a dns_state d claims about the resolver that backend b names.
DnsClaim(n, b, d) ==
  /\ d = "absent" => NoDns(n)
  /\ d = "applied" =>
       /\ flight[n] = "none"
       /\ b = "resolved" /\ link[n] = "owned" => linkDns[n] = "applied"
       /\ b = "resolvconf" => confDns[n] = "applied"

\* Journal j accounts for everything the network holds of session n.
Accounts(n, j) ==
  /\ fw[n] \subseteq j.scope \cup unseen[n]
  /\ j.backend # "resolved" => linkDns[n] = "absent" /\ flight[n] = "none"
  /\ j.backend # "resolvconf" => confDns[n] = "absent"
  /\ DnsClaim(n, j.backend, j.dns)
  /\ j.state = "cleanup_complete" => LeavesNothing(n)
  /\ j.state = "firewall_pending" => LinkIsGone(n) /\ NoDns(n)

DiskAccounts ==
  \A n \in Names : IF marker[n] = NoMarker THEN LeavesNothing(n) ELSE Accounts(n, marker[n])

\* Steps at which the helper holds a journal of cur in memory and may write it.
OpenPcs == Pcs \ {"idle", "prepare", "admit", "next", "settled", "begin",
                  "delete", "finish", "fail"}

\* The journal in memory accounts for the session at every step that may write
\* it, and no journal but that of the session is on disk.
MemoryAccounts ==
  pc \in OpenPcs =>
    /\ Accounts(cur, jr)
    /\ \A n \in Names : n # cur => marker[n] = NoMarker
    /\ marker[cur] = NoMarker => cur \in profiles

\* A prepared activation is for a saved profile and knows every tool there was.
PreparedIsCurrent ==
  /\ prep.state = "activating" /\ prep.dns = "absent"
  /\ pc = "delete" => op = "remove"
  /\ pc \in {"prepare", "admit", "next", "settled"} => op = "up"
  /\ op = "up" /\ pc \notin {"idle", "prepare", "fail"} =>
       target \in profiles /\ known \subseteq prep.scope

\* What the single steps rely on.
StepFacts ==
  /\ pc \in {"activate", "snapshot", "payload", "activating"} => marker[cur] = NoMarker
  /\ pc \in {"activate", "snapshot", "payload", "activating", "quick_up"} =>
       known \subseteq jr.scope
  /\ pc = "quick_up" => marker[cur] = jr
  /\ pc \in {"identify", "commit_down", "scope"} => marker[cur] # NoMarker
  /\ pc \in {"discard", "quick_up", "recheck", "complete", "rm_config", "rm_dns",
             "rm_marker"} => LeavesNothing(cur)
  /\ pc \in {"activate", "snapshot", "payload", "activating", "quick_up", "scope",
             "failed_up", "up_refresh"} => jr.state = "activating" /\ jr.dns = "absent"
  /\ pc \in {"identify", "rb_refresh", "teardown", "intent", "call", "record"} =>
       jr.state \notin {"cleanup_complete", "firewall_pending"}
  /\ pc \in {"scope", "failed_up"} /\ quick = "early" => routes[cur] = "none"
  /\ pc = "check" /\ quick = "ok" => LinkIsGone(cur)
  /\ pc = "verify" => LinkIsGone(cur)
  /\ pc = "probe" => LinkIsGone(cur) /\ NoDns(cur)

\* A DNS change under way: the journal on disk says so, and a request of
\* unknown fate blocks every later step.
DnsFacts ==
  /\ pc = "call" =>
       /\ marker[cur] = jr /\ jr.dns = "unknown"
       /\ DnsClaim(cur, jr.backend, prev)
  /\ pc = "record" =>
       /\ dnsres \in {"ok", "failed", "failed_may", "uncertain", "uncertain_may"}
       /\ DnsClaim(cur, jr.backend, SettledDns(dnsres))
  /\ blocked => pc \in {"rollback", "fail"}
  /\ pc \in OpenPcs /\ flight[cur] # "none" =>
       blocked \/ pc = "block" \/ (pc = "record" /\ dnsres = "uncertain_may")

IndInv ==
  /\ TypeOK
  /\ DiskAccounts
  /\ MemoryAccounts
  /\ PreparedIsCurrent
  /\ StepFacts
  /\ DnsFacts
  /\ OneSession

-----------------------------------------------------------------------------
(* What the session itself relies on, on top of IndInv.                    *)

\* A link of this session that is still there has all its routes.
WholeLink(n) == link[n] = "owned" => routes[n] = "full"

\* Every journal on disk passed the serializer, has its files until the cleanup
\* is complete, and says "active" only of a whole link.
DiskIsWhole ==
  \A n \in RuntimeNames :
    /\ FieldsAreValid(marker[n])
    /\ marker[n].state # "cleanup_complete" => RuntimeFilesMatch(n, marker[n].backend)
    /\ marker[n].state = "active" => WholeLink(n)

\* Steps that write a journal which is not complete: they need the files.
FilePcs == OpenPcs \ {"activate", "snapshot", "payload", "discard", "complete",
                      "rm_config", "rm_dns", "rm_marker"}

FilesFacts ==
  /\ pc = "payload" => snapshot[cur]
  /\ pc \in FilePcs => RuntimeFilesMatch(cur, jr.backend)
  /\ pc \in {"rm_config", "rm_dns", "rm_marker"} => marker[cur].state = "cleanup_complete"

\* The steps of an activation and of what it becomes when it fails.
ActivationPcs == {"activate", "snapshot", "payload", "activating", "quick_up", "scope",
                  "failed_up", "up_refresh", "commit", "confirm", "release"}

\* The routine the helper is in is that of the request, on the right session.
RoutineFacts ==
  /\ op = "none" <=> pc = "idle"
  /\ op \in {"down", "remove"} => cur = target
  /\ ctx \in {"activate", "rollback", "early", "discard"} => op = "up" /\ cur = target /\ ~began
  /\ pc \in ActivationPcs \cup {"discard", "rollback"} => ctx = "activate"
  /\ pc = "rb_refresh" => ctx = "rollback"
  /\ pc \in {"begin", "block", "identify", "commit_down"} => ctx = "down"
  /\ pc \in {"intent", "call", "record"} /\ ctx = "abort" => began
  /\ pc = "reactivate" => began

\* Where the link and its routes are still what the activation made them.
RouteFacts ==
  /\ pc \in {"identify", "commit_down"} /\ jr.state = "active" => WholeLink(cur)
  /\ \/ pc \in {"intent", "call", "record", "teardown", "mark", "quick_down", "abort",
                "reactivate"}
     \/ pc = "check" /\ quick = "not_started"
     => (began => WholeLink(cur))
  /\ \/ pc \in {"up_refresh", "commit", "confirm", "release"}
     \/ pc \in {"intent", "call", "record"} /\ ctx = "activate"
     \/ pc = "scope" /\ quick = "ok"
     => WholeLink(cur)
  /\ pc \in {"intent", "call", "record", "teardown", "rb_refresh"} => jr.state # "active"
  /\ pc = "quick_down" => marker[cur].state # "active"

\* What the end of each request has seen to.
OutcomeFacts ==
  /\ exit # "none" => pc = "idle"
  /\ pc \in {"confirm", "release"} => marker[cur].state = "active"
  /\ pc = "finish" /\ op = "up" =>
       marker[target].state = "active" /\ \A n \in Names \ {target} : marker[n] = NoMarker
  /\ pc \in {"finish", "delete"} /\ op # "up" => marker[target] = NoMarker
  /\ pc = "finish" /\ op = "remove" => target \notin profiles

SessionInv ==
  /\ DiskIsWhole
  /\ FilesFacts
  /\ RoutineFacts
  /\ RouteFacts
  /\ OutcomeFacts

\* No step ends the need for manual intervention: the journal says that the
\* cleanup or the resolver is out of hand, or the link is gone for good.
OutOfHand(n) ==
  /\ marker[n] # NoMarker
  /\ marker[n].state \notin {"cleanup_complete", "firewall_pending"}
  /\ \/ marker[n].state = "cleanup_unconfirmed"
     \/ UnsettledResolved(marker[n])
     \/ link[n] \notin {"raw", "owned"}

\* While n is out of hand a disconnect of it comes no further than this, and a
\* connect is not admitted.
StaysBlocked(n) ==
  /\ OutOfHand(n)
  /\ pc \in OpenPcs => 
       /\ cur = n /\ ctx = "down"
       /\ pc = "block" \/ link[n] \notin {"raw", "owned"}
       /\ pc \in {"block", "commit_down", "intent", "call", "record", "teardown",
                  "unconfirmed", "abort"}
  /\ op = "up" => pc \in {"prepare", "admit", "fail"}
  /\ op = "up" /\ pc = "admit" => n \in queue

-----------------------------------------------------------------------------
(* The helper implements the session ledger.                               *)

Ledger == INSTANCE AwgLedger WITH
  sessions <- RuntimeNames,
  live     <- {n \in Names : ~LeavesNothing(n)},
  saved    <- profiles

\* Every step of the helper and of its environment is a step of AwgLedger or
\* none: a journal is opened before, and struck off after, all effects.
ImplementsLedger == Ledger!Spec

=============================================================================
