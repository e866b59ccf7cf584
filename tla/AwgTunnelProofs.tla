-------------------------- MODULE AwgTunnelProofs --------------------------
(***************************************************************************)
(* Proofs about AwgTunnel, for every set of names, firewall namespaces and *)
(* faults.                                                                 *)
(***************************************************************************)
EXTENDS AwgTunnel, TLAPS

-----------------------------------------------------------------------------
(* Facts about journals and about the operators that write them.           *)

\* A missing file is not mistaken for any journal.
LEMMA NoMarkerIsNoJournal == NoMarker \notin Journals
  BY DEF NoMarker, Journals, States

\* awg_helper_storage_write_runtime_marker touches the journal of one session
\* and leaves the old or the new one there.
LEMMA WriteMarkerEffect ==
  ASSUME TypeOK, NEW j \in Journals, NEW ok \in BOOLEAN, WriteMarker(j, ok)
  PROVE  /\ marker' \in [Names -> Journals \cup {NoMarker}]
         /\ \A n \in Names : n # cur => marker'[n] = marker[n]
         /\ marker'[cur] \in {marker[cur], j}
         /\ ok => marker'[cur] = j
         /\ UNCHANGED <<snapshot, payload, profiles>>
  BY DEF TypeOK, WriteMarker

\* awg_helper_session_refresh_owned_interface changes nothing of a journal but
\* the interface index.
LEMMA RefreshEffect ==
  ASSUME TypeOK, NEW r, RefreshOwnedInterface(r)
  PROVE  /\ jr' \in Journals
         /\ jr'.state = jr.state /\ jr'.backend = jr.backend
         /\ jr'.dns = jr.dns /\ jr'.scope = jr.scope
         /\ marker' \in [Names -> Journals \cup {NoMarker}]
         /\ \A n \in Names : n # cur => marker'[n] = marker[n]
         /\ marker'[cur] \in {marker[cur], jr'}
         /\ UNCHANGED <<snapshot, payload, profiles>>
  <1>1. CASE UNCHANGED <<disk, jr>>
    BY <1>1 DEF TypeOK, disk
  <1>2. CASE \E ok \in BOOLEAN : /\ jr' = [jr EXCEPT !.ifindex = TRUE]
                                 /\ WriteMarker([jr EXCEPT !.ifindex = TRUE], ok)
    <2>1. /\ [jr EXCEPT !.ifindex = TRUE] \in Journals
          /\ [jr EXCEPT !.ifindex = TRUE].state = jr.state
          /\ [jr EXCEPT !.ifindex = TRUE].backend = jr.backend
          /\ [jr EXCEPT !.ifindex = TRUE].dns = jr.dns
          /\ [jr EXCEPT !.ifindex = TRUE].scope = jr.scope
      BY DEF TypeOK, Journals
    <2> QED BY <1>2, <2>1, WriteMarkerEffect
  <1> QED BY <1>1, <1>2 DEF RefreshOwnedInterface

\* A journal step writes a journal that accounts for the session; the network
\* and every other session stay as they are.
LEMMA JournalStep ==
  ASSUME IndInv, pc \in OpenPcs, NEW j \in Journals, Accounts(cur, j),
         UNCHANGED <<network, profiles, cur>>,
         marker' \in [Names -> Journals \cup {NoMarker}],
         \A n \in Names : n # cur => marker'[n] = marker[n],
         marker'[cur] \in {marker[cur], j},
         Accounts(cur, jr')
  PROVE  DiskAccounts' /\ OneSession' /\ MemoryAccounts'
  <1> USE DEF IndInv
  <1>1. \A n \in Names : n # cur => marker'[n] = NoMarker
    BY DEF MemoryAccounts
  <1>2. \A n : LeavesNothing(n)' <=> LeavesNothing(n)
    BY DEF LeavesNothing, network
  <1>3. \A n, k : Accounts(n, k)' <=> Accounts(n, k)
    BY <1>2 DEF Accounts, network, LinkIsGone, NoDns, DnsClaim
  <1>4. DiskAccounts'
    BY <1>2, <1>3, NoMarkerIsNoJournal DEF DiskAccounts
  <1>5. OneSession'
    BY <1>1 DEF OneSession, RuntimeNames
  <1>6. marker'[cur] = NoMarker => cur \in profiles
    BY NoMarkerIsNoJournal DEF MemoryAccounts
  <1>7. Accounts(cur, jr)'
    BY DEF Accounts, network, LinkIsGone, NoDns, DnsClaim, LeavesNothing
  <1> QED BY <1>1, <1>4, <1>5, <1>6, <1>7 DEF MemoryAccounts

\* Identifying the link keeps every journal truthful, whether or not the index
\* could be written.
LEMMA RefreshStep ==
  ASSUME IndInv, pc \in {"identify", "teardown", "up_refresh", "rb_refresh"},
         NEW r, RefreshOwnedInterface(r), UNCHANGED <<network, cur>>
  PROVE  DiskAccounts' /\ OneSession' /\ MemoryAccounts'
  <1>1. pc \in OpenPcs /\ Accounts(cur, jr)
    BY DEF IndInv, OpenPcs, Pcs, MemoryAccounts
  <1>2. Accounts(cur, jr')
    BY <1>1, RefreshEffect DEF IndInv, Accounts
  <1> QED BY <1>1, <1>2, RefreshEffect, JournalStep DEF IndInv

\* A capture of the tools whose journal is written accounts for the rules in the
\* namespaces of the tools there are now; an unwritten one changes nothing.
LEMMA CaptureStep ==
  ASSUME IndInv, pc \in OpenPcs, NEW scope \in CapturedScopes, NEW ok \in BOOLEAN,
         NEW j \in Journals, j.scope = jr.scope \cup scope,
         j.backend = jr.backend, j.dns = jr.dns,
         j.state \notin {"cleanup_complete", "firewall_pending"},
         WriteMarker(j, ok), Captured(ok), jr' = j,
         UNCHANGED <<link, routes, fw, linkDns, confDns, flight, tools, cur>>
  PROVE  DiskAccounts' /\ OneSession' /\ MemoryAccounts'
  <1> USE DEF IndInv
  <1>1. \A n \in Names : n # cur => marker[n] = NoMarker
    BY DEF MemoryAccounts
  <1>2. /\ marker' \in [Names -> Journals \cup {NoMarker}]
        /\ \A n \in Names : n # cur => marker'[n] = NoMarker
        /\ marker'[cur] \in {marker[cur], j} /\ profiles' = profiles
        /\ ok => marker'[cur] = j
    BY <1>1, WriteMarkerEffect
  <1>3. /\ \A n \in Names : n # cur => unseen'[n] = unseen[n]
        /\ unseen'[cur] = IF ok THEN unseen[cur] \ tools ELSE unseen[cur]
        /\ cur \in Names
    BY DEF Captured, TypeOK
  <1>4. tools \subseteq scope
    BY DEF CapturedScopes, TypeOK
  <1>5. Accounts(cur, jr) /\ fw[cur] \subseteq j.scope \cup unseen[cur]
    BY DEF MemoryAccounts, Accounts
  <1>6. Accounts(cur, j)'
    BY <1>3, <1>4, <1>5 DEF Accounts, DnsClaim, NoDns
  <1>7. \A n \in Names : n # cur => LeavesNothing(n)'
    BY <1>1, <1>3 DEF LeavesNothing, DiskAccounts
  <1>8. marker'[cur] = NoMarker => marker[cur] = NoMarker /\ ~ok /\ cur \in profiles
    BY <1>2, NoMarkerIsNoJournal DEF MemoryAccounts
  <1>9. marker'[cur] = NoMarker => LeavesNothing(cur)'
    BY <1>3, <1>8 DEF LeavesNothing, DiskAccounts
  <1>10. marker'[cur] # NoMarker => Accounts(cur, marker[cur])'
    <2>1. CASE marker'[cur] = j
      BY <1>6, <2>1 DEF Accounts, DnsClaim, NoDns, LeavesNothing, LinkIsGone
    <2>2. CASE marker'[cur] = marker[cur] /\ ~ok
      <3>1. UNCHANGED <<unseen, marker[cur]>>
        BY <2>2 DEF Captured
      <3> QED BY <1>3, <2>2, <3>1 DEF DiskAccounts, Accounts, DnsClaim, NoDns,
                                      LeavesNothing, LinkIsGone
    <2> QED BY <1>2, <2>1, <2>2
  <1>11. DiskAccounts'
    BY <1>2, <1>3, <1>7, <1>9, <1>10 DEF DiskAccounts
  <1>12. OneSession'
    BY <1>2 DEF OneSession, RuntimeNames
  <1>13. Accounts(cur, jr)'
    BY <1>6 DEF Accounts, DnsClaim, NoDns, LeavesNothing, LinkIsGone
  <1> QED BY <1>2, <1>8, <1>11, <1>12, <1>13 DEF MemoryAccounts

-----------------------------------------------------------------------------
(* What the steps with several branches do, in one normal form.            *)

\* The capture after awg-quick up: include_current_firewall_scope and the write of
\* the journal.
LEMMA IncludeScopeEffect ==
  ASSUME IncludeScope
  PROVE  \E scope \in CapturedScopes, ok \in BOOLEAN :
           /\ jr' = [jr EXCEPT !.scope = @ \cup scope]
           /\ WriteMarker([jr EXCEPT !.scope = @ \cup scope], ok)
           /\ Captured(ok)
  BY DEF IncludeScope

\* awg_helper_switch_up hands a prepared activation to activate only when no
\* journal is left.
LEMMA StartTargetEffect ==
  ASSUME IndInv, StartTarget
  PROVE  /\ UNCHANGED <<disk, network, request, exit, faults>>
         /\ \/ pc' = "fail" /\ UNCHANGED locals
            \/ /\ pc' = "activate" /\ cur' = target /\ jr' = prep
               /\ ctx' = "activate" /\ began' = FALSE /\ blocked' = FALSE
               /\ dnsres' = "none" /\ quick' = "none" /\ prev' = "absent"
               /\ RuntimeNames = {}
               /\ pc = "next"
  BY DEF StartTarget

\* Where awg_helper_tunnel_down goes with the journal it read.
LEMMA BeginDownEffect ==
  ASSUME IndInv, BeginDown
  PROVE  /\ UNCHANGED <<disk, network, request, cur, ctx, blocked, began, prev,
                        dnsres, quick, exit, faults>>
         /\ pc = "begin"
         /\ pc' = "delete" => op = "remove"
         /\ pc' = "settled" => op = "up"
         /\ pc' \in {"complete", "verify", "identify", "commit_down", "block",
                     "settled", "delete", "finish", "fail"}
         /\ pc' \in {"complete", "verify", "identify", "commit_down", "block"} =>
              jr' = marker[cur] /\ marker[cur] # NoMarker
         /\ pc' = "complete" => marker[cur].state = "cleanup_complete"
         /\ pc' = "verify" => marker[cur].state = "firewall_pending"
         /\ pc' \in {"identify", "commit_down"} =>
              ~(marker[cur].backend = "resolved" /\ marker[cur].dns = "unknown")
         /\ pc' = "identify" =>
              marker[cur].state \notin {"cleanup_complete", "firewall_pending"}
  <1>1. /\ UNCHANGED <<disk, network, request, cur, ctx, blocked, began, prev,
                       dnsres, quick, exit, faults>>
        /\ pc = "begin"
    BY DEF BeginDown
  <1>2. CASE pc' = "fail"
    BY <1>1, <1>2
  <1>3. CASE pc' # "fail"
    <2>1. PICK seen \in Seen(cur) :
               /\ pc' = DownRoute(marker[cur], seen)
               /\ jr' = IF marker[cur] = NoMarker THEN jr ELSE marker[cur]
      BY <1>3 DEF BeginDown
    <2>2. seen \in {"unknown", "absent", "present", "conflict"}
      BY <2>1 DEF Seen, OwnedLinkState
    <2>3. CASE marker[cur] = NoMarker
      <3>1. pc' = AfterDown
        BY <1>3, <2>1, <2>2, <2>3 DEF DownRoute, UnsettledResolved
      <3> QED BY <1>1, <3>1 DEF AfterDown, IndInv, TypeOK
    <2>4. CASE marker[cur] # NoMarker
      <3>1. /\ pc' \in {"complete", "verify", "identify", "commit_down", "block"}
            /\ pc' = "complete" => marker[cur].state = "cleanup_complete"
            /\ pc' = "verify" => marker[cur].state = "firewall_pending"
            /\ pc' \in {"identify", "commit_down"} =>
                 ~(marker[cur].backend = "resolved" /\ marker[cur].dns = "unknown")
            /\ pc' = "identify" =>
                 marker[cur].state \notin {"cleanup_complete", "firewall_pending"}
        BY <1>3, <2>1, <2>2, <2>4 DEF DownRoute, UnsettledResolved
      <3> QED BY <1>1, <2>1, <2>4, <3>1
    <2> QED BY <2>3, <2>4
  <1> QED BY <1>2, <1>3

\* The journal that commits a disconnect accounts for the session: the scope
\* only grows.
LEMMA CommitDownEffect ==
  ASSUME IndInv, CommitDown
  PROVE  /\ pc = "commit_down" /\ pc' \in {"intent", "fail"}
         /\ UNCHANGED <<link, routes, fw, linkDns, confDns, flight, tools, request,
                        cur, ctx, blocked, prev, dnsres, quick, exit, faults,
                        snapshot, payload, profiles>>
         /\ unseen' \in [Names -> SUBSET Scopes]
         /\ DiskAccounts' /\ OneSession' /\ MemoryAccounts'
         /\ began' \in BOOLEAN /\ jr' \in Journals
         /\ pc' = "intent" => jr'.state = "cleanup_required"
         /\ marker' \in [Names -> Journals \cup {NoMarker}]
         /\ \A n \in Names : n # cur => marker'[n] = marker[n]
         /\ marker'[cur] \in {marker[cur], jr'}
  <1>1. /\ pc = "commit_down" /\ began' \in BOOLEAN
        /\ UNCHANGED <<link, routes, fw, linkDns, confDns, flight, tools, request,
                       cur, ctx, blocked, prev, dnsres, quick, exit, faults>>
    BY DEF CommitDown, IndInv, TypeOK
  <1>2. pc \in OpenPcs /\ Accounts(cur, jr) /\ jr \in Journals
    BY <1>1 DEF IndInv, MemoryAccounts, OpenPcs, Pcs, TypeOK
  <1>3. CASE UNCHANGED <<disk, unseen, jr>> /\ pc' = "fail"
    <2>1. DiskAccounts' /\ OneSession' /\ MemoryAccounts'
      <3>1. UNCHANGED <<network, profiles, cur, marker, jr>>
        BY <1>1, <1>3 DEF network, disk
      <3>2. marker \in [Names -> Journals \cup {NoMarker}]
        BY DEF IndInv, TypeOK
      <3> QED BY <1>2, <3>1, <3>2, JournalStep
    <2> QED BY <1>1, <1>2, <1>3, <2>1 DEF IndInv, TypeOK, disk
  <1>4. ASSUME NEW scope \in CapturedScopes, NEW ok \in BOOLEAN, NEW j,
               j = [jr EXCEPT !.state = "cleanup_required", !.scope = @ \cup scope],
               jr' = j, WriteMarker(j, ok), Captured(ok),
               pc' = IF ok THEN "intent" ELSE "fail"
        PROVE  /\ pc' \in {"intent", "fail"} /\ UNCHANGED <<snapshot, payload, profiles>>
               /\ unseen' \in [Names -> SUBSET Scopes]
               /\ DiskAccounts' /\ OneSession' /\ MemoryAccounts'
               /\ jr' \in Journals
               /\ pc' = "intent" => jr'.state = "cleanup_required"
               /\ marker' \in [Names -> Journals \cup {NoMarker}]
               /\ \A n \in Names : n # cur => marker'[n] = marker[n]
               /\ marker'[cur] \in {marker[cur], jr'}
    <2>1. j \in Journals /\ j.state = "cleanup_required"
      BY <1>4 DEF IndInv, TypeOK, Journals, States, CapturedScopes
    <2>2. j.scope = jr.scope \cup scope /\ j.backend = jr.backend /\ j.dns = jr.dns
      BY <1>2, <1>4 DEF Journals
    <2>3. DiskAccounts' /\ OneSession' /\ MemoryAccounts'
      BY <1>1, <1>2, <1>4, <2>1, <2>2, CaptureStep
    <2>4. unseen' \in [Names -> SUBSET Scopes]
      BY <1>4 DEF Captured, IndInv, TypeOK
    <2> QED BY <1>4, <2>1, <2>3, <2>4, WriteMarkerEffect DEF IndInv
  <1> QED BY <1>1, <1>3, <1>4 DEF CommitDown

\* The claim that complete_dns_change records is true.
LEMMA CompleteDnsEffect ==
  ASSUME IndInv, CompleteDnsChange
  PROVE  /\ pc = "record"
         /\ pc' \in {"commit", "rollback", "reactivate", "fail", "teardown", "abort"}
         /\ UNCHANGED <<network, request, cur, ctx, began, prev, quick, exit, faults,
                        snapshot, payload, profiles>>
         /\ blocked' \in BOOLEAN
         /\ dnsres' \in {"journal_failed", "uncertain", "ok", "change_failed"}
         /\ jr' \in Journals /\ Accounts(cur, jr')
         /\ jr'.state \notin {"cleanup_complete", "firewall_pending"}
         /\ blocked' => pc' \in {"rollback", "fail"}
         /\ flight[cur] # "none" => blocked'
         /\ marker' \in [Names -> Journals \cup {NoMarker}]
         /\ \A n \in Names : n # cur => marker'[n] = marker[n]
         /\ marker'[cur] \in {marker[cur], jr'}
  <1> DEFINE uncertain == dnsres \in {"uncertain", "uncertain_may"}
             j == [jr EXCEPT !.dns = SettledDns(dnsres),
                             !.state = IF uncertain THEN "cleanup_unconfirmed" ELSE @]
  <1>1. /\ pc = "record" /\ jr' = j /\ blocked' = (blocked \/ uncertain)
        /\ pc' = AfterDns(dnsres', blocked')
        /\ UNCHANGED <<network, request, cur, ctx, began, prev, quick, exit, faults>>
    BY DEF CompleteDnsChange
  <1>2. PICK ok \in BOOLEAN :
             /\ WriteMarker(j, ok)
             /\ dnsres' = IF ~ok THEN "journal_failed"
                          ELSE IF uncertain THEN "uncertain"
                          ELSE IF dnsres = "ok" THEN "ok" ELSE "change_failed"
    BY DEF CompleteDnsChange
  <1>3. /\ Accounts(cur, jr) /\ ~blocked
        /\ jr.state \notin {"cleanup_complete", "firewall_pending"}
        /\ DnsClaim(cur, jr.backend, SettledDns(dnsres))
        /\ flight[cur] # "none" => dnsres = "uncertain_may"
    BY <1>1 DEF IndInv, MemoryAccounts, OpenPcs, Pcs, StepFacts, DnsFacts
  <1>4. SettledDns(dnsres) \in DnsStates
    BY DEF IndInv, TypeOK, SettledDns, DnsStates
  <1>5. /\ j \in Journals /\ j.dns = SettledDns(dnsres) /\ j.backend = jr.backend
        /\ j.scope = jr.scope
        /\ j.state \notin {"cleanup_complete", "firewall_pending"}
    BY <1>3, <1>4 DEF IndInv, TypeOK, Journals, States
  <1>6. Accounts(cur, j)
    BY <1>3, <1>5 DEF Accounts
  <1>7. /\ dnsres' \in {"journal_failed", "uncertain", "ok", "change_failed"}
        /\ blocked' = uncertain /\ blocked' \in BOOLEAN
        /\ uncertain => dnsres' # "ok"
    BY <1>1, <1>2, <1>3
  <1>8. /\ pc' \in {"commit", "rollback", "reactivate", "fail", "teardown", "abort"}
        /\ blocked' => pc' \in {"rollback", "fail"}
    BY <1>1, <1>7 DEF AfterDns, IndInv, TypeOK, Contexts
  <1> HIDE DEF j
  <1>9. /\ marker' \in [Names -> Journals \cup {NoMarker}]
        /\ \A n \in Names : n # cur => marker'[n] = marker[n]
        /\ marker'[cur] \in {marker[cur], j}
        /\ UNCHANGED <<snapshot, payload, profiles>>
    BY <1>2, <1>5, WriteMarkerEffect DEF IndInv
  <1> QED BY <1>1, <1>3, <1>5, <1>6, <1>7, <1>8, <1>9

\* firewall_pending is written only when link, routes and DNS are gone.
LEMMA VerifyEffect ==
  ASSUME IndInv, VerifyCleanup
  PROVE  /\ pc = "verify" /\ pc' \in {"probe", "fail"}
         /\ UNCHANGED <<network, request, cur, ctx, blocked, began, prev, dnsres,
                        quick, exit, faults, snapshot, payload, profiles>>
         /\ jr' \in Journals /\ Accounts(cur, jr')
         /\ pc' = "probe" => NoDns(cur)
         /\ marker' \in [Names -> Journals \cup {NoMarker}]
         /\ \A n \in Names : n # cur => marker'[n] = marker[n]
         /\ marker'[cur] \in {marker[cur], jr'}
  <1> DEFINE j == [jr EXCEPT !.state = "firewall_pending", !.was = FALSE]
  <1>1. /\ pc = "verify"
        /\ UNCHANGED <<network, request, cur, ctx, blocked, began, prev, dnsres,
                       quick, exit, faults>>
    BY DEF VerifyCleanup
  <1>2. Accounts(cur, jr) /\ LinkIsGone(cur)
    BY <1>1 DEF IndInv, MemoryAccounts, OpenPcs, Pcs, StepFacts
  <1>3. CASE UNCHANGED <<disk, jr>> /\ pc' = "fail"
    BY <1>1, <1>2, <1>3 DEF IndInv, TypeOK, disk
  <1>4. CASE \E ok \in BOOLEAN : /\ jr.dns = "absent" /\ jr' = j /\ WriteMarker(j, ok)
                                 /\ pc' = IF ok THEN "probe" ELSE "fail"
    <2>1. /\ j \in Journals /\ j.state = "firewall_pending" /\ j.dns = jr.dns
          /\ j.scope = jr.scope /\ j.backend = jr.backend
      BY DEF IndInv, TypeOK, Journals, States
    <2>2. NoDns(cur) /\ Accounts(cur, j)
      BY <1>2, <1>4, <2>1 DEF Accounts, DnsClaim
    <2> HIDE DEF j
    <2> QED BY <1>1, <1>4, <2>1, <2>2, WriteMarkerEffect DEF IndInv
  <1> QED BY <1>3, <1>4 DEF VerifyCleanup

\* The journal written to commit an activation, and the one kept in memory when
\* that write fails, both account for the session.
LEMMA CommitActiveEffect ==
  ASSUME IndInv, CommitActive
  PROVE  /\ pc = "commit" /\ pc' \in {"confirm", "rollback"}
         /\ UNCHANGED <<network, request, cur, ctx, blocked, began, prev, dnsres,
                        quick, exit, faults, snapshot, payload, profiles>>
         /\ jr' \in Journals /\ Accounts(cur, jr')
         /\ \E j \in Journals :
              /\ Accounts(cur, j)
              /\ marker' \in [Names -> Journals \cup {NoMarker}]
              /\ \A n \in Names : n # cur => marker'[n] = marker[n]
              /\ marker'[cur] \in {marker[cur], j}
  <1> DEFINE j == [jr EXCEPT !.state = "active", !.was = TRUE]
             k == [jr EXCEPT !.state = "activating", !.was = FALSE]
  <1>1. /\ pc = "commit"
        /\ UNCHANGED <<network, request, cur, ctx, blocked, began, prev, dnsres,
                       quick, exit, faults>>
    BY DEF CommitActive
  <1>2. Accounts(cur, jr)
    BY <1>1 DEF IndInv, MemoryAccounts, OpenPcs, Pcs
  <1>3. CASE UNCHANGED <<disk, jr>> /\ pc' = "rollback"
    BY <1>1, <1>2, <1>3 DEF IndInv, TypeOK, disk
  <1>4. CASE \E ok \in BOOLEAN : /\ WriteMarker(j, ok) /\ jr' \in {j, k}
                                 /\ pc' \in {"confirm", "rollback"}
    <2>1. /\ j \in Journals /\ j.state = "active" /\ j.dns = jr.dns
          /\ j.scope = jr.scope /\ j.backend = jr.backend
      BY DEF IndInv, TypeOK, Journals, States
    <2>2. /\ k \in Journals /\ k.state = "activating" /\ k.dns = jr.dns
          /\ k.scope = jr.scope /\ k.backend = jr.backend
      BY DEF IndInv, TypeOK, Journals, States
    <2>3. Accounts(cur, j) /\ Accounts(cur, k)
      BY <1>2, <2>1, <2>2 DEF Accounts
    <2> HIDE DEF j, k
    <2> QED BY <1>1, <1>4, <2>1, <2>2, <2>3, WriteMarkerEffect DEF IndInv
  <1> QED BY <1>3, <1>4 DEF CommitActive

-----------------------------------------------------------------------------
(* One step per action, for each part of the invariant.                    *)

\* Every step of the helper and of its environment keeps the types.
LEMMA TypeStep ==
  ASSUME IndInv, [Next]_vars
  PROVE  TypeOK'
  <1> USE DEF IndInv, TypeOK, disk, network, request, locals, Pcs, Contexts,
      Journals, States, DnsStates, Links, Applied, Flights, Payloads, Backends
  <1>1. CASE PrepareUp
    <2>1. ASSUME NEW backend \in Backends
          PROVE  NewJournal(backend, tools) \in Journals
      BY DEF NewJournal
    <2>2. prep' \in Journals
      BY <1>1, <2>1 DEF PrepareUp
    <2>3. /\ queue' \subseteq Names /\ pc' \in {"admit", "fail"}
          /\ known' \subseteq Scopes
      BY <1>1 DEF PrepareUp, RuntimeNames
    <2>4. UNCHANGED <<disk, network, op, target, locals, exit, faults>>
      BY <1>1 DEF PrepareUp
    <2> QED BY <2>2, <2>3, <2>4
  <1>2. CASE CheckPrevious
    BY <1>2 DEF CheckPrevious
  <1>3. CASE DisconnectNext
    <2>1. /\ cur' \in Names /\ queue' \subseteq Names /\ ctx' \in {ctx, "down"}
          /\ pc' \in {"begin", "fail"}
      BY <1>3 DEF DisconnectNext
    <2>2. blocked' \in BOOLEAN
      BY <1>3 DEF DisconnectNext
    <2>3. UNCHANGED <<disk, network, op, target, prep, known, jr, began, prev, dnsres,
                      quick, exit, faults>>
      BY <1>3 DEF DisconnectNext
    <2> QED BY <2>1, <2>2, <2>3
  <1>4. CASE ConfirmPrevious
    BY <1>4 DEF ConfirmPrevious
  <1>5. CASE StartTarget
    <2>1. CASE pc' = "fail"
      BY <1>5, <2>1, StartTargetEffect
    <2>2. CASE pc' # "fail"
      <3>1. /\ pc' = "activate" /\ cur' = target /\ jr' = prep
            /\ ctx' = "activate"
            /\ dnsres' = "none" /\ quick' = "none" /\ prev' = "absent"
            /\ UNCHANGED <<disk, network, request, exit, faults>>
        BY <1>5, <2>2, StartTargetEffect
      <3>2. began' \in BOOLEAN /\ blocked' \in BOOLEAN
        BY <1>5, <2>2, StartTargetEffect
      <3> QED BY <3>1, <3>2
    <2> QED BY <2>1, <2>2
  <1>6. CASE Delete
    BY <1>6 DEF Delete, Removal
  <1>7. CASE BeginDown
    BY <1>7 DEF BeginDown, DownRoute, AfterDown, UnsettledResolved
  <1>8. CASE BlockUnsettledDns
    BY <1>8 DEF BlockUnsettledDns, WriteMarker
  <1>9. CASE IdentifyLink
    BY <1>9, RefreshEffect DEF IdentifyLink
  <1>10. CASE CommitDown
    BY <1>10, CommitDownEffect
  <1>11. CASE SkipDns
    BY <1>11 DEF SkipDns, AfterDns
  <1>12. CASE RefuseRevert
    BY <1>12 DEF RefuseRevert
  <1>13. CASE DnsIntent
    BY <1>13 DEF DnsIntent, AfterDns, WriteMarker
  <1>14. CASE ResolvedChange
    BY <1>14, SMTT(30) DEF ResolvedChange
  <1>15. CASE ResolvconfChange
    BY <1>15 DEF ResolvconfChange
  <1>16. CASE CompleteDnsChange
    BY <1>16, CompleteDnsEffect
  <1>17. CASE Teardown
    BY <1>17, RefreshEffect DEF Teardown
  <1>18. CASE RecordUnconfirmed
    BY <1>18 DEF RecordUnconfirmed, WriteMarker
  <1>19. CASE MarkTeardown
    BY <1>19 DEF MarkTeardown, WriteMarker
  <1>20. CASE QuickDown
    <2>1. /\ link' \in [Names -> Links] /\ linkDns' \in [Names -> Applied]
          /\ flight' \in [Names -> Flights]
          /\ quick' \in {"ok", "failed", "not_started"} /\ pc' \in Pcs
      BY <1>20 DEF QuickDown
    <2>2. routes' \in [Names -> {"none", "partial", "full"}]
      BY <1>20 DEF QuickDown
    <2>3. fw' \in [Names -> SUBSET Scopes]
      BY <1>20 DEF QuickDown
    <2>4. UNCHANGED <<disk, confDns, tools, unseen, request, cur, jr, ctx, blocked, began,
                      prev, dnsres, exit, faults>>
      BY <1>20 DEF QuickDown
    <2> QED BY <2>1, <2>2, <2>3, <2>4
  <1>21. CASE CheckTeardown
    BY <1>21 DEF CheckTeardown, MayAbort, WriteMarker
  <1>22. CASE AbortTeardown
    BY <1>22 DEF AbortTeardown, WriteMarker
  <1>23. CASE Reactivate
    BY <1>23 DEF Reactivate, WriteMarker
  <1>24. CASE VerifyCleanup
    BY <1>24, VerifyEffect
  <1>25. CASE ProbeFirewall
    BY <1>25 DEF ProbeFirewall
  <1>26. CASE RecheckLink
    BY <1>26 DEF RecheckLink
  <1>27. CASE RecordComplete
    BY <1>27 DEF RecordComplete, WriteMarker
  <1>28. CASE RemoveConfig
    BY <1>28 DEF RemoveConfig, Removal
  <1>29. CASE RemoveDns
    BY <1>29 DEF RemoveDns, Removal
  <1>30. CASE RemoveMarker
    BY <1>30 DEF RemoveMarker, Removal, AfterDown
  <1>31. CASE CheckTarget
    BY <1>31 DEF CheckTarget
  <1>32. CASE WriteSnapshot
    <2>1. CASE snapshot' = [snapshot EXCEPT ![cur] = TRUE]
      <3>1. snapshot' \in [Names -> BOOLEAN]
        BY <2>1
      <3> QED BY <1>32, <3>1 DEF WriteSnapshot
    <2>2. CASE snapshot' = snapshot
      BY <1>32, <2>2 DEF WriteSnapshot
    <2> QED BY <1>32, <2>1, <2>2 DEF WriteSnapshot
  <1>33. CASE WritePayload
    BY <1>33 DEF WritePayload
  <1>34. CASE WriteActivating
    BY <1>34 DEF WriteActivating, WriteMarker
  <1>35. CASE DiscardUnstarted
    <2>1. [jr EXCEPT !.state = "cleanup_complete", !.dns = "absent",
                     !.was = FALSE, !.scope = {}] \in Journals
      OBVIOUS
    <2>2. jr' \in Journals
      BY <1>35, <2>1 DEF DiscardUnstarted
    <2>3. ctx' = "discard" /\ pc' \in {"complete", "fail"}
      BY <1>35 DEF DiscardUnstarted
    <2>4. UNCHANGED <<disk, network, request, cur, blocked, began, prev, dnsres,
                      quick, exit, faults>>
      BY <1>35 DEF DiscardUnstarted
    <2> QED BY <2>2, <2>3, <2>4
  <1>36. CASE QuickUp
    BY <1>36, SMTT(30) DEF QuickUp
  <1>37. CASE IncludeScope
    BY <1>37 DEF IncludeScope, CapturedScopes, WriteMarker, Captured
  <1>38. CASE HandleFailedUp
    BY <1>38 DEF HandleFailedUp, FailedEarly
  <1>39. CASE ClaimLink
    BY <1>39, RefreshEffect DEF ClaimLink
  <1>40. CASE CommitActive
    BY <1>40, CommitActiveEffect
  <1>41. CASE ConfirmActive
    BY <1>41 DEF ConfirmActive
  <1>42. CASE ReleaseGroup
    BY <1>42 DEF ReleaseGroup
  <1>43. CASE Rollback
    BY <1>43, SMTT(30) DEF Rollback, WriteMarker
  <1>44. CASE IdentifyForRollback
    BY <1>44, RefreshEffect DEF IdentifyForRollback
  <1>45. CASE Exit
    BY <1>45 DEF Exit, Forget, BlankJournal, NewJournal
  <1>46. CASE Crash
    BY <1>46 DEF Crash, Forget, BlankJournal, NewJournal
  <1>47. CASE ToolsChange
    BY <1>47 DEF ToolsChange
  <1>48. CASE Calm
    BY <1>48 DEF Calm
  <1>49. CASE \E n \in Names : LinkVanishes(n)
    BY <1>49 DEF LinkVanishes
  <1>50. CASE \E n \in Names : ForeignLink(n)
    BY <1>50 DEF ForeignLink
  <1>51. CASE \E n \in Names : FlightLands(n)
    BY <1>51 DEF FlightLands
  <1>52. CASE Request
    BY <1>52 DEF Request, StartUp, StartDown, StartRemove, Start
  <1>53. CASE UNCHANGED vars
    BY <1>53 DEF vars, locals
  <1> QED BY <1>1, <1>2, <1>3, <1>4, <1>5, <1>6, <1>7, <1>8, <1>9, <1>10,
          <1>11, <1>12, <1>13, <1>14, <1>15, <1>16, <1>17, <1>18, <1>19,
          <1>20, <1>21, <1>22, <1>23, <1>24, <1>25, <1>26, <1>27, <1>28,
          <1>29, <1>30, <1>31, <1>32, <1>33, <1>34, <1>35, <1>36, <1>37,
          <1>38, <1>39, <1>40, <1>41, <1>42, <1>43, <1>44, <1>45, <1>46,
          <1>47, <1>48, <1>49, <1>50, <1>51, <1>52, <1>53 DEF Next,
          HelperStep, Environment

\* Every step keeps all effects of all sessions accounted for, by the journal on
\* disk and by the one in memory, and there is never a second journal.
LEMMA AccountsStep ==
  ASSUME IndInv, [Next]_vars
  PROVE  DiskAccounts' /\ OneSession' /\ MemoryAccounts'
  <1> USE NoMarkerIsNoJournal DEF IndInv, TypeOK, disk, network, request,
      locals, DiskAccounts, OneSession, RuntimeNames, MemoryAccounts, Accounts,
      LeavesNothing, LinkIsGone, NoDns, DnsClaim, OpenPcs, Pcs, Journals, States
  <1>1. CASE PrepareUp
    BY <1>1 DEF PrepareUp, NewJournal, RuntimeNames, StepFacts
  <1>2. CASE CheckPrevious
    BY <1>2 DEF CheckPrevious, StepFacts
  <1>3. CASE DisconnectNext
    BY <1>3 DEF DisconnectNext, StepFacts
  <1>4. CASE ConfirmPrevious
    BY <1>4 DEF ConfirmPrevious, StepFacts
  <1>5. CASE StartTarget
    <2>1. UNCHANGED <<disk, network, request>>
      BY <1>5 DEF StartTarget
    <2>2. DiskAccounts' /\ OneSession'
      BY <2>1
    <2>3. CASE pc' = "fail"
      BY <2>2, <2>3
    <2>4. CASE pc' # "fail"
      <3>1. /\ pc = "next" /\ cur' = target /\ jr' = prep
            /\ \A n \in Names : marker[n] = NoMarker
        BY <1>5, <2>4, StartTargetEffect
      <3>2. LeavesNothing(target)
        BY <3>1
      <3>3. target \in profiles
        BY <3>1 DEF PreparedIsCurrent
      <3>4. Accounts(target, prep)
        BY <3>2 DEF PreparedIsCurrent
      <3> QED BY <2>1, <2>2, <3>1, <3>3, <3>4
    <2> QED BY <2>3, <2>4
  <1>6. CASE Delete
    BY <1>6 DEF Delete, Removal, StepFacts
  <1>7. CASE BeginDown
    <2>1. UNCHANGED <<disk, network, request, cur>>
      BY <1>7 DEF BeginDown
    <2>2. DiskAccounts' /\ OneSession'
      BY <2>1
    <2>3. CASE pc' \notin OpenPcs
      BY <2>2, <2>3
    <2>4. CASE pc' \in OpenPcs
      <3>1. marker[cur] # NoMarker /\ jr' = marker[cur]
        BY <1>7, <2>4, BeginDownEffect
      <3>2. Accounts(cur, marker[cur])
        BY <3>1
      <3> QED BY <2>1, <2>2, <3>1, <3>2
    <2> QED BY <2>3, <2>4
  <1>8. CASE BlockUnsettledDns
    BY <1>8, SMTT(30) DEF BlockUnsettledDns, WriteMarker, StepFacts
  <1>9. CASE IdentifyLink
    BY <1>9, RefreshStep DEF IdentifyLink
  <1>10. CASE CommitDown
    BY <1>10, CommitDownEffect
  <1>11. CASE SkipDns
    BY <1>11 DEF SkipDns, AfterDns, StepFacts
  <1>12. CASE RefuseRevert
    BY <1>12 DEF RefuseRevert, StepFacts
  <1>13. CASE DnsIntent
    <2> DEFINE j == [jr EXCEPT !.dns = "unknown"]
    <2>1. /\ pc = "intent" /\ jr' \in {jr, j} /\ UNCHANGED <<network, cur>>
          /\ \E ok \in BOOLEAN : WriteMarker(j, ok)
      BY <1>13 DEF DnsIntent
    <2>2. /\ j \in Journals /\ j.dns = "unknown" /\ j.scope = jr.scope
          /\ j.backend = jr.backend /\ j.state = jr.state
      BY DEF DnsStates
    <2>3. Accounts(cur, jr) /\ Accounts(cur, j) /\ pc \in OpenPcs
      BY <2>1, <2>2
    <2> HIDE DEF j
    <2> QED BY <2>1, <2>2, <2>3, WriteMarkerEffect, JournalStep
  <1>14. CASE ResolvedChange
    <2>1. /\ pc = "call" /\ jr.backend = "resolved" /\ jr.dns = "unknown"
          /\ marker[cur] = jr /\ Accounts(cur, jr)
          /\ jr.state \notin {"cleanup_complete", "firewall_pending"}
      BY <1>14 DEF ResolvedChange, StepFacts, DnsFacts
    <2>2. /\ UNCHANGED <<disk, link, routes, fw, unseen, confDns, cur, jr>>
          /\ \A n \in Names : n # cur => linkDns'[n] = linkDns[n] /\ flight'[n] = flight[n]
      BY <1>14 DEF ResolvedChange
    <2>3. Accounts(cur, jr)'
      BY <2>1, <2>2
    <2> QED BY <2>1, <2>2, <2>3
  <1>15. CASE ResolvconfChange
    <2>1. /\ pc = "call" /\ jr.backend = "resolvconf" /\ jr.dns = "unknown"
          /\ marker[cur] = jr /\ Accounts(cur, jr)
          /\ jr.state \notin {"cleanup_complete", "firewall_pending"}
      BY <1>15 DEF ResolvconfChange, StepFacts, DnsFacts
    <2>2. /\ UNCHANGED <<disk, link, routes, fw, unseen, linkDns, flight, cur, jr>>
          /\ \A n \in Names : n # cur => confDns'[n] = confDns[n]
      BY <1>15 DEF ResolvconfChange
    <2>3. Accounts(cur, jr)'
      BY <2>1, <2>2
    <2> QED BY <2>1, <2>2, <2>3
  <1>16. CASE CompleteDnsChange
    BY <1>16, CompleteDnsEffect, JournalStep
  <1>17. CASE Teardown
    BY <1>17, RefreshStep DEF Teardown
  <1>18. CASE RecordUnconfirmed
    BY <1>18 DEF RecordUnconfirmed, WriteMarker, StepFacts
  <1>19. CASE MarkTeardown
    BY <1>19 DEF MarkTeardown, WriteMarker, StepFacts
  <1>20. CASE QuickDown
    BY <1>20 DEF QuickDown, StepFacts
  <1>21. CASE CheckTeardown
    BY <1>21 DEF CheckTeardown, MayAbort, WriteMarker, StepFacts
  <1>22. CASE AbortTeardown
    BY <1>22 DEF AbortTeardown, WriteMarker, StepFacts
  <1>23. CASE Reactivate
    BY <1>23 DEF Reactivate, WriteMarker, StepFacts
  <1>24. CASE VerifyCleanup
    BY <1>24, VerifyEffect, JournalStep
  <1>25. CASE ProbeFirewall
    BY <1>25 DEF ProbeFirewall, StepFacts
  <1>26. CASE RecheckLink
    BY <1>26 DEF RecheckLink, StepFacts
  <1>27. CASE RecordComplete
    BY <1>27 DEF RecordComplete, WriteMarker, StepFacts
  <1>28. CASE RemoveConfig
    BY <1>28 DEF RemoveConfig, Removal, StepFacts
  <1>29. CASE RemoveDns
    BY <1>29 DEF RemoveDns, Removal, StepFacts
  <1>30. CASE RemoveMarker
    BY <1>30 DEF RemoveMarker, Removal, AfterDown, StepFacts
  <1>31. CASE CheckTarget
    BY <1>31 DEF CheckTarget, StepFacts
  <1>32. CASE WriteSnapshot
    BY <1>32 DEF WriteSnapshot, StepFacts
  <1>33. CASE WritePayload
    BY <1>33 DEF WritePayload, StepFacts
  <1>34. CASE WriteActivating
    BY <1>34 DEF WriteActivating, WriteMarker, StepFacts
  <1>35. CASE DiscardUnstarted
    <2>1. LeavesNothing(cur) /\ pc \in OpenPcs /\ UNCHANGED <<disk, network, cur>>
      BY <1>35 DEF DiscardUnstarted, StepFacts
    <2>2. CASE pc' = "fail"
      BY <2>1, <2>2
    <2>3. CASE jr' = [jr EXCEPT !.state = "cleanup_complete", !.dns = "absent",
                                !.was = FALSE, !.scope = {}]
      <3>1. Accounts(cur, jr)
        BY <2>1
      <3>2. /\ jr'.state = "cleanup_complete" /\ jr'.scope = {} /\ jr'.dns = "absent"
            /\ jr'.backend = jr.backend
        BY <2>3
      <3>3. Accounts(cur, jr')
        BY <2>1, <3>1, <3>2
      <3> QED BY <2>1, <3>3
    <2> QED BY <1>35, <2>2, <2>3 DEF DiscardUnstarted
  <1>36. CASE QuickUp
    <2>1. /\ pc = "quick_up" /\ marker[cur] = jr /\ jr.state = "activating"
          /\ LeavesNothing(cur) /\ known \subseteq jr.scope
      BY <1>36 DEF QuickUp, StepFacts
    <2>2. /\ UNCHANGED <<disk, linkDns, confDns, flight, cur, jr>>
          /\ \A n \in Names : n # cur => /\ link'[n] = link[n] /\ fw'[n] = fw[n]
                                        /\ routes'[n] = routes[n]
                                        /\ unseen'[n] = unseen[n]
      BY <1>36 DEF QuickUp
    <2>3. /\ fw'[cur] \subseteq jr.scope \cup unseen'[cur]
          /\ pc' \in {"scope", "discard"}
      <3>1. fw'[cur] \subseteq fw[cur] \cup tools
        BY <1>36 DEF QuickUp
      <3>2. unseen'[cur] = (unseen[cur] \cap fw[cur]) \cup (tools \ known)
        BY <1>36 DEF QuickUp
      <3> QED BY <1>36, <2>1, <3>1, <3>2 DEF QuickUp
    <2>4. Accounts(cur, jr)
      BY <2>1
    <2>5. /\ linkDns'[cur] = "absent" /\ confDns'[cur] = "absent" /\ flight'[cur] = "none"
          /\ jr.dns = "absent" \/ jr.dns = "unknown" \/ jr.dns = "applied"
      BY <2>1, <2>2 DEF DnsStates
    <2>6. jr.dns # "applied"
      BY <2>1 DEF StepFacts
    <2>7. Accounts(cur, jr)'
      BY <2>1, <2>2, <2>3, <2>4, <2>5, <2>6
    <2>8. marker'[cur] # NoMarker
      BY <2>1, <2>2
    <2> QED BY <2>1, <2>2, <2>7, <2>8
  <1>37. CASE IncludeScope
    <2>1. PICK scope \in CapturedScopes, ok \in BOOLEAN :
                 /\ jr' = [jr EXCEPT !.scope = @ \cup scope]
                 /\ WriteMarker([jr EXCEPT !.scope = @ \cup scope], ok)
                 /\ Captured(ok)
      BY <1>37, IncludeScopeEffect
    <2> DEFINE j == [jr EXCEPT !.scope = @ \cup scope]
    <2>2. /\ j \in Journals /\ j.scope = jr.scope \cup scope /\ j.backend = jr.backend
          /\ j.dns = jr.dns /\ j.state = "activating"
      BY <1>37 DEF CapturedScopes, IncludeScope, StepFacts
    <2>3. /\ UNCHANGED <<link, routes, fw, linkDns, confDns, flight, tools, cur>>
          /\ pc \in OpenPcs
      BY <1>37 DEF IncludeScope
    <2>4. WriteMarker(j, ok) /\ jr' = j /\ Captured(ok)
      BY <2>1
    <2> HIDE DEF j
    <2> QED BY <2>2, <2>3, <2>4, CaptureStep, SMTT(30)
  <1>38. CASE HandleFailedUp
    BY <1>38 DEF HandleFailedUp, FailedEarly, StepFacts
  <1>39. CASE ClaimLink
    <2>1. CASE \E r : RefreshOwnedInterface(r)
      BY <1>39, <2>1, RefreshStep DEF ClaimLink
    <2>2. CASE UNCHANGED <<disk, jr>>
      BY <1>39, <2>2 DEF ClaimLink
    <2> QED BY <1>39, <2>1, <2>2 DEF ClaimLink
  <1>40. CASE CommitActive
    BY <1>40, CommitActiveEffect, JournalStep
  <1>41. CASE ConfirmActive
    BY <1>41 DEF ConfirmActive, StepFacts
  <1>42. CASE ReleaseGroup
    BY <1>42 DEF ReleaseGroup, StepFacts
  <1>43. CASE Rollback
    BY <1>43 DEF Rollback, WriteMarker, StepFacts
  <1>44. CASE IdentifyForRollback
    BY <1>44, RefreshStep DEF IdentifyForRollback
  <1>45. CASE Exit
    BY <1>45 DEF Exit, Forget, BlankJournal, NewJournal, StepFacts
  <1>46. CASE Crash
    BY <1>46 DEF Crash, Forget, BlankJournal, NewJournal, StepFacts
  <1>47. CASE ToolsChange
    BY <1>47 DEF ToolsChange, StepFacts
  <1>48. CASE Calm
    BY <1>48 DEF Calm, StepFacts
  <1>49. CASE \E n \in Names : LinkVanishes(n)
    BY <1>49 DEF LinkVanishes, StepFacts
  <1>50. CASE \E n \in Names : ForeignLink(n)
    BY <1>50 DEF ForeignLink, StepFacts
  <1>51. CASE \E n \in Names : FlightLands(n)
    BY <1>51 DEF FlightLands, StepFacts
  <1>52. CASE Request
    BY <1>52 DEF Request, StartUp, StartDown, StartRemove, Start
  <1>53. CASE UNCHANGED vars
    BY <1>53 DEF vars, locals
  <1> QED BY <1>1, <1>2, <1>3, <1>4, <1>5, <1>6, <1>7, <1>8, <1>9, <1>10,
          <1>11, <1>12, <1>13, <1>14, <1>15, <1>16, <1>17, <1>18, <1>19,
          <1>20, <1>21, <1>22, <1>23, <1>24, <1>25, <1>26, <1>27, <1>28,
          <1>29, <1>30, <1>31, <1>32, <1>33, <1>34, <1>35, <1>36, <1>37,
          <1>38, <1>39, <1>40, <1>41, <1>42, <1>43, <1>44, <1>45, <1>46,
          <1>47, <1>48, <1>49, <1>50, <1>51, <1>52, <1>53 DEF Next,
          HelperStep, Environment

\* Every step establishes what the next one relies on.
LEMMA FactsStep ==
  ASSUME IndInv, [Next]_vars
  PROVE  PreparedIsCurrent' /\ StepFacts' /\ DnsFacts'
  <1> USE NoMarkerIsNoJournal DEF IndInv, TypeOK, disk, network, request,
      locals, PreparedIsCurrent, StepFacts, DnsFacts, LeavesNothing, LinkIsGone,
      NoDns, OpenPcs, Pcs
  <1>1. CASE PrepareUp
    BY <1>1 DEF PrepareUp, NewJournal, RuntimeNames, Journals, MemoryAccounts,
        DiskAccounts, Accounts, DnsClaim, Seen, OwnedLinkState
  <1>2. CASE CheckPrevious
    BY <1>2 DEF CheckPrevious, Journals, MemoryAccounts, DiskAccounts,
        Accounts, DnsClaim, Seen, OwnedLinkState
  <1>3. CASE DisconnectNext
    BY <1>3 DEF DisconnectNext, Journals, MemoryAccounts, DiskAccounts,
        Accounts, DnsClaim, Seen, OwnedLinkState
  <1>4. CASE ConfirmPrevious
    BY <1>4 DEF ConfirmPrevious, Journals, MemoryAccounts, DiskAccounts,
        Accounts, DnsClaim, Seen, OwnedLinkState
  <1>5. CASE StartTarget
    <2>1. CASE pc' = "activate"
      <3>1. /\ target \in profiles /\ known \subseteq prep.scope
            /\ UNCHANGED <<disk, network, request>>
            /\ cur' = target /\ jr' = prep /\ marker[target] = NoMarker
            /\ blocked' = FALSE
        BY <1>5, <2>1, StartTargetEffect DEF StartTarget, RuntimeNames
      <3>2. flight[target] = "none"
        BY <3>1 DEF DiskAccounts
      <3> QED BY <2>1, <3>1, <3>2
    <2> QED BY <1>5, <2>1, StartTargetEffect
  <1>6. CASE Delete
    BY <1>6 DEF Delete, Removal, Journals, MemoryAccounts, DiskAccounts,
        Accounts, DnsClaim, Seen, OwnedLinkState
  <1>7. CASE BeginDown
    <2>1. /\ UNCHANGED <<disk, network, request, cur, blocked>> /\ pc = "begin"
          /\ pc' = "delete" => op = "remove"
          /\ pc' = "settled" => op = "up"
          /\ pc' \in {"complete", "verify", "identify", "commit_down", "block",
                      "settled", "delete", "finish", "fail"}
      BY <1>7, BeginDownEffect
    <2>2. /\ pc' \in {"complete", "verify", "identify", "commit_down", "block"} =>
               jr' = marker[cur] /\ marker[cur] # NoMarker
          /\ pc' = "complete" => marker[cur].state = "cleanup_complete"
          /\ pc' = "verify" => marker[cur].state = "firewall_pending"
          /\ pc' \in {"identify", "commit_down"} =>
               ~(marker[cur].backend = "resolved" /\ marker[cur].dns = "unknown")
          /\ pc' = "identify" =>
               marker[cur].state \notin {"cleanup_complete", "firewall_pending"}
      BY <1>7, BeginDownEffect
    <2>3. marker[cur] # NoMarker => Accounts(cur, marker[cur]) /\ marker[cur] \in Journals
      BY DEF DiskAccounts
    <2>4. flight[cur] # "none" => pc' \notin {"complete", "verify", "identify", "commit_down"}
      BY <2>2, <2>3 DEF Accounts, DnsClaim, Journals, DnsStates
    <2>5. PreparedIsCurrent'
      BY <2>1
    <2>6. DnsFacts'
      BY <2>1, <2>4
    <2>7. pc' = "complete" => LeavesNothing(cur)
      BY <2>2, <2>3 DEF Accounts
    <2>8. pc' = "verify" => LinkIsGone(cur)
      BY <2>2, <2>3 DEF Accounts
    <2> QED BY <2>1, <2>2, <2>5, <2>6, <2>7, <2>8
  <1>8. CASE BlockUnsettledDns
    BY <1>8 DEF BlockUnsettledDns, WriteMarker, Journals, MemoryAccounts,
        DiskAccounts, Accounts, DnsClaim, Seen, OwnedLinkState
  <1>9. CASE IdentifyLink
    BY <1>9, RefreshEffect DEF IdentifyLink, Journals, MemoryAccounts,
        DiskAccounts, Accounts, DnsClaim, Seen, OwnedLinkState
  <1>10. CASE CommitDown
    BY <1>10, CommitDownEffect
  <1>11. CASE SkipDns
    BY <1>11 DEF SkipDns, AfterDns, Journals, MemoryAccounts, DiskAccounts,
        Accounts, DnsClaim, Seen, OwnedLinkState
  <1>12. CASE RefuseRevert
    <2>1. /\ pc = "intent" /\ pc' = "record" /\ prev' = jr.dns /\ dnsres' = "uncertain"
          /\ ~blocked
          /\ UNCHANGED <<disk, network, request, cur, jr, ctx, blocked, quick>>
      BY <1>12 DEF RefuseRevert
    <2>2. DnsClaim(cur, jr.backend, jr.dns) /\ flight[cur] = "none"
      BY <2>1 DEF MemoryAccounts, Accounts
    <2>3. SettledDns(dnsres)' = jr.dns
      BY <2>1 DEF SettledDns
    <2>4. DnsClaim(cur, jr.backend, SettledDns(dnsres))'
      BY <2>1, <2>2, <2>3 DEF DnsClaim
    <2> QED BY <2>1, <2>2, <2>4
  <1>13. CASE DnsIntent
    BY <1>13 DEF DnsIntent, AfterDns, WriteMarker, Journals, MemoryAccounts,
        DiskAccounts, Accounts, DnsClaim, Seen, OwnedLinkState
  <1>14. CASE ResolvedChange
    <2>1. /\ pc = "call" /\ pc' = "record" /\ jr.backend = "resolved"
          /\ UNCHANGED <<disk, link, routes, fw, confDns, tools, request, cur, jr,
                         ctx, blocked, prev, quick>>
      BY <1>14 DEF ResolvedChange
    <2>2. /\ flight[cur] = "none" /\ ~blocked /\ confDns[cur] = "absent"
          /\ DnsClaim(cur, jr.backend, prev)
          /\ jr.state \notin {"cleanup_complete", "firewall_pending"}
      BY <2>1 DEF MemoryAccounts, Accounts
    <2>3. \/ /\ dnsres' = "ok" /\ UNCHANGED flight
             /\ linkDns'[cur] = IF Applying THEN "applied" ELSE "absent"
          \/ dnsres' \in {"failed", "uncertain"} /\ UNCHANGED <<linkDns, flight>>
          \/ dnsres' = "failed_may" /\ UNCHANGED flight
          \/ dnsres' = "uncertain_may"
      BY <1>14 DEF ResolvedChange
    <2>4. DnsClaim(cur, jr.backend, SettledDns(dnsres))'
      BY <2>1, <2>2, <2>3 DEF SettledDns, Applying, DnsClaim
    <2> QED BY <2>1, <2>2, <2>3, <2>4
  <1>15. CASE ResolvconfChange
    <2>1. /\ pc = "call" /\ pc' = "record" /\ jr.backend = "resolvconf"
          /\ UNCHANGED <<disk, link, routes, fw, linkDns, flight, tools, request,
                         cur, jr, ctx, blocked, prev, quick>>
      BY <1>15 DEF ResolvconfChange
    <2>2. /\ flight[cur] = "none" /\ ~blocked /\ linkDns[cur] = "absent"
          /\ jr.state \notin {"cleanup_complete", "firewall_pending"}
      BY <2>1 DEF MemoryAccounts, Accounts
    <2>3. \/ /\ dnsres' = "ok"
             /\ confDns'[cur] = IF Applying THEN "applied" ELSE "absent"
          \/ dnsres' = "failed_may"
      BY <1>15 DEF ResolvconfChange
    <2>4. DnsClaim(cur, jr.backend, SettledDns(dnsres))'
      BY <2>1, <2>2, <2>3 DEF SettledDns, Applying, DnsClaim
    <2> QED BY <2>1, <2>2, <2>3, <2>4
  <1>16. CASE CompleteDnsChange
    BY <1>16, CompleteDnsEffect
  <1>17. CASE Teardown
    BY <1>17, RefreshEffect DEF Teardown, Journals, MemoryAccounts,
        DiskAccounts, Accounts, DnsClaim, Seen, OwnedLinkState
  <1>18. CASE RecordUnconfirmed
    BY <1>18 DEF RecordUnconfirmed, WriteMarker, Journals, MemoryAccounts,
        DiskAccounts, Accounts, DnsClaim, Seen, OwnedLinkState
  <1>19. CASE MarkTeardown
    BY <1>19 DEF MarkTeardown, WriteMarker, Journals, MemoryAccounts,
        DiskAccounts, Accounts, DnsClaim, Seen, OwnedLinkState
  <1>20. CASE QuickDown
    BY <1>20 DEF QuickDown, Journals, MemoryAccounts, DiskAccounts, Accounts,
        DnsClaim, Seen, OwnedLinkState
  <1>21. CASE CheckTeardown
    BY <1>21 DEF CheckTeardown, MayAbort, WriteMarker, Journals,
        MemoryAccounts, DiskAccounts, Accounts, DnsClaim, Seen, OwnedLinkState
  <1>22. CASE AbortTeardown
    BY <1>22 DEF AbortTeardown, WriteMarker, Journals, MemoryAccounts,
        DiskAccounts, Accounts, DnsClaim, Seen, OwnedLinkState
  <1>23. CASE Reactivate
    BY <1>23 DEF Reactivate, WriteMarker, Journals, MemoryAccounts,
        DiskAccounts, Accounts, DnsClaim, Seen, OwnedLinkState
  <1>24. CASE VerifyCleanup
    BY <1>24 DEF VerifyCleanup, WriteMarker, Journals, MemoryAccounts,
        DiskAccounts, Accounts, DnsClaim, Seen, OwnedLinkState
  <1>25. CASE ProbeFirewall
    BY <1>25 DEF ProbeFirewall, Journals, MemoryAccounts, DiskAccounts,
        Accounts, DnsClaim, Seen, OwnedLinkState
  <1>26. CASE RecheckLink
    BY <1>26 DEF RecheckLink, Journals, MemoryAccounts, DiskAccounts,
        Accounts, DnsClaim, Seen, OwnedLinkState
  <1>27. CASE RecordComplete
    BY <1>27 DEF RecordComplete, WriteMarker, Journals, MemoryAccounts,
        DiskAccounts, Accounts, DnsClaim, Seen, OwnedLinkState
  <1>28. CASE RemoveConfig
    BY <1>28 DEF RemoveConfig, Removal, Journals, MemoryAccounts,
        DiskAccounts, Accounts, DnsClaim, Seen, OwnedLinkState
  <1>29. CASE RemoveDns
    BY <1>29 DEF RemoveDns, Removal, Journals, MemoryAccounts, DiskAccounts,
        Accounts, DnsClaim, Seen, OwnedLinkState
  <1>30. CASE RemoveMarker
    BY <1>30 DEF RemoveMarker, Removal, AfterDown, Journals, MemoryAccounts,
        DiskAccounts, Accounts, DnsClaim, Seen, OwnedLinkState
  <1>31. CASE CheckTarget
    BY <1>31 DEF CheckTarget, Journals, MemoryAccounts, DiskAccounts,
        Accounts, DnsClaim, Seen, OwnedLinkState
  <1>32. CASE WriteSnapshot
    BY <1>32 DEF WriteSnapshot, Journals, MemoryAccounts, DiskAccounts,
        Accounts, DnsClaim, Seen, OwnedLinkState
  <1>33. CASE WritePayload
    BY <1>33 DEF WritePayload, Journals, MemoryAccounts, DiskAccounts,
        Accounts, DnsClaim, Seen, OwnedLinkState
  <1>34. CASE WriteActivating
    BY <1>34 DEF WriteActivating, WriteMarker, Journals, MemoryAccounts,
        DiskAccounts, Accounts, DnsClaim, Seen, OwnedLinkState
  <1>35. CASE DiscardUnstarted
    BY <1>35 DEF DiscardUnstarted, Journals, MemoryAccounts, DiskAccounts,
        Accounts, DnsClaim, Seen, OwnedLinkState
  <1>36. CASE QuickUp
    BY <1>36 DEF QuickUp, Journals, MemoryAccounts, DiskAccounts, Accounts,
        DnsClaim, Seen, OwnedLinkState
  <1>37. CASE IncludeScope
    BY <1>37 DEF IncludeScope, CapturedScopes, WriteMarker, Journals,
        MemoryAccounts, DiskAccounts, Accounts, DnsClaim, Seen, OwnedLinkState
  <1>38. CASE HandleFailedUp
    BY <1>38 DEF HandleFailedUp, FailedEarly, Journals, MemoryAccounts,
        DiskAccounts, Accounts, DnsClaim, Seen, OwnedLinkState
  <1>39. CASE ClaimLink
    BY <1>39, RefreshEffect DEF ClaimLink, Journals, MemoryAccounts,
        DiskAccounts, Accounts, DnsClaim, Seen, OwnedLinkState
  <1>40. CASE CommitActive
    BY <1>40 DEF CommitActive, WriteMarker, Journals, MemoryAccounts,
        DiskAccounts, Accounts, DnsClaim, Seen, OwnedLinkState
  <1>41. CASE ConfirmActive
    BY <1>41 DEF ConfirmActive, Journals, MemoryAccounts, DiskAccounts,
        Accounts, DnsClaim, Seen, OwnedLinkState
  <1>42. CASE ReleaseGroup
    BY <1>42 DEF ReleaseGroup, Journals, MemoryAccounts, DiskAccounts,
        Accounts, DnsClaim, Seen, OwnedLinkState
  <1>43. CASE Rollback
    BY <1>43 DEF Rollback, WriteMarker, Journals, MemoryAccounts,
        DiskAccounts, Accounts, DnsClaim, Seen, OwnedLinkState
  <1>44. CASE IdentifyForRollback
    BY <1>44, RefreshEffect DEF IdentifyForRollback, Journals, MemoryAccounts,
        DiskAccounts, Accounts, DnsClaim, Seen, OwnedLinkState
  <1>45. CASE Exit
    BY <1>45 DEF Exit, Forget, BlankJournal, NewJournal, Journals,
        MemoryAccounts, DiskAccounts, Accounts, DnsClaim, Seen, OwnedLinkState
  <1>46. CASE Crash
    BY <1>46 DEF Crash, Forget, BlankJournal, NewJournal, Journals,
        MemoryAccounts, DiskAccounts, Accounts, DnsClaim, Seen, OwnedLinkState
  <1>47. CASE ToolsChange
    BY <1>47 DEF ToolsChange, SettledDns, Applying, DnsClaim
  <1>48. CASE Calm
    BY <1>48 DEF Calm, SettledDns, Applying, DnsClaim
  <1>49. CASE \E n \in Names : LinkVanishes(n)
    BY <1>49 DEF LinkVanishes, SettledDns, Applying, DnsClaim
  <1>50. CASE \E n \in Names : ForeignLink(n)
    BY <1>50 DEF ForeignLink, SettledDns, Applying, DnsClaim
  <1>51. CASE \E n \in Names : FlightLands(n)
    <2>1. PICK n \in Names : FlightLands(n)
      BY <1>51
    <2>2. CASE n = cur
      BY <2>1, <2>2 DEF FlightLands, SettledDns, DnsClaim
    <2>3. CASE n # cur
      BY <2>1, <2>3 DEF FlightLands, SettledDns, Applying, DnsClaim
    <2> QED BY <2>2, <2>3
  <1>52. CASE Request
    BY <1>52 DEF Request, StartUp, StartDown, StartRemove, Start
  <1>53. CASE UNCHANGED vars
    BY <1>53 DEF vars, locals, SettledDns, Applying, DnsClaim
  <1> QED BY <1>1, <1>2, <1>3, <1>4, <1>5, <1>6, <1>7, <1>8, <1>9, <1>10,
          <1>11, <1>12, <1>13, <1>14, <1>15, <1>16, <1>17, <1>18, <1>19,
          <1>20, <1>21, <1>22, <1>23, <1>24, <1>25, <1>26, <1>27, <1>28,
          <1>29, <1>30, <1>31, <1>32, <1>33, <1>34, <1>35, <1>36, <1>37,
          <1>38, <1>39, <1>40, <1>41, <1>42, <1>43, <1>44, <1>45, <1>46,
          <1>47, <1>48, <1>49, <1>50, <1>51, <1>52, <1>53 DEF Next,
          HelperStep, Environment

\* A step changes at most one journal, and then nothing in the network, and opens
\* one only for a saved profile; or it deletes the profile of a free name.
LEMMA BookStep ==
  ASSUME IndInv, [Next]_vars
  PROVE  \/ UNCHANGED <<marker, profiles>>
         \/ UNCHANGED profiles /\ RuntimeNames' = RuntimeNames
         \/ /\ UNCHANGED <<network, profiles>>
            /\ marker[cur] = NoMarker => cur \in profiles
            /\ \A n \in Names : n # cur => marker'[n] = marker[n]
         \/ /\ UNCHANGED <<marker, network>>
            /\ RuntimeIsFree(target) /\ profiles' \in {profiles, profiles \ {target}}
  <1> USE DEF IndInv, TypeOK, disk, MemoryAccounts, OpenPcs, Pcs
  <1>1. CASE PrepareUp
    BY <1>1 DEF PrepareUp, NewJournal, RuntimeNames
  <1>2. CASE CheckPrevious
    BY <1>2 DEF CheckPrevious
  <1>3. CASE DisconnectNext
    BY <1>3 DEF DisconnectNext
  <1>4. CASE ConfirmPrevious
    BY <1>4 DEF ConfirmPrevious
  <1>5. CASE StartTarget
    BY <1>5, StartTargetEffect
  <1>6. CASE Delete
    BY <1>6 DEF Delete, Removal
  <1>7. CASE BeginDown
    BY <1>7, BeginDownEffect
  <1>8. CASE BlockUnsettledDns
    BY <1>8 DEF BlockUnsettledDns, WriteMarker
  <1>9. CASE IdentifyLink
    BY <1>9, RefreshEffect DEF IdentifyLink
  <1>10. CASE CommitDown
    <2>1. /\ marker[cur] # NoMarker /\ jr' \in Journals
          /\ marker'[cur] \in {marker[cur], jr'} /\ UNCHANGED profiles
          /\ \A n \in Names : n # cur => marker'[n] = marker[n]
      BY <1>10, CommitDownEffect DEF StepFacts
    <2> QED BY <2>1, NoMarkerIsNoJournal DEF RuntimeNames
  <1>11. CASE SkipDns
    BY <1>11 DEF SkipDns, AfterDns
  <1>12. CASE RefuseRevert
    BY <1>12 DEF RefuseRevert
  <1>13. CASE DnsIntent
    BY <1>13 DEF DnsIntent, AfterDns, WriteMarker
  <1>14. CASE ResolvedChange
    BY <1>14 DEF ResolvedChange
  <1>15. CASE ResolvconfChange
    BY <1>15 DEF ResolvconfChange
  <1>16. CASE CompleteDnsChange
    BY <1>16, CompleteDnsEffect
  <1>17. CASE Teardown
    BY <1>17, RefreshEffect DEF Teardown
  <1>18. CASE RecordUnconfirmed
    BY <1>18 DEF RecordUnconfirmed, WriteMarker
  <1>19. CASE MarkTeardown
    BY <1>19 DEF MarkTeardown, WriteMarker
  <1>20. CASE QuickDown
    BY <1>20 DEF QuickDown
  <1>21. CASE CheckTeardown
    BY <1>21 DEF CheckTeardown, MayAbort, WriteMarker
  <1>22. CASE AbortTeardown
    <2>1. CASE UNCHANGED disk
      BY <2>1
    <2>2. CASE \E j, ok : WriteMarker(j, ok)
      BY <1>22, <2>2 DEF AbortTeardown, WriteMarker
    <2> QED BY <1>22, <2>1, <2>2 DEF AbortTeardown
  <1>23. CASE Reactivate
    BY <1>23 DEF Reactivate, WriteMarker
  <1>24. CASE VerifyCleanup
    BY <1>24, VerifyEffect
  <1>25. CASE ProbeFirewall
    BY <1>25 DEF ProbeFirewall
  <1>26. CASE RecheckLink
    BY <1>26 DEF RecheckLink
  <1>27. CASE RecordComplete
    BY <1>27 DEF RecordComplete, WriteMarker
  <1>28. CASE RemoveConfig
    BY <1>28 DEF RemoveConfig, Removal
  <1>29. CASE RemoveDns
    BY <1>29 DEF RemoveDns, Removal
  <1>30. CASE RemoveMarker
    BY <1>30 DEF RemoveMarker, Removal, AfterDown
  <1>31. CASE CheckTarget
    BY <1>31 DEF CheckTarget
  <1>32. CASE WriteSnapshot
    BY <1>32 DEF WriteSnapshot
  <1>33. CASE WritePayload
    BY <1>33 DEF WritePayload
  <1>34. CASE WriteActivating
    BY <1>34 DEF WriteActivating, WriteMarker
  <1>35. CASE DiscardUnstarted
    BY <1>35 DEF DiscardUnstarted
  <1>36. CASE QuickUp
    BY <1>36 DEF QuickUp
  <1>37. CASE IncludeScope
    <2>1. PICK scope \in CapturedScopes, ok \in BOOLEAN :
                 WriteMarker([jr EXCEPT !.scope = @ \cup scope], ok)
      BY <1>37 DEF IncludeScope
    <2> DEFINE j == [jr EXCEPT !.scope = @ \cup scope]
    <2>2. j \in Journals /\ marker[cur] # NoMarker
      BY <1>37 DEF CapturedScopes, IncludeScope, StepFacts, Journals
    <2>3. WriteMarker(j, ok)
      BY <2>1
    <2> HIDE DEF j
    <2>4. /\ marker'[cur] \in {marker[cur], j} /\ UNCHANGED profiles
          /\ \A n \in Names : n # cur => marker'[n] = marker[n]
      BY <2>2, <2>3, WriteMarkerEffect
    <2> QED BY <2>2, <2>4, NoMarkerIsNoJournal DEF RuntimeNames
  <1>38. CASE HandleFailedUp
    BY <1>38 DEF HandleFailedUp, FailedEarly
  <1>39. CASE ClaimLink
    BY <1>39, RefreshEffect DEF ClaimLink
  <1>40. CASE CommitActive
    BY <1>40, CommitActiveEffect
  <1>41. CASE ConfirmActive
    BY <1>41 DEF ConfirmActive
  <1>42. CASE ReleaseGroup
    BY <1>42 DEF ReleaseGroup
  <1>43. CASE Rollback
    BY <1>43 DEF Rollback, WriteMarker
  <1>44. CASE IdentifyForRollback
    BY <1>44, RefreshEffect DEF IdentifyForRollback
  <1>45. CASE Exit
    BY <1>45 DEF Exit, Forget, BlankJournal, NewJournal
  <1>46. CASE Crash
    BY <1>46 DEF Crash, Forget, BlankJournal, NewJournal
  <1>47. CASE ToolsChange
    BY <1>47 DEF ToolsChange
  <1>48. CASE Calm
    BY <1>48 DEF Calm
  <1>49. CASE \E n \in Names : LinkVanishes(n)
    BY <1>49 DEF LinkVanishes
  <1>50. CASE \E n \in Names : ForeignLink(n)
    BY <1>50 DEF ForeignLink
  <1>51. CASE \E n \in Names : FlightLands(n)
    BY <1>51 DEF FlightLands
  <1>52. CASE Request
    BY <1>52 DEF Request, StartUp, StartDown, StartRemove, Start
  <1>53. CASE UNCHANGED vars
    BY <1>53 DEF vars, locals
  <1> QED BY <1>1, <1>2, <1>3, <1>4, <1>5, <1>6, <1>7, <1>8, <1>9, <1>10,
          <1>11, <1>12, <1>13, <1>14, <1>15, <1>16, <1>17, <1>18, <1>19,
          <1>20, <1>21, <1>22, <1>23, <1>24, <1>25, <1>26, <1>27, <1>28,
          <1>29, <1>30, <1>31, <1>32, <1>33, <1>34, <1>35, <1>36, <1>37,
          <1>38, <1>39, <1>40, <1>41, <1>42, <1>43, <1>44, <1>45, <1>46,
          <1>47, <1>48, <1>49, <1>50, <1>51, <1>52, <1>53 DEF Next,
          HelperStep, Environment

-----------------------------------------------------------------------------
(* The theorems.                                                           *)

\* The empty runtime directory satisfies the invariant.
LEMMA InitIndInv == Init => IndInv
  <1> SUFFICES ASSUME Init PROVE IndInv
    OBVIOUS
  <1>1. TypeOK
    BY DEF Init, TypeOK, Journals, Payloads, Links, Applied, Flights, Pcs,
           Contexts, BlankJournal, NewJournal, States, Backends, DnsStates
  <1>2. DiskAccounts /\ OneSession
    BY DEF Init, DiskAccounts, LeavesNothing, OneSession, RuntimeNames
  <1>3. MemoryAccounts /\ PreparedIsCurrent /\ StepFacts /\ DnsFacts
    BY DEF Init, MemoryAccounts, PreparedIsCurrent, StepFacts, DnsFacts, OpenPcs,
           BlankJournal, NewJournal
  <1> QED BY <1>1, <1>2, <1>3 DEF IndInv

\* Whatever fails and wherever the helper dies, every effect stays accounted for
\* by a journal: the invariant of amneziawg_helper_tunnel.c.
THEOREM InvariantHolds == Spec => []IndInv
  <1>1. IndInv /\ [Next]_vars => IndInv'
    BY TypeStep, AccountsStep, FactsStep DEF IndInv
  <1> QED BY InitIndInv, <1>1, PTL DEF Spec

\* Type correctness of the helper, its files and the network it changes.
THEOREM TypeCorrect == Spec => []TypeOK
  <1>1. IndInv => TypeOK
    BY DEF IndInv
  <1> QED BY <1>1, InvariantHolds, PTL

\* No link, route, rule, DNS setting or request outlives its journal, but for a rule
\* in a namespace that no recorded capture has seen (unseen).
THEOREM EffectsAreNeverOrphaned == Spec => []NoOrphanedEffects
  <1>1. IndInv => NoOrphanedEffects
    BY DEF IndInv, DiskAccounts, NoOrphanedEffects
  <1> QED BY <1>1, InvariantHolds, PTL

\* The dns_state on disk is true at every moment a crash can expose it.
THEOREM JournalsTellTheTruthOnDns == Spec => []JournalDnsIsTrue
  <1>1. IndInv => JournalDnsIsTrue
    BY DEF IndInv, DiskAccounts, Accounts, DnsClaim, NoDns, JournalDnsIsTrue,
           RuntimeNames
  <1> QED BY <1>1, InvariantHolds, PTL

\* cleanup_complete and firewall_pending mean what their recovery relies on.
THEOREM SettledStatesHold == Spec => []SettledStatesAreSettled
  <1>1. IndInv => SettledStatesAreSettled
    BY DEF IndInv, DiskAccounts, Accounts, LinkIsGone, NoDns,
           SettledStatesAreSettled, RuntimeNames
  <1> QED BY <1>1, InvariantHolds, PTL

\* include_current_firewall_scope never forgets a namespace that holds rules, while
\* tools come and go, but for one that no recorded capture has seen yet (unseen).
THEOREM FirewallScopesCover == Spec => []FirewallIsTracked
  <1>1. IndInv => FirewallIsTracked
    BY DEF IndInv, DiskAccounts, Accounts, FirewallIsTracked, RuntimeNames
  <1> QED BY <1>1, InvariantHolds, PTL

\* Switching never leaves two sessions.
THEOREM AtMostOneSession == Spec => []OneSession
  <1>1. IndInv => OneSession
    BY DEF IndInv
  <1> QED BY <1>1, InvariantHolds, PTL

\* Failed runtime cleanup prevents profile removal.
THEOREM DeletionIsClean == Spec => DeletedProfileIsClean
  <1>1. ASSUME IndInv, [Next]_vars
        PROVE  [\A n \in profiles \ profiles' : RuntimeIsFree(n) /\ LeavesNothing(n)]_vars
    BY <1>1, BookStep DEF IndInv, TypeOK, DiskAccounts, RuntimeIsFree
  <1> QED BY <1>1, InvariantHolds, PTL DEF Spec, DeletedProfileIsClean

\* An effect needs a journal, so the live names are among the sessions.
LEMMA LiveHaveJournals ==
  ASSUME IndInv
  PROVE  \A n \in Names : ~LeavesNothing(n) => n \in RuntimeNames
  BY DEF IndInv, DiskAccounts, RuntimeNames

\* The helper implements the session ledger: a session is entered before it has
\* an effect, one at a time, for a saved profile, and struck off after them all.
THEOREM LedgerIsImplemented == Spec => ImplementsLedger
  <1> DEFINE Live == {n \in Names : ~LeavesNothing(n)}
  <1>1. Init => Ledger!Init
    BY DEF Init, Ledger!Init, RuntimeNames, LeavesNothing
  <1>2. ASSUME IndInv, IndInv', [Next]_vars
        PROVE  [Ledger!Next]_(Ledger!ledger)
    <2>1. /\ Live \subseteq RuntimeNames /\ Live' \subseteq RuntimeNames'
          /\ RuntimeNames \subseteq Names /\ RuntimeNames' \subseteq Names
      BY <1>2, LiveHaveJournals DEF IndInv, DiskAccounts, RuntimeNames
    <2>2. /\ \A m, n \in RuntimeNames : m = n
          /\ \A m, n \in RuntimeNames' : m = n
          /\ cur \in Names /\ target \in Names /\ profiles \subseteq Names
      BY <1>2 DEF IndInv, OneSession, RuntimeNames, TypeOK
    <2>3. CASE UNCHANGED profiles /\ RuntimeNames' = RuntimeNames
      <3>1. RuntimeNames' = RuntimeNames
        BY <2>3
      <3>2. CASE RuntimeNames = {}
        BY <2>1, <2>3, <3>1, <3>2 DEF Ledger!ledger
      <3>3. CASE RuntimeNames # {}
        <4>1. PICK n \in Names : RuntimeNames = {n}
          BY <2>1, <2>2, <3>3
        <4>2. Live' \in {Live \cup {n}, Live \ {n}}
          BY <2>1, <3>1, <4>1
        <4>3. Ledger!Change(n)
          BY <2>3, <3>1, <4>1, <4>2 DEF Ledger!Change
        <4> QED BY <4>3 DEF Ledger!Next
      <3> QED BY <3>2, <3>3
    <2>4. CASE /\ UNCHANGED <<network, profiles>>
               /\ marker[cur] = NoMarker => cur \in profiles
               /\ \A n \in Names : n # cur => marker'[n] = marker[n]
      <3>1. Live' = Live
        BY <2>4 DEF network, LeavesNothing
      <3>2. \A n \in Names : n # cur => (n \in RuntimeNames' <=> n \in RuntimeNames)
        BY <2>4 DEF RuntimeNames
      <3>3. CASE cur \in RuntimeNames <=> cur \in RuntimeNames'
        <4>1. RuntimeNames' = RuntimeNames
          BY <2>1, <3>2, <3>3
        <4> QED BY <2>4, <3>1, <4>1 DEF Ledger!ledger
      <3>4. CASE cur \in RuntimeNames /\ cur \notin RuntimeNames'
        <4>1. RuntimeNames' = RuntimeNames \ {cur} /\ cur \notin Live
          BY <2>1, <2>2, <3>1, <3>2, <3>4
        <4>2. Ledger!Close(cur)
          BY <2>4, <3>1, <3>4, <4>1 DEF Ledger!Close
        <4> QED BY <2>2, <4>2 DEF Ledger!Next
      <3>5. CASE cur \notin RuntimeNames /\ cur \in RuntimeNames'
        <4>1. RuntimeNames = {} /\ RuntimeNames' = {cur} /\ cur \notin Live
          BY <2>1, <2>2, <3>2, <3>5
        <4>2. cur \in profiles
          BY <2>2, <2>4, <3>5 DEF RuntimeNames
        <4>3. Ledger!Open(cur)
          BY <2>4, <3>1, <4>1, <4>2 DEF Ledger!Open
        <4> QED BY <2>2, <4>3 DEF Ledger!Next
      <3> QED BY <3>3, <3>4, <3>5
    <2>5. CASE /\ UNCHANGED <<marker, network>> /\ RuntimeIsFree(target)
               /\ profiles' \in {profiles, profiles \ {target}}
      <3>1. RuntimeNames' = RuntimeNames /\ Live' = Live
        BY <2>5 DEF RuntimeNames, network, LeavesNothing
      <3>2. target \notin RuntimeNames /\ target \notin Live
        BY <2>1, <2>5 DEF RuntimeIsFree, RuntimeNames
      <3>3. CASE profiles' = profiles
        BY <3>1, <3>3 DEF Ledger!ledger
      <3>4. CASE profiles' # profiles
        <4>1. target \in profiles /\ profiles' = profiles \ {target}
          BY <2>5, <3>4
        <4>2. Ledger!DeleteProfile(target)
          BY <3>1, <3>2, <4>1 DEF Ledger!DeleteProfile
        <4> QED BY <2>2, <4>2 DEF Ledger!Next
      <3> QED BY <3>3, <3>4
    <2>6. CASE UNCHANGED <<marker, profiles>>
      BY <2>3, <2>6 DEF RuntimeNames
    <2> QED BY <1>2, <2>3, <2>4, <2>5, <2>6, BookStep
  <1> QED BY <1>1, <1>2, InvariantHolds, PTL DEF Spec, ImplementsLedger,
      Ledger!Spec

-----------------------------------------------------------------------------
(* What the session itself relies on: an active session is whole, a journal *)
(* has the files its recovery loads, exit status 0 is earned, and a session *)
(* out of hand stays blocked.                                               *)

\* A journal that is on disk after a write is the old one, or the new one which
\* the serializer accepted.
LEMMA WriteIsValid ==
  ASSUME TypeOK, NEW j \in Journals, NEW ok \in BOOLEAN, WriteMarker(j, ok)
  PROVE  marker'[cur] = marker[cur] \/ (marker'[cur] = j /\ FieldsAreValid(j))
  BY DEF TypeOK, WriteMarker

\* The same for the journal that a refresh of the link may write.
LEMMA RefreshIsValid ==
  ASSUME TypeOK, NEW r, RefreshOwnedInterface(r)
  PROVE  marker'[cur] = marker[cur] \/ (marker'[cur] = jr' /\ FieldsAreValid(jr'))
  <1>1. [jr EXCEPT !.ifindex = TRUE] \in Journals
    BY DEF TypeOK, Journals
  <1> QED BY <1>1, WriteIsValid DEF RefreshOwnedInterface, disk


\* A journal write keeps the disk whole if the files are there and the journal says
\* "active" of a whole link only.
LEMMA WholeWrite ==
  ASSUME TypeOK, DiskIsWhole, NEW j \in Journals,
         UNCHANGED <<snapshot, payload, link, routes>>,
         marker' \in [Names -> Journals \cup {NoMarker}],
         \A n \in Names : n # cur => marker'[n] = marker[n],
         marker'[cur] = marker[cur] \/ (marker'[cur] = j /\ FieldsAreValid(j)),
         RuntimeFilesMatch(cur, j.backend) \/ j.state = "cleanup_complete",
         j.state = "active" => WholeLink(cur)
  PROVE  DiskIsWhole'
  <1>1. \A n, b : RuntimeFilesMatch(n, b)' <=> RuntimeFilesMatch(n, b)
    BY DEF RuntimeFilesMatch
  <1>2. \A n : WholeLink(n)' <=> WholeLink(n)
    BY DEF WholeLink
  <1>3. \A n \in Names : marker'[n] = marker[n] \/ (n = cur /\ marker'[n] = j /\ FieldsAreValid(j))
    OBVIOUS
  <1> QED BY <1>1, <1>2, <1>3, NoMarkerIsNoJournal DEF DiskIsWhole, RuntimeNames

\* The file of a journal in memory, edited and written, keeps the disk whole.
LEMMA WholeWriteMarker ==
  ASSUME TypeOK, DiskIsWhole, NEW j \in Journals, NEW ok \in BOOLEAN, WriteMarker(j, ok),
         UNCHANGED <<link, routes>>,
         RuntimeFilesMatch(cur, j.backend) \/ j.state = "cleanup_complete",
         j.state = "active" => WholeLink(cur)
  PROVE  DiskIsWhole'
  BY WriteMarkerEffect, WriteIsValid, WholeWrite

\* A refresh of the link's index keeps the disk whole.
LEMMA WholeRefresh ==
  ASSUME IndInv, SessionInv, NEW r, RefreshOwnedInterface(r), pc \in FilePcs,
         UNCHANGED <<link, routes>>, jr.state = "active" => WholeLink(cur)
  PROVE  DiskIsWhole'
  <1>1. RuntimeFilesMatch(cur, jr'.backend) /\ TypeOK /\ DiskIsWhole
    BY RefreshEffect DEF SessionInv, FilesFacts, IndInv
  <1> QED BY <1>1, RefreshEffect, RefreshIsValid, WholeWrite

\* A step that leaves the journals and their files alone keeps the disk whole if it
\* takes no route from a link that stays.
LEMMA WholeStay ==
  ASSUME DiskIsWhole, UNCHANGED <<marker, snapshot, payload>>,
         \A n \in Names : WholeLink(n) => WholeLink(n)'
  PROVE  DiskIsWhole'
  BY DEF DiskIsWhole, RuntimeNames, RuntimeFilesMatch

\* The helper works for the routine and the session that its request asked for.
LEMMA RoutineStep ==
  ASSUME IndInv, SessionInv, [Next]_vars
  PROVE  RoutineFacts'
  <1> USE DEF IndInv, SessionInv, RoutineFacts, ActivationPcs, PreparedIsCurrent,
      network, request, locals
  <1>1. CASE PrepareUp
    BY <1>1 DEF PrepareUp
  <1>2. CASE CheckPrevious
    BY <1>2 DEF CheckPrevious
  <1>3. CASE DisconnectNext
    BY <1>3 DEF DisconnectNext
  <1>4. CASE ConfirmPrevious
    BY <1>4 DEF ConfirmPrevious
  <1>5. CASE StartTarget
    BY <1>5 DEF StartTarget
  <1>6. CASE Delete
    BY <1>6 DEF Delete
  <1>7. CASE BeginDown
    BY <1>7 DEF BeginDown, DownRoute, AfterDown
  <1>8. CASE BlockUnsettledDns
    BY <1>8 DEF BlockUnsettledDns
  <1>9. CASE IdentifyLink
    BY <1>9 DEF IdentifyLink
  <1>10. CASE CommitDown
    BY <1>10 DEF CommitDown
  <1>11. CASE SkipDns
    BY <1>11 DEF SkipDns, AfterDns
  <1>12. CASE RefuseRevert
    BY <1>12 DEF RefuseRevert
  <1>13. CASE DnsIntent
    BY <1>13 DEF DnsIntent, AfterDns
  <1>14. CASE ResolvedChange
    BY <1>14 DEF ResolvedChange
  <1>15. CASE ResolvconfChange
    BY <1>15 DEF ResolvconfChange
  <1>16. CASE CompleteDnsChange
    BY <1>16 DEF CompleteDnsChange, AfterDns
  <1>17. CASE Teardown
    BY <1>17 DEF Teardown
  <1>18. CASE RecordUnconfirmed
    BY <1>18 DEF RecordUnconfirmed
  <1>19. CASE MarkTeardown
    BY <1>19 DEF MarkTeardown
  <1>20. CASE QuickDown
    BY <1>20 DEF QuickDown
  <1>21. CASE CheckTeardown
    BY <1>21 DEF CheckTeardown, MayAbort
  <1>22. CASE AbortTeardown
    BY <1>22 DEF AbortTeardown
  <1>23. CASE Reactivate
    BY <1>23 DEF Reactivate
  <1>24. CASE VerifyCleanup
    BY <1>24 DEF VerifyCleanup
  <1>25. CASE ProbeFirewall
    BY <1>25 DEF ProbeFirewall
  <1>26. CASE RecheckLink
    BY <1>26 DEF RecheckLink
  <1>27. CASE RecordComplete
    BY <1>27 DEF RecordComplete
  <1>28. CASE RemoveConfig
    BY <1>28 DEF RemoveConfig
  <1>29. CASE RemoveDns
    BY <1>29 DEF RemoveDns
  <1>30. CASE RemoveMarker
    BY <1>30 DEF RemoveMarker, AfterDown
  <1>31. CASE CheckTarget
    BY <1>31 DEF CheckTarget
  <1>32. CASE WriteSnapshot
    BY <1>32 DEF WriteSnapshot
  <1>33. CASE WritePayload
    BY <1>33 DEF WritePayload
  <1>34. CASE WriteActivating
    BY <1>34 DEF WriteActivating
  <1>35. CASE DiscardUnstarted
    BY <1>35 DEF DiscardUnstarted
  <1>36. CASE QuickUp
    BY <1>36 DEF QuickUp
  <1>37. CASE IncludeScope
    BY <1>37 DEF IncludeScope
  <1>38. CASE HandleFailedUp
    BY <1>38 DEF HandleFailedUp
  <1>39. CASE ClaimLink
    BY <1>39 DEF ClaimLink
  <1>40. CASE CommitActive
    BY <1>40 DEF CommitActive
  <1>41. CASE ConfirmActive
    BY <1>41 DEF ConfirmActive
  <1>42. CASE ReleaseGroup
    BY <1>42 DEF ReleaseGroup
  <1>43. CASE Rollback
    BY <1>43 DEF Rollback
  <1>44. CASE IdentifyForRollback
    BY <1>44 DEF IdentifyForRollback
  <1>45. CASE Exit
    BY <1>45 DEF Exit, Forget, BlankJournal, NewJournal
  <1>46. CASE Crash
    BY <1>46 DEF Crash, Forget, BlankJournal, NewJournal
  <1>47. CASE ToolsChange
    BY <1>47 DEF ToolsChange
  <1>48. CASE Calm
    BY <1>48 DEF Calm
  <1>49. CASE \E n \in Names : LinkVanishes(n)
    BY <1>49 DEF LinkVanishes
  <1>50. CASE \E n \in Names : ForeignLink(n)
    BY <1>50 DEF ForeignLink
  <1>51. CASE \E n \in Names : FlightLands(n)
    BY <1>51 DEF FlightLands
  <1>52. CASE Request
    BY <1>52 DEF Request, StartUp, StartDown, StartRemove, Start
  <1>53. CASE UNCHANGED vars
    BY <1>53 DEF vars, locals
  <1> QED BY <1>1, <1>2, <1>3, <1>4, <1>5, <1>6, <1>7, <1>8, <1>9, <1>10, <1>11, <1>12,
          <1>13, <1>14, <1>15, <1>16, <1>17, <1>18, <1>19, <1>20, <1>21, <1>22, <1>23,
          <1>24, <1>25, <1>26, <1>27, <1>28, <1>29, <1>30, <1>31, <1>32, <1>33, <1>34,
          <1>35, <1>36, <1>37, <1>38, <1>39, <1>40, <1>41, <1>42, <1>43, <1>44, <1>45,
          <1>46, <1>47, <1>48, <1>49, <1>50, <1>51, <1>52, <1>53 
          DEF Next, HelperStep, Environment

\* While a journal that is not complete may be written, the files of its session are there.
LEMMA FilesStep ==
  ASSUME IndInv, SessionInv, [Next]_vars
  PROVE  FilesFacts'
  <1> USE DEF IndInv, TypeOK, SessionInv, FilesFacts, FilePcs, OpenPcs, Pcs, RuntimeFilesMatch,
      Journals, disk, network, request, locals
  <1>1. CASE PrepareUp
    BY <1>1 DEF PrepareUp
  <1>2. CASE CheckPrevious
    BY <1>2 DEF CheckPrevious
  <1>3. CASE DisconnectNext
    BY <1>3 DEF DisconnectNext
  <1>4. CASE ConfirmPrevious
    BY <1>4 DEF ConfirmPrevious
  <1>5. CASE StartTarget
    BY <1>5 DEF StartTarget
  <1>6. CASE Delete
    BY <1>6 DEF Delete
  <1>7. CASE BeginDown
    BY <1>7, NoMarkerIsNoJournal DEF BeginDown, DownRoute, AfterDown, DiskIsWhole, RuntimeNames
  <1>8. CASE BlockUnsettledDns
    BY <1>8 DEF BlockUnsettledDns, WriteMarker
  <1>9. CASE IdentifyLink
    BY <1>9, RefreshEffect DEF IdentifyLink
  <1>10. CASE CommitDown
    BY <1>10, ZenonT(30) DEF CommitDown, WriteMarker
  <1>11. CASE SkipDns
    BY <1>11 DEF SkipDns, AfterDns
  <1>12. CASE RefuseRevert
    BY <1>12 DEF RefuseRevert
  <1>13. CASE DnsIntent
    BY <1>13 DEF DnsIntent, AfterDns, WriteMarker
  <1>14. CASE ResolvedChange
    BY <1>14 DEF ResolvedChange
  <1>15. CASE ResolvconfChange
    BY <1>15 DEF ResolvconfChange
  <1>16. CASE CompleteDnsChange
    BY <1>16 DEF CompleteDnsChange, AfterDns, WriteMarker
  <1>17. CASE Teardown
    BY <1>17, RefreshEffect DEF Teardown
  <1>18. CASE RecordUnconfirmed
    BY <1>18 DEF RecordUnconfirmed, WriteMarker
  <1>19. CASE MarkTeardown
    BY <1>19 DEF MarkTeardown, WriteMarker
  <1>20. CASE QuickDown
    BY <1>20 DEF QuickDown
  <1>21. CASE CheckTeardown
    BY <1>21 DEF CheckTeardown, MayAbort, WriteMarker
  <1>22. CASE AbortTeardown
    BY <1>22 DEF AbortTeardown, WriteMarker
  <1>23. CASE Reactivate
    BY <1>23 DEF Reactivate, WriteMarker
  <1>24. CASE VerifyCleanup
    BY <1>24, ZenonT(30) DEF VerifyCleanup, WriteMarker
  <1>25. CASE ProbeFirewall
    BY <1>25 DEF ProbeFirewall
  <1>26. CASE RecheckLink
    BY <1>26 DEF RecheckLink
  <1>27. CASE RecordComplete
    BY <1>27, WriteMarkerEffect DEF RecordComplete
  <1>28. CASE RemoveConfig
    BY <1>28 DEF RemoveConfig
  <1>29. CASE RemoveDns
    BY <1>29 DEF RemoveDns
  <1>30. CASE RemoveMarker
    BY <1>30 DEF RemoveMarker, AfterDown
  <1>31. CASE CheckTarget
    BY <1>31 DEF CheckTarget
  <1>32. CASE WriteSnapshot
    BY <1>32 DEF WriteSnapshot
  <1>33. CASE WritePayload
    BY <1>33 DEF WritePayload
  <1>34. CASE WriteActivating
    BY <1>34 DEF WriteActivating, WriteMarker
  <1>35. CASE DiscardUnstarted
    BY <1>35 DEF DiscardUnstarted
  <1>36. CASE QuickUp
    BY <1>36 DEF QuickUp
  <1>37. CASE IncludeScope
    BY <1>37 DEF IncludeScope, WriteMarker
  <1>38. CASE HandleFailedUp
    BY <1>38 DEF HandleFailedUp
  <1>39. CASE ClaimLink
    BY <1>39, RefreshEffect DEF ClaimLink
  <1>40. CASE CommitActive
    BY <1>40, ZenonT(30) DEF CommitActive, WriteMarker
  <1>41. CASE ConfirmActive
    BY <1>41 DEF ConfirmActive
  <1>42. CASE ReleaseGroup
    BY <1>42 DEF ReleaseGroup
  <1>43. CASE Rollback
    BY <1>43 DEF Rollback, WriteMarker
  <1>44. CASE IdentifyForRollback
    BY <1>44, RefreshEffect DEF IdentifyForRollback
  <1>45. CASE Exit
    BY <1>45 DEF Exit, Forget
  <1>46. CASE Crash
    BY <1>46 DEF Crash, Forget
  <1>47. CASE ToolsChange
    BY <1>47 DEF ToolsChange
  <1>48. CASE Calm
    BY <1>48 DEF Calm
  <1>49. CASE \E n \in Names : LinkVanishes(n)
    BY <1>49 DEF LinkVanishes
  <1>50. CASE \E n \in Names : ForeignLink(n)
    BY <1>50 DEF ForeignLink
  <1>51. CASE \E n \in Names : FlightLands(n)
    BY <1>51 DEF FlightLands
  <1>52. CASE Request
    BY <1>52 DEF Request, StartUp, StartDown, StartRemove, Start
  <1>53. CASE UNCHANGED vars
    BY <1>53 DEF vars, locals
  <1> QED BY <1>1, <1>2, <1>3, <1>4, <1>5, <1>6, <1>7, <1>8, <1>9, <1>10, <1>11, <1>12,
          <1>13, <1>14, <1>15, <1>16, <1>17, <1>18, <1>19, <1>20, <1>21, <1>22, <1>23,
          <1>24, <1>25, <1>26, <1>27, <1>28, <1>29, <1>30, <1>31, <1>32, <1>33, <1>34,
          <1>35, <1>36, <1>37, <1>38, <1>39, <1>40, <1>41, <1>42, <1>43, <1>44, <1>45,
          <1>46, <1>47, <1>48, <1>49, <1>50, <1>51, <1>52, <1>53 
          DEF Next, HelperStep, Environment

\* Every step keeps the journals on disk valid, provided with files, and truthful
\* about the links they call active.
LEMMA DiskStep ==
  ASSUME IndInv, SessionInv, [Next]_vars
  PROVE  DiskIsWhole'
  <1> USE DEF IndInv, TypeOK, SessionInv
  <1>1. CASE PrepareUp
    BY <1>1, WholeStay DEF PrepareUp, disk, network, WholeLink, locals, Forget
  <1>2. CASE CheckPrevious
    BY <1>2, WholeStay DEF CheckPrevious, disk, network, WholeLink, locals, Forget
  <1>3. CASE DisconnectNext
    BY <1>3, WholeStay DEF DisconnectNext, disk, network, WholeLink, locals, Forget
  <1>4. CASE ConfirmPrevious
    BY <1>4, WholeStay DEF ConfirmPrevious, disk, network, WholeLink, locals, Forget
  <1>5. CASE StartTarget
    BY <1>5, WholeStay DEF StartTarget, disk, network, WholeLink, locals, Forget
  <1>6. CASE Delete
    BY <1>6, WholeStay DEF Delete, disk, network, WholeLink, locals, Forget
  <1>7. CASE BeginDown
    BY <1>7, WholeStay DEF BeginDown, disk, network, WholeLink, locals, Forget
  <1>8. CASE BlockUnsettledDns
    <2> DEFINE j == [jr EXCEPT !.state = "cleanup_unconfirmed"]
    <2>1. j \in Journals /\ j.backend = jr.backend /\ j.state = "cleanup_unconfirmed"
      BY DEF Journals, States
    <2>2. PICK ok \in BOOLEAN : WriteMarker(j, ok) /\ UNCHANGED network
      BY <1>8 DEF BlockUnsettledDns
    <2>3. RuntimeFilesMatch(cur, j.backend) /\ (j.state = "active" => WholeLink(cur))
      BY <1>8, <2>1 DEF BlockUnsettledDns, FilesFacts, FilePcs, OpenPcs, Pcs, RouteFacts, RoutineFacts
    <2> HIDE DEF j
    <2> QED BY <2>1, <2>2, <2>3, WholeWriteMarker DEF network
  <1>9. CASE IdentifyLink
    <2>1. PICK r : RefreshOwnedInterface(r)
      BY <1>9 DEF IdentifyLink
    <2>2. pc \in FilePcs /\ UNCHANGED <<link, routes>> /\ (jr.state = "active" => WholeLink(cur))
      BY <1>9 DEF IdentifyLink, FilePcs, OpenPcs, Pcs, RouteFacts, network
    <2> QED BY <2>1, <2>2, WholeRefresh
  <1>10. CASE CommitDown
    <2>1. UNCHANGED <<link, routes>> /\ (UNCHANGED disk \/ \E scope \in CapturedScopes, ok \in BOOLEAN : WriteMarker([jr EXCEPT !.state = "cleanup_required", !.scope = @ \cup scope], ok))
      BY <1>10 DEF CommitDown
    <2>2. CASE UNCHANGED disk
      BY <2>1, <2>2, WholeStay DEF disk, network, WholeLink
    <2>3. CASE \E scope \in CapturedScopes, ok \in BOOLEAN : WriteMarker([jr EXCEPT !.state = "cleanup_required", !.scope = @ \cup scope], ok)
      <3>1. PICK scope \in CapturedScopes, ok \in BOOLEAN : WriteMarker([jr EXCEPT !.state = "cleanup_required", !.scope = @ \cup scope], ok)
        BY <2>3
      <3> DEFINE j == [jr EXCEPT !.state = "cleanup_required", !.scope = @ \cup scope]
      <3>2. j \in Journals /\ j.backend = jr.backend /\ j.state = "cleanup_required"
        BY DEF Journals, States, DnsStates, CapturedScopes
      <3>3. RuntimeFilesMatch(cur, j.backend) /\ (j.state = "active" => WholeLink(cur))
        BY <1>10, <3>2 DEF CommitDown, FilesFacts, FilePcs, OpenPcs, Pcs, RouteFacts, RoutineFacts, StepFacts
      <3>4. WriteMarker(j, ok)
        BY <3>1
      <3> HIDE DEF j
      <3> QED BY <2>1, <3>2, <3>3, <3>4, WholeWriteMarker DEF network
    <2> QED BY <2>1, <2>2, <2>3
  <1>11. CASE SkipDns
    BY <1>11, WholeStay DEF SkipDns, disk, network, WholeLink, locals, Forget
  <1>12. CASE RefuseRevert
    BY <1>12, WholeStay DEF RefuseRevert, disk, network, WholeLink, locals, Forget
  <1>13. CASE DnsIntent
    <2>1. UNCHANGED network /\ (UNCHANGED disk \/ \E ok \in BOOLEAN : WriteMarker([jr EXCEPT !.dns = "unknown"], ok))
      BY <1>13 DEF DnsIntent
    <2>2. CASE UNCHANGED disk
      BY <2>1, <2>2, WholeStay DEF disk, network, WholeLink
    <2>3. CASE \E ok \in BOOLEAN : WriteMarker([jr EXCEPT !.dns = "unknown"], ok)
      <3>1. PICK ok \in BOOLEAN : WriteMarker([jr EXCEPT !.dns = "unknown"], ok)
        BY <2>3
      <3> DEFINE j == [jr EXCEPT !.dns = "unknown"]
      <3>2. j \in Journals /\ j.backend = jr.backend /\ j.state = jr.state
        BY DEF Journals, States, DnsStates
      <3>3. RuntimeFilesMatch(cur, j.backend) /\ (j.state = "active" => WholeLink(cur))
        BY <1>13, <3>2 DEF DnsIntent, FilesFacts, FilePcs, OpenPcs, Pcs, RouteFacts, RoutineFacts, StepFacts
      <3>4. WriteMarker(j, ok)
        BY <3>1
      <3> HIDE DEF j
      <3> QED BY <2>1, <3>2, <3>3, <3>4, WholeWriteMarker DEF network
    <2> QED BY <2>1, <2>2, <2>3
  <1>14. CASE ResolvedChange
    BY <1>14, WholeStay DEF ResolvedChange, disk, network, WholeLink, locals, Forget
  <1>15. CASE ResolvconfChange
    BY <1>15, WholeStay DEF ResolvconfChange, disk, network, WholeLink, locals, Forget
  <1>16. CASE CompleteDnsChange
    <2> DEFINE uncertain == dnsres \in {"uncertain", "uncertain_may"}
               j == [jr EXCEPT !.dns = SettledDns(dnsres),
                               !.state = IF uncertain THEN "cleanup_unconfirmed" ELSE @]
    <2>1. SettledDns(dnsres) \in DnsStates
      BY DEF SettledDns, DnsStates
    <2>2. j \in Journals /\ j.backend = jr.backend /\ j.state \in {jr.state, "cleanup_unconfirmed"}
      BY <2>1 DEF Journals, States, DnsStates
    <2>3. PICK ok \in BOOLEAN : WriteMarker(j, ok)
      BY <1>16 DEF CompleteDnsChange
    <2>4. pc = "record" /\ UNCHANGED network
      BY <1>16 DEF CompleteDnsChange
    <2>5. RuntimeFilesMatch(cur, j.backend) /\ (j.state = "active" => WholeLink(cur))
      BY <2>2, <2>4 DEF FilesFacts, FilePcs, OpenPcs, Pcs, RouteFacts
    <2> HIDE DEF j
    <2> QED BY <2>2, <2>3, <2>4, <2>5, WholeWriteMarker DEF network
  <1>17. CASE Teardown
    <2>1. PICK r : RefreshOwnedInterface(r)
      BY <1>17 DEF Teardown
    <2>2. pc \in FilePcs /\ UNCHANGED <<link, routes>> /\ (jr.state = "active" => WholeLink(cur))
      BY <1>17 DEF Teardown, FilePcs, OpenPcs, Pcs, RouteFacts, network
    <2> QED BY <2>1, <2>2, WholeRefresh
  <1>18. CASE RecordUnconfirmed
    <2> DEFINE j == [jr EXCEPT !.state = "cleanup_unconfirmed"]
    <2>1. j \in Journals /\ j.backend = jr.backend /\ j.state = "cleanup_unconfirmed"
      BY DEF Journals, States
    <2>2. PICK ok \in BOOLEAN : WriteMarker(j, ok) /\ UNCHANGED network
      BY <1>18 DEF RecordUnconfirmed
    <2>3. RuntimeFilesMatch(cur, j.backend) /\ (j.state = "active" => WholeLink(cur))
      BY <1>18, <2>1 DEF RecordUnconfirmed, FilesFacts, FilePcs, OpenPcs, Pcs, RouteFacts, RoutineFacts
    <2> HIDE DEF j
    <2> QED BY <2>1, <2>2, <2>3, WholeWriteMarker DEF network
  <1>19. CASE MarkTeardown
    <2> DEFINE j == [jr EXCEPT !.state = "cleanup_unconfirmed"]
    <2>1. j \in Journals /\ j.backend = jr.backend /\ j.state = "cleanup_unconfirmed"
      BY DEF Journals, States
    <2>2. PICK ok \in BOOLEAN : WriteMarker(j, ok) /\ UNCHANGED network
      BY <1>19 DEF MarkTeardown
    <2>3. RuntimeFilesMatch(cur, j.backend) /\ (j.state = "active" => WholeLink(cur))
      BY <1>19, <2>1 DEF MarkTeardown, FilesFacts, FilePcs, OpenPcs, Pcs, RouteFacts, RoutineFacts
    <2> HIDE DEF j
    <2> QED BY <2>1, <2>2, <2>3, WholeWriteMarker DEF network
  <1>20. CASE QuickDown
    <2>1. pc = "quick_down" /\ UNCHANGED disk /\ marker[cur].state # "active"
      BY <1>20 DEF QuickDown, RouteFacts
    <2>2. \A n \in Names \ {cur} : link'[n] = link[n] /\ routes'[n] = routes[n]
      BY <1>20 DEF QuickDown, network
    <2> QED BY <2>1, <2>2 DEF DiskIsWhole, RuntimeNames, RuntimeFilesMatch, WholeLink, disk
  <1>21. CASE CheckTeardown
    <2>1. UNCHANGED network /\ (UNCHANGED disk \/ \E ok \in BOOLEAN : WriteMarker([jr EXCEPT !.state = "cleanup_required"], ok))
      BY <1>21 DEF CheckTeardown
    <2>2. CASE UNCHANGED disk
      BY <2>1, <2>2, WholeStay DEF disk, network, WholeLink
    <2>3. CASE \E ok \in BOOLEAN : WriteMarker([jr EXCEPT !.state = "cleanup_required"], ok)
      <3>1. PICK ok \in BOOLEAN : WriteMarker([jr EXCEPT !.state = "cleanup_required"], ok)
        BY <2>3
      <3> DEFINE j == [jr EXCEPT !.state = "cleanup_required"]
      <3>2. j \in Journals /\ j.backend = jr.backend /\ j.state = "cleanup_required"
        BY DEF Journals, States, DnsStates
      <3>3. RuntimeFilesMatch(cur, j.backend) /\ (j.state = "active" => WholeLink(cur))
        BY <1>21, <3>2 DEF CheckTeardown, FilesFacts, FilePcs, OpenPcs, Pcs, RouteFacts, RoutineFacts, StepFacts
      <3>4. WriteMarker(j, ok)
        BY <3>1
      <3> HIDE DEF j
      <3> QED BY <2>1, <3>2, <3>3, <3>4, WholeWriteMarker DEF network
    <2> QED BY <2>1, <2>2, <2>3
  <1>22. CASE AbortTeardown
    <2>1. UNCHANGED network /\ pc = "abort"
      BY <1>22 DEF AbortTeardown
    <2>2. CASE UNCHANGED disk
      BY <2>1, <2>2, WholeStay DEF disk, network, WholeLink
    <2>3. ASSUME NEW s \in {"cleanup_unconfirmed", "cleanup_required"}, NEW ok \in BOOLEAN,
                 WriteMarker([jr EXCEPT !.state = s], ok)
          PROVE  DiskIsWhole'
      <3> DEFINE j == [jr EXCEPT !.state = s]
      <3>1. j \in Journals /\ j.backend = jr.backend /\ j.state # "active"
        BY DEF Journals, States
      <3>2. RuntimeFilesMatch(cur, j.backend)
        BY <2>1, <3>1 DEF FilesFacts, FilePcs, OpenPcs, Pcs
      <3>3. WriteMarker(j, ok)
        BY <2>3
      <3> HIDE DEF j
      <3> QED BY <2>1, <3>1, <3>2, <3>3, WholeWriteMarker DEF network
    <2> QED BY <1>22, <2>2, <2>3 DEF AbortTeardown
  <1>23. CASE Reactivate
    <2> DEFINE j == [jr EXCEPT !.state = "active"]
    <2>1. j \in Journals /\ j.backend = jr.backend /\ j.state = "active"
      BY DEF Journals, States
    <2>2. PICK ok \in BOOLEAN : WriteMarker(j, ok) /\ UNCHANGED network
      BY <1>23 DEF Reactivate
    <2>3. RuntimeFilesMatch(cur, j.backend) /\ (j.state = "active" => WholeLink(cur))
      BY <1>23, <2>1 DEF Reactivate, FilesFacts, FilePcs, OpenPcs, Pcs, RouteFacts, RoutineFacts
    <2> HIDE DEF j
    <2> QED BY <2>1, <2>2, <2>3, WholeWriteMarker DEF network
  <1>24. CASE VerifyCleanup
    <2>1. UNCHANGED network /\ (UNCHANGED disk \/ \E ok \in BOOLEAN : WriteMarker([jr EXCEPT !.state = "firewall_pending", !.was = FALSE], ok))
      BY <1>24 DEF VerifyCleanup
    <2>2. CASE UNCHANGED disk
      BY <2>1, <2>2, WholeStay DEF disk, network, WholeLink
    <2>3. CASE \E ok \in BOOLEAN : WriteMarker([jr EXCEPT !.state = "firewall_pending", !.was = FALSE], ok)
      <3>1. PICK ok \in BOOLEAN : WriteMarker([jr EXCEPT !.state = "firewall_pending", !.was = FALSE], ok)
        BY <2>3
      <3> DEFINE j == [jr EXCEPT !.state = "firewall_pending", !.was = FALSE]
      <3>2. j \in Journals /\ j.backend = jr.backend /\ j.state = "firewall_pending"
        BY DEF Journals, States, DnsStates
      <3>3. RuntimeFilesMatch(cur, j.backend) /\ (j.state = "active" => WholeLink(cur))
        BY <1>24, <3>2 DEF VerifyCleanup, FilesFacts, FilePcs, OpenPcs, Pcs, RouteFacts, RoutineFacts, StepFacts
      <3>4. WriteMarker(j, ok)
        BY <3>1
      <3> HIDE DEF j
      <3> QED BY <2>1, <3>2, <3>3, <3>4, WholeWriteMarker DEF network
    <2> QED BY <2>1, <2>2, <2>3
  <1>25. CASE ProbeFirewall
    BY <1>25, WholeStay DEF ProbeFirewall, disk, network, WholeLink, locals, Forget
  <1>26. CASE RecheckLink
    BY <1>26, WholeStay DEF RecheckLink, disk, network, WholeLink, locals, Forget
  <1>27. CASE RecordComplete
    <2>1. UNCHANGED network
      BY <1>27 DEF RecordComplete
    <2>2. CASE UNCHANGED disk
      BY <2>1, <2>2, WholeStay DEF disk, network, WholeLink
    <2>3. CASE \E ok \in BOOLEAN : WriteMarker(jr, ok) /\ jr.state = "cleanup_complete"
      BY <2>1, <2>3, WholeWriteMarker DEF network
    <2> QED BY <1>27, <2>2, <2>3 DEF RecordComplete
  <1>28. CASE RemoveConfig
    BY <1>28 DEF RemoveConfig, DiskIsWhole, RuntimeNames, RuntimeFilesMatch, WholeLink, FilesFacts, MemoryAccounts, OpenPcs, Pcs, network
  <1>29. CASE RemoveDns
    BY <1>29 DEF RemoveDns, DiskIsWhole, RuntimeNames, RuntimeFilesMatch, WholeLink, FilesFacts, MemoryAccounts, OpenPcs, Pcs, network
  <1>30. CASE RemoveMarker
    BY <1>30 DEF RemoveMarker, DiskIsWhole, RuntimeNames, RuntimeFilesMatch, WholeLink, FilesFacts, MemoryAccounts, OpenPcs, Pcs, network
  <1>31. CASE CheckTarget
    BY <1>31, WholeStay DEF CheckTarget, disk, network, WholeLink, locals, Forget
  <1>32. CASE WriteSnapshot
    BY <1>32 DEF WriteSnapshot, DiskIsWhole, RuntimeNames, RuntimeFilesMatch, WholeLink, StepFacts, network
  <1>33. CASE WritePayload
    BY <1>33 DEF WritePayload, DiskIsWhole, RuntimeNames, RuntimeFilesMatch, WholeLink, StepFacts, network
  <1>34. CASE WriteActivating
    <2>1. UNCHANGED network /\ (UNCHANGED disk \/ \E ok \in BOOLEAN : WriteMarker(jr, ok))
      BY <1>34 DEF WriteActivating
    <2>2. CASE UNCHANGED disk
      BY <2>1, <2>2, WholeStay DEF disk, network, WholeLink
    <2>3. CASE \E ok \in BOOLEAN : WriteMarker(jr, ok)
      <3>1. PICK ok \in BOOLEAN : WriteMarker(jr, ok)
        BY <2>3
      <3> DEFINE j == jr
      <3>2. j \in Journals /\ j.backend = jr.backend /\ j.state = jr.state
        BY DEF Journals, States, DnsStates
      <3>3. RuntimeFilesMatch(cur, j.backend) /\ (j.state = "active" => WholeLink(cur))
        BY <1>34, <3>2 DEF WriteActivating, FilesFacts, FilePcs, OpenPcs, Pcs, RouteFacts, RoutineFacts, StepFacts
      <3>4. WriteMarker(j, ok)
        BY <3>1
      <3> HIDE DEF j
      <3> QED BY <2>1, <3>2, <3>3, <3>4, WholeWriteMarker DEF network
    <2> QED BY <2>1, <2>2, <2>3
  <1>35. CASE DiscardUnstarted
    BY <1>35, WholeStay DEF DiscardUnstarted, disk, network, WholeLink, locals, Forget
  <1>36. CASE QuickUp
    <2>1. pc = "quick_up" /\ UNCHANGED disk /\ marker[cur].state # "active"
      BY <1>36 DEF QuickUp, StepFacts
    <2>2. \A n \in Names \ {cur} : link'[n] = link[n] /\ routes'[n] = routes[n]
      BY <1>36 DEF QuickUp
    <2> QED BY <2>1, <2>2 DEF DiskIsWhole, RuntimeNames, RuntimeFilesMatch, WholeLink, disk
  <1>37. CASE IncludeScope
    <2>1. UNCHANGED <<link, routes>> /\ (UNCHANGED disk \/ \E scope \in CapturedScopes, ok \in BOOLEAN : WriteMarker([jr EXCEPT !.scope = @ \cup scope], ok))
      BY <1>37 DEF IncludeScope
    <2>2. CASE UNCHANGED disk
      BY <2>1, <2>2, WholeStay DEF disk, network, WholeLink
    <2>3. CASE \E scope \in CapturedScopes, ok \in BOOLEAN : WriteMarker([jr EXCEPT !.scope = @ \cup scope], ok)
      <3>1. PICK scope \in CapturedScopes, ok \in BOOLEAN : WriteMarker([jr EXCEPT !.scope = @ \cup scope], ok)
        BY <2>3
      <3> DEFINE j == [jr EXCEPT !.scope = @ \cup scope]
      <3>2. j \in Journals /\ j.backend = jr.backend /\ j.state = jr.state
        BY DEF Journals, States, DnsStates, CapturedScopes
      <3>3. RuntimeFilesMatch(cur, j.backend) /\ (j.state = "active" => WholeLink(cur))
        BY <1>37, <3>2 DEF IncludeScope, FilesFacts, FilePcs, OpenPcs, Pcs, RouteFacts, RoutineFacts, StepFacts
      <3>4. WriteMarker(j, ok)
        BY <3>1
      <3> HIDE DEF j
      <3> QED BY <2>1, <3>2, <3>3, <3>4, WholeWriteMarker DEF network
    <2> QED BY <2>1, <2>2, <2>3
  <1>38. CASE HandleFailedUp
    BY <1>38, WholeStay DEF HandleFailedUp, disk, network, WholeLink, locals, Forget
  <1>39. CASE ClaimLink
    <2>1. pc = "up_refresh" /\ UNCHANGED network
      BY <1>39 DEF ClaimLink
    <2>2. pc \in FilePcs /\ UNCHANGED <<link, routes>> /\ (jr.state = "active" => WholeLink(cur))
      BY <2>1 DEF FilePcs, OpenPcs, Pcs, RouteFacts, network
    <2>3. CASE \E r : RefreshOwnedInterface(r)
      BY <2>2, <2>3, WholeRefresh
    <2>4. CASE UNCHANGED disk
      BY <2>1, <2>4, WholeStay DEF disk, network, WholeLink
    <2> QED BY <1>39, <2>3, <2>4 DEF ClaimLink
  <1>40. CASE CommitActive
    <2>1. UNCHANGED network /\ (UNCHANGED disk \/ \E ok \in BOOLEAN : WriteMarker([jr EXCEPT !.state = "active", !.was = TRUE], ok))
      BY <1>40 DEF CommitActive
    <2>2. CASE UNCHANGED disk
      BY <2>1, <2>2, WholeStay DEF disk, network, WholeLink
    <2>3. CASE \E ok \in BOOLEAN : WriteMarker([jr EXCEPT !.state = "active", !.was = TRUE], ok)
      <3>1. PICK ok \in BOOLEAN : WriteMarker([jr EXCEPT !.state = "active", !.was = TRUE], ok)
        BY <2>3
      <3> DEFINE j == [jr EXCEPT !.state = "active", !.was = TRUE]
      <3>2. j \in Journals /\ j.backend = jr.backend /\ j.state = "active"
        BY DEF Journals, States, DnsStates
      <3>3. RuntimeFilesMatch(cur, j.backend) /\ (j.state = "active" => WholeLink(cur))
        BY <1>40, <3>2 DEF CommitActive, FilesFacts, FilePcs, OpenPcs, Pcs, RouteFacts, RoutineFacts, StepFacts
      <3>4. WriteMarker(j, ok)
        BY <3>1
      <3> HIDE DEF j
      <3> QED BY <2>1, <3>2, <3>3, <3>4, WholeWriteMarker DEF network
    <2> QED BY <2>1, <2>2, <2>3
  <1>41. CASE ConfirmActive
    BY <1>41, WholeStay DEF ConfirmActive, disk, network, WholeLink, locals, Forget
  <1>42. CASE ReleaseGroup
    BY <1>42, WholeStay DEF ReleaseGroup, disk, network, WholeLink, locals, Forget
  <1>43. CASE Rollback
    <2>1. UNCHANGED network /\ (UNCHANGED disk \/ \E ok \in BOOLEAN : WriteMarker([jr EXCEPT !.state = "cleanup_required"], ok))
      BY <1>43 DEF Rollback
    <2>2. CASE UNCHANGED disk
      BY <2>1, <2>2, WholeStay DEF disk, network, WholeLink
    <2>3. CASE \E ok \in BOOLEAN : WriteMarker([jr EXCEPT !.state = "cleanup_required"], ok)
      <3>1. PICK ok \in BOOLEAN : WriteMarker([jr EXCEPT !.state = "cleanup_required"], ok)
        BY <2>3
      <3> DEFINE j == [jr EXCEPT !.state = "cleanup_required"]
      <3>2. j \in Journals /\ j.backend = jr.backend /\ j.state = "cleanup_required"
        BY DEF Journals, States, DnsStates
      <3>3. RuntimeFilesMatch(cur, j.backend) /\ (j.state = "active" => WholeLink(cur))
        BY <1>43, <3>2 DEF Rollback, FilesFacts, FilePcs, OpenPcs, Pcs, RouteFacts, RoutineFacts, StepFacts
      <3>4. WriteMarker(j, ok)
        BY <3>1
      <3> HIDE DEF j
      <3> QED BY <2>1, <3>2, <3>3, <3>4, WholeWriteMarker DEF network
    <2> QED BY <2>1, <2>2, <2>3
  <1>44. CASE IdentifyForRollback
    <2>1. PICK r : RefreshOwnedInterface(r)
      BY <1>44 DEF IdentifyForRollback
    <2>2. pc \in FilePcs /\ UNCHANGED <<link, routes>> /\ (jr.state = "active" => WholeLink(cur))
      BY <1>44 DEF IdentifyForRollback, FilePcs, OpenPcs, Pcs, RouteFacts, network
    <2> QED BY <2>1, <2>2, WholeRefresh
  <1>45. CASE Exit
    BY <1>45, WholeStay DEF Exit, disk, network, WholeLink, locals, Forget
  <1>46. CASE Crash
    BY <1>46, WholeStay DEF Crash, disk, network, WholeLink, locals, Forget
  <1>47. CASE ToolsChange
    BY <1>47, WholeStay DEF ToolsChange, disk, network, WholeLink, locals, Forget
  <1>48. CASE Calm
    BY <1>48, WholeStay DEF Calm, disk, network, WholeLink, locals, Forget
  <1>49. CASE \E n \in Names : LinkVanishes(n)
    BY <1>49, WholeStay DEF LinkVanishes, disk, WholeLink
  <1>50. CASE \E n \in Names : ForeignLink(n)
    BY <1>50, WholeStay DEF ForeignLink, disk, WholeLink
  <1>51. CASE \E n \in Names : FlightLands(n)
    BY <1>51, WholeStay DEF FlightLands, disk, network, WholeLink, locals, Forget
  <1>52. CASE Request
    BY <1>52, WholeStay DEF Request, StartUp, StartDown, StartRemove, Start, disk, network, WholeLink, locals, Forget
  <1>53. CASE UNCHANGED vars
    BY <1>53, WholeStay DEF vars, locals, disk, network, WholeLink, locals, Forget
  <1> QED BY <1>1, <1>2, <1>3, <1>4, <1>5, <1>6, <1>7, <1>8, <1>9, <1>10, <1>11, <1>12,
          <1>13, <1>14, <1>15, <1>16, <1>17, <1>18, <1>19, <1>20, <1>21, <1>22, <1>23,
          <1>24, <1>25, <1>26, <1>27, <1>28, <1>29, <1>30, <1>31, <1>32, <1>33, <1>34,
          <1>35, <1>36, <1>37, <1>38, <1>39, <1>40, <1>41, <1>42, <1>43, <1>44, <1>45,
          <1>46, <1>47, <1>48, <1>49, <1>50, <1>51, <1>52, <1>53 
          DEF Next, HelperStep, Environment

\* Every step keeps the routes of a session that is, or may again be called, active.
LEMMA RouteStep ==
  ASSUME IndInv, SessionInv, [Next]_vars
  PROVE  RouteFacts'
  <1> USE DEF IndInv, TypeOK, SessionInv, RoutineFacts, RouteFacts, ActivationPcs, WholeLink,
      Journals, disk, network, request, locals
  <1>1. CASE PrepareUp
    BY <1>1 DEF PrepareUp
  <1>2. CASE CheckPrevious
    BY <1>2 DEF CheckPrevious
  <1>3. CASE DisconnectNext
    BY <1>3 DEF DisconnectNext
  <1>4. CASE ConfirmPrevious
    BY <1>4 DEF ConfirmPrevious
  <1>5. CASE StartTarget
    BY <1>5 DEF StartTarget
  <1>6. CASE Delete
    BY <1>6 DEF Delete
  <1>7. CASE BeginDown
    BY <1>7, NoMarkerIsNoJournal DEF BeginDown, DownRoute, AfterDown, DiskIsWhole, RuntimeNames
  <1>8. CASE BlockUnsettledDns
    BY <1>8 DEF BlockUnsettledDns, WriteMarker
  <1>9. CASE IdentifyLink
    BY <1>9, RefreshEffect DEF IdentifyLink, StepFacts
  <1>10. CASE CommitDown
    BY <1>10 DEF CommitDown, WriteMarker
  <1>11. CASE SkipDns
    BY <1>11 DEF SkipDns, AfterDns, WriteMarker
  <1>12. CASE RefuseRevert
    BY <1>12 DEF RefuseRevert
  <1>13. CASE DnsIntent
    BY <1>13 DEF DnsIntent, AfterDns, WriteMarker
  <1>14. CASE ResolvedChange
    BY <1>14 DEF ResolvedChange
  <1>15. CASE ResolvconfChange
    BY <1>15 DEF ResolvconfChange
  <1>16. CASE CompleteDnsChange
    BY <1>16 DEF CompleteDnsChange, AfterDns, WriteMarker, SettledDns
  <1>17. CASE Teardown
    BY <1>17, RefreshEffect DEF Teardown, StepFacts
  <1>18. CASE RecordUnconfirmed
    BY <1>18 DEF RecordUnconfirmed, WriteMarker
  <1>19. CASE MarkTeardown
    BY <1>19, WriteMarkerEffect DEF MarkTeardown, States
  <1>20. CASE QuickDown
    BY <1>20 DEF QuickDown
  <1>21. CASE CheckTeardown
    BY <1>21 DEF CheckTeardown, WriteMarker, MayAbort
  <1>22. CASE AbortTeardown
    BY <1>22 DEF AbortTeardown, WriteMarker
  <1>23. CASE Reactivate
    BY <1>23 DEF Reactivate, WriteMarker
  <1>24. CASE VerifyCleanup
    BY <1>24 DEF VerifyCleanup, WriteMarker
  <1>25. CASE ProbeFirewall
    BY <1>25 DEF ProbeFirewall
  <1>26. CASE RecheckLink
    BY <1>26 DEF RecheckLink
  <1>27. CASE RecordComplete
    BY <1>27 DEF RecordComplete, WriteMarker
  <1>28. CASE RemoveConfig
    BY <1>28 DEF RemoveConfig
  <1>29. CASE RemoveDns
    BY <1>29 DEF RemoveDns
  <1>30. CASE RemoveMarker
    BY <1>30 DEF RemoveMarker, AfterDown
  <1>31. CASE CheckTarget
    BY <1>31 DEF CheckTarget
  <1>32. CASE WriteSnapshot
    BY <1>32 DEF WriteSnapshot
  <1>33. CASE WritePayload
    BY <1>33 DEF WritePayload
  <1>34. CASE WriteActivating
    BY <1>34 DEF WriteActivating, WriteMarker
  <1>35. CASE DiscardUnstarted
    BY <1>35 DEF DiscardUnstarted
  <1>36. CASE QuickUp
    BY <1>36 DEF QuickUp
  <1>37. CASE IncludeScope
    BY <1>37 DEF IncludeScope, WriteMarker, StepFacts
  <1>38. CASE HandleFailedUp
    BY <1>38 DEF HandleFailedUp
  <1>39. CASE ClaimLink
    BY <1>39, RefreshEffect DEF ClaimLink, StepFacts
  <1>40. CASE CommitActive
    BY <1>40 DEF CommitActive, WriteMarker
  <1>41. CASE ConfirmActive
    BY <1>41 DEF ConfirmActive
  <1>42. CASE ReleaseGroup
    BY <1>42 DEF ReleaseGroup
  <1>43. CASE Rollback
    BY <1>43 DEF Rollback, WriteMarker
  <1>44. CASE IdentifyForRollback
    BY <1>44, RefreshEffect DEF IdentifyForRollback, StepFacts
  <1>45. CASE Exit
    BY <1>45 DEF Exit, Forget
  <1>46. CASE Crash
    BY <1>46 DEF Crash, Forget
  <1>47. CASE ToolsChange
    BY <1>47 DEF ToolsChange
  <1>48. CASE Calm
    BY <1>48 DEF Calm
  <1>49. CASE \E n \in Names : LinkVanishes(n)
    BY <1>49 DEF LinkVanishes
  <1>50. CASE \E n \in Names : ForeignLink(n)
    BY <1>50 DEF ForeignLink
  <1>51. CASE \E n \in Names : FlightLands(n)
    BY <1>51 DEF FlightLands
  <1>52. CASE Request
    BY <1>52 DEF Request, StartUp, StartDown, StartRemove, Start
  <1>53. CASE UNCHANGED vars
    BY <1>53 DEF vars, locals
  <1> QED BY <1>1, <1>2, <1>3, <1>4, <1>5, <1>6, <1>7, <1>8, <1>9, <1>10, <1>11, <1>12,
          <1>13, <1>14, <1>15, <1>16, <1>17, <1>18, <1>19, <1>20, <1>21, <1>22, <1>23,
          <1>24, <1>25, <1>26, <1>27, <1>28, <1>29, <1>30, <1>31, <1>32, <1>33, <1>34,
          <1>35, <1>36, <1>37, <1>38, <1>39, <1>40, <1>41, <1>42, <1>43, <1>44, <1>45,
          <1>46, <1>47, <1>48, <1>49, <1>50, <1>51, <1>52, <1>53 
          DEF Next, HelperStep, Environment

\* Every step towards exit status 0 has seen to what that status promises.
LEMMA OutcomeStep ==
  ASSUME IndInv, SessionInv, [Next]_vars
  PROVE  OutcomeFacts'
  <1> USE DEF IndInv, TypeOK, SessionInv, RoutineFacts, OutcomeFacts, ActivationPcs,
      Journals, disk, network, request, locals
  <1>1. CASE PrepareUp
    BY <1>1 DEF PrepareUp
  <1>2. CASE CheckPrevious
    BY <1>2 DEF CheckPrevious
  <1>3. CASE DisconnectNext
    BY <1>3 DEF DisconnectNext
  <1>4. CASE ConfirmPrevious
    BY <1>4 DEF ConfirmPrevious
  <1>5. CASE StartTarget
    BY <1>5 DEF StartTarget
  <1>6. CASE Delete
    BY <1>6 DEF Delete, Removal, PreparedIsCurrent
  <1>7. CASE BeginDown
    BY <1>7 DEF BeginDown, DownRoute, AfterDown
  <1>8. CASE BlockUnsettledDns
    BY <1>8 DEF BlockUnsettledDns, WriteMarker
  <1>9. CASE IdentifyLink
    BY <1>9, RefreshEffect DEF IdentifyLink
  <1>10. CASE CommitDown
    BY <1>10 DEF CommitDown, WriteMarker
  <1>11. CASE SkipDns
    BY <1>11 DEF SkipDns, AfterDns, WriteMarker
  <1>12. CASE RefuseRevert
    BY <1>12 DEF RefuseRevert
  <1>13. CASE DnsIntent
    BY <1>13 DEF DnsIntent, AfterDns, WriteMarker
  <1>14. CASE ResolvedChange
    BY <1>14 DEF ResolvedChange
  <1>15. CASE ResolvconfChange
    BY <1>15 DEF ResolvconfChange
  <1>16. CASE CompleteDnsChange
    BY <1>16 DEF CompleteDnsChange, AfterDns, WriteMarker
  <1>17. CASE Teardown
    BY <1>17, RefreshEffect DEF Teardown
  <1>18. CASE RecordUnconfirmed
    BY <1>18 DEF RecordUnconfirmed, WriteMarker
  <1>19. CASE MarkTeardown
    BY <1>19 DEF MarkTeardown, WriteMarker
  <1>20. CASE QuickDown
    BY <1>20 DEF QuickDown
  <1>21. CASE CheckTeardown
    BY <1>21 DEF CheckTeardown, WriteMarker, MayAbort
  <1>22. CASE AbortTeardown
    BY <1>22 DEF AbortTeardown, WriteMarker
  <1>23. CASE Reactivate
    BY <1>23 DEF Reactivate, WriteMarker
  <1>24. CASE VerifyCleanup
    BY <1>24 DEF VerifyCleanup, WriteMarker
  <1>25. CASE ProbeFirewall
    BY <1>25 DEF ProbeFirewall
  <1>26. CASE RecheckLink
    BY <1>26 DEF RecheckLink
  <1>27. CASE RecordComplete
    BY <1>27 DEF RecordComplete, WriteMarker
  <1>28. CASE RemoveConfig
    BY <1>28 DEF RemoveConfig
  <1>29. CASE RemoveDns
    BY <1>29 DEF RemoveDns
  <1>30. CASE RemoveMarker
    BY <1>30 DEF RemoveMarker, AfterDown, Removal, PreparedIsCurrent
  <1>31. CASE CheckTarget
    BY <1>31 DEF CheckTarget
  <1>32. CASE WriteSnapshot
    BY <1>32 DEF WriteSnapshot
  <1>33. CASE WritePayload
    BY <1>33 DEF WritePayload
  <1>34. CASE WriteActivating
    BY <1>34 DEF WriteActivating, WriteMarker
  <1>35. CASE DiscardUnstarted
    BY <1>35 DEF DiscardUnstarted
  <1>36. CASE QuickUp
    BY <1>36 DEF QuickUp
  <1>37. CASE IncludeScope
    BY <1>37 DEF IncludeScope, WriteMarker
  <1>38. CASE HandleFailedUp
    BY <1>38 DEF HandleFailedUp
  <1>39. CASE ClaimLink
    BY <1>39, RefreshEffect DEF ClaimLink
  <1>40. CASE CommitActive
    <2> DEFINE j == [jr EXCEPT !.state = "active", !.was = TRUE]
    <2>1. j \in Journals /\ j.state = "active"
      BY DEF States
    <2>2. pc = "commit" /\ op = "up" /\ pc' \in {"rollback", "confirm"}
      BY <1>40 DEF CommitActive
    <2>3. CASE pc' = "rollback"
      BY <1>40, <2>2, <2>3 DEF CommitActive
    <2>4. CASE pc' = "confirm"
      <3>1. WriteMarker(j, TRUE)
        BY <1>40, <2>4 DEF CommitActive
      <3> HIDE DEF j
      <3>2. marker'[cur] = j
        BY <2>1, <3>1, WriteMarkerEffect
      <3> QED BY <1>40, <2>1, <2>2, <2>4, <3>2 DEF CommitActive
    <2> QED BY <2>2, <2>3, <2>4
  <1>41. CASE ConfirmActive
    BY <1>41 DEF ConfirmActive
  <1>42. CASE ReleaseGroup
    BY <1>42 DEF ReleaseGroup, MemoryAccounts, OpenPcs, Pcs
  <1>43. CASE Rollback
    BY <1>43 DEF Rollback, WriteMarker
  <1>44. CASE IdentifyForRollback
    BY <1>44, RefreshEffect DEF IdentifyForRollback
  <1>45. CASE Exit
    BY <1>45 DEF Exit, Forget
  <1>46. CASE Crash
    BY <1>46 DEF Crash, Forget
  <1>47. CASE ToolsChange
    BY <1>47 DEF ToolsChange
  <1>48. CASE Calm
    BY <1>48 DEF Calm
  <1>49. CASE \E n \in Names : LinkVanishes(n)
    BY <1>49 DEF LinkVanishes
  <1>50. CASE \E n \in Names : ForeignLink(n)
    BY <1>50 DEF ForeignLink
  <1>51. CASE \E n \in Names : FlightLands(n)
    BY <1>51 DEF FlightLands
  <1>52. CASE Request
    BY <1>52 DEF Request, StartUp, StartDown, StartRemove, Start
  <1>53. CASE UNCHANGED vars
    BY <1>53 DEF vars, locals
  <1> QED BY <1>1, <1>2, <1>3, <1>4, <1>5, <1>6, <1>7, <1>8, <1>9, <1>10, <1>11, <1>12,
          <1>13, <1>14, <1>15, <1>16, <1>17, <1>18, <1>19, <1>20, <1>21, <1>22, <1>23,
          <1>24, <1>25, <1>26, <1>27, <1>28, <1>29, <1>30, <1>31, <1>32, <1>33, <1>34,
          <1>35, <1>36, <1>37, <1>38, <1>39, <1>40, <1>41, <1>42, <1>43, <1>44, <1>45,
          <1>46, <1>47, <1>48, <1>49, <1>50, <1>51, <1>52, <1>53 
          DEF Next, HelperStep, Environment

\* A journal write leaves a session out of hand if the new journal says so, or if
\* the link is gone for good.
LEMMA BlockWrite ==
  ASSUME TypeOK, OutOfHand(cur), NEW j \in Journals, NEW ok \in BOOLEAN,
         WriteMarker(j, ok), UNCHANGED <<link, cur>>,
         j.state \notin {"cleanup_complete", "firewall_pending"},
         j.state = "cleanup_unconfirmed" \/ link[cur] \notin {"raw", "owned"}
  PROVE  OutOfHand(cur)'
  <1>1. marker'[cur] \in {marker[cur], j}
    BY WriteMarkerEffect
  <1> QED BY <1>1, NoMarkerIsNoJournal DEF OutOfHand, UnsettledResolved, TypeOK


\* The journal that commits a disconnect whose link is gone leaves the session out
\* of hand.
LEMMA CommitDownBlocks ==
  ASSUME IndInv, CommitDown, OutOfHand(cur), link[cur] \notin {"raw", "owned"}
  PROVE  OutOfHand(cur)'
  <1>1. UNCHANGED <<link, cur>> /\ TypeOK
    BY DEF CommitDown, network, IndInv
  <1>2. CASE UNCHANGED disk
    BY <1>1, <1>2 DEF OutOfHand, disk
  <1>3. ASSUME NEW scope \in CapturedScopes, NEW ok \in BOOLEAN, NEW j,
               j = [jr EXCEPT !.state = "cleanup_required", !.scope = @ \cup scope],
               WriteMarker(j, ok)
        PROVE  OutOfHand(cur)'
    <2>1. j \in Journals /\ j.state = "cleanup_required"
      BY <1>3 DEF IndInv, TypeOK, Journals, States, CapturedScopes
    <2>2. WriteMarker(j, ok)
      BY <1>3
    <2> QED BY <1>1, <2>1, <2>2, BlockWrite
  <1> QED BY <1>2, <1>3 DEF CommitDown

\* No step of the helper, of a crash or of the host brings session n back in hand.
LEMMA BlockStep ==
  ASSUME IndInv, SessionInv, NEW n \in Names, StaysBlocked(n), [Next]_vars
  PROVE  StaysBlocked(n)'
  <1> USE DEF IndInv, TypeOK, SessionInv, RoutineFacts, OneSession, StaysBlocked, OutOfHand,
      UnsettledResolved, OpenPcs, Pcs, RuntimeNames, Journals, disk, network, request, locals
  <1>1. CASE PrepareUp
    BY <1>1 DEF PrepareUp
  <1>2. CASE CheckPrevious
    BY <1>2 DEF CheckPrevious, CheckDown, OwnedLinkState
  <1>3. CASE DisconnectNext
    BY <1>3 DEF DisconnectNext
  <1>4. CASE ConfirmPrevious
    BY <1>4 DEF ConfirmPrevious
  <1>5. CASE StartTarget
    BY <1>5 DEF StartTarget
  <1>6. CASE Delete
    BY <1>6 DEF Delete
  <1>7. CASE BeginDown
    BY <1>7, NoMarkerIsNoJournal DEF BeginDown, DownRoute, AfterDown, Seen, OwnedLinkState
  <1>8. CASE BlockUnsettledDns
    <2>1. cur = n /\ pc = "block" /\ op # "up"
      BY <1>8 DEF BlockUnsettledDns
    <2>2. PICK j \in Journals, ok \in BOOLEAN :
            /\ WriteMarker(j, ok) /\ j.state \notin {"cleanup_complete", "firewall_pending"}
            /\ j.state = "cleanup_unconfirmed" \/ link[cur] \notin {"raw", "owned"}
      BY <1>8, <2>1 DEF BlockUnsettledDns, StepFacts, States, DnsStates
    <2>3. link' = link /\ cur' = cur /\ op' = op
      BY <1>8 DEF BlockUnsettledDns
    <2>4. OutOfHand(cur)'
      BY <2>1, <2>2, <2>3, BlockWrite DEF OutOfHand
    <2>5. pc' \in {"fail"} /\ (pc' # "fail" => ctx' = "down" /\ link[cur] \notin {"raw", "owned"})
      BY <1>8, <2>1 DEF BlockUnsettledDns
    <2> QED BY <2>1, <2>3, <2>4, <2>5 DEF OutOfHand
  <1>9. CASE IdentifyLink
    BY <1>9, RefreshEffect DEF IdentifyLink, RefreshOwnedInterface, Seen, OwnedLinkState
  <1>10. CASE CommitDown
    <2>1. cur = n /\ pc = "commit_down" /\ op # "up" /\ link[cur] \notin {"raw", "owned"}
      BY <1>10 DEF CommitDown
    <2>2. /\ link' = link /\ cur' = cur /\ op' = op /\ ctx' = ctx
          /\ pc' \in {"intent", "fail"}
      BY <1>10 DEF CommitDown
    <2>3. OutOfHand(cur)'
      BY <1>10, <2>1, CommitDownBlocks
    <2> QED BY <2>1, <2>2, <2>3 DEF OutOfHand
  <1>11. CASE SkipDns
    BY <1>11 DEF SkipDns, AfterDns, WriteMarker
  <1>12. CASE RefuseRevert
    BY <1>12 DEF RefuseRevert
  <1>13. CASE DnsIntent
    <2>1. cur = n /\ pc = "intent" /\ op # "up"
      BY <1>13 DEF DnsIntent
    <2>2. PICK j \in Journals, ok \in BOOLEAN :
            /\ WriteMarker(j, ok) /\ j.state \notin {"cleanup_complete", "firewall_pending"}
            /\ j.state = "cleanup_unconfirmed" \/ link[cur] \notin {"raw", "owned"}
      BY <1>13, <2>1 DEF DnsIntent, StepFacts, States, DnsStates, AfterDns
    <2>3. link' = link /\ cur' = cur /\ op' = op
      BY <1>13 DEF DnsIntent
    <2>4. OutOfHand(cur)'
      BY <2>1, <2>2, <2>3, BlockWrite DEF OutOfHand
    <2>5. pc' \in {"call", "teardown", "abort", "fail"} /\ (pc' # "fail" => ctx' = "down" /\ link[cur] \notin {"raw", "owned"})
      BY <1>13, <2>1 DEF DnsIntent, AfterDns
    <2> QED BY <2>1, <2>3, <2>4, <2>5 DEF OutOfHand
  <1>14. CASE ResolvedChange
    BY <1>14 DEF ResolvedChange
  <1>15. CASE ResolvconfChange
    BY <1>15 DEF ResolvconfChange
  <1>16. CASE CompleteDnsChange
    <2> DEFINE uncertain == dnsres \in {"uncertain", "uncertain_may"}
               j == [jr EXCEPT !.dns = SettledDns(dnsres),
                               !.state = IF uncertain THEN "cleanup_unconfirmed" ELSE @]
    <2>1. cur = n /\ pc = "record" /\ op # "up" /\ link[cur] \notin {"raw", "owned"}
      BY <1>16 DEF CompleteDnsChange
    <2>2. SettledDns(dnsres) \in DnsStates
      BY <2>1 DEF SettledDns, DnsFacts, DnsStates
    <2>3. j \in Journals /\ j.state \notin {"cleanup_complete", "firewall_pending"}
      BY <2>1, <2>2, ZenonT(30) DEF StepFacts, States
    <2>4. /\ link' = link /\ cur' = cur /\ op' = op /\ ctx' = ctx
          /\ pc' \in {"teardown", "abort", "fail"}
      BY <1>16, <2>1 DEF CompleteDnsChange, AfterDns
    <2>5. PICK ok \in BOOLEAN : WriteMarker(j, ok)
      BY <1>16 DEF CompleteDnsChange
    <2> HIDE DEF j
    <2>6. OutOfHand(cur)'
      BY <2>1, <2>3, <2>4, <2>5, BlockWrite DEF OutOfHand
    <2> QED BY <2>1, <2>4, <2>6 DEF OutOfHand
  <1>17. CASE Teardown
    BY <1>17, RefreshEffect DEF Teardown, RefreshOwnedInterface, Seen, OwnedLinkState
  <1>18. CASE RecordUnconfirmed
    <2>1. cur = n /\ pc = "unconfirmed" /\ op # "up"
      BY <1>18 DEF RecordUnconfirmed
    <2>2. PICK j \in Journals, ok \in BOOLEAN :
            /\ WriteMarker(j, ok) /\ j.state \notin {"cleanup_complete", "firewall_pending"}
            /\ j.state = "cleanup_unconfirmed" \/ link[cur] \notin {"raw", "owned"}
      BY <1>18, <2>1 DEF RecordUnconfirmed, StepFacts, States, DnsStates
    <2>3. link' = link /\ cur' = cur /\ op' = op
      BY <1>18 DEF RecordUnconfirmed
    <2>4. OutOfHand(cur)'
      BY <2>1, <2>2, <2>3, BlockWrite DEF OutOfHand
    <2>5. pc' \in {"fail"} /\ (pc' # "fail" => ctx' = "down" /\ link[cur] \notin {"raw", "owned"})
      BY <1>18, <2>1 DEF RecordUnconfirmed
    <2> QED BY <2>1, <2>3, <2>4, <2>5 DEF OutOfHand
  <1>19. CASE MarkTeardown
    BY <1>19 DEF MarkTeardown, WriteMarker
  <1>20. CASE QuickDown
    BY <1>20 DEF QuickDown
  <1>21. CASE CheckTeardown
    BY <1>21 DEF CheckTeardown, WriteMarker, MayAbort
  <1>22. CASE AbortTeardown
    <2>1. cur = n /\ pc = "abort" /\ op # "up" /\ link[cur] \notin {"raw", "owned"}
      BY <1>22 DEF AbortTeardown
    <2>2. \A seen \in Seen(cur) : seen # "present"
      BY <2>1 DEF Seen, OwnedLinkState
    <2>3. link' = link /\ cur' = cur /\ op' = op /\ pc' = "fail"
      BY <1>22, <2>2 DEF AbortTeardown
    <2>4. CASE UNCHANGED disk
      BY <2>1, <2>3, <2>4 DEF OutOfHand
    <2>5. CASE \E ok \in BOOLEAN : WriteMarker([jr EXCEPT !.state = "cleanup_unconfirmed"], ok)
      <3>1. [jr EXCEPT !.state = "cleanup_unconfirmed"] \in Journals
        BY DEF States
      <3> QED BY <2>1, <2>3, <2>5, <3>1, BlockWrite DEF OutOfHand
    <2> QED BY <1>22, <2>2, <2>4, <2>5 DEF AbortTeardown
  <1>23. CASE Reactivate
    BY <1>23 DEF Reactivate, WriteMarker
  <1>24. CASE VerifyCleanup
    BY <1>24 DEF VerifyCleanup, WriteMarker
  <1>25. CASE ProbeFirewall
    BY <1>25 DEF ProbeFirewall
  <1>26. CASE RecheckLink
    BY <1>26 DEF RecheckLink
  <1>27. CASE RecordComplete
    BY <1>27 DEF RecordComplete, WriteMarker
  <1>28. CASE RemoveConfig
    BY <1>28 DEF RemoveConfig
  <1>29. CASE RemoveDns
    BY <1>29 DEF RemoveDns
  <1>30. CASE RemoveMarker
    BY <1>30 DEF RemoveMarker, AfterDown, Removal
  <1>31. CASE CheckTarget
    BY <1>31 DEF CheckTarget
  <1>32. CASE WriteSnapshot
    BY <1>32 DEF WriteSnapshot
  <1>33. CASE WritePayload
    BY <1>33 DEF WritePayload
  <1>34. CASE WriteActivating
    BY <1>34 DEF WriteActivating, WriteMarker
  <1>35. CASE DiscardUnstarted
    BY <1>35 DEF DiscardUnstarted
  <1>36. CASE QuickUp
    BY <1>36 DEF QuickUp
  <1>37. CASE IncludeScope
    BY <1>37 DEF IncludeScope, WriteMarker
  <1>38. CASE HandleFailedUp
    BY <1>38 DEF HandleFailedUp
  <1>39. CASE ClaimLink
    BY <1>39, RefreshEffect DEF ClaimLink, RefreshOwnedInterface, Seen, OwnedLinkState
  <1>40. CASE CommitActive
    BY <1>40 DEF CommitActive, WriteMarker
  <1>41. CASE ConfirmActive
    BY <1>41 DEF ConfirmActive
  <1>42. CASE ReleaseGroup
    BY <1>42 DEF ReleaseGroup
  <1>43. CASE Rollback
    BY <1>43 DEF Rollback, WriteMarker
  <1>44. CASE IdentifyForRollback
    BY <1>44, RefreshEffect DEF IdentifyForRollback, RefreshOwnedInterface, Seen, OwnedLinkState
  <1>45. CASE Exit
    BY <1>45 DEF Exit, Forget
  <1>46. CASE Crash
    BY <1>46 DEF Crash, Forget
  <1>47. CASE ToolsChange
    BY <1>47 DEF ToolsChange
  <1>48. CASE Calm
    BY <1>48 DEF Calm
  <1>49. CASE \E m \in Names : LinkVanishes(m)
    BY <1>49 DEF LinkVanishes
  <1>50. CASE \E m \in Names : ForeignLink(m)
    BY <1>50 DEF ForeignLink
  <1>51. CASE \E m \in Names : FlightLands(m)
    BY <1>51 DEF FlightLands
  <1>52. CASE Request
    BY <1>52 DEF Request, StartUp, StartDown, StartRemove, Start
  <1>53. CASE UNCHANGED vars
    BY <1>53 DEF vars, locals
  <1> QED BY <1>1, <1>2, <1>3, <1>4, <1>5, <1>6, <1>7, <1>8, <1>9, <1>10, <1>11, <1>12,
          <1>13, <1>14, <1>15, <1>16, <1>17, <1>18, <1>19, <1>20, <1>21, <1>22, <1>23,
          <1>24, <1>25, <1>26, <1>27, <1>28, <1>29, <1>30, <1>31, <1>32, <1>33, <1>34,
          <1>35, <1>36, <1>37, <1>38, <1>39, <1>40, <1>41, <1>42, <1>43, <1>44, <1>45,
          <1>46, <1>47, <1>48, <1>49, <1>50, <1>51, <1>52, <1>53 
          DEF Next, HelperStep, Environment

-----------------------------------------------------------------------------
(* Theorems.                                                               *)

\* A state without sessions satisfies the invariant.
LEMMA InitSession == Init => SessionInv
  BY DEF Init, SessionInv, DiskIsWhole, FilesFacts, RoutineFacts, RouteFacts, OutcomeFacts,
         RuntimeNames, FilePcs, OpenPcs, Pcs, ActivationPcs, BlankJournal, NewJournal

\* The files, the routine, the routes and the outcome of a session keep to its
\* journal, whatever fails or crashes.
THEOREM SessionInvariantHolds == Spec => []SessionInv
  <1>1. IndInv /\ SessionInv /\ [Next]_vars => SessionInv'
    <2> SUFFICES ASSUME IndInv, SessionInv, [Next]_vars
                 PROVE  SessionInv'
      OBVIOUS
    <2>1. DiskIsWhole'   BY DiskStep
    <2>2. FilesFacts'    BY FilesStep
    <2>3. RoutineFacts'  BY RoutineStep
    <2>4. RouteFacts'    BY RouteStep
    <2>5. OutcomeFacts'  BY OutcomeStep
    <2> QED BY <2>1, <2>2, <2>3, <2>4, <2>5 DEF SessionInv
  <1> QED BY <1>1, InitSession, InvariantHolds, PTL DEF Spec

\* A session whose journal says "active" and whose link is the profile's own has
\* all its routes and its DNS: awg_helper_tunnel_activate commits "active" last, and
\* awg_helper_tunnel_down withdraws it before it touches anything.
THEOREM ActiveSessionsAreWhole == Spec => []ActiveIsWhole
  <1>1. IndInv /\ SessionInv => ActiveIsWhole
    <2> SUFFICES ASSUME IndInv, SessionInv, NEW n \in RuntimeNames,
                        marker[n].state = "active", link[n] = "owned"
                 PROVE  /\ routes[n] = "full"
                        /\ marker[n].backend = "resolved" => linkDns[n] = "applied"
                        /\ marker[n].backend = "resolvconf" => confDns[n] = "applied"
      BY DEF ActiveIsWhole
    <2>1. routes[n] = "full" /\ FieldsAreValid(marker[n])
      BY DEF SessionInv, DiskIsWhole, WholeLink
    <2>2. DnsClaim(n, marker[n].backend, marker[n].dns)
      BY DEF IndInv, DiskAccounts, Accounts, RuntimeNames
    <2> QED BY <2>1, <2>2 DEF FieldsAreValid, DnsClaim
  <1> QED BY <1>1, InvariantHolds, SessionInvariantHolds, PTL

\* Every journal that is not complete has the snapshot and the DNS file that
\* awg_helper_tunnel_down loads: they are written before the journal and removed
\* only after it says that the cleanup is complete.
THEOREM RecoveryFilesAreThere == Spec => []RecoveryHasItsFiles
  <1>1. SessionInv => RecoveryHasItsFiles
    BY DEF SessionInv, DiskIsWhole, RecoveryHasItsFiles
  <1> QED BY <1>1, SessionInvariantHolds, PTL

\* Only the end of main leaves an exit status: after a success, when the routine
\* of the request is through.
LEMMA SuccessIsLast ==
  ASSUME SessionInv, [Next]_vars, exit' = "success", pc # "idle"
  PROVE  pc = "finish"
  <1>1. exit' # exit
    BY DEF SessionInv, OutcomeFacts
  <1>2. exit' = exit \/ Exit \/ Crash \/ Request
    BY DEF Next, HelperStep, Environment, vars, PrepareUp, CheckPrevious,
           DisconnectNext, ConfirmPrevious, StartTarget, Delete, BeginDown,
           BlockUnsettledDns, IdentifyLink, CommitDown, SkipDns, RefuseRevert,
           DnsIntent, ResolvedChange, ResolvconfChange, CompleteDnsChange,
           Teardown, RecordUnconfirmed, MarkTeardown, QuickDown, CheckTeardown,
           AbortTeardown, Reactivate, VerifyCleanup, ProbeFirewall, RecheckLink,
           RecordComplete, RemoveConfig, RemoveDns, RemoveMarker, CheckTarget,
           WriteSnapshot, WritePayload, WriteActivating, DiscardUnstarted, QuickUp,
           IncludeScope, HandleFailedUp, ClaimLink, CommitActive, ConfirmActive,
           ReleaseGroup, Rollback, IdentifyForRollback, ToolsChange, Calm,
           LinkVanishes, ForeignLink, FlightLands
  <1>3. ~Crash /\ ~Request
    BY DEF Crash, Request, StartUp, StartDown, StartRemove, Start
  <1> QED BY <1>1, <1>2, <1>3 DEF Exit

\* The helper exits with status 0 only when the request is done: the target alone
\* is active after up, nothing of the session is left after down, and the profile
\* is gone too after remove.
THEOREM ExitStatusIsEarned == Spec => SuccessIsEarned
  <1> DEFINE A == exit' = "success" /\ pc # "idle" =>
                    /\ op = "up" =>
                         /\ marker[target] # NoMarker /\ marker[target].state = "active"
                         /\ \A n \in Names \ {target} : marker[n] = NoMarker /\ LeavesNothing(n)
                    /\ op # "up" => marker[target] = NoMarker /\ LeavesNothing(target)
                    /\ op = "remove" => target \notin profiles
  <1>1. IndInv /\ SessionInv /\ [Next]_vars => [A]_vars
    <2> SUFFICES ASSUME IndInv, SessionInv, [Next]_vars, exit' = "success", pc # "idle",
                        vars' # vars
                 PROVE  A
      OBVIOUS
    <2>1. pc = "finish"
      BY SuccessIsLast
    <2>2. \A n \in Names : marker[n] = NoMarker => LeavesNothing(n)
      BY DEF IndInv, DiskAccounts
    <2>3. target \in Names
      BY DEF IndInv, TypeOK
    <2>4. NoMarker.state # "active"
      BY DEF NoMarker
    <2> QED BY <2>1, <2>2, <2>3, <2>4 DEF SessionInv, OutcomeFacts
  <1> QED BY <1>1, InvariantHolds, SessionInvariantHolds, PTL DEF Spec, SuccessIsEarned

\* What is shown as needing manual intervention is never taken up again: no sequence
\* of requests, crashes and changes of the host ends with its journal removed.
THEOREM OutOfHandStaysBlocked == Spec => ManualStaysBlocked
  <1> SUFFICES ASSUME NEW n \in Names
               PROVE  Spec => [](pc = "idle" /\ ShownAs(n) = "manual_intervention"
                                   => [](marker[n] # NoMarker))
    BY DEF ManualStaysBlocked
  <1>1. SessionInv /\ pc = "idle" /\ ShownAs(n) = "manual_intervention" => StaysBlocked(n)
    <2> SUFFICES ASSUME SessionInv, pc = "idle", ShownAs(n) = "manual_intervention"
                 PROVE  OutOfHand(n)
      BY DEF StaysBlocked, OpenPcs, SessionInv, RoutineFacts
    <2>1. marker[n] # NoMarker
      BY DEF ShownAs, Classify
    <2>2. FieldsAreValid(marker[n])
      BY <2>1 DEF SessionInv, DiskIsWhole, RuntimeNames
    <2> QED BY <2>1, <2>2 DEF ShownAs, Classify, ClassifyMarker, OwnedLinkState,
                OutOfHand, UnsettledResolved, FieldsAreValid
  <1>2. IndInv /\ SessionInv /\ StaysBlocked(n) /\ [Next]_vars => StaysBlocked(n)'
    BY BlockStep
  <1>3. StaysBlocked(n) => marker[n] # NoMarker
    BY DEF StaysBlocked, OutOfHand
  <1> QED BY <1>1, <1>2, <1>3, InvariantHolds, SessionInvariantHolds, PTL DEF Spec
=============================================================================
