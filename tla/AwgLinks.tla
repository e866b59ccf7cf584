------------------------------- MODULE AwgLinks -------------------------------
(***************************************************************************)
(* Network links as amneziawg/link_identity.c sees them: dumps of all      *)
(* links, the filter that tells which notifications matter to a cached     *)
(* observation, and the guard with which the helper makes sure that the    *)
(* interface it works on has been the same one all the time.               *)
(*                                                                         *)
(* The kernel is external.  A change of a link and its notification are    *)
(* one step.  A dump reads one link at a time; a link that appears or      *)
(* disappears interrupts it, a rename or a new alias does not.  The socket *)
(* and the dump belong to one program: the sidebar, which observes, or the *)
(* helper, which guards.                                                   *)
(***************************************************************************)
EXTENDS Naturals, Sequences, FiniteSets, FiniteSetsExt

CONSTANTS Indices,     \* interface indices
          Names,       \* interface names
          Aliases,     \* interface aliases, the one with the token included
          Own,         \* the link the program looks for: index, name, alias
          NoAlias,     \* an interface without alias
          MaxChanges   \* bound on what the kernel does

ASSUME IndicesAssumption == IsFiniteSet(Indices) /\ Indices \subseteq Nat \ {0}
ASSUME OwnAssumption ==
  /\ Own.index \in Indices /\ Own.name \in Names /\ Own.alias \in Aliases
  /\ NoAlias \notin Aliases

VARIABLES
  links,    \* [Indices -> LinkRecord or NoRecord]
  queue,    \* notifications in the socket of the filter or of the guard
  dump,     \* the dump that is read: next index, what was read, interrupted
  cached,   \* the observation the runtime source holds, with its filter
  guard,    \* the guard: where its check is, whether it ever succeeded
  broken,   \* the identity was interrupted since the guard's first success
  changes

vars == <<links, queue, dump, cached, guard, broken, changes>>

NoRecord == [index |-> 0, name |-> "none", alias |-> NoAlias]
LinkRecord == [index : Indices, name : Names, alias : Aliases \cup {NoAlias}]
NoDump   == [at |-> 0, got |-> {}, intr |-> FALSE]
NoCache  == [valid |-> FALSE, seen |-> [named |-> 0, matches |-> 0, token |-> 0, expected |-> FALSE],
             indices |-> {}]

\* The program is the sidebar, which has no guard.
Observes == guard.pc = "absent"

Present(L) == {L[i] : i \in {j \in Indices : L[j] # NoRecord}}

Init ==
  /\ links \in [Indices -> {NoRecord} \cup LinkRecord]
  /\ \A i \in Indices : links[i] # NoRecord => links[i].index = i
  /\ \A i, j \in Indices : i # j /\ links[i] # NoRecord => links[i].name # links[j].name
  /\ queue = <<>> /\ dump = NoDump /\ cached = NoCache
  /\ guard \in [pc : {"absent", "none"}, ever : {FALSE}] /\ broken = FALSE /\ changes = 0

-----------------------------------------------------------------------------
(* Identity.                                                               *)

\* link_record_is_relevant and link_record_matches.
IsRelevant(r) == r.index = Own.index \/ r.name = Own.name \/ r.alias = Own.alias
Matches(r)    == r = [index |-> Own.index, name |-> Own.name, alias |-> Own.alias]

\* The interface is there, and nothing else looks like it.
Holds(L) == {r \in Present(L) : IsRelevant(r)} = {[index |-> Own.index, name |-> Own.name, alias |-> Own.alias]}

-----------------------------------------------------------------------------
(* The kernel (external).                                                  *)

\* One change: a notification in the socket, or the end of it when it is full.
Kernel(L, kind, r, listed) ==
  /\ changes < MaxChanges /\ changes' = changes + 1
  /\ links' = L
  /\ \E full \in BOOLEAN :
       queue' = Append(queue, [kind |-> IF full THEN "error" ELSE kind, link |-> r])
  /\ dump' = IF listed /\ dump.at # 0 THEN [dump EXCEPT !.intr = TRUE] ELSE dump
  /\ broken' = (broken \/ (guard.ever /\ ~Holds(L)))
  /\ UNCHANGED <<cached, guard>>

Free(n) == \A i \in Indices : links[i].name # n

Create(i, n) ==
  /\ links[i] = NoRecord /\ Free(n)
  /\ LET r == [index |-> i, name |-> n, alias |-> NoAlias]
     IN Kernel([links EXCEPT ![i] = r], "new", r, TRUE)

Delete(i) ==
  /\ links[i] # NoRecord
  /\ Kernel([links EXCEPT ![i] = NoRecord], "del", links[i], TRUE)

Rename(i, n) ==
  /\ links[i] # NoRecord /\ Free(n)
  /\ LET r == [links[i] EXCEPT !.name = n]
     IN Kernel([links EXCEPT ![i] = r], "new", r, FALSE)

SetAlias(i, a) ==
  /\ links[i] # NoRecord
  /\ LET r == [links[i] EXCEPT !.alias = a]
     IN Kernel([links EXCEPT ![i] = r], "new", r, FALSE)

\* A notification about something else: the link as it is, or its index only.
Noise(i) ==
  /\ links[i] # NoRecord
  /\ \E r \in {links[i], [NoRecord EXCEPT !.index = i]} : Kernel(links, "new", r, FALSE)

KernelStep ==
  \E i \in Indices :
    \/ Delete(i) \/ Noise(i)
    \/ \E n \in Names : Create(i, n) \/ Rename(i, n)
    \/ \E a \in Aliases \cup {NoAlias} : SetAlias(i, a)

-----------------------------------------------------------------------------
(* Dumps: link_snapshot_read_until.                                        *)

ReadLink(d) ==
  [d EXCEPT !.at = @ + 1,
            !.got = IF d.at \in Indices /\ links[d.at] # NoRecord THEN @ \cup {links[d.at]} ELSE @]
DumpDone(d) == \A i \in Indices : i < d.at

\* network_sidebar_amneziawg_link_snapshot_observe of a set of records: the last
\* link with the name, the first one with the token.
Observe(R) ==
  LET named == {r.index : r \in {q \in R : q.name = Own.name}}
      token == {q \in R : q.alias = Own.alias}
      first == CHOOSE q \in token : \A p \in token : q.index <= p.index
  IN [named    |-> IF named = {} THEN 0 ELSE Max(named),
      matches  |-> Cardinality(token),
      token    |-> IF token = {} THEN 0 ELSE first.index,
      expected |-> token # {} /\ first.name = Own.name]

-----------------------------------------------------------------------------
(* The cached observation and its filter.                                  *)

\* Mutant: only the first link with the token is tracked.
FilterIndices_First(R) ==
  {Own.index} \cup ({Observe(R).named, Observe(R).token} \ {0})

\* network_sidebar_amneziawg_link_event_filter_add: every link that the
\* observation depends on is tracked by its index, of those that were read with
\* the name the last one.
FilterIndices(R) ==
  {Own.index} \cup ({Observe(R).named} \ {0})
              \cup {r.index : r \in {q \in R : q.alias = Own.alias}}

\* network_sidebar_amneziawg_link_event_filter_is_relevant.
EventMatters(e, indices) ==
  \/ e.kind = "error" \/ e.link.index \in indices
  \/ e.link.name = Own.name \/ e.link.alias = Own.alias

\* scan_runtime reads a snapshot while the socket is already open.
ObserveStart ==
  /\ Observes /\ ~cached.valid /\ dump = NoDump
  /\ dump' = [NoDump EXCEPT !.at = 1]
  /\ UNCHANGED <<links, queue, cached, guard, broken, changes>>

DumpStep ==
  /\ dump.at # 0 /\ ~DumpDone(dump)
  /\ dump' = ReadLink(dump)
  /\ UNCHANGED <<links, queue, cached, guard, broken, changes>>

ObservePublish ==
  /\ Observes /\ dump.at # 0 /\ DumpDone(dump)
  /\ cached' = IF dump.intr THEN NoCache
               ELSE [valid |-> TRUE, seen |-> Observe(dump.got), indices |-> FilterIndices(dump.got)]
  /\ dump' = NoDump
  /\ UNCHANGED <<links, queue, guard, broken, changes>>

\* link_monitor_cb: an event that matters retires the observation, any event the
\* scan that runs.
ObserveEvent ==
  /\ Observes /\ queue # <<>>
  /\ queue' = Tail(queue)
  /\ cached' = IF cached.valid /\ EventMatters(Head(queue), cached.indices) THEN NoCache ELSE cached
  /\ dump' = IF cached.valid THEN dump ELSE NoDump
  /\ UNCHANGED <<links, guard, broken, changes>>

-----------------------------------------------------------------------------
(* The guard.                                                              *)

\* link_guard_drain: an event that breaks the identity, or from which it cannot be
\* told.
Contradicts(e) ==
  \/ e.kind = "error" \/ e.link.name = NoRecord.name
  \/ IsRelevant(e.link) /\ (e.kind = "del" \/ ~Matches(e.link))

Invalid == guard' = [guard EXCEPT !.pc = "invalid"] /\ queue' = <<>>

\* link_guard_drain: one event after the other, or out of time.
Drain ==
  /\ guard.pc \in {"drain1", "drain2"} /\ UNCHANGED <<links, dump, cached, broken, changes>>
  /\ \/ queue # <<>> /\ ~Contradicts(Head(queue)) /\ queue' = Tail(queue) /\ UNCHANGED guard
     \/ queue # <<>> /\ Contradicts(Head(queue)) /\ Invalid
     \/ Invalid

\* network_sidebar_amneziawg_link_guard_new opens the socket and checks.
GuardNew ==
  /\ guard.pc = "none"
  /\ guard' = [guard EXCEPT !.pc = "drain1"] /\ queue' = <<>>
  /\ UNCHANGED <<links, dump, cached, broken, changes>>

\* network_sidebar_amneziawg_link_guard_check of a valid guard.
GuardCheck ==
  /\ guard.pc = "trusted"
  /\ guard' = [guard EXCEPT !.pc = "drain1"]
  /\ UNCHANGED <<links, queue, dump, cached, broken, changes>>

\* The first drain has found the socket empty.
GuardDump ==
  /\ guard.pc = "drain1" /\ queue = <<>>
  /\ guard' = [guard EXCEPT !.pc = "dump"] /\ dump' = [NoDump EXCEPT !.at = 1]
  /\ UNCHANGED <<links, queue, cached, broken, changes>>

\* Mutant: a snapshot that shows the interface is enough.
GuardSnapshot_Last ==
  /\ guard.pc = "dump" /\ DumpDone(dump) /\ dump' = NoDump
  /\ IF dump.intr \/ {r \in dump.got : IsRelevant(r)} # {r \in dump.got : Matches(r)} \/ dump.got = {}
       THEN Invalid
       ELSE guard' = [pc |-> "trusted", ever |-> TRUE] /\ UNCHANGED queue
  /\ UNCHANGED <<links, cached, broken, changes>>

\* network_sidebar_amneziawg_link_guard_check: exactly one relevant link, and it
\* matches.
GuardSnapshot ==
  /\ guard.pc = "dump" /\ DumpDone(dump) /\ dump' = NoDump
  /\ LET relevant == {r \in dump.got : IsRelevant(r)}
     IN IF dump.intr \/ Cardinality(relevant) # 1 \/ \E r \in relevant : ~Matches(r)
          THEN Invalid
          ELSE guard' = [guard EXCEPT !.pc = "drain2"] /\ UNCHANGED queue
  /\ UNCHANGED <<links, cached, broken, changes>>

\* The second drain has found the socket empty: the check succeeds.
GuardTrust ==
  /\ guard.pc = "drain2" /\ queue = <<>>
  /\ guard' = [pc |-> "trusted", ever |-> TRUE]
  /\ UNCHANGED <<links, queue, dump, cached, broken, changes>>

\* network_sidebar_amneziawg_link_guard_free, and a new guard later.
GuardFree ==
  /\ guard.pc \in {"trusted", "invalid"}
  /\ guard' = [pc |-> "none", ever |-> FALSE] /\ broken' = FALSE /\ queue' = <<>>
  /\ UNCHANGED <<links, dump, cached, changes>>

-----------------------------------------------------------------------------

Next ==
  \/ KernelStep \/ DumpStep
  \/ ObserveStart \/ ObservePublish \/ ObserveEvent
  \/ GuardNew \/ GuardCheck \/ Drain \/ GuardDump
  \/ GuardSnapshot \/ GuardTrust \/ GuardFree

Spec == Init /\ [][Next]_vars

-----------------------------------------------------------------------------
(* Properties.                                                             *)

\* A cached observation is what an observation of the links would give now, unless
\* a notification that matters is waiting: neither a dump that was torn by a
\* rename or a new alias nor an event that the filter dropped makes it wrong
\* (network_sidebar_amneziawg_link_event_filter_add, _is_relevant).
FilterIsSound ==
  cached.valid =>
    \/ cached.seen = Observe(Present(links))
    \/ \E k \in 1 .. Len(queue) : EventMatters(queue[k], cached.indices)

\* A check of the guard succeeds only while the interface is there and unique, and
\* only if that has been so ever since the first check that succeeded: an
\* interface that was renamed, deleted or marked otherwise and put back is not
\* taken for the same one (network_sidebar_amneziawg_link_guard_check).
GuardIsContinuous ==
  [][guard.pc # "trusted" /\ guard'.pc = "trusted" => Holds(links) /\ ~broken]_vars

-----------------------------------------------------------------------------
(* The inductive invariant.                                                *)

Events == [kind : {"new", "del", "error"},
           link : LinkRecord \cup {[NoRecord EXCEPT !.index = i] : i \in Indices}]

LinkTypes ==
  /\ links \in [Indices -> {NoRecord} \cup LinkRecord]
  /\ \A i \in Indices : links[i] # NoRecord => links[i].index = i
  /\ queue \in Seq(Events)
  /\ dump \in [at : Nat, got : SUBSET LinkRecord, intr : BOOLEAN] /\ IsFiniteSet(dump.got)
  /\ \A r \in dump.got : r.index < dump.at
  /\ cached.valid \in BOOLEAN
  /\ guard \in [pc : {"absent", "none", "drain1", "dump", "drain2", "trusted", "invalid"},
                ever : BOOLEAN]
  /\ broken \in BOOLEAN

\* The kernel gives no two links the same name.
NamesDiffer ==
  \A i, j \in Indices :
    i # j /\ links[i] # NoRecord /\ links[j] # NoRecord => links[i].name # links[j].name

\* The sidebar has a cache and no guard, the helper a guard and no cache, and either reads
\* one dump at a time.
Roles ==
  /\ ~Observes => ~cached.valid
  /\ cached.valid \/ (~Observes /\ guard.pc # "dump") => dump.at = 0
  /\ guard.pc \in {"absent", "none"} => ~guard.ever
  /\ guard.pc = "trusted" => guard.ever
  /\ ~guard.ever => ~broken

\* What the dump has read of a link is what the link is, or what it has become waits in
\* the socket.
WasRead(i) ==
  {r \in dump.got : r.index = i} = IF links[i] = NoRecord THEN {} ELSE {links[i]}
TellsOf(e, i) ==
  \/ e.kind = "error"
  \/ /\ e.link.index = i
     /\ IF links[i] = NoRecord THEN e.kind = "del" ELSE e.kind = "new" /\ e.link = links[i]
DumpFollows ==
  \A i \in Indices :
    i < dump.at => WasRead(i) \/ \E k \in 1 .. Len(queue) : TellsOf(queue[k], i)

\* The observation holds and its filter tracks the links it depends on, or a notification
\* that matters waits.
IsOwn(r) == r.name = Own.name \/ r.alias = Own.alias
CacheFollows ==
  cached.valid =>
    \/ \E k \in 1 .. Len(queue) : EventMatters(queue[k], cached.indices)
    \/ /\ cached.seen = Observe(Present(links))
       /\ \A i \in Indices : links[i] # NoRecord /\ IsOwn(links[i]) => i \in cached.indices

\* From the snapshot on, the interface has been the only one, or a notification that
\* contradicts it waits.
GuardFollows ==
  guard.pc = "drain2" \/ (guard.ever /\ guard.pc \in {"drain1", "dump", "trusted"}) =>
    \/ \E k \in 1 .. Len(queue) : Contradicts(queue[k])
    \/ Holds(links) /\ ~broken

IndInv == LinkTypes /\ NamesDiffer /\ Roles /\ DumpFollows /\ CacheFollows /\ GuardFollows

=============================================================================
