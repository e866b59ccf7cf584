--------------------------- MODULE AwgLinksProofs ---------------------------
(***************************************************************************)
(* Proofs about AwgLinks, for all sets of indices, names and aliases and   *)
(* every number of changes: a cached observation is current unless a       *)
(* notification that matters is waiting, and the guard succeeds only for   *)
(* an interface that has been the only one of its kind all the time.       *)
(***************************************************************************)
EXTENDS AwgLinks, SequenceTheorems, FiniteSetTheorems, TLAPS

-----------------------------------------------------------------------------
(* Records, observations and the identity.                                   *)

\* The record of the interface the program looks for.
Mine == [index |-> Own.index, name |-> Own.name, alias |-> Own.alias]

\* What holds of the links the kernel has.
Table(L) ==
  /\ L \in [Indices -> {NoRecord} \cup LinkRecord]
  /\ \A i \in Indices : L[i] # NoRecord => L[i].index = i

\* The links an observation depends on are the ones of the interface's name or alias.
SameOwn(R, S) == \A r : IsOwn(r) => (r \in R <=> r \in S)

\* An observation tells two sets of links apart only by links of the name or the token
\* (network_sidebar_amneziawg_link_snapshot_observe).
LEMMA ObserveSees ==
  ASSUME NEW R, NEW S, SameOwn(R, S)
  PROVE  Observe(R) = Observe(S)
  <1> DEFINE Named(Q) == {q \in Q : q.name = Own.name}
             Tokens(Q) == {q \in Q : q.alias = Own.alias}
             First(T) == CHOOSE q \in T : \A p \in T : q.index <= p.index
             Core(N, T) ==
               [named    |-> IF {r.index : r \in N} = {} THEN 0 ELSE Max({r.index : r \in N}),
                matches  |-> Cardinality(T),
                token    |-> IF T = {} THEN 0 ELSE First(T).index,
                expected |-> T # {} /\ First(T).name = Own.name]
  <1>1. Named(R) = Named(S)
    BY DEF SameOwn, IsOwn
  <1>2. Tokens(R) = Tokens(S)
    BY DEF SameOwn, IsOwn
  <1>3. Observe(R) = Core(Named(R), Tokens(R)) /\ Observe(S) = Core(Named(S), Tokens(S))
    BY DEF Observe
  <1> HIDE DEF Core, Named, Tokens
  <1> QED BY <1>1, <1>2, <1>3

\* Of the links with the name an observation tells only the last one.
LEMMA ObserveSeesLast ==
  ASSUME NEW R, NEW S, Observe(R).named = Observe(S).named,
         \A r : r.alias = Own.alias => (r \in R <=> r \in S)
  PROVE  Observe(R) = Observe(S)
  <1> DEFINE Tokens(Q) == {q \in Q : q.alias = Own.alias}
             First(T) == CHOOSE q \in T : \A p \in T : q.index <= p.index
             Core(n, T) ==
               [named    |-> n,
                matches  |-> Cardinality(T),
                token    |-> IF T = {} THEN 0 ELSE First(T).index,
                expected |-> T # {} /\ First(T).name = Own.name]
  <1>1. Tokens(R) = Tokens(S)
    OBVIOUS
  <1>2. /\ Observe(R) = Core(Observe(R).named, Tokens(R))
        /\ Observe(S) = Core(Observe(S).named, Tokens(S))
    BY DEF Observe
  <1> HIDE DEF Core, Tokens
  <1> QED BY <1>1, <1>2

\* A bounded set of numbers that is not empty has a greatest one.
LEMMA BoundedHasMax ==
  ASSUME NEW b \in Nat, NEW S, S \subseteq 0 .. b, S # {}
  PROVE  Max(S) \in S
  <1> DEFINE T == {b - i : i \in S}
             R == {ss \in Nat \X Nat : ss[1] < ss[2]}
  <1>1. T \subseteq Nat /\ T # {}
    OBVIOUS
  <1>2. IsWellFoundedOn(R, Nat)
    BY NatLessThanWellFounded DEF OpToRel
  <1> HIDE DEF R
  <1>3. PICK x \in T : \A y \in T : ~(<<y, x>> \in R)
    BY <1>1, <1>2, WFMin
  <1>4. PICK m \in S : x = b - m
    BY <1>3
  <1>5. ASSUME NEW y \in S
        PROVE  m >= y
    <2>1. b - y \in T /\ b - y \in Nat /\ x \in Nat
      BY <1>1
    <2>2. ~(b - y < x)
      BY <1>3, <2>1 DEF R
    <2> QED BY <1>4, <2>1, <2>2
  <1> QED BY <1>5 DEF Max

\* The record of the interface is one of its index, its name and its alias.
LEMMA MineIs == /\ Mine \in LinkRecord /\ Mine.index = Own.index /\ Mine # NoRecord
                /\ IsRelevant(Mine) /\ Matches(Mine) /\ \A r : Matches(r) <=> r = Mine
  <1>1. Mine \in LinkRecord /\ Mine.index = Own.index /\ Mine.name = Own.name
    BY OwnAssumption DEF Mine, LinkRecord
  <1>2. Mine # NoRecord
    <2>1. NoRecord.index = 0 /\ 0 \notin Indices
      BY IndicesAssumption DEF NoRecord
    <2> QED BY <1>1, <2>1, OwnAssumption
  <1>3. IsRelevant(Mine)
    BY <1>1 DEF IsRelevant
  <1>4. \A r : Matches(r) <=> r = Mine
    BY DEF Matches, Mine
  <1> QED BY <1>1, <1>2, <1>3, <1>4

\* The interface is there and unique when its index has its record and no other link is
\* relevant (network_sidebar_amneziawg_link_guard_check).
LEMMA HoldsMeans ==
  ASSUME NEW L, Table(L)
  PROVE  Holds(L) <=> /\ L[Own.index] = Mine
                      /\ \A j \in Indices : L[j] # NoRecord /\ IsRelevant(L[j]) => L[j] = Mine
  <1>1. \A r : r \in Present(L) <=> \E j \in Indices : r = L[j] /\ L[j] # NoRecord
    BY DEF Present
  <1>2. Holds(L) <=> {r \in Present(L) : IsRelevant(r)} = {Mine}
    BY DEF Holds, Mine
  <1>3. \A j \in Indices : L[j] # NoRecord => L[j].index = j
    BY DEF Table
  <1>4. ASSUME Holds(L)
        PROVE  /\ L[Own.index] = Mine
               /\ \A j \in Indices : L[j] # NoRecord /\ IsRelevant(L[j]) => L[j] = Mine
    <2>1. \A r : r \in Present(L) /\ IsRelevant(r) <=> r = Mine
      BY <1>2, <1>4
    <2>2. PICK j \in Indices : Mine = L[j] /\ L[j] # NoRecord
      BY <2>1, <1>1
    <2>3. j = Own.index
      BY <2>2, <1>3, MineIs
    <2> QED BY <1>1, <2>1, <2>2, <2>3
  <1>5. ASSUME L[Own.index] = Mine,
               \A j \in Indices : L[j] # NoRecord /\ IsRelevant(L[j]) => L[j] = Mine
        PROVE  Holds(L)
    <2>1. Mine \in Present(L)
      BY <1>1, <1>5, MineIs, OwnAssumption
    <2>2. \A r : r \in Present(L) /\ IsRelevant(r) => r = Mine
      BY <1>1, <1>5
    <2> QED BY <1>2, <2>1, <2>2, MineIs
  <1> QED BY <1>4, <1>5

-----------------------------------------------------------------------------
(* Notifications in the socket.                                              *)

\* A new notification keeps the ones that wait.
LEMMA AppendKeeps ==
  ASSUME NEW q \in Seq(Events), NEW e \in Events
  PROVE  /\ Append(q, e) \in Seq(Events)
         /\ \A k \in 1 .. Len(q) : k \in 1 .. Len(Append(q, e)) /\ Append(q, e)[k] = q[k]
         /\ \E k \in 1 .. Len(Append(q, e)) : Append(q, e)[k] = e
  <1>1. /\ Append(q, e) \in Seq(Events) /\ Len(Append(q, e)) = Len(q) + 1 /\ Len(q) \in Nat
        /\ \A k \in 1 .. Len(q) : Append(q, e)[k] = q[k]
        /\ Append(q, e)[Len(q) + 1] = e
    BY AppendProperties, LenProperties
  <1>2. Len(q) + 1 \in 1 .. Len(Append(q, e))
    BY <1>1
  <1> QED BY <1>1, <1>2

\* Reading a notification keeps the others.
LEMMA TailKeeps ==
  ASSUME NEW q \in Seq(Events), q # <<>>
  PROVE  /\ Tail(q) \in Seq(Events) /\ Head(q) \in Events
         /\ \A k \in 1 .. Len(q) : \/ q[k] = Head(q)
                                   \/ \E m \in 1 .. Len(Tail(q)) : Tail(q)[m] = q[k]
  <1>1. /\ Tail(q) \in Seq(Events) /\ Head(q) \in Events /\ Len(Tail(q)) = Len(q) - 1
        /\ \A m \in 1 .. Len(Tail(q)) : Tail(q)[m] = q[m + 1]
    BY HeadTailProperties
  <1>2. Len(q) \in Nat /\ Head(q) = q[1]
    BY LenProperties
  <1>3. ASSUME NEW k \in 1 .. Len(q), k # 1
        PROVE  \E m \in 1 .. Len(Tail(q)) : Tail(q)[m] = q[k]
    <2>1. k - 1 \in 1 .. Len(Tail(q)) /\ (k - 1) + 1 = k
      BY <1>1, <1>2, <1>3
    <2> QED BY <1>1, <2>1
  <1> QED BY <1>1, <1>2, <1>3

-----------------------------------------------------------------------------
(* The initial states.                                                       *)

\* The inductive invariant holds at the start.
LEMMA InitHolds ==
  ASSUME Init
  PROVE  IndInv
  <1>1. dump = NoDump /\ cached = NoCache /\ queue = <<>> /\ broken = FALSE
    BY DEF Init
  <1>2. dump.at = 0 /\ ~cached.valid /\ cached.valid \in BOOLEAN
    BY <1>1 DEF NoDump, NoCache
  <1>3. guard \in [pc : {"absent", "none"}, ever : {FALSE}]
    BY DEF Init
  <1>4. guard.pc \in {"absent", "none"} /\ guard.ever = FALSE
    BY <1>3
  <1>5. LinkTypes
    <2>1. dump \in [at : Nat, got : SUBSET LinkRecord, intr : BOOLEAN] /\ dump.got = {}
      BY <1>1 DEF NoDump
    <2>2. IsFiniteSet(dump.got)
      BY <2>1, FS_EmptySet
    <2>3. queue \in Seq(Events)
      BY <1>1, EmptySeq
    <2>4. guard \in [pc : {"absent", "none", "drain1", "dump", "drain2", "trusted", "invalid"},
                     ever : BOOLEAN]
      BY <1>3
    <2> QED BY <1>1, <1>2, <2>1, <2>2, <2>3, <2>4 DEF LinkTypes, Init
  <1>6. Roles
    BY <1>1, <1>2, <1>4 DEF Roles
  <1>7. DumpFollows
    BY <1>2, IndicesAssumption DEF DumpFollows
  <1>8. CacheFollows /\ GuardFollows
    BY <1>2, <1>4 DEF CacheFollows, GuardFollows
  <1>9. NamesDiffer
    BY DEF NamesDiffer, Init
  <1> QED BY <1>5, <1>6, <1>7, <1>8, <1>9 DEF IndInv

-----------------------------------------------------------------------------
(* What the kernel does.                                                     *)

\* No link but i has the name.
IsNew(i, name) == \A j \in Indices : j # i /\ links[j] # NoRecord => links[j].name # name

\* Link i becomes r, and the socket gets notification e of it.
Change(i, r, e) ==
  /\ i \in Indices /\ r \in {NoRecord} \cup LinkRecord /\ (r # NoRecord => r.index = i)
  /\ IsNew(i, r.name) \/ r = NoRecord
  /\ links' = [links EXCEPT ![i] = r]
  /\ e \in Events /\ queue' = Append(queue, e)
  /\ \/ e.kind = "error"
     \/ r = NoRecord /\ e.kind = "del" /\ e.link = links[i] /\ e.link.index = i
     \/ r # NoRecord /\ e.kind = "new" /\ e.link = r
     \/ r # NoRecord /\ e.kind = "new" /\ r = links[i] /\ e.link = [NoRecord EXCEPT !.index = i]
  /\ dump' \in [at : {dump.at}, got : {dump.got}, intr : BOOLEAN]
  /\ broken' = (broken \/ (guard.ever /\ ~Holds(links')))
  /\ UNCHANGED <<cached, guard>>

\* A change of a link in the kernel's table, with its notification or with an error in
\* place of it when the socket is full.
LEMMA KernelChanges ==
  ASSUME LinkTypes, NEW i \in Indices, NEW r \in {NoRecord} \cup LinkRecord,
         r # NoRecord => r.index = i, IsNew(i, r.name) \/ r = NoRecord,
         NEW L, L = [links EXCEPT ![i] = r],
         NEW kind, NEW link \in LinkRecord \cup {[NoRecord EXCEPT !.index = i]},
         \/ r = NoRecord /\ kind = "del" /\ link = links[i] /\ link.index = i
         \/ r # NoRecord /\ kind = "new" /\ link = r
         \/ /\ r # NoRecord /\ kind = "new" /\ r = links[i]
            /\ link = [NoRecord EXCEPT !.index = i],
         NEW listed \in BOOLEAN, Kernel(L, kind, link, listed)
  PROVE  \E e : Change(i, r, e)
  <1>1. PICK full \in BOOLEAN :
          queue' = Append(queue, [kind |-> IF full THEN "error" ELSE kind, link |-> link])
    BY DEF Kernel
  <1> DEFINE e == [kind |-> IF full THEN "error" ELSE kind, link |-> link]
  <1>2. kind \in {"del", "new"}
    OBVIOUS
  <1>3. e \in Events /\ e.link = link /\ (e.kind = "error" \/ e.kind = kind)
    BY <1>2 DEF Events
  <1>4. dump' \in [at : {dump.at}, got : {dump.got}, intr : BOOLEAN]
    <2>1. dump \in [at : Nat, got : SUBSET LinkRecord, intr : BOOLEAN]
      BY DEF LinkTypes
    <2>2. dump' = dump \/ dump' = [dump EXCEPT !.intr = TRUE]
      BY DEF Kernel
    <2> QED BY <2>1, <2>2
  <1>5. /\ links' = L /\ UNCHANGED <<cached, guard>>
        /\ broken' = (broken \/ (guard.ever /\ ~Holds(L)))
    BY DEF Kernel
  <1> HIDE DEF e
  <1>6. queue' = Append(queue, e)
    BY <1>1 DEF e
  <1>7. \/ e.kind = "error"
        \/ r = NoRecord /\ e.kind = "del" /\ e.link = links[i] /\ e.link.index = i
        \/ r # NoRecord /\ e.kind = "new" /\ e.link = r
        \/ r # NoRecord /\ e.kind = "new" /\ r = links[i] /\ e.link = [NoRecord EXCEPT !.index = i]
    BY <1>3
  <1> QED BY <1>3, <1>4, <1>5, <1>6, <1>7 DEF Change

\* Every step of the kernel is a change of one link.
LEMMA KernelStepChanges ==
  ASSUME LinkTypes, NamesDiffer, KernelStep
  PROVE  \E i, r, e : Change(i, r, e)
  <1>1. /\ links \in [Indices -> {NoRecord} \cup LinkRecord]
        /\ \A j \in Indices : links[j] # NoRecord => links[j] \in LinkRecord /\ links[j].index = j
    BY DEF LinkTypes
  <1>2. NoRecord.index = 0 /\ 0 \notin Indices
    BY IndicesAssumption DEF NoRecord
  <1>3. PICK i \in Indices :
          \/ Delete(i) \/ Noise(i)
          \/ \E n \in Names : Create(i, n) \/ Rename(i, n)
          \/ \E a \in Aliases \cup {NoAlias} : SetAlias(i, a)
    BY DEF KernelStep
  <1>4. \A r \in LinkRecord : r # NoRecord
    BY <1>2 DEF LinkRecord
  <1>5. CASE Delete(i)
    BY <1>1, <1>5, KernelChanges DEF Delete
  <1>6. CASE Noise(i)
    <2>1. links[i] \in LinkRecord /\ links[i].index = i /\ links = [links EXCEPT ![i] = links[i]]
      BY <1>1, <1>6 DEF Noise
    <2>2. PICK q \in {links[i], [NoRecord EXCEPT !.index = i]} : Kernel(links, "new", q, FALSE)
      BY <1>6 DEF Noise
    <2>3. IsNew(i, links[i].name)
      BY <1>4, <2>1 DEF NamesDiffer, IsNew
    <2> QED BY <1>4, <2>1, <2>2, <2>3, KernelChanges
  <1>7. ASSUME NEW n \in Names, Create(i, n)
        PROVE  \E r, e : Change(i, r, e)
    <2> DEFINE r == [index |-> i, name |-> n, alias |-> NoAlias]
    <2>1. r \in LinkRecord /\ r.index = i
      BY DEF LinkRecord
    <2>2. Kernel([links EXCEPT ![i] = r], "new", r, TRUE)
      BY <1>7 DEF Create
    <2>3. IsNew(i, r.name)
      BY <1>7 DEF Create, Free, IsNew
    <2> HIDE DEF r
    <2> QED BY <1>4, <2>1, <2>2, <2>3, KernelChanges
  <1>8. ASSUME NEW n \in Names, Rename(i, n)
        PROVE  \E r, e : Change(i, r, e)
    <2> DEFINE r == [links[i] EXCEPT !.name = n]
    <2>1. links[i] \in LinkRecord /\ links[i].index = i
      BY <1>1, <1>8 DEF Rename
    <2>2. r \in LinkRecord /\ r.index = i
      BY <2>1 DEF LinkRecord
    <2>3. Kernel([links EXCEPT ![i] = r], "new", r, FALSE)
      BY <1>8 DEF Rename
    <2>4. IsNew(i, r.name)
      BY <1>8, <2>1 DEF Rename, Free, IsNew, LinkRecord
    <2> HIDE DEF r
    <2> QED BY <1>4, <2>2, <2>3, <2>4, KernelChanges
  <1>9. ASSUME NEW a \in Aliases \cup {NoAlias}, SetAlias(i, a)
        PROVE  \E r, e : Change(i, r, e)
    <2> DEFINE r == [links[i] EXCEPT !.alias = a]
    <2>1. links[i] \in LinkRecord /\ links[i].index = i
      BY <1>1, <1>9 DEF SetAlias
    <2>2. r \in LinkRecord /\ r.index = i
      BY <2>1 DEF LinkRecord
    <2>3. Kernel([links EXCEPT ![i] = r], "new", r, FALSE)
      BY <1>9 DEF SetAlias
    <2>4. IsNew(i, r.name)
      <3>1. r.name = links[i].name
        BY <2>1 DEF LinkRecord
      <3> QED BY <1>4, <2>1, <3>1 DEF NamesDiffer, IsNew
    <2> HIDE DEF r
    <2> QED BY <1>4, <2>2, <2>3, <2>4, KernelChanges
  <1> QED BY <1>3, <1>5, <1>6, <1>7, <1>8, <1>9

\* A change of a link keeps the types.
LEMMA ChangeKeepsTypes ==
  ASSUME LinkTypes, Roles, NEW i, NEW r, NEW e, Change(i, r, e)
  PROVE  LinkTypes' /\ Roles'
  <1>1. links' \in [Indices -> {NoRecord} \cup LinkRecord]
    BY DEF LinkTypes, Change
  <1>2. \A j \in Indices : links'[j] # NoRecord => links'[j].index = j
    BY DEF LinkTypes, Change
  <1>3. queue' \in Seq(Events)
    BY AppendKeeps DEF LinkTypes, Change
  <1>4. dump'.at = dump.at /\ dump'.got = dump.got
    BY DEF Change
  <1>5. dump' \in [at : Nat, got : SUBSET LinkRecord, intr : BOOLEAN]
    <2>1. dump.at \in Nat /\ dump.got \in SUBSET LinkRecord
      BY DEF LinkTypes
    <2> QED BY <2>1 DEF Change
  <1>6. broken' \in BOOLEAN /\ UNCHANGED <<cached, guard>> /\ (~guard.ever => broken' = broken)
    BY DEF LinkTypes, Change
  <1>7. LinkTypes'
    BY <1>1, <1>2, <1>3, <1>4, <1>5, <1>6 DEF LinkTypes
  <1>8. Roles'
    BY <1>4, <1>6 DEF Roles, Observes
  <1> QED BY <1>7, <1>8

\* A link gets a name that no other has.
LEMMA ChangeKeepsNames ==
  ASSUME LinkTypes, NamesDiffer, NEW i, NEW r, NEW e, Change(i, r, e)
  PROVE  NamesDiffer'
  <1>1. /\ i \in Indices /\ links' = [links EXCEPT ![i] = r] /\ (IsNew(i, r.name) \/ r = NoRecord)
        /\ links \in [Indices -> {NoRecord} \cup LinkRecord]
    BY DEF LinkTypes, Change
  <1>2. links'[i] = r /\ \A j \in Indices : j # i => links'[j] = links[j]
    BY <1>1
  <1> QED BY <1>1, <1>2 DEF NamesDiffer, IsNew

\* What a dump has read stays, and what has changed since is in the socket.
LEMMA ChangeKeepsDump ==
  ASSUME LinkTypes, DumpFollows, NEW i, NEW r, NEW e, Change(i, r, e)
  PROVE  DumpFollows'
  <1>1. /\ dump'.at = dump.at /\ dump'.got = dump.got /\ i \in Indices
        /\ links \in [Indices -> {NoRecord} \cup LinkRecord] /\ links' = [links EXCEPT ![i] = r]
    BY DEF Change, LinkTypes
  <1>2. /\ queue \in Seq(Events) /\ e \in Events /\ queue' = Append(queue, e)
    BY DEF Change, LinkTypes
  <1>3. /\ \A k \in 1 .. Len(queue) : k \in 1 .. Len(queue') /\ queue'[k] = queue[k]
        /\ \E k \in 1 .. Len(queue') : queue'[k] = e
    BY <1>2, AppendKeeps
  <1>4. ASSUME NEW j \in Indices, j < dump'.at
        PROVE  WasRead(j)' \/ \E k \in 1 .. Len(queue') : TellsOf(queue[k], j)'
    <2>1. WasRead(j) \/ \E k \in 1 .. Len(queue) : TellsOf(queue[k], j)
      BY <1>1, <1>4 DEF DumpFollows
    <2>2. CASE links'[j] = links[j]
      <3>1. WasRead(j) => WasRead(j)'
        BY <1>1, <2>2 DEF WasRead
      <3>2. \A k \in 1 .. Len(queue) : TellsOf(queue[k], j) => TellsOf(queue[k], j)'
        BY <1>3, <2>2 DEF TellsOf
      <3> QED BY <1>3, <2>1, <3>1, <3>2
    <2>3. CASE links'[j] # links[j]
      <3>1. j = i /\ links'[j] = r /\ r # links[i]
        BY <1>1, <2>3
      <3>2. \/ e.kind = "error"
            \/ r = NoRecord /\ e.kind = "del" /\ e.link.index = j
            \/ r # NoRecord /\ e.kind = "new" /\ e.link = r /\ e.link.index = j
        BY <3>1 DEF Change
      <3>3. PICK k \in 1 .. Len(queue') : queue'[k] = e
        BY <1>3
      <3>4. TellsOf(queue[k], j)'
        BY <3>1, <3>2, <3>3 DEF TellsOf
      <3> QED BY <3>4
    <2> QED BY <2>2, <2>3
  <1> QED BY <1>4 DEF DumpFollows

\* A notification that does not matter to the observation is one of a link that is not
\* part of it, before and after the change.
LEMMA ChangeKeepsCache ==
  ASSUME LinkTypes, CacheFollows, NEW i, NEW r, NEW e, Change(i, r, e)
  PROVE  CacheFollows'
  <1>1. /\ queue \in Seq(Events) /\ e \in Events /\ queue' = Append(queue, e) /\ cached' = cached
        /\ i \in Indices /\ links' = [links EXCEPT ![i] = r]
        /\ links \in [Indices -> {NoRecord} \cup LinkRecord]
    BY DEF Change, LinkTypes
  <1>2. /\ \A k \in 1 .. Len(queue) : k \in 1 .. Len(queue') /\ queue'[k] = queue[k]
        /\ \E k \in 1 .. Len(queue') : queue'[k] = e
    BY <1>1, AppendKeeps
  <1>3. SUFFICES ASSUME cached.valid
                 PROVE  \/ \E k \in 1 .. Len(queue') : EventMatters(queue'[k], cached.indices)
                        \/ /\ cached.seen = Observe(Present(links'))
                           /\ \A j \in Indices :
                                links'[j] # NoRecord /\ IsOwn(links'[j]) => j \in cached.indices
    BY <1>1 DEF CacheFollows
  <1>4. CASE \E k \in 1 .. Len(queue) : EventMatters(queue[k], cached.indices)
    BY <1>2, <1>4
  <1>5. CASE EventMatters(e, cached.indices)
    BY <1>2, <1>5
  <1>6. ASSUME ~EventMatters(e, cached.indices),
               cached.seen = Observe(Present(links)),
               \A j \in Indices : links[j] # NoRecord /\ IsOwn(links[j]) => j \in cached.indices
        PROVE  /\ cached.seen = Observe(Present(links'))
               /\ \A j \in Indices :
                    links'[j] # NoRecord /\ IsOwn(links'[j]) => j \in cached.indices
    <2>1. /\ e.kind # "error" /\ e.link.index \notin cached.indices
          /\ ~IsOwn(e.link)
      BY <1>6 DEF EventMatters, IsOwn
    <2>2. e.link.index = i
      <3>1. links[i] # NoRecord => links[i].index = i
        BY <1>1 DEF LinkTypes
      <3>2. [NoRecord EXCEPT !.index = i].index = i
        BY DEF NoRecord
      <3> QED BY <2>1, <3>1, <3>2 DEF Change
    <2>3. links[i] # NoRecord => ~IsOwn(links[i])
      BY <1>1, <1>6, <2>1, <2>2
    <2>4. r # NoRecord => ~IsOwn(r)
      <3>1. r # NoRecord => e.link = r \/ r = links[i]
        BY <2>1 DEF Change
      <3> QED BY <2>1, <2>3, <3>1
    <2>5. links'[i] = r /\ \A j \in Indices : j # i => links'[j] = links[j]
      BY <1>1
    <2>6. SameOwn(Present(links), Present(links'))
      <3>1. /\ \A q : q \in Present(links) <=> \E j \in Indices : q = links[j] /\ links[j] # NoRecord
            /\ \A q : q \in Present(links') <=>
                      \E j \in Indices : q = links'[j] /\ links'[j] # NoRecord
        BY DEF Present
      <3>2. ASSUME NEW q, IsOwn(q), q \in Present(links)
            PROVE  q \in Present(links')
        <4>1. PICK j \in Indices : q = links[j] /\ links[j] # NoRecord
          BY <3>1, <3>2
        <4>2. j # i
          BY <2>3, <3>2, <4>1
        <4> QED BY <2>5, <3>1, <4>1, <4>2
      <3>3. ASSUME NEW q, IsOwn(q), q \in Present(links')
            PROVE  q \in Present(links)
        <4>1. PICK j \in Indices : q = links'[j] /\ links'[j] # NoRecord
          BY <3>1, <3>3
        <4>2. j # i
          BY <2>4, <2>5, <3>3, <4>1
        <4> QED BY <2>5, <3>1, <4>1, <4>2
      <3> QED BY <3>2, <3>3 DEF SameOwn
    <2>7. Observe(Present(links)) = Observe(Present(links'))
      BY <2>6, ObserveSees
    <2> QED BY <1>6, <2>4, <2>5, <2>7
  <1> QED BY <1>3, <1>4, <1>5, <1>6 DEF CacheFollows

\* A notification that does not contradict the identity is one of another link, or of the
\* interface as it is.
LEMMA ChangeKeepsGuard ==
  ASSUME LinkTypes, Roles, GuardFollows, NEW i, NEW r, NEW e, Change(i, r, e)
  PROVE  GuardFollows'
  <1>1. /\ queue \in Seq(Events) /\ e \in Events /\ queue' = Append(queue, e) /\ guard' = guard
        /\ i \in Indices /\ links' = [links EXCEPT ![i] = r]
        /\ broken' = (broken \/ (guard.ever /\ ~Holds(links')))
    BY DEF Change, LinkTypes
  <1>2. /\ \A k \in 1 .. Len(queue) : k \in 1 .. Len(queue') /\ queue'[k] = queue[k]
        /\ \E k \in 1 .. Len(queue') : queue'[k] = e
    BY <1>1, AppendKeeps
  <1>3. Table(links)
    BY DEF LinkTypes, Table
  <1>4. Table(links')
    BY <1>1, <1>3 DEF Change, Table
  <1>5. ASSUME Holds(links), ~Contradicts(e)
        PROVE  Holds(links')
    <2>1. /\ links[Own.index] = Mine
          /\ \A j \in Indices : links[j] # NoRecord /\ IsRelevant(links[j]) => links[j] = Mine
      BY <1>3, <1>5, HoldsMeans
    <2>2. /\ e.kind # "error" /\ e.link.name # NoRecord.name
          /\ IsRelevant(e.link) => e.kind # "del" /\ Matches(e.link)
      BY <1>5 DEF Contradicts
    <2>3. links'[i] = r /\ \A j \in Indices : j # i => links'[j] = links[j]
      BY <1>1, <1>3 DEF Table
    <2>4. i = Own.index => r = Mine
      <3>1. CASE r = NoRecord /\ e.kind = "del" /\ e.link = links[i] /\ e.link.index = i
        BY <2>2, <3>1 DEF IsRelevant
      <3>2. CASE r # NoRecord /\ e.kind = "new" /\ e.link = r
        <4>1. r.index = i
          BY <3>2 DEF Change
        <4> QED BY <2>2, <3>2, <4>1, MineIs DEF IsRelevant
      <3>3. CASE r = links[i]
        BY <2>1, <3>3
      <3> QED BY <2>2, <3>1, <3>2, <3>3 DEF Change
    <2>5. r # NoRecord /\ IsRelevant(r) => r = Mine
      <3>1. CASE r # NoRecord /\ e.kind = "new" /\ e.link = r
        BY <2>2, <3>1, MineIs
      <3>2. CASE r = links[i]
        BY <1>1, <2>1, <3>2
      <3> QED BY <2>2, <3>1, <3>2 DEF Change
    <2>6. links'[Own.index] = Mine
      BY <2>1, <2>3, <2>4, OwnAssumption
    <2>7. \A j \in Indices : links'[j] # NoRecord /\ IsRelevant(links'[j]) => links'[j] = Mine
      BY <2>1, <2>3, <2>5
    <2> QED BY <1>4, <2>6, <2>7, HoldsMeans
  <1>6. CASE \E k \in 1 .. Len(queue) : Contradicts(queue[k])
    BY <1>2, <1>6 DEF GuardFollows
  <1>7. CASE Contradicts(e)
    BY <1>2, <1>7 DEF GuardFollows
  <1>8. CASE ~Contradicts(e) /\ ~\E k \in 1 .. Len(queue) : Contradicts(queue[k])
    <2>1. Holds(links) /\ ~broken => Holds(links') /\ ~broken'
      BY <1>1, <1>5, <1>8
    <2> QED BY <1>1, <1>8, <2>1 DEF GuardFollows
  <1> QED BY <1>6, <1>7, <1>8

-----------------------------------------------------------------------------
(* Dumps.                                                                    *)

\* A dump that is read or begins.
Dumping == [at : Nat, got : SUBSET LinkRecord, intr : BOOLEAN]

\* No dump is one that has read nothing.
LEMMA NoDumpIs ==
  /\ NoDump \in Dumping /\ NoDump.at = 0 /\ NoDump.got = {}
  /\ [NoDump EXCEPT !.at = 1] \in Dumping
  /\ [NoDump EXCEPT !.at = 1].at = 1 /\ [NoDump EXCEPT !.at = 1].got = {}
  BY DEF NoDump, Dumping

\* A new dump has read no link yet (link_snapshot_read_until).
LEMMA DumpBegins ==
  ASSUME IndInv, dump' = [NoDump EXCEPT !.at = 1] \/ dump' = NoDump,
         UNCHANGED links, queue' \in Seq(Events),
         UNCHANGED broken \/ broken' = FALSE, cached'.valid \in BOOLEAN,
         guard' \in [pc : {"absent", "none", "drain1", "dump", "drain2", "trusted", "invalid"},
                     ever : BOOLEAN]
  PROVE  LinkTypes' /\ DumpFollows'
  <1>1. dump' \in Dumping /\ dump'.got = {} /\ dump'.at \in {0, 1}
    BY NoDumpIs
  <1>2. IsFiniteSet(dump'.got)
    BY <1>1, FS_EmptySet
  <1>3. \A i \in Indices : ~(i < dump'.at)
    BY <1>1, IndicesAssumption
  <1>4. DumpFollows'
    BY <1>3 DEF DumpFollows
  <1>5. /\ links' \in [Indices -> {NoRecord} \cup LinkRecord]
        /\ \A i \in Indices : links'[i] # NoRecord => links'[i].index = i
    BY DEF IndInv, LinkTypes
  <1>6. broken' \in BOOLEAN
    BY DEF IndInv, LinkTypes
  <1> QED BY <1>1, <1>2, <1>4, <1>5, <1>6 DEF LinkTypes, Dumping

\* Programs do not rename links.
LEMMA NamesStay ==
  ASSUME IndInv, UNCHANGED links
  PROVE  NamesDiffer'
  BY DEF IndInv, NamesDiffer

\* A step of a dump reads the link as it is.
LEMMA DumpStepKeeps ==
  ASSUME IndInv, DumpStep
  PROVE  IndInv'
  <1>1. /\ dump.at # 0 /\ dump' = ReadLink(dump)
        /\ UNCHANGED <<links, queue, cached, guard, broken>>
    BY DEF DumpStep
  <1>2. dump \in Dumping /\ IsFiniteSet(dump.got) /\ \A r \in dump.got : r.index < dump.at
    BY DEF IndInv, LinkTypes, Dumping
  <1>3. /\ links \in [Indices -> {NoRecord} \cup LinkRecord]
        /\ \A i \in Indices : links[i] # NoRecord => links[i].index = i
    BY DEF IndInv, LinkTypes
  <1> DEFINE at == dump.at
             new == IF at \in Indices /\ links[at] # NoRecord THEN {links[at]} ELSE {}
  <1>4. /\ at \in Nat /\ dump.got \subseteq LinkRecord /\ dump.intr \in BOOLEAN
    BY <1>2 DEF Dumping
  <1>5. dump' = [at |-> at + 1, got |-> dump.got \cup new, intr |-> dump.intr]
    <2>1. dump = [at |-> dump.at, got |-> dump.got, intr |-> dump.intr]
      BY <1>2 DEF Dumping
    <2>2. dump.got \cup new = IF at \in Indices /\ links[at] # NoRecord
                               THEN dump.got \cup {links[at]} ELSE dump.got
      OBVIOUS
    <2> QED BY <1>1, <2>1, <2>2 DEF ReadLink
  <1>6. new \subseteq LinkRecord /\ IsFiniteSet(dump.got \cup new) /\ \A r \in new : r.index = at
    <2>1. CASE at \in Indices /\ links[at] # NoRecord
      BY <1>2, <1>3, <2>1, FS_AddElement
    <2>2. CASE ~(at \in Indices /\ links[at] # NoRecord)
      BY <1>2, <2>2
    <2> QED BY <2>1, <2>2
  <1>7. \A r \in LinkRecord : r.index \in Nat
    BY IndicesAssumption DEF LinkRecord
  <1> DEFINE got == dump.got \cup new
  <1>8. dump'.at = at + 1 /\ dump'.got = got /\ dump' \in Dumping
    BY <1>4, <1>5, <1>6 DEF Dumping
  <1>9. LinkTypes'
    <2>1. \A r \in got : r.index < at + 1
      BY <1>2, <1>4, <1>6, <1>7
    <2>2. /\ dump' \in Dumping /\ IsFiniteSet(dump'.got) /\ \A r \in dump'.got : r.index < dump'.at
      BY <1>6, <1>8, <2>1
    <2> QED BY <1>1, <2>2 DEF IndInv, LinkTypes, Dumping
  <1>10. Roles'
    <2>1. dump.at # 0 => dump'.at # 0
      BY <1>4, <1>8
    <2> QED BY <1>1, <2>1 DEF IndInv, Roles, Observes
  <1>11. DumpFollows'
    <2>1. ASSUME NEW i \in Indices, i < at + 1
          PROVE  WasRead(i)' \/ \E k \in 1 .. Len(queue') : TellsOf(queue[k], i)'
      <3>1. CASE i < at
        <4>1. \A r : r \in new => r.index # i
          BY <1>4, <1>6, <3>1, IndicesAssumption
        <4>2. {r \in got : r.index = i} = {r \in dump.got : r.index = i}
          BY <4>1
        <4>3. WasRead(i) => WasRead(i)'
          BY <1>1, <1>8, <4>2 DEF WasRead
        <4>4. \A k \in 1 .. Len(queue) : TellsOf(queue[k], i) => TellsOf(queue[k], i)'
          BY <1>1 DEF TellsOf
        <4> QED BY <1>1, <3>1, <4>3, <4>4 DEF IndInv, DumpFollows
      <3>2. CASE i = at
        <4>1. \A r \in dump.got : r.index # i
          BY <1>2, <1>4, <1>7, <3>2
        <4>2. {r \in got : r.index = i} = new
          BY <1>6, <3>2, <4>1
        <4>3. WasRead(i)'
          BY <1>1, <1>8, <3>2, <4>2 DEF WasRead
        <4> QED BY <4>3
      <3>3. i < at \/ i = at
        BY <1>4, <2>1, IndicesAssumption
      <3> QED BY <3>1, <3>2, <3>3
    <2> QED BY <1>8, <2>1 DEF DumpFollows
  <1>12. CacheFollows' /\ GuardFollows'
    <2>1. CacheFollows /\ GuardFollows
      BY DEF IndInv
    <2> QED BY <1>1, <2>1 DEF CacheFollows, GuardFollows
  <1> QED BY <1>1, NamesStay, <1>9, <1>10, <1>11, <1>12 DEF IndInv

\* A complete dump holds exactly the links of the program's interest that are there, where
\* no notification that waits says otherwise.
LEMMA DumpShows ==
  ASSUME IndInv, dump.at # 0, DumpDone(dump), NEW i \in Indices
  PROVE  \/ /\ links[i] # NoRecord => links[i] \in dump.got
            /\ \A r \in dump.got : r.index = i => r = links[i] /\ links[i] # NoRecord
         \/ \E k \in 1 .. Len(queue) : TellsOf(queue[k], i)
  <1>1. WasRead(i) \/ \E k \in 1 .. Len(queue) : TellsOf(queue[k], i)
    BY DEF DumpDone, IndInv, DumpFollows
  <1>2. ASSUME WasRead(i)
        PROVE  /\ links[i] # NoRecord => links[i] \in dump.got
               /\ \A r \in dump.got : r.index = i => r = links[i] /\ links[i] # NoRecord
    <2>1. CASE links[i] = NoRecord
      <3>1. {r \in dump.got : r.index = i} = {}
        BY <1>2, <2>1 DEF WasRead
      <3> QED BY <2>1, <3>1
    <2>2. CASE links[i] # NoRecord
      <3>1. {r \in dump.got : r.index = i} = {links[i]}
        BY <1>2, <2>2 DEF WasRead
      <3>2. \A r : r \in dump.got /\ r.index = i <=> r = links[i]
        BY <3>1
      <3> QED BY <2>2, <3>2
    <2> QED BY <2>1, <2>2
  <1> QED BY <1>1, <1>2

-----------------------------------------------------------------------------
(* The cached observation.                                                   *)

\* The sidebar reads no dump of the guard and the helper has no observation, so the other
\* side's part of the invariant holds.
LEMMA SidebarHasNoGuard ==
  ASSUME LinkTypes, Roles, Observes
  PROVE  ~guard.ever /\ guard.pc = "absent"
  BY DEF Roles, Observes

\* A snapshot begins with no observation (scan_runtime).
LEMMA ObserveStartKeeps ==
  ASSUME IndInv, ObserveStart
  PROVE  IndInv'
  <1>1. /\ UNCHANGED <<links, queue, cached, guard, broken>> /\ ~cached.valid /\ Observes
        /\ dump' = [NoDump EXCEPT !.at = 1]
    BY DEF ObserveStart
  <1>2. LinkTypes' /\ DumpFollows'
    <2>1. queue \in Seq(Events) /\ cached.valid \in BOOLEAN
      BY DEF IndInv, LinkTypes
    <2>2. guard \in [pc : {"absent", "none", "drain1", "dump", "drain2", "trusted", "invalid"},
                     ever : BOOLEAN]
      BY DEF IndInv, LinkTypes
    <2> QED BY <1>1, <2>1, <2>2, DumpBegins
  <1>3. Roles'
    BY <1>1 DEF IndInv, Roles, Observes
  <1>4. CacheFollows' /\ GuardFollows'
    BY <1>1 DEF IndInv, CacheFollows, GuardFollows
  <1> QED BY <1>1, NamesStay, <1>2, <1>3, <1>4 DEF IndInv

\* What a complete dump shows of the links is what an observation of them would show now,
\* unless a notification that matters to the new filter waits: the filter tracks the links
\* with the alias, and of those that were read with the name the last, which has it still
\* and alone (network_sidebar_amneziawg_link_event_filter_add).
LEMMA SnapshotIsCurrent ==
  ASSUME IndInv, dump.at # 0, DumpDone(dump),
         ~\E k \in 1 .. Len(queue) : EventMatters(queue[k], FilterIndices(dump.got))
  PROVE  /\ Observe(dump.got) = Observe(Present(links))
         /\ \A j \in Indices :
              links[j] # NoRecord /\ IsOwn(links[j]) => j \in FilterIndices(dump.got)
  <1> DEFINE Named(R) == {r.index : r \in {q \in R : q.name = Own.name}}
  <1>1. dump.got \subseteq LinkRecord /\ dump.at \in Nat /\ \A r \in dump.got : r.index < dump.at
    BY DEF IndInv, LinkTypes
  <1>2. \A i \in Indices : links[i] # NoRecord => links[i].index = i
    BY DEF IndInv, LinkTypes
  <1>3. \A q : q \in Present(links) <=> \E j \in Indices : q = links[j] /\ links[j] # NoRecord
    BY DEF Present
  <1>4. ASSUME NEW r, r.index \in FilterIndices(dump.got), r \in dump.got
        PROVE  r \in Present(links)
    <2>1. r.index \in Indices
      BY <1>1, <1>4 DEF LinkRecord
    <2>2. ~\E k \in 1 .. Len(queue) : TellsOf(queue[k], r.index)
      BY <1>4 DEF TellsOf, EventMatters
    <2>3. r = links[r.index] /\ links[r.index] # NoRecord
      BY <1>4, <2>1, <2>2, DumpShows
    <2> QED BY <1>3, <2>1, <2>3
  <1>5. ASSUME NEW r, IsOwn(r), r \in Present(links)
        PROVE  r \in dump.got
    <2>1. PICK i \in Indices : r = links[i] /\ links[i] # NoRecord
      BY <1>3, <1>5
    <2>2. ~\E k \in 1 .. Len(queue) : TellsOf(queue[k], i)
      BY <1>5, <2>1 DEF TellsOf, EventMatters, IsOwn
    <2> QED BY <2>1, <2>2, DumpShows
  <1>6. \A r \in dump.got : r.alias = Own.alias => r.index \in FilterIndices(dump.got)
    BY DEF FilterIndices
  <1>7. \A R : Observe(R).named = IF Named(R) = {} THEN 0 ELSE Max(Named(R))
    BY DEF Observe
  <1>8. ASSUME Named(dump.got) # {}
        PROVE  /\ Named(Present(links)) = {Max(Named(dump.got))}
               /\ Max(Named(dump.got)) \in FilterIndices(dump.got)
    <2> DEFINE m == Max(Named(dump.got))
    <2>1. Named(dump.got) \subseteq 0 .. dump.at
      <3>1. \A r \in dump.got : r.index \in 0 .. dump.at
        <4>1. \A r \in dump.got : r.index \in Nat
          BY <1>1, IndicesAssumption DEF LinkRecord
        <4> QED BY <1>1, <4>1
      <3> QED BY <3>1
    <2>2. m \in Named(dump.got)
      BY <1>1, <1>8, <2>1, BoundedHasMax
    <2>3. PICK r \in dump.got : r.name = Own.name /\ r.index = m
      BY <2>2
    <2> HIDE DEF m
    <2>4. m \in FilterIndices(dump.got)
      <3>1. m \in Nat \ {0}
        BY <1>1, <2>3, IndicesAssumption DEF LinkRecord
      <3>2. Observe(dump.got).named = m
        BY <1>7, <1>8 DEF m
      <3> QED BY <3>1, <3>2 DEF FilterIndices
    <2>5. r \in Present(links)
      BY <1>4, <2>3, <2>4
    <2>6. m \in Named(Present(links))
      BY <2>3, <2>5
    <2>7. ASSUME NEW q \in Present(links), q.name = Own.name
          PROVE  q.index = m
      <3>1. PICK i \in Indices : q = links[i] /\ links[i] # NoRecord
        BY <1>3, <2>7
      <3>2. PICK j \in Indices : r = links[j] /\ links[j] # NoRecord
        BY <1>3, <2>5
      <3>3. i = j
        BY <2>3, <2>7, <3>1, <3>2 DEF IndInv, NamesDiffer
      <3> QED BY <2>3, <3>1, <3>2, <3>3
    <2> QED BY <2>4, <2>6, <2>7 DEF m
  <1>9. Named(dump.got) = {} => Named(Present(links)) = {}
    BY <1>5 DEF IsOwn
  <1>10. Observe(dump.got).named = Observe(Present(links)).named
    <2>1. CASE Named(dump.got) = {}
      BY <1>7, <1>9, <2>1
    <2>2. CASE Named(dump.got) # {}
      <3> DEFINE m == Max(Named(dump.got))
      <3>1. m \in Nat
        <4>1. m \in Named(Present(links))
          BY <1>8, <2>2
        <4> QED BY <1>2, <1>3, <4>1, IndicesAssumption
      <3>2. Max({m}) = m
        BY <3>1 DEF Max
      <3> QED BY <1>7, <1>8, <2>2, <3>2
    <2> QED BY <2>1, <2>2
  <1>11. \A r : r.alias = Own.alias => (r \in dump.got <=> r \in Present(links))
    BY <1>4, <1>5, <1>6 DEF IsOwn
  <1>12. ASSUME NEW j \in Indices, links[j] # NoRecord, IsOwn(links[j])
         PROVE  j \in FilterIndices(dump.got)
    <2>1. links[j] \in Present(links) /\ links[j].index = j
      BY <1>2, <1>3, <1>12
    <2>2. CASE links[j].alias = Own.alias
      BY <1>6, <1>11, <2>1, <2>2
    <2>3. CASE links[j].name = Own.name
      <3>1. j \in Named(Present(links))
        BY <2>1, <2>3
      <3> QED BY <1>8, <1>9, <3>1
    <2> QED BY <1>12, <2>2, <2>3 DEF IsOwn
  <1> HIDE DEF Named
  <1> QED BY <1>10, <1>11, <1>12, ObserveSeesLast

\* Publishing an observation keeps the invariant.
LEMMA ObservePublishKeeps ==
  ASSUME IndInv, ObservePublish
  PROVE  IndInv'
  <1>1. /\ UNCHANGED <<links, queue, guard, broken>> /\ Observes
        /\ dump' = NoDump /\ dump.at # 0 /\ DumpDone(dump)
        /\ cached' = IF dump.intr THEN NoCache
                     ELSE [valid |-> TRUE, seen |-> Observe(dump.got),
                           indices |-> FilterIndices(dump.got)]
    BY DEF ObservePublish
  <1>2. cached'.valid \in BOOLEAN
    <2>1. CASE dump.intr
      BY <1>1, <2>1 DEF NoCache
    <2>2. CASE ~dump.intr
      BY <1>1, <2>2
    <2> QED BY <2>1, <2>2
  <1>3. LinkTypes' /\ DumpFollows'
    <2>1. queue \in Seq(Events)
      BY DEF IndInv, LinkTypes
    <2>2. guard \in [pc : {"absent", "none", "drain1", "dump", "drain2", "trusted", "invalid"},
                     ever : BOOLEAN]
      BY DEF IndInv, LinkTypes
    <2> QED BY <1>1, <1>2, <2>1, <2>2, DumpBegins
  <1>4. Roles'
    BY <1>1, NoDumpIs DEF IndInv, Roles, Observes
  <1>5. GuardFollows'
    BY <1>1, SidebarHasNoGuard DEF IndInv, GuardFollows, Observes
  <1>6. CacheFollows'
    <2>1. CASE dump.intr
      BY <1>1, <2>1 DEF CacheFollows, NoCache
    <2>2. CASE \E k \in 1 .. Len(queue) : EventMatters(queue[k], FilterIndices(dump.got))
      <3>1. CASE ~dump.intr
        <4>1. cached'.indices = FilterIndices(dump.got)
          BY <1>1, <3>1
        <4> QED BY <1>1, <2>2, <4>1 DEF CacheFollows
      <3> QED BY <2>1, <3>1
    <2>3. CASE ~dump.intr /\ ~\E k \in 1 .. Len(queue) :
                                EventMatters(queue[k], FilterIndices(dump.got))
      <3>1. cached'.indices = FilterIndices(dump.got) /\ cached'.seen = Observe(dump.got)
        BY <1>1, <2>3
      <3>2. /\ Observe(dump.got) = Observe(Present(links))
            /\ \A j \in Indices :
                 links[j] # NoRecord /\ IsOwn(links[j]) => j \in FilterIndices(dump.got)
        BY <1>1, <2>3, SnapshotIsCurrent
      <3> QED BY <1>1, <3>1, <3>2 DEF CacheFollows
    <2> QED BY <2>1, <2>2, <2>3
  <1> QED BY <1>1, NamesStay, <1>3, <1>4, <1>5, <1>6 DEF IndInv

\* A notification that is read either does not matter or retires the observation
\* (link_monitor_cb).
LEMMA ObserveEventKeeps ==
  ASSUME IndInv, ObserveEvent
  PROVE  IndInv'
  <1>1. /\ UNCHANGED <<links, guard, broken>> /\ Observes /\ queue # <<>> /\ queue' = Tail(queue)
        /\ cached' = IF cached.valid /\ EventMatters(Head(queue), cached.indices)
                       THEN NoCache ELSE cached
        /\ dump' = IF cached.valid THEN dump ELSE NoDump
    BY DEF ObserveEvent
  <1>2. queue \in Seq(Events) /\ cached.valid \in BOOLEAN /\ (cached.valid => dump.at = 0)
    BY DEF IndInv, LinkTypes, Roles
  <1>3. /\ queue' \in Seq(Events)
        /\ \A k \in 1 .. Len(queue) : \/ queue[k] = Head(queue)
                                      \/ \E m \in 1 .. Len(queue') : queue'[m] = queue[k]
    BY <1>1, <1>2, TailKeeps
  <1>4. /\ ~NoCache.valid /\ NoCache.valid \in BOOLEAN
    BY DEF NoCache
  <1>5. cached'.valid \in BOOLEAN /\ (cached'.valid => cached.valid /\ cached' = cached
                                       /\ ~EventMatters(Head(queue), cached.indices))
    BY <1>1, <1>2, <1>4
  <1>6. LinkTypes' /\ DumpFollows' /\ dump'.at = 0
    <2>1. CASE cached.valid
      <3>1. dump' = dump /\ dump.at = 0
        BY <1>1, <1>2, <2>1
      <3>2. LinkTypes'
        BY <1>1, <1>3, <1>5, <3>1 DEF IndInv, LinkTypes
      <3>3. DumpFollows'
        BY <3>1, IndicesAssumption DEF DumpFollows
      <3> QED BY <3>1, <3>2, <3>3
    <2>2. CASE ~cached.valid
      <3>1. guard \in [pc : {"absent", "none", "drain1", "dump", "drain2", "trusted", "invalid"},
                       ever : BOOLEAN]
        BY DEF IndInv, LinkTypes
      <3> QED BY <1>1, <1>3, <1>5, <2>2, <3>1, DumpBegins, NoDumpIs
    <2> QED BY <2>1, <2>2
  <1>7. Roles'
    BY <1>1, <1>5, <1>6 DEF IndInv, Roles, Observes
  <1>8. GuardFollows'
    BY <1>1, SidebarHasNoGuard DEF IndInv, GuardFollows, Observes
  <1>9. CacheFollows'
    <2>1. CASE cached'.valid /\ \E k \in 1 .. Len(queue) : EventMatters(queue[k], cached.indices)
      BY <1>3, <1>5, <2>1 DEF CacheFollows
    <2>2. CASE cached'.valid /\ ~\E k \in 1 .. Len(queue) :
                                   EventMatters(queue[k], cached.indices)
      BY <1>1, <1>5, <2>2 DEF IndInv, CacheFollows
    <2>3. CASE ~cached'.valid
      BY <2>3 DEF CacheFollows
    <2> QED BY <2>1, <2>2, <2>3
  <1> QED BY <1>1, NamesStay, <1>6, <1>7, <1>8, <1>9 DEF IndInv

-----------------------------------------------------------------------------
(* The guard.                                                                *)

GuardSteps   == {"absent", "none", "drain1", "dump", "drain2", "trusted", "invalid"}
GuardRecords == [pc : GuardSteps, ever : BOOLEAN]

\* The guard goes from one step to another.
LEMMA GuardGoes ==
  ASSUME guard \in GuardRecords, NEW p \in GuardSteps, guard' = [guard EXCEPT !.pc = p]
  PROVE  guard' \in GuardRecords /\ guard'.pc = p /\ guard'.ever = guard.ever
  BY DEF GuardRecords

\* A step of the helper, which has no observation, and reads a dump only for the guard.
HelperStep ==
  /\ ~Observes /\ UNCHANGED <<links, cached>>
  /\ guard' \in GuardRecords /\ guard'.pc # "absent"
  /\ queue' \in Seq(Events) /\ (UNCHANGED broken \/ broken' = FALSE)
  /\ \/ guard.pc # "dump" /\ guard'.pc # "dump" /\ UNCHANGED dump
     \/ guard'.pc # "dump" /\ dump' = NoDump
     \/ guard'.pc = "dump" /\ dump' = [NoDump EXCEPT !.at = 1]
  /\ guard'.pc = "none" => ~guard'.ever
  /\ guard'.pc = "trusted" => guard'.ever
  /\ ~guard'.ever => ~broken'

\* A step of the helper keeps everything but what the guard promises.
LEMMA HelperStepKeeps ==
  ASSUME IndInv, HelperStep
  PROVE  LinkTypes' /\ NamesDiffer' /\ Roles' /\ DumpFollows' /\ CacheFollows'
  <1>1. /\ ~Observes /\ ~Observes' /\ UNCHANGED <<links, cached>> /\ ~cached.valid
        /\ cached.valid \in BOOLEAN
    BY DEF HelperStep, Observes, IndInv, Roles, LinkTypes
  <1>2. guard' \in [pc : {"absent", "none", "drain1", "dump", "drain2", "trusted", "invalid"},
                    ever : BOOLEAN]
    BY DEF HelperStep, GuardRecords, GuardSteps
  <1>3. CacheFollows' /\ NamesDiffer'
    BY <1>1, NamesStay DEF CacheFollows
  <1>4. CASE guard.pc # "dump" /\ guard'.pc # "dump" /\ UNCHANGED dump
    <2>1. dump.at = 0 /\ dump' = dump
      BY <1>1, <1>4 DEF IndInv, Roles
    <2>2. LinkTypes'
      BY <1>1, <1>2, <2>1 DEF IndInv, LinkTypes, HelperStep
    <2>3. DumpFollows'
      BY <2>1, IndicesAssumption DEF DumpFollows
    <2>4. Roles'
      BY <1>1, <2>1 DEF Roles, HelperStep
    <2> QED BY <1>3, <2>2, <2>3, <2>4
  <1>5. CASE \/ guard'.pc # "dump" /\ dump' = NoDump
             \/ guard'.pc = "dump" /\ dump' = [NoDump EXCEPT !.at = 1]
    <2>1. LinkTypes' /\ DumpFollows'
      BY <1>1, <1>2, <1>5, DumpBegins DEF HelperStep
    <2>2. Roles'
      BY <1>1, <1>5, NoDumpIs DEF Roles, HelperStep
    <2> QED BY <1>3, <2>1, <2>2
  <1> QED BY <1>4, <1>5 DEF HelperStep

\* What is known of the guard's state in every step of it.
LEMMA GuardIs ==
  ASSUME IndInv
  PROVE  /\ guard \in GuardRecords /\ queue \in Seq(Events) /\ <<>> \in Seq(Events)
         /\ guard.pc \in {"absent", "none"} => ~guard.ever
         /\ guard.pc = "trusted" => guard.ever
         /\ ~guard.ever => ~broken
  BY EmptySeq DEF IndInv, LinkTypes, Roles, GuardRecords, GuardSteps

\* A guard that has found the identity broken promises nothing.
LEMMA InvalidKeeps ==
  ASSUME IndInv, ~Observes, UNCHANGED <<links, cached, broken>>, Invalid,
         dump' = NoDump \/ (guard.pc # "dump" /\ UNCHANGED dump)
  PROVE  IndInv'
  <1>1. guard' \in GuardRecords /\ guard'.pc = "invalid" /\ guard'.ever = guard.ever /\ queue' = <<>>
    BY GuardIs, GuardGoes DEF Invalid, GuardSteps
  <1>2. HelperStep
    BY <1>1, GuardIs DEF HelperStep
  <1>3. GuardFollows'
    BY <1>1 DEF GuardFollows
  <1> QED BY <1>2, <1>3, HelperStepKeeps DEF IndInv

\* A new guard has not succeeded yet.
LEMMA GuardNewKeeps ==
  ASSUME IndInv, GuardNew
  PROVE  IndInv'
  <1>1. /\ guard.pc = "none" /\ guard' = [guard EXCEPT !.pc = "drain1"] /\ queue' = <<>>
        /\ UNCHANGED <<links, dump, cached, broken>>
    BY DEF GuardNew
  <1>2. guard' \in GuardRecords /\ guard'.pc = "drain1" /\ ~guard'.ever
    BY <1>1, GuardIs, GuardGoes DEF GuardSteps
  <1>3. HelperStep
    BY <1>1, <1>2, GuardIs DEF HelperStep, Observes
  <1>4. GuardFollows'
    BY <1>2 DEF GuardFollows
  <1> QED BY <1>3, <1>4, HelperStepKeeps DEF IndInv

\* A check of a guard that was trusted keeps what was known of it.
LEMMA GuardCheckKeeps ==
  ASSUME IndInv, GuardCheck
  PROVE  IndInv'
  <1>1. /\ guard.pc = "trusted" /\ guard' = [guard EXCEPT !.pc = "drain1"]
        /\ UNCHANGED <<links, queue, dump, cached, broken>>
    BY DEF GuardCheck
  <1>2. guard' \in GuardRecords /\ guard'.pc = "drain1" /\ guard'.ever /\ guard.ever
    BY <1>1, GuardIs, GuardGoes DEF GuardSteps
  <1>3. HelperStep
    BY <1>1, <1>2, GuardIs DEF HelperStep, Observes
  <1>4. GuardFollows'
    BY <1>1, <1>2 DEF IndInv, GuardFollows
  <1> QED BY <1>3, <1>4, HelperStepKeeps DEF IndInv

\* An event that the drain lets pass contradicts nothing (link_guard_drain).
LEMMA DrainKeeps ==
  ASSUME IndInv, Drain
  PROVE  IndInv'
  <1>1. /\ guard.pc \in {"drain1", "drain2"} /\ UNCHANGED <<links, dump, cached, broken>>
        /\ ~Observes
    BY DEF Drain, Observes
  <1>2. CASE Invalid
    BY <1>1, <1>2, InvalidKeeps
  <1>3. CASE queue # <<>> /\ ~Contradicts(Head(queue)) /\ queue' = Tail(queue) /\ UNCHANGED guard
    <2>1. /\ queue' \in Seq(Events)
          /\ \A k \in 1 .. Len(queue) : \/ queue[k] = Head(queue)
                                        \/ \E m \in 1 .. Len(queue') : queue'[m] = queue[k]
      BY <1>3, GuardIs, TailKeeps
    <2>2. HelperStep
      BY <1>1, <1>3, <2>1, GuardIs DEF HelperStep
    <2>3. (\E k \in 1 .. Len(queue) : Contradicts(queue[k]))
            => \E m \in 1 .. Len(queue') : Contradicts(queue'[m])
      BY <1>3, <2>1
    <2>4. GuardFollows'
      BY <1>1, <1>3, <2>3 DEF IndInv, GuardFollows
    <2> QED BY <2>2, <2>4, HelperStepKeeps DEF IndInv
  <1> QED BY <1>2, <1>3 DEF Drain

\* The dump of a check begins with what was known of the guard.
LEMMA GuardDumpKeeps ==
  ASSUME IndInv, GuardDump
  PROVE  IndInv'
  <1>1. /\ guard.pc = "drain1" /\ guard' = [guard EXCEPT !.pc = "dump"]
        /\ dump' = [NoDump EXCEPT !.at = 1] /\ UNCHANGED <<links, queue, cached, broken>>
    BY DEF GuardDump
  <1>2. guard' \in GuardRecords /\ guard'.pc = "dump" /\ guard'.ever = guard.ever
    BY <1>1, GuardIs, GuardGoes DEF GuardSteps
  <1>3. HelperStep
    BY <1>1, <1>2, GuardIs DEF HelperStep, Observes
  <1>4. GuardFollows'
    BY <1>1, <1>2 DEF IndInv, GuardFollows
  <1> QED BY <1>3, <1>4, HelperStepKeeps DEF IndInv

\* A snapshot with exactly one link of interest, which matches, shows the links as they
\* are, unless a notification that contradicts it waits.
LEMMA SnapshotIsTrue ==
  ASSUME IndInv, dump.at # 0, DumpDone(dump),
         Cardinality({r \in dump.got : IsRelevant(r)}) = 1,
         \A r \in dump.got : IsRelevant(r) => Matches(r),
         ~\E k \in 1 .. Len(queue) : Contradicts(queue[k])
  PROVE  Holds(links)
  <1>1. IsFiniteSet({r \in dump.got : IsRelevant(r)})
    <2>1. IsFiniteSet(dump.got)
      BY DEF IndInv, LinkTypes
    <2> QED BY <2>1, FS_Subset
  <1>2. Mine \in dump.got
    <2>1. PICK x : {r \in dump.got : IsRelevant(r)} = {x}
      BY <1>1, FS_Singleton
    <2>2. x \in dump.got /\ IsRelevant(x)
      BY <2>1
    <2> QED BY <2>2, MineIs
  <1>3. Table(links)
    BY DEF IndInv, LinkTypes, Table
  <1>4. links[Own.index] = Mine
    <2>1. CASE \E k \in 1 .. Len(queue) : TellsOf(queue[k], Own.index)
      <3>1. PICK k \in 1 .. Len(queue) : TellsOf(queue[k], Own.index)
        BY <2>1
      <3>2. /\ queue[k].kind # "error"
            /\ IsRelevant(queue[k].link) => queue[k].kind # "del" /\ Matches(queue[k].link)
        BY DEF Contradicts
      <3>3. IsRelevant(queue[k].link)
        BY <3>1, <3>2 DEF TellsOf, IsRelevant
      <3>4. queue[k].link = links[Own.index]
        BY <3>1, <3>2, <3>3 DEF TellsOf
      <3> QED BY <3>2, <3>3, <3>4, MineIs
    <2>2. CASE ~\E k \in 1 .. Len(queue) : TellsOf(queue[k], Own.index)
      BY <1>2, <2>2, DumpShows, MineIs, OwnAssumption
    <2> QED BY <2>1, <2>2
  <1>5. ASSUME NEW j \in Indices, links[j] # NoRecord, IsRelevant(links[j])
        PROVE  links[j] = Mine
    <2>1. CASE \E k \in 1 .. Len(queue) : TellsOf(queue[k], j)
      <3>1. PICK k \in 1 .. Len(queue) : TellsOf(queue[k], j)
        BY <2>1
      <3>2. queue[k].kind # "error" /\ (IsRelevant(queue[k].link) => Matches(queue[k].link))
        BY DEF Contradicts
      <3>3. queue[k].link = links[j]
        BY <1>5, <3>1, <3>2 DEF TellsOf
      <3> QED BY <1>5, <3>2, <3>3, MineIs
    <2>2. CASE ~\E k \in 1 .. Len(queue) : TellsOf(queue[k], j)
      <3>1. links[j] \in dump.got
        BY <1>5, <2>2, DumpShows
      <3> QED BY <1>5, <3>1, MineIs
    <2> QED BY <2>1, <2>2
  <1> QED BY <1>3, <1>4, <1>5, HoldsMeans

\* The snapshot of a check (network_sidebar_amneziawg_link_guard_check).
LEMMA GuardSnapshotKeeps ==
  ASSUME IndInv, GuardSnapshot
  PROVE  IndInv'
  <1> DEFINE relevant == {r \in dump.got : IsRelevant(r)}
  <1>1. /\ guard.pc = "dump" /\ DumpDone(dump) /\ dump' = NoDump
        /\ UNCHANGED <<links, cached, broken>> /\ ~Observes
        /\ \/ Invalid
           \/ /\ Cardinality(relevant) = 1 /\ \A r \in relevant : Matches(r)
              /\ guard' = [guard EXCEPT !.pc = "drain2"] /\ UNCHANGED queue
    BY DEF GuardSnapshot, Observes
  <1>2. CASE Invalid
    BY <1>1, <1>2, InvalidKeeps
  <1>3. CASE /\ Cardinality(relevant) = 1 /\ \A r \in relevant : Matches(r)
             /\ guard' = [guard EXCEPT !.pc = "drain2"] /\ UNCHANGED queue
    <2>1. guard' \in GuardRecords /\ guard'.pc = "drain2" /\ guard'.ever = guard.ever
      BY <1>3, GuardIs, GuardGoes DEF GuardSteps
    <2>2. HelperStep
      BY <1>1, <1>3, <2>1, GuardIs DEF HelperStep
    <2>3. dump.at # 0
      <3>1. \A i \in Indices : i \in Nat /\ i # 0
        BY IndicesAssumption
      <3>2. Own.index < dump.at
        BY <1>1, OwnAssumption DEF DumpDone
      <3> QED BY <3>1, <3>2, OwnAssumption
    <2>4. ASSUME \E k \in 1 .. Len(queue) : Contradicts(queue[k])
          PROVE  GuardFollows'
      BY <1>3, <2>4 DEF GuardFollows
    <2>5. ASSUME ~\E k \in 1 .. Len(queue) : Contradicts(queue[k])
          PROVE  GuardFollows'
      <3>1. Holds(links)
        BY <1>1, <1>3, <2>3, <2>5, SnapshotIsTrue
      <3>2. ~broken
        BY <1>1, <2>5, GuardIs DEF IndInv, GuardFollows
      <3> QED BY <1>1, <3>1, <3>2 DEF GuardFollows
    <2>6. GuardFollows'
      BY <2>4, <2>5
    <2> QED BY <2>2, <2>6, HelperStepKeeps DEF IndInv
  <1> QED BY <1>1, <1>2, <1>3

\* A check succeeds with an empty socket, so that what was known is so.
LEMMA GuardTrustKeeps ==
  ASSUME IndInv, GuardTrust
  PROVE  IndInv' /\ Holds(links) /\ ~broken
  <1>1. /\ guard.pc = "drain2" /\ queue = <<>> /\ guard' = [pc |-> "trusted", ever |-> TRUE]
        /\ UNCHANGED <<links, queue, dump, cached, broken>>
    BY DEF GuardTrust
  <1>2. guard' \in GuardRecords /\ guard'.pc = "trusted" /\ guard'.ever
    BY <1>1 DEF GuardRecords, GuardSteps
  <1>3. HelperStep
    BY <1>1, <1>2, GuardIs DEF HelperStep, Observes
  <1>4. Len(queue) = 0
    BY <1>1
  <1>5. Holds(links) /\ ~broken
    BY <1>1, <1>4 DEF IndInv, GuardFollows
  <1>6. GuardFollows'
    BY <1>1, <1>5 DEF GuardFollows
  <1> QED BY <1>3, <1>5, <1>6, HelperStepKeeps DEF IndInv

\* A guard that is given up promises nothing.
LEMMA GuardFreeKeeps ==
  ASSUME IndInv, GuardFree
  PROVE  IndInv'
  <1>1. /\ guard.pc \in {"trusted", "invalid"} /\ guard' = [pc |-> "none", ever |-> FALSE]
        /\ broken' = FALSE /\ queue' = <<>> /\ UNCHANGED <<links, dump, cached>>
    BY DEF GuardFree
  <1>2. guard' \in GuardRecords /\ guard'.pc = "none" /\ ~guard'.ever
    BY <1>1 DEF GuardRecords, GuardSteps
  <1>3. HelperStep
    BY <1>1, <1>2, GuardIs DEF HelperStep, Observes
  <1>4. GuardFollows'
    BY <1>2 DEF GuardFollows
  <1> QED BY <1>3, <1>4, HelperStepKeeps DEF IndInv

-----------------------------------------------------------------------------
(* The theorems.                                                             *)

\* A step of the system keeps the inductive invariant.
LEMMA StepHolds ==
  ASSUME IndInv, [Next]_vars
  PROVE  IndInv'
  <1>1. CASE KernelStep
    <2>1. PICK i, r, e : Change(i, r, e)
      BY <1>1, KernelStepChanges DEF IndInv
    <2>2. LinkTypes' /\ Roles'
      BY <2>1, ChangeKeepsTypes DEF IndInv
    <2>3. DumpFollows'
      BY <2>1, ChangeKeepsDump DEF IndInv
    <2>4. CacheFollows'
      BY <2>1, ChangeKeepsCache DEF IndInv
    <2>5. GuardFollows'
      BY <2>1, ChangeKeepsGuard DEF IndInv
    <2>6. NamesDiffer'
      BY <2>1, ChangeKeepsNames DEF IndInv
    <2> QED BY <2>2, <2>3, <2>4, <2>5, <2>6 DEF IndInv
  <1>2. CASE UNCHANGED vars
    <2>1. LinkTypes' /\ Roles'
      BY <1>2 DEF IndInv, LinkTypes, Roles, Observes, vars
    <2>2. DumpFollows'
      <3>1. \A i \in Indices : WasRead(i) => WasRead(i)'
        BY <1>2 DEF WasRead, vars
      <3>2. \A i \in Indices, k \in 1 .. Len(queue) : TellsOf(queue[k], i) => TellsOf(queue[k], i)'
        BY <1>2 DEF TellsOf, vars
      <3> QED BY <1>2, <3>1, <3>2 DEF IndInv, DumpFollows, vars
    <2>3. CacheFollows' /\ GuardFollows'
      BY <1>2 DEF IndInv, CacheFollows, GuardFollows, vars
    <2>4. NamesDiffer'
      BY <1>2, NamesStay DEF vars
    <2> QED BY <2>1, <2>2, <2>3, <2>4 DEF IndInv
  <1> QED BY <1>1, <1>2, DumpStepKeeps, ObserveStartKeeps, ObservePublishKeeps, ObserveEventKeeps,
             GuardNewKeeps, GuardCheckKeeps, DrainKeeps, GuardDumpKeeps, GuardSnapshotKeeps,
             GuardTrustKeeps, GuardFreeKeeps DEF Next

\* In every state of every behaviour: what a dump has read is so or is told of in the socket,
\* the filter tracks every link the observation depends on, and the interface of a guard
\* that succeeded has been the only one or a notification contradicts it.
THEOREM InvariantHolds == Spec => []IndInv
  <1>1. Init => IndInv
    BY InitHolds
  <1>2. IndInv /\ [Next]_vars => IndInv'
    BY StepHolds
  <1> QED BY <1>1, <1>2, PTL DEF Spec

\* A cached observation is what an observation of the links would give now, unless a
\* notification that matters is waiting: no dump that a rename has torn and no event
\* that the filter has dropped makes it wrong
\* (network_sidebar_amneziawg_link_event_filter_add, _is_relevant).
THEOREM FilterStaysSound == Spec => []FilterIsSound
  <1>1. IndInv => FilterIsSound
    BY DEF IndInv, CacheFollows, FilterIsSound
  <1> QED BY <1>1, InvariantHolds, PTL

\* A check of the guard succeeds only while the interface is there and unique, and only if
\* that has been so ever since its first success
\* (network_sidebar_amneziawg_link_guard_check).
THEOREM GuardStaysContinuous == Spec => GuardIsContinuous
  <1>1. ASSUME IndInv, [Next]_vars, guard.pc # "trusted", guard'.pc = "trusted"
        PROVE  Holds(links) /\ ~broken
    <2>1. CASE GuardTrust
      BY <1>1, <2>1, GuardTrustKeeps
    <2>2. ASSUME UNCHANGED guard
          PROVE  FALSE
      BY <1>1, <2>2
    <2>3. CASE KernelStep
      <3>1. PICK i, r, e : Change(i, r, e)
        BY <1>1, <2>3, KernelStepChanges DEF IndInv
      <3> QED BY <2>2, <3>1 DEF Change
    <2>4. ASSUME NEW p \in GuardSteps, p # "trusted", guard' = [guard EXCEPT !.pc = p]
          PROVE  FALSE
      BY <1>1, <2>4, GuardIs, GuardGoes
    <2>5. Invalid => guard' = [guard EXCEPT !.pc = "invalid"]
      BY DEF Invalid
    <2>6. {"drain1", "dump", "drain2", "invalid"} \subseteq GuardSteps
      BY DEF GuardSteps
    <2>7. CASE Drain \/ GuardSnapshot
      BY <2>2, <2>4, <2>5, <2>6, <2>7 DEF Drain, GuardSnapshot
    <2>8. CASE GuardNew \/ GuardCheck \/ GuardDump
      BY <2>4, <2>6, <2>8 DEF GuardNew, GuardCheck, GuardDump
    <2>9. CASE GuardFree
      BY <1>1, <2>9 DEF GuardFree
    <2>10. CASE DumpStep \/ ObserveStart \/ ObservePublish \/ ObserveEvent \/ UNCHANGED vars
      BY <2>2, <2>10 DEF DumpStep, ObserveStart, ObservePublish, ObserveEvent, vars
    <2> QED BY <1>1, <2>1, <2>3, <2>7, <2>8, <2>9, <2>10 DEF Next
  <1>2. IndInv /\ [Next]_vars => [guard.pc # "trusted" /\ guard'.pc = "trusted"
                                  => Holds(links) /\ ~broken]_vars
    BY <1>1
  <1> QED BY <1>2, InvariantHolds, PTL DEF Spec, GuardIsContinuous

=============================================================================
