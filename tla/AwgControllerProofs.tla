------------------------ MODULE AwgControllerProofs ------------------------
(***************************************************************************)
(* Proofs about AwgController, for every bound: user operations run one at *)
(* a time, the service deletes or replaces a profile only after a          *)
(* confirmation of its own, and whatever the controller waits for is under *)
(* way.                                                                    *)
(***************************************************************************)
EXTENDS AwgController, FiniteSetTheorems, TLAPS

-----------------------------------------------------------------------------
(* What the functions of the inventory leave alone.                        *)

\* A controller whose inventory is in order.
Good(x) == x \in Controllers /\ IsFiniteSet(x.calls) /\ InventoryIsSound(x)

\* A check that was under way or unheard still is one of them, or has begun again; what was
\* observed is no more outdated than before.
Awake(x, y) ==
  /\ y.mon = x.mon /\ (y.stale => x.stale)
  /\ x.mon /\ (x.checking \/ x.unheard) => y.checking \/ y.unheard

\* Only what is observed, what is known and what is queued differs, and the suspension.
CalmBar(x, y) ==
  /\ y.phase = x.phase /\ y.auth = x.auth /\ y.act = x.act /\ y.id = x.id
  /\ y.confirm = x.confirm /\ y.verify = x.verify /\ Awake(x, y) /\ y.enabled = x.enabled
  /\ y.pending = x.pending /\ y.request = x.request /\ y.calls = x.calls
Calm(x, y) == CalmBar(x, y) /\ y.suspended = x.suspended

\* The activity is the same, and so are its commands.
Kept(x, y) ==
  /\ y.phase = x.phase /\ y.auth = x.auth /\ y.act = x.act /\ y.id = x.id
  /\ y.confirm = x.confirm /\ y.verify = x.verify /\ Cmds(y) = Cmds(x) /\ Awake(x, y)

\* A controller whose inventory is in order but for what is queued.
Stands(x) ==
  /\ x \in Controllers /\ IsFiniteSet(x.calls)
  /\ ListsAreTold(x) /\ PendingIsListed(x) /\ SuspendedIsBusy(x) /\ Watched(x)

\* What is queued is put in order when nothing else changes.
LEMMA CalmStands ==
  ASSUME NEW x, NEW y \in Controllers, Stands(x), Calm(x, y), QueuedIsArmed(y), OwedIsQueued(y)
  PROVE  Good(y) /\ Kept(x, y)
  <1>1. Lists(y) = Lists(x) /\ Cmds(y) = Cmds(x)
    BY DEF Calm, CalmBar, Lists, Cmds
  <1> QED BY <1>1 DEF Stands, Good, InventoryIsSound, ListsAreTold, PendingIsListed,
                      SuspendedIsBusy, Watched, Calm, CalmBar, Kept, Awake, Running

\* What is queued stays in order when nothing else changes.
LEMMA CalmIsGood ==
  ASSUME NEW x, NEW y \in Controllers, Good(x), Calm(x, y), QueuedIsArmed(y), OwedIsQueued(y)
  PROVE  Good(y) /\ Kept(x, y)
  <1>1. Stands(x)
    BY DEF Good, InventoryIsSound, Stands
  <1> QED BY <1>1, CalmStands

\* schedule_queued_refresh arms the timer of work that may run.
LEMMA ScheduleQueuedDoes ==
  ASSUME NEW x \in Controllers
  PROVE  /\ ScheduleQueued(x) \in Controllers /\ Calm(x, ScheduleQueued(x))
         /\ QueuedIsArmed(ScheduleQueued(x)) /\ ScheduleQueued(x).dirty = x.dirty
         /\ OwedIsQueued(x) => OwedIsQueued(ScheduleQueued(x))
  <1> DEFINE due == Running(x) /\ x.auth /\ x.enabled /\ ~x.suspended /\ x.dirty /\ ~x.pending
             y == [x EXCEPT !.timer = TRUE]
  <1>1. y \in Controllers /\ Calm(x, y) /\ y.timer /\ y.dirty = x.dirty /\ y.owed = x.owed
    BY DEF Controllers, Calm, CalmBar, Awake
  <1>2. CASE due
    <2>1. ScheduleQueued(x) = y
      BY <1>2 DEF ScheduleQueued
    <2> HIDE DEF y
    <2> QED BY <1>1, <2>1 DEF QueuedIsArmed, OwedIsQueued, Calm, CalmBar
  <1>3. CASE ~due
    BY <1>3 DEF ScheduleQueued, QueuedIsArmed, Calm, CalmBar, Awake
  <1> QED BY <1>2, <1>3

\* network_sidebar_awg_inventory_queue_refresh: what it queues is armed.
LEMMA QueueRefreshDoes ==
  ASSUME NEW x \in Controllers
  PROVE  /\ QueueRefresh(x) \in Controllers /\ Calm(x, QueueRefresh(x))
         /\ QueuedIsArmed(QueueRefresh(x))
         /\ Running(x) => QueueRefresh(x).dirty
         /\ Running(x) \/ OwedIsQueued(x) => OwedIsQueued(QueueRefresh(x))
  <1> DEFINE y == [x EXCEPT !.dirty = TRUE, !.owed = TRUE]
  <1>1. y \in Controllers /\ Calm(x, y) /\ y.dirty
    BY DEF Controllers, Calm, CalmBar, Awake
  <1>2. /\ ScheduleQueued(y) \in Controllers /\ Calm(y, ScheduleQueued(y))
        /\ QueuedIsArmed(ScheduleQueued(y)) /\ ScheduleQueued(y).dirty = y.dirty
    BY <1>1, ScheduleQueuedDoes
  <1>3. CASE Running(x)
    <2>1. QueueRefresh(x) = ScheduleQueued(y)
      BY <1>3 DEF QueueRefresh
    <2> HIDE DEF y
    <2> QED BY <1>1, <1>2, <2>1 DEF Calm, CalmBar, Awake, OwedIsQueued
  <1>4. CASE ~Running(x)
    BY <1>4 DEF QueueRefresh, QueuedIsArmed, Calm, CalmBar, Awake
  <1> QED BY <1>3, <1>4

\* network_sidebar_awg_inventory_set_suspended arms the timer at the end of a suspension.
LEMMA SetSuspendedDoes ==
  ASSUME NEW x \in Controllers, NEW b \in BOOLEAN
  PROVE  /\ SetSuspended(x, b) \in Controllers /\ CalmBar(x, SetSuspended(x, b))
         /\ SetSuspended(x, b).suspended = b
         /\ b \/ x.suspended \/ QueuedIsArmed(x) => QueuedIsArmed(SetSuspended(x, b))
         /\ OwedIsQueued(x) => OwedIsQueued(SetSuspended(x, b))
  <1> DEFINE y == [x EXCEPT !.suspended = b]
  <1>1. y \in Controllers /\ CalmBar(x, y) /\ y.suspended = b /\ y.dirty = x.dirty /\ y.timer = x.timer
        /\ y.owed = x.owed /\ y.checking = x.checking
        /\ y.unheard = x.unheard /\ y.stale = x.stale /\ y.pending = x.pending
    BY DEF Controllers, CalmBar, Awake
  <1>2. /\ ScheduleQueued(y) \in Controllers /\ Calm(y, ScheduleQueued(y))
        /\ QueuedIsArmed(ScheduleQueued(y))
        /\ OwedIsQueued(y) => OwedIsQueued(ScheduleQueued(y))
    BY <1>1, ScheduleQueuedDoes
  <1>3. CASE x.suspended /\ ~b
    <2>1. SetSuspended(x, b) = ScheduleQueued(y)
      BY <1>3 DEF SetSuspended
    <2> HIDE DEF y
    <2>2. /\ SetSuspended(x, b) \in Controllers /\ CalmBar(x, SetSuspended(x, b))
          /\ QueuedIsArmed(SetSuspended(x, b))
      BY <1>1, <1>2, <2>1 DEF Calm, CalmBar, Awake
    <2>3. OwedIsQueued(x) => OwedIsQueued(SetSuspended(x, b))
      BY <1>1, <1>2, <2>1 DEF OwedIsQueued
    <2>4. SetSuspended(x, b).suspended = b
      BY <1>1, <1>2, <2>1 DEF Calm
    <2> QED BY <2>2, <2>3, <2>4
  <1>4. CASE ~(x.suspended /\ ~b)
    <2>1. SetSuspended(x, b) = y
      BY <1>4 DEF SetSuspended
    <2>2. x.suspended \in BOOLEAN
      BY DEF Controllers
    <2> HIDE DEF y
    <2> QED BY <1>1, <1>4, <2>1, <2>2 DEF QueuedIsArmed, OwedIsQueued, CalmBar, Running
  <1> QED BY <1>3, <1>4

\* network_sidebar_awg_runtime_source_poll and _request_refresh change no more than what is
\* observed.
LEMMA RuntimeDoes ==
  ASSUME NEW x \in Controllers
  PROVE  /\ RuntimePoll(x) \in Controllers /\ Calm(x, RuntimePoll(x))
         /\ QueuedIsArmed(x) => QueuedIsArmed(RuntimePoll(x))
         /\ OwedIsQueued(x) => OwedIsQueued(RuntimePoll(x))
         /\ RuntimeRefresh(x) \in Controllers /\ Calm(x, RuntimeRefresh(x))
         /\ QueuedIsArmed(x) => QueuedIsArmed(RuntimeRefresh(x))
         /\ OwedIsQueued(x) => OwedIsQueued(RuntimeRefresh(x))
         /\ RuntimeRefresh(x).checking = x.mon /\ ~RuntimeRefresh(x).stale
         /\ RuntimePoll(x).dirty = x.dirty /\ RuntimePoll(x).owed = x.owed
         /\ RuntimeRefresh(x).dirty = x.dirty /\ RuntimeRefresh(x).owed = x.owed
  <1> DEFINE s == IF x.mon THEN "unknown" ELSE x.seen
             y == [x EXCEPT !.checking = x.mon, !.unheard = FALSE]
             z == [y EXCEPT !.seen = s, !.stale = FALSE]
  <1>1. s \in Seens
    BY DEF Controllers, Seens
  <1>2. /\ y \in Controllers /\ Calm(x, y) /\ y.dirty = x.dirty /\ y.timer = x.timer
        /\ y.owed = x.owed /\ y.checking = x.mon /\ y.seen = x.seen /\ RuntimePoll(x) = y
    BY DEF Controllers, Calm, CalmBar, Awake, RuntimePoll
  <1>3. RuntimeRefresh(x) = z
    BY <1>2 DEF Controllers, RuntimeRefresh
  <1> HIDE DEF s, y
  <1>4. /\ z \in Controllers /\ Calm(y, z) /\ z.dirty = y.dirty /\ z.timer = y.timer
        /\ z.owed = y.owed /\ z.checking = y.checking /\ ~z.stale
    <2>1. /\ z \in Controllers /\ z.dirty = y.dirty /\ z.timer = y.timer
          /\ z.owed = y.owed /\ z.checking = y.checking /\ z.unheard = y.unheard /\ z.stale = FALSE
          /\ z.phase = y.phase /\ z.auth = y.auth /\ z.act = y.act /\ z.id = y.id
          /\ z.confirm = y.confirm /\ z.verify = y.verify /\ z.mon = y.mon
          /\ z.enabled = y.enabled /\ z.pending = y.pending /\ z.request = y.request
          /\ z.calls = y.calls /\ z.suspended = y.suspended
      BY <1>1, <1>2, ZenonT(30) DEF Controllers
    <2> HIDE DEF z
    <2> QED BY <2>1 DEF Calm, CalmBar, Awake
  <1> HIDE DEF z
  <1>5. Calm(x, z)
    BY <1>2, <1>4 DEF Calm, CalmBar, Awake
  <1> QED BY <1>2, <1>3, <1>4, <1>5 DEF QueuedIsArmed, OwedIsQueued, Calm, CalmBar, Running

\* The service is seen to answer or not.
LEMMA ReachDoes ==
  ASSUME NEW x \in Controllers, NEW b \in BOOLEAN
  PROVE  /\ Reach(x, b) \in Controllers /\ Calm(x, Reach(x, b))
         /\ QueuedIsArmed(x) => QueuedIsArmed(Reach(x, b))
         /\ OwedIsQueued(x) => OwedIsQueued(Reach(x, b))
         /\ Reach(x, b).stale = x.stale
  <1> DEFINE m == IF b THEN x.missing \ {"service"} ELSE x.missing \cup {"service"}
             y == [x EXCEPT !.missing = m]
  <1>1. m \in Missings
    BY DEF Controllers, Missings
  <1>2. Reach(x, b) = y
    BY DEF Controllers, Reach
  <1> HIDE DEF m
  <1>3. /\ y \in Controllers /\ Calm(x, y) /\ y.dirty = x.dirty /\ y.timer = x.timer
        /\ y.owed = x.owed /\ y.checking = x.checking
        /\ y.unheard = x.unheard /\ y.stale = x.stale
    BY <1>1 DEF Controllers, Calm, CalmBar, Awake
  <1> HIDE DEF y
  <1> QED BY <1>2, <1>3 DEF QueuedIsArmed, OwedIsQueued, Calm, CalmBar, Running

-----------------------------------------------------------------------------
(* The outstanding requests.                                               *)

\* A set that is listed by a finite one is finite, and no larger.
LEMMA ImageIsFinite ==
  ASSUME NEW S, IsFiniteSet(S), NEW f, f = [x \in S |-> f[x]]
  PROVE  LET T == {f[x] : x \in S}
         IN IsFiniteSet(T) /\ Cardinality(T) <= Cardinality(S)
  <1> DEFINE T == {f[x] : x \in S}
  <1>1. f \in Surjection(S, T)
    BY DEF Surjection
  <1> QED BY <1>1, FS_Surjection

\* A call that is sent is a call.
LEMMA CallIsSent ==
  ASSUME NEW op \in Commands \cup {"list"}, NEW id \in Nat
  PROVE  /\ Call(op, id) \in Calls /\ Call(op, id).op = op /\ Call(op, id).id = id
         /\ Call(op, id).open /\ ~Call(op, id).cancelled /\ Call(op, id).at = "sent"
  BY DEF Call, Calls

\* A call that is cancelled stays the same call.
LEMMA CancelledCall ==
  ASSUME NEW c \in Calls
  PROVE  LET d == [c EXCEPT !.cancelled = TRUE]
         IN /\ d \in Calls /\ d.op = c.op /\ d.id = c.id /\ d.open = c.open
            /\ d.at = c.at /\ d.res = c.res
  BY DEF Calls

\* cancel_request leaves the commands as they are, and every request outstanding.
LEMMA CancelRequestDoes ==
  ASSUME NEW x \in Controllers, IsFiniteSet(x.calls), ListsAreTold(x)
  PROVE  LET y == CancelRequest(x)
         IN /\ y \in Controllers /\ IsFiniteSet(y.calls) /\ ListsAreTold(y) /\ ~y.pending
            /\ Kept(x, y) /\ y.mon = x.mon /\ y.enabled = x.enabled
            /\ y.suspended = x.suspended /\ y.dirty = x.dirty /\ y.timer = x.timer
            /\ y.owed = x.owed /\ y.checking = x.checking
            /\ y.unheard = x.unheard /\ y.stale = x.stale
  <1> DEFINE g == [c \in x.calls |-> IF c.op = "list" THEN [c EXCEPT !.cancelled = TRUE] ELSE c]
             T == {IF c.op = "list" THEN [c EXCEPT !.cancelled = TRUE] ELSE c : c \in x.calls}
             y == [x EXCEPT !.pending = FALSE, !.calls = T]
  <1>1. x.calls \subseteq Calls
    BY DEF Controllers
  <1>2. \A c \in x.calls : /\ g[c] \in Calls /\ g[c].op = c.op /\ g[c].id = c.id
                           /\ g[c].open = c.open /\ (c.op # "list" => g[c] = c)
    BY <1>1, CancelledCall
  <1>3. T = {g[c] : c \in x.calls} /\ g = [c \in x.calls |-> g[c]]
    OBVIOUS
  <1>7. CancelRequest(x) = y
    BY DEF CancelRequest
  <1> HIDE DEF g, T
  <1>4. T \subseteq Calls /\ IsFiniteSet(T)
    BY <1>2, <1>3, ImageIsFinite
  <1>5. {c \in T : c.op # "list"} = Cmds(x)
    BY <1>2, <1>3 DEF Cmds
  <1>6. /\ \A c \in T : c.op = "list" => c.open
        /\ \A c, d \in T : c.op = "list" /\ d.op = "list" /\ c.id = d.id => c = d
    <2>1. \A c \in T : c.op = "list" => \E b \in Lists(x) : c = g[b] /\ b.id = c.id /\ c.open = b.open
      BY <1>2, <1>3, SMTT(30) DEF Lists
    <2> QED BY <2>1 DEF ListsAreTold
  <1>8. /\ y \in Controllers /\ y.calls = T /\ ~y.pending
        /\ y.phase = x.phase /\ y.auth = x.auth /\ y.act = x.act /\ y.id = x.id
        /\ y.confirm = x.confirm /\ y.verify = x.verify
        /\ y.mon = x.mon /\ y.enabled = x.enabled
        /\ y.suspended = x.suspended /\ y.dirty = x.dirty /\ y.timer = x.timer
        /\ y.owed = x.owed /\ y.checking = x.checking
        /\ y.unheard = x.unheard /\ y.stale = x.stale
    BY <1>4 DEF Controllers
  <1> HIDE DEF y
  <1> QED BY <1>4, <1>5, <1>6, <1>7, <1>8 DEF ListsAreTold, Lists, Cmds, Kept, Awake

\* reset_inventory forgets what was queued and what was waited for.
LEMMA ResetInventoryDoes ==
  ASSUME NEW x \in Controllers, IsFiniteSet(x.calls), ListsAreTold(x)
  PROVE  LET y == ResetInventory(x)
         IN /\ y \in Controllers /\ IsFiniteSet(y.calls) /\ ListsAreTold(y) /\ ~y.pending
            /\ Kept(x, y) /\ y.mon = x.mon /\ y.enabled = x.enabled
            /\ y.suspended = x.suspended /\ ~y.dirty /\ ~y.timer /\ ~y.owed
  <1> DEFINE w == CancelRequest(x)
             y == [w EXCEPT !.timer = FALSE, !.dirty = FALSE, !.recent = FALSE,
                            !.known = FALSE, !.missing = Unknown, !.saved = FALSE,
                            !.owed = FALSE]
  <1>1. /\ w \in Controllers /\ IsFiniteSet(w.calls) /\ ListsAreTold(w) /\ ~w.pending
        /\ Kept(x, w) /\ w.mon = x.mon /\ w.enabled = x.enabled /\ w.suspended = x.suspended
    BY CancelRequestDoes
  <1>2. Unknown \in Missings
    BY DEF Unknown, Missings
  <1>3. ResetInventory(x) = y
    BY DEF ResetInventory
  <1> HIDE DEF w
  <1>4. /\ y \in Controllers /\ y.calls = w.calls /\ ~y.dirty /\ ~y.timer /\ ~y.owed
        /\ y.checking = w.checking /\ y.unheard = w.unheard /\ y.stale = w.stale
        /\ y.phase = w.phase /\ y.auth = w.auth /\ y.act = w.act /\ y.id = w.id
        /\ y.confirm = w.confirm /\ y.verify = w.verify /\ y.mon = w.mon
        /\ y.enabled = w.enabled /\ y.suspended = w.suspended /\ y.pending = w.pending
    BY <1>1, <1>2, ZenonT(30), SMTT(30) DEF Controllers
  <1> HIDE DEF y
  <1> QED BY <1>1, <1>3, <1>4 DEF ListsAreTold, Lists, Cmds, Kept, Awake

\* There is always a number that no outstanding request has.
LEMMA NewRequestIsNew ==
  ASSUME NEW x \in Controllers, IsFiniteSet(x.calls)
  PROVE  NewRequest(x) \in Nat /\ \A c \in Lists(x) : c.id # NewRequest(x)
  <1> DEFINE m == Cardinality(x.calls)
             f == [c \in x.calls |-> c.id]
             ids == {f[c] : c \in x.calls}
  <1>1. m \in Nat
    BY FS_CardinalityType
  <1>2. IsFiniteSet(ids) /\ Cardinality(ids) <= m /\ Cardinality(ids) \in Nat
    BY ImageIsFinite, FS_CardinalityType
  <1>3. Cardinality(1 .. m + 1) = m + 1
    BY <1>1, FS_Interval
  <1> HIDE DEF ids
  <1>4. ~(1 .. m + 1 \subseteq ids)
    <2>1. 1 .. m + 1 \in SUBSET ids => Cardinality(1 .. m + 1) <= Cardinality(ids)
      BY <1>2, FS_Subset
    <2> QED BY <1>1, <1>2, <1>3, <2>1
  <1>5. \E n \in 1 .. m + 1 : \A c \in x.calls : ~(c.op = "list" /\ c.id = n)
    BY <1>4 DEF ids
  <1>6. /\ NewRequest(x) \in 1 .. m + 1
        /\ \A c \in x.calls : ~(c.op = "list" /\ c.id = NewRequest(x))
    BY <1>5 DEF NewRequest
  <1> QED BY <1>1, <1>6 DEF Lists

\* network_sidebar_awg_inventory_request_refresh: a request that is waited for is sent.
LEMMA RequestRefreshDoes ==
  ASSUME NEW x, Good(x), NEW force \in BOOLEAN
  PROVE  Good(RequestRefresh(x, force)) /\ Kept(x, RequestRefresh(x, force))
  <1> DEFINE r == RequestRefresh(x, force)
             w == [x EXCEPT !.timer = FALSE, !.dirty = FALSE, !.recent = TRUE]
             y == RuntimePoll(w)
             v == [y EXCEPT !.owed = FALSE]
             n == NewRequest(x)
             z == [y EXCEPT !.pending = TRUE, !.request = n, !.owed = TRUE,
                            !.calls = @ \cup {Call("list", n)}]
  <1>1. x \in Controllers /\ IsFiniteSet(x.calls) /\ OwedIsQueued(x)
    BY DEF Good, InventoryIsSound
  <1>2. w \in Controllers /\ Calm(x, w) /\ ~w.dirty
    BY <1>1, ZenonT(30) DEF Controllers, Calm, CalmBar, Awake
  <1>3. y \in Controllers /\ Calm(x, y)
    <2> HIDE DEF w
    <2> QED BY <1>2, RuntimeDoes DEF Calm, CalmBar, Awake
  <1> HIDE DEF y
  <1>4. CASE r = x
    BY <1>4 DEF Kept, Awake
  <1>5. CASE r = QueueRefresh(x)
    BY <1>1, <1>5, QueueRefreshDoes, CalmIsGood
  <1>6. CASE r = ScheduleQueued(v)
    <2>1. v \in Controllers /\ Calm(y, v) /\ ~v.owed
      BY <1>3 DEF Controllers, Calm, CalmBar, Awake
    <2> HIDE DEF v
    <2>2. OwedIsQueued(v)
      BY <2>1 DEF OwedIsQueued
    <2>3. /\ ScheduleQueued(v) \in Controllers /\ Calm(v, ScheduleQueued(v))
          /\ QueuedIsArmed(ScheduleQueued(v)) /\ OwedIsQueued(ScheduleQueued(v))
      BY <2>1, <2>2, ScheduleQueuedDoes
    <2>4. Calm(x, ScheduleQueued(v))
      BY <1>3, <2>1, <2>3 DEF Calm, CalmBar, Awake
    <2> QED BY <1>6, <2>3, <2>4, CalmIsGood
  <1>7. CASE r = z /\ Running(x) /\ x.auth
    <2>1. n \in Nat /\ \A c \in Lists(x) : c.id # n
      BY <1>1, NewRequestIsNew
    <2> HIDE DEF n
    <2> DEFINE call == Call("list", n)
    <2>2. call \in Calls /\ call.op = "list" /\ call.id = n /\ call.open /\ ~call.cancelled
      BY <2>1, CallIsSent
    <2> HIDE DEF call
    <2>3. /\ z \in Controllers /\ z.pending /\ z.request = n
          /\ z.calls = x.calls \cup {call}
          /\ z.phase = x.phase /\ z.auth = x.auth /\ z.act = x.act /\ z.id = x.id
          /\ z.confirm = x.confirm /\ z.verify = x.verify /\ Awake(x, z)
          /\ z.enabled = x.enabled /\ z.suspended = x.suspended
      <3>1. /\ z \in Controllers /\ z.pending /\ z.request = n
            /\ z.calls = y.calls \cup {call}
            /\ z.phase = y.phase /\ z.auth = y.auth /\ z.act = y.act /\ z.id = y.id
            /\ z.confirm = y.confirm /\ z.verify = y.verify /\ Awake(y, z)
            /\ z.enabled = y.enabled /\ z.suspended = y.suspended
        BY <1>3, <2>1, <2>2 DEF Controllers, Awake, call
      <3> HIDE DEF z
      <3> QED BY <1>3, <3>1 DEF Calm, CalmBar, Awake
    <2> HIDE DEF z
    <2>4. IsFiniteSet(z.calls)
      BY <1>1, <2>3, FS_AddElement
    <2>5. Lists(z) = Lists(x) \cup {call} /\ Cmds(z) = Cmds(x)
      BY <2>2, <2>3 DEF Lists, Cmds
    <2>6. InventoryIsSound(z)
      BY <1>7, <2>1, <2>2, <2>3, <2>5
         DEF Good, InventoryIsSound, ListsAreTold, PendingIsListed, SuspendedIsBusy,
             QueuedIsArmed, OwedIsQueued, Watched, Awake, Running
    <2> QED BY <1>7, <2>3, <2>4, <2>5, <2>6 DEF Good, Kept
  <1>8. r \in {x, QueueRefresh(x), ScheduleQueued(v)} \/ (r = z /\ Running(x) /\ x.auth)
    BY DEF RequestRefresh, y
  <1> QED BY <1>4, <1>5, <1>6, <1>7, <1>8

\* network_sidebar_awg_controller_request_inventory.
LEMMA RequestInventoryDoes ==
  ASSUME NEW x, Good(x), NEW force \in BOOLEAN
  PROVE  Good(RequestInventory(x, force)) /\ Kept(x, RequestInventory(x, force))
  <1>1. Good(RuntimePoll(x)) /\ Kept(x, RuntimePoll(x))
    BY RuntimeDoes, CalmIsGood DEF Good, InventoryIsSound
  <1>2. Good(RequestRefresh(RuntimePoll(x), force))
        /\ Kept(RuntimePoll(x), RequestRefresh(RuntimePoll(x), force))
    BY <1>1, RequestRefreshDoes
  <1> QED BY <1>1, <1>2 DEF RequestInventory, Kept, Awake

\* operation_is_allowed refreshes, and leaves the activity alone.
LEMMA RefusedDoes ==
  ASSUME NEW x, Good(x), NEW op, NEW continuing
  PROVE  Good(Refused(x, op, continuing)) /\ Kept(x, Refused(x, op, continuing))
  <1>1. Good(RequestInventory(x, TRUE)) /\ Kept(x, RequestInventory(x, TRUE))
    BY RequestInventoryDoes
  <1>2. Good(RuntimeRefresh(x)) /\ Kept(x, RuntimeRefresh(x))
    BY RuntimeDoes, CalmIsGood DEF Good, InventoryIsSound
  <1> QED BY <1>1, <1>2 DEF Refused, Kept, Awake

\* network_sidebar_awg_inventory_preempt, while an activity lasts: what was waited for is
\* queued.
LEMMA PreemptDoes ==
  ASSUME NEW x, Good(x), Running(x), x.act # "idle"
  PROVE  Good(Preempt(x)) /\ Kept(x, Preempt(x))
  <1> DEFINE y == SetSuspended(x, TRUE)
             z == CancelRequest(y)
  <1>1. x \in Controllers /\ x.suspended /\ OwedIsQueued(x)
    BY DEF Good, InventoryIsSound, SuspendedIsBusy, Running, Controllers
  <1>2. Good(y) /\ Kept(x, y) /\ y.suspended
    <2>1. x.suspended = TRUE
      BY <1>1 DEF Controllers
    <2>2. /\ y \in Controllers /\ Calm(x, y) /\ y.suspended = TRUE /\ QueuedIsArmed(y)
          /\ OwedIsQueued(y)
      BY <1>1, <2>1, SetSuspendedDoes DEF Calm
    <2> HIDE DEF y
    <2> QED BY <2>2, CalmIsGood
  <1>3. CASE ~y.pending
    BY <1>2, <1>3 DEF Preempt
  <1>4. CASE y.pending
    <2>1. /\ z \in Controllers /\ IsFiniteSet(z.calls) /\ ListsAreTold(z) /\ ~z.pending
          /\ Kept(y, z) /\ z.mon = y.mon /\ z.enabled = y.enabled /\ z.suspended = y.suspended
      BY <1>2, CancelRequestDoes DEF Good, InventoryIsSound
    <2> HIDE DEF y, z
    <2>2. Stands(z) /\ Running(z)
      BY <1>2, <2>1 DEF Good, InventoryIsSound, Stands, PendingIsListed, SuspendedIsBusy,
                        Watched, Kept, Running
    <2>3. Good(QueueRefresh(z)) /\ Kept(z, QueueRefresh(z))
      BY <2>1, <2>2, QueueRefreshDoes, CalmStands
    <2>4. Preempt(x) = QueueRefresh(z)
      BY <1>4 DEF Preempt, y, z
    <2> QED BY <1>2, <2>1, <2>3, <2>4 DEF Kept, Awake
  <1> QED BY <1>3, <1>4

-----------------------------------------------------------------------------
(* The activities.                                                         *)

\* The activity is over, and its commands are as they were.
Ended(x, y) ==
  /\ y.phase = x.phase /\ y.id = x.id /\ y.act = "idle" /\ ~y.verify
  /\ Cmds(y) = Cmds(x) /\ (y.stale => x.stale)

\* The activity waits for the runtime source.
Waits(x, y) ==
  /\ y.phase = x.phase /\ y.id = x.id /\ y.act = x.act /\ y.confirm = x.confirm
  /\ y.act \in Commands /\ y.verify /\ y.auth /\ Cmds(y) = Cmds(x)
  /\ ~y.stale /\ y.checking

\* Authorization is gone, and with it every activity that does not wait for the service.
Lost(x, y) ==
  /\ y.phase = x.phase /\ y.id = x.id /\ ~y.auth /\ ~y.verify /\ ~y.stale /\ Cmds(y) = Cmds(x)
  /\ y.act = IF x.act \in Interactions \/ x.verify THEN "idle" ELSE x.act

\* The activity sends its command.
Sends(x, y, op) ==
  /\ y.phase = x.phase /\ y.id = x.id /\ y.act = x.act /\ y.confirm = x.confirm
  /\ y.verify = x.verify /\ Cmds(y) = Cmds(x) \cup {Call(op, x.id)} /\ (y.stale => x.stale)

\* finish_activity ends the suspension.
LEMMA FinishKeeps ==
  ASSUME NEW x \in Controllers
  PROVE  LET y == FinishActivity(x)
         IN /\ y \in Controllers /\ y.act = "idle" /\ ~y.verify /\ ~y.suspended
            /\ y.phase = x.phase /\ y.auth = x.auth /\ y.id = x.id /\ y.confirm = x.confirm
            /\ y.mon = x.mon /\ y.enabled = x.enabled /\ y.pending = x.pending
            /\ y.request = x.request /\ y.calls = x.calls /\ (y.stale => x.stale)
            /\ x.suspended => QueuedIsArmed(y)
            /\ OwedIsQueued(x) => OwedIsQueued(y)
  <1> DEFINE w == [x EXCEPT !.act = "idle", !.verify = FALSE]
  <1>1. "idle" \in Activities
    BY DEF Activities
  <1>2. /\ w \in Controllers /\ w.act = "idle" /\ ~w.verify /\ w.suspended = x.suspended
        /\ w.phase = x.phase /\ w.auth = x.auth /\ w.id = x.id /\ w.confirm = x.confirm
        /\ w.mon = x.mon /\ w.enabled = x.enabled /\ w.pending = x.pending
        /\ w.request = x.request /\ w.calls = x.calls
        /\ w.dirty = x.dirty /\ w.owed = x.owed /\ w.stale = x.stale
    BY <1>1 DEF Controllers
  <1>3. FinishActivity(x) = SetSuspended(w, FALSE)
    BY DEF FinishActivity
  <1> HIDE DEF w
  <1> DEFINE y == SetSuspended(w, FALSE)
  <1>4. /\ y \in Controllers /\ CalmBar(w, y) /\ y.suspended = FALSE
        /\ w.suspended => QueuedIsArmed(y)
        /\ OwedIsQueued(w) => OwedIsQueued(y)
    BY <1>2, SetSuspendedDoes
  <1>6. OwedIsQueued(x) => OwedIsQueued(w)
    BY <1>2 DEF OwedIsQueued
  <1> HIDE DEF y
  <1>5. /\ y \in Controllers /\ y.act = "idle" /\ ~y.verify /\ ~y.suspended
        /\ y.phase = x.phase /\ y.auth = x.auth /\ y.id = x.id /\ y.confirm = x.confirm
        /\ y.mon = x.mon /\ y.enabled = x.enabled /\ y.pending = x.pending
        /\ y.request = x.request /\ y.calls = x.calls /\ (y.stale => x.stale)
        /\ x.suspended => QueuedIsArmed(y)
        /\ OwedIsQueued(x) => OwedIsQueued(y)
    BY <1>2, <1>4, <1>6 DEF CalmBar, Awake
  <1> QED BY <1>3, <1>5 DEF y

\* finish_activity of an activity of a controller in order.
LEMMA FinishActivityDoes ==
  ASSUME NEW x, Good(x), Running(x), x.act # "idle"
  PROVE  Good(FinishActivity(x)) /\ Ended(x, FinishActivity(x))
  <1> DEFINE y == FinishActivity(x)
  <1>1. x \in Controllers /\ x.suspended /\ OwedIsQueued(x)
    BY DEF Good, InventoryIsSound, SuspendedIsBusy, Running
  <1>2. /\ y \in Controllers /\ y.act = "idle" /\ ~y.verify /\ ~y.suspended
        /\ y.phase = x.phase /\ y.auth = x.auth /\ y.id = x.id
        /\ y.mon = x.mon /\ y.enabled = x.enabled /\ y.pending = x.pending
        /\ y.request = x.request /\ y.calls = x.calls /\ QueuedIsArmed(y)
        /\ OwedIsQueued(y) /\ (y.stale => x.stale)
    BY <1>1, FinishKeeps
  <1> HIDE DEF y
  <1>3. Lists(y) = Lists(x) /\ Cmds(y) = Cmds(x)
    BY <1>2 DEF Lists, Cmds
  <1>4. Good(y)
    BY <1>2, <1>3 DEF Good, InventoryIsSound, ListsAreTold, PendingIsListed, SuspendedIsBusy,
                      Watched, Running
  <1>5. Ended(x, y)
    BY <1>2, <1>3 DEF Ended
  <1> QED BY <1>4, <1>5 DEF y

\* begin_activity suspends the background refreshes.
LEMMA BeginActivityDoes ==
  ASSUME NEW x, Good(x), Running(x), x.act = "idle", NEW act \in Commands \cup Interactions
  PROVE  LET y == BeginActivity(x, act)
         IN /\ Good(y) /\ y.phase = x.phase /\ y.id = x.id + 1 /\ y.act = act
            /\ ~y.verify /\ y.confirm = x.confirm /\ Cmds(y) = Cmds(x) /\ (y.stale => x.stale)
  <1> DEFINE w == [x EXCEPT !.id = @ + 1, !.act = act]
             y == SetSuspended(w, TRUE)
  <1>1. act \in Activities /\ act # "idle" /\ x \in Controllers /\ OwedIsQueued(x)
    BY DEF Activities, Commands, Interactions, Good, InventoryIsSound
  <1>2. /\ w \in Controllers /\ w.act = act /\ w.id = x.id + 1 /\ w.verify = x.verify
        /\ w.phase = x.phase /\ w.auth = x.auth /\ w.confirm = x.confirm
        /\ w.mon = x.mon /\ w.enabled = x.enabled /\ w.pending = x.pending
        /\ w.request = x.request /\ w.calls = x.calls
        /\ w.dirty = x.dirty /\ w.owed = x.owed /\ w.stale = x.stale
    <2> DEFINE n == x.id + 1
    <2>1. n \in Nat
      BY <1>1 DEF Controllers
    <2>2. w = [x EXCEPT !.id = n, !.act = act]
      BY <1>1 DEF Controllers
    <2>3. n = x.id + 1
      OBVIOUS
    <2> HIDE DEF n, w
    <2> QED BY <1>1, <2>1, <2>2, <2>3 DEF Controllers
  <1> HIDE DEF w
  <1>3. /\ y \in Controllers /\ CalmBar(w, y) /\ y.suspended /\ QueuedIsArmed(y)
        /\ OwedIsQueued(y)
    <2>1. OwedIsQueued(w)
      BY <1>1, <1>2 DEF OwedIsQueued
    <2> QED BY <1>2, <2>1, SetSuspendedDoes
  <1>4. ~x.verify
    BY <1>1 DEF Good, InventoryIsSound, Watched, Commands, Controllers
  <1> HIDE DEF y
  <1>5. Lists(y) = Lists(x) /\ Cmds(y) = Cmds(x)
    BY <1>2, <1>3 DEF CalmBar, Lists, Cmds
  <1>6. Good(y)
    BY <1>1, <1>2, <1>3, <1>4, <1>5
       DEF Good, InventoryIsSound, ListsAreTold, PendingIsListed, SuspendedIsBusy, Watched,
           CalmBar, Awake, Running
  <1>7. BeginActivity(x, act) = y
    BY DEF BeginActivity, w, y
  <1> QED BY <1>2, <1>3, <1>4, <1>5, <1>6, <1>7 DEF CalmBar, Awake

\* complete_mutation_action_with_purpose: the activity waits for the runtime source, or it
\* is over.
LEMMA CompleteMutationDoes ==
  ASSUME NEW x, Good(x), Running(x), x.act # "idle", NEW op
  PROVE  LET y == CompleteMutation(x, op)
         IN Good(y) /\ (Ended(x, y) \/ Waits(x, y)) /\ ~y.stale
  <1> DEFINE q == IF op \in {"import", "replace", "delete"} THEN QueueRefresh(x) ELSE x
             b == q.act \in Commands
             v == [q EXCEPT !.verify = b]
             r == RuntimeRefresh(v)
  <1>1. Good(q) /\ Kept(x, q)
    <2>1. x \in Controllers /\ OwedIsQueued(x)
      BY DEF Good, InventoryIsSound
    <2>2. Good(QueueRefresh(x)) /\ Kept(x, QueueRefresh(x))
      BY <2>1, QueueRefreshDoes, CalmIsGood
    <2> QED BY <2>2 DEF Kept, Awake
  <1>2. CompleteMutation(x, op) = IF ~r.verify \/ ~r.auth \/ ~r.checking THEN FinishActivity(r) ELSE r
    BY DEF CompleteMutation
  <1> HIDE DEF q
  <1>3. /\ v \in Controllers /\ v.verify = b
        /\ v.phase = q.phase /\ v.auth = q.auth /\ v.act = q.act /\ v.id = q.id
        /\ v.confirm = q.confirm /\ v.mon = q.mon /\ v.enabled = q.enabled
        /\ v.pending = q.pending /\ v.request = q.request /\ v.calls = q.calls
        /\ v.suspended = q.suspended /\ v.dirty = q.dirty /\ v.timer = q.timer
        /\ v.owed = q.owed /\ v.checking = q.checking
        /\ v.unheard = q.unheard /\ v.stale = q.stale
    <2>1. b \in BOOLEAN /\ q \in Controllers
      BY <1>1 DEF Good
    <2> HIDE DEF b
    <2> QED BY <2>1 DEF Controllers
  <1> HIDE DEF v
  <1>4. Lists(v) = Lists(q) /\ Cmds(v) = Cmds(q)
    BY <1>3 DEF Lists, Cmds
  <1>5. Good(v)
    <2>1. ListsAreTold(v) /\ PendingIsListed(v) /\ SuspendedIsBusy(v) /\ QueuedIsArmed(v)
          /\ OwedIsQueued(v)
      BY <1>1, <1>3, <1>4 DEF Good, InventoryIsSound, ListsAreTold, PendingIsListed,
                              SuspendedIsBusy, QueuedIsArmed, OwedIsQueued, Running
    <2>2. Watched(v)
      BY <1>1, <1>3 DEF Good, InventoryIsSound, Watched
    <2> QED BY <1>1, <1>3, <2>1, <2>2 DEF Good, InventoryIsSound
  <1>6. Good(r) /\ Kept(v, r) /\ ~r.stale
    BY <1>5, RuntimeDoes, CalmIsGood DEF Good, InventoryIsSound
  <1> HIDE DEF r
  <1>7. Running(r) /\ r.act # "idle"
    BY <1>1, <1>3, <1>6 DEF Kept, Running
  <1>8. Good(FinishActivity(r)) /\ Ended(r, FinishActivity(r))
    BY <1>6, <1>7, FinishActivityDoes
  <1>9. CASE ~r.verify \/ ~r.auth \/ ~r.checking
    BY <1>1, <1>2, <1>3, <1>4, <1>6, <1>8, <1>9 DEF Ended, Kept, Awake
  <1>10. CASE ~(~r.verify \/ ~r.auth \/ ~r.checking)
    BY <1>1, <1>2, <1>3, <1>4, <1>6, <1>10, ZenonT(30) DEF Waits, Kept
  <1> QED BY <1>9, <1>10

\* set_authorized(FALSE) forgets the requests, and ends what does not wait for the service.
LEMMA LoseAuthorizationDoes ==
  ASSUME NEW x \in Controllers, IsFiniteSet(x.calls), ListsAreTold(x), Running(x)
  PROVE  Good(LoseAuthorization(x)) /\ Lost(x, LoseAuthorization(x))
  <1> DEFINE a == IF x.act \in Interactions
                  THEN [x EXCEPT !.auth = FALSE, !.act = "idle", !.confirm = NoConfirm]
                  ELSE [x EXCEPT !.auth = FALSE]
             m == [a EXCEPT !.mon = FALSE, !.checking = FALSE, !.seen = "unknown",
                            !.unheard = FALSE, !.stale = FALSE]
             v == IF m.verify THEN FinishActivity(m) ELSE m
             w == ResetInventory(v)
             y == SetSuspended(w, v.act # "idle")
  <1>1. LoseAuthorization(x) = y
    BY DEF LoseAuthorization
  <1>2. x \in Controllers /\ x.phase = "running" /\ IsFiniteSet(x.calls) /\ ListsAreTold(x)
    BY DEF Running
  <1>3. "idle" \in Activities /\ NoConfirm \in Confirms /\ "unknown" \in Seens
    BY DEF Activities, NoConfirm, Confirms, Seens
  <1>4. /\ a \in Controllers /\ ~a.auth /\ a.verify = x.verify /\ a.phase = x.phase
        /\ a.id = x.id /\ a.calls = x.calls
        /\ a.act = IF x.act \in Interactions THEN "idle" ELSE x.act
    <2>1. CASE x.act \in Interactions
      BY <1>2, <1>3, <2>1 DEF Controllers
    <2>2. CASE x.act \notin Interactions
      BY <1>2, <2>2 DEF Controllers
    <2> QED BY <2>1, <2>2
  <1> HIDE DEF a
  <1>5. /\ m \in Controllers /\ ~m.auth /\ ~m.mon /\ ~m.stale /\ m.verify = a.verify /\ m.phase = a.phase
        /\ m.id = a.id /\ m.calls = a.calls /\ m.act = a.act
    BY <1>3, <1>4 DEF Controllers
  <1> HIDE DEF m
  <1>6. /\ v \in Controllers /\ ~v.auth /\ ~v.mon /\ ~v.verify /\ ~v.stale /\ v.phase = m.phase
        /\ v.id = m.id /\ v.calls = m.calls
        /\ v.act = IF m.verify THEN "idle" ELSE m.act
    <2>1. m.verify \in BOOLEAN
      BY <1>5 DEF Controllers
    <2> QED BY <1>5, <2>1, FinishKeeps
  <1> HIDE DEF v
  <1>7. v.calls = x.calls /\ v.phase = "running" /\ IsFiniteSet(v.calls) /\ ListsAreTold(v)
    BY <1>2, <1>4, <1>5, <1>6 DEF ListsAreTold, Lists
  <1>8. /\ w \in Controllers /\ IsFiniteSet(w.calls) /\ ListsAreTold(w) /\ ~w.pending
        /\ Kept(v, w) /\ w.mon = v.mon /\ ~w.dirty /\ ~w.owed
    BY <1>6, <1>7, ResetInventoryDoes
  <1> HIDE DEF w
  <1>9. QueuedIsArmed(w) /\ OwedIsQueued(w)
    BY <1>8 DEF QueuedIsArmed, OwedIsQueued
  <1>10. /\ y \in Controllers /\ CalmBar(w, y) /\ (y.suspended <=> v.act # "idle")
         /\ QueuedIsArmed(y) /\ OwedIsQueued(y)
    BY <1>8, <1>9, SetSuspendedDoes
  <1> HIDE DEF y
  <1>11. Lists(y) = Lists(w) /\ Cmds(y) = Cmds(w)
    BY <1>10 DEF CalmBar, Lists, Cmds
  <1>12. Good(y)
    BY <1>6, <1>7, <1>8, <1>10, <1>11 DEF Good, InventoryIsSound, ListsAreTold, PendingIsListed,
                                    SuspendedIsBusy, Watched, CalmBar, Kept, Awake, Running
  <1>13. Cmds(y) = Cmds(x)
    BY <1>7, <1>8, <1>11 DEF Kept, Cmds
  <1>14. Lost(x, y)
    BY <1>4, <1>5, <1>6, <1>8, <1>10, <1>13 DEF Lost, CalmBar, Kept, Awake
  <1> QED BY <1>1, <1>12, <1>14

\* set_authorized(TRUE) watches the runtime and reads the inventory.
LEMMA GainAuthorizationDoes ==
  ASSUME NEW x, Good(x), Running(x)
  PROVE  LET y == SetAuthorized(x, TRUE)
         IN /\ Good(y) /\ y.phase = x.phase /\ y.id = x.id /\ y.act = x.act /\ y.auth
            /\ y.confirm = x.confirm /\ y.verify = x.verify /\ Cmds(y) = Cmds(x)
            /\ (y.stale => x.stale)
            /\ x.auth /\ (x.checking \/ x.unheard) => y.checking \/ y.unheard
  <1> DEFINE w == [x EXCEPT !.auth = TRUE]
             a == ScheduleQueued(w)
             z == [a EXCEPT !.mon = TRUE, !.checking = TRUE, !.unheard = FALSE]
             r == RequestInventory(z, TRUE)
  <1>1. SetAuthorized(x, TRUE) = IF x.auth THEN a ELSE RequestInventory(z, TRUE)
    BY DEF SetAuthorized
  <1>2. x \in Controllers /\ OwedIsQueued(x) /\ Watched(x)
    BY DEF Good, InventoryIsSound
  <1>3. /\ w \in Controllers /\ w.auth /\ w.phase = x.phase /\ w.act = x.act /\ w.id = x.id
        /\ w.confirm = x.confirm /\ w.verify = x.verify /\ w.mon = x.mon
        /\ w.enabled = x.enabled /\ w.pending = x.pending /\ w.request = x.request
        /\ w.calls = x.calls /\ w.suspended = x.suspended
        /\ w.dirty = x.dirty /\ w.owed = x.owed /\ w.checking = x.checking
        /\ w.unheard = x.unheard /\ w.stale = x.stale
    BY <1>2 DEF Controllers
  <1> HIDE DEF w
  <1>4. a \in Controllers /\ Calm(w, a) /\ QueuedIsArmed(a) /\ OwedIsQueued(a)
    <2>1. OwedIsQueued(w)
      BY <1>2, <1>3 DEF OwedIsQueued
    <2> QED BY <1>3, <2>1, ScheduleQueuedDoes
  <1> HIDE DEF a
  <1>5. CASE x.auth
    <2>1. x.auth = TRUE
      BY <1>2, <1>5 DEF Controllers
    <2>2. Calm(x, a)
      <3>1. w.auth = x.auth
        BY <1>3, <2>1, <1>2 DEF Controllers
      <3> QED BY <1>3, <1>4, <3>1 DEF Calm, CalmBar, Awake
    <2>3. Good(a) /\ Kept(x, a) /\ a.auth /\ SetAuthorized(x, TRUE) = a
      BY <1>1, <1>3, <1>4, <1>5, <2>2, CalmIsGood DEF Calm, CalmBar
    <2> QED BY <1>2, <2>3 DEF Kept, Awake, Watched
  <1>6. CASE ~x.auth
    <2>1. /\ z \in Controllers /\ z.auth /\ z.mon /\ z.phase = x.phase /\ z.act = x.act
          /\ z.id = x.id /\ z.confirm = x.confirm /\ z.verify = x.verify
          /\ z.enabled = x.enabled /\ z.pending = x.pending /\ z.request = x.request
          /\ z.calls = x.calls /\ z.suspended = x.suspended
          /\ z.dirty = a.dirty /\ z.timer = a.timer
          /\ z.owed = a.owed /\ z.checking /\ z.stale = a.stale
      <3>1. /\ z \in Controllers /\ z.auth = a.auth /\ z.mon /\ z.phase = a.phase
            /\ z.act = a.act /\ z.id = a.id /\ z.confirm = a.confirm /\ z.verify = a.verify
            /\ z.enabled = a.enabled /\ z.pending = a.pending /\ z.request = a.request
            /\ z.calls = a.calls /\ z.suspended = a.suspended
            /\ z.dirty = a.dirty /\ z.timer = a.timer
            /\ z.owed = a.owed /\ z.checking /\ z.stale = a.stale
        BY <1>4 DEF Controllers
      <3> HIDE DEF z
      <3> QED BY <1>3, <1>4, <3>1 DEF Calm, CalmBar
    <2> HIDE DEF z
    <2>2. Lists(z) = Lists(x) /\ Cmds(z) = Cmds(x)
      BY <2>1 DEF Lists, Cmds
    <2>3. Good(z)
      BY <1>3, <1>4, <1>6, <2>1, <2>2
         DEF Good, InventoryIsSound, ListsAreTold, PendingIsListed, SuspendedIsBusy,
             QueuedIsArmed, OwedIsQueued, Watched, Running, Calm, CalmBar
    <2>4. Good(r) /\ Kept(z, r) /\ SetAuthorized(x, TRUE) = r
      BY <1>1, <1>6, <2>3, RequestInventoryDoes
    <2> HIDE DEF r
    <2> QED BY <1>3, <1>4, <1>6, <2>1, <2>2, <2>4, ZenonT(30) DEF Kept, Awake, Calm, CalmBar
  <1> QED BY <1>5, <1>6

\* dispatch_service_action: the command is sent, or the activity is over.
LEMMA DispatchActionDoes ==
  ASSUME NEW x, Good(x), Running(x), NEW op \in Commands, x.act = op
  PROVE  LET y == DispatchAction(x, op)
         IN Good(y) /\ (Ended(x, y) \/ Sends(x, y, op))
  <1> DEFINE y == Preempt(x)
             f == Refused(y, op, TRUE)
             call == Call(op, y.id)
             z == [y EXCEPT !.calls = @ \cup {call}]
             r == DispatchAction(x, op)
  <1>1. x.act # "idle"
    BY DEF Commands
  <1>2. Good(y) /\ Kept(x, y)
    BY <1>1, PreemptDoes
  <1>3. r \in {FinishActivity(x), FinishActivity(y), FinishActivity(f), z}
    BY DEF DispatchAction
  <1> HIDE DEF y
  <1>4. Good(f) /\ Kept(y, f)
    BY <1>2, RefusedDoes
  <1> HIDE DEF f
  <1>5. /\ Good(FinishActivity(x)) /\ Ended(x, FinishActivity(x))
        /\ Good(FinishActivity(y)) /\ Ended(y, FinishActivity(y))
        /\ Good(FinishActivity(f)) /\ Ended(f, FinishActivity(f))
    BY <1>1, <1>2, <1>4, FinishActivityDoes DEF Kept, Running
  <1>6. Good(z) /\ Sends(x, z, op)
    <2>1. y \in Controllers /\ IsFiniteSet(y.calls) /\ y.id = x.id
      BY <1>2 DEF Good, Kept
    <2>2. call \in Calls /\ call.op = op /\ op # "list" /\ call = Call(op, x.id)
      <3>1. y.id \in Nat
        BY <2>1 DEF Controllers
      <3> QED BY <2>1, <3>1, CallIsSent DEF Commands
    <2> HIDE DEF call
    <2>3. /\ z \in Controllers /\ z.calls = y.calls \cup {call}
          /\ z.phase = y.phase /\ z.auth = y.auth /\ z.act = y.act /\ z.id = y.id
          /\ z.confirm = y.confirm /\ z.verify = y.verify /\ z.mon = y.mon
          /\ z.enabled = y.enabled /\ z.pending = y.pending /\ z.request = y.request
          /\ z.suspended = y.suspended /\ z.dirty = y.dirty /\ z.timer = y.timer
          /\ z.owed = y.owed /\ z.checking = y.checking
          /\ z.unheard = y.unheard /\ z.stale = y.stale
      BY <2>1, <2>2, SMTT(30) DEF Controllers
    <2> HIDE DEF z
    <2>4. IsFiniteSet(z.calls)
      BY <2>1, <2>3, FS_AddElement
    <2>5. Lists(z) = Lists(y) /\ Cmds(z) = Cmds(y) \cup {call}
      BY <2>2, <2>3 DEF Lists, Cmds
    <2>6. Good(z)
      BY <1>2, <2>3, <2>4, <2>5
         DEF Good, InventoryIsSound, ListsAreTold, PendingIsListed, SuspendedIsBusy,
             QueuedIsArmed, OwedIsQueued, Watched, Running
    <2> QED BY <1>2, <2>2, <2>3, <2>5, <2>6 DEF Sends, Kept, Awake
  <1> QED BY <1>2, <1>3, <1>4, <1>5, <1>6 DEF Ended, Kept, Awake


-----------------------------------------------------------------------------
(* Answers.                                                                *)

\* network_sidebar_awg_inventory_set_enabled arms what waited for the sidebar to be shown.
LEMMA SetEnabledDoes ==
  ASSUME NEW x, Good(x), NEW b \in BOOLEAN
  PROVE  Good(SetEnabled(x, b)) /\ Kept(x, SetEnabled(x, b))
  <1> DEFINE w == [x EXCEPT !.enabled = b]
             z == [w EXCEPT !.timer = FALSE]
             y == IF b THEN ScheduleQueued(w) ELSE z
  <1>1. SetEnabled(x, b) = y
    BY DEF SetEnabled
  <1>2. x \in Controllers /\ OwedIsQueued(x)
    BY DEF Good, InventoryIsSound
  <1>3. /\ w \in Controllers /\ w.enabled = b
        /\ w.phase = x.phase /\ w.auth = x.auth /\ w.act = x.act /\ w.id = x.id
        /\ w.confirm = x.confirm /\ w.verify = x.verify /\ w.mon = x.mon
        /\ w.pending = x.pending /\ w.request = x.request /\ w.calls = x.calls
        /\ w.suspended = x.suspended /\ w.dirty = x.dirty /\ w.owed = x.owed
        /\ w.checking = x.checking /\ w.unheard = x.unheard /\ w.stale = x.stale
    BY <1>2 DEF Controllers
  <1> HIDE DEF w
  <1>6. OwedIsQueued(w)
    BY <1>2, <1>3 DEF OwedIsQueued
  <1>4. /\ y \in Controllers /\ QueuedIsArmed(y) /\ OwedIsQueued(y) /\ Awake(x, y)
        /\ y.phase = x.phase /\ y.auth = x.auth /\ y.act = x.act /\ y.id = x.id
        /\ y.confirm = x.confirm /\ y.verify = x.verify /\ y.mon = x.mon
        /\ y.pending = x.pending /\ y.request = x.request /\ y.calls = x.calls
        /\ y.suspended = x.suspended
    <2>1. CASE b
      <3> DEFINE q == ScheduleQueued(w)
      <3>1. q \in Controllers /\ Calm(w, q) /\ QueuedIsArmed(q) /\ OwedIsQueued(q) /\ y = q
        BY <1>3, <1>6, <2>1, ScheduleQueuedDoes
      <3> HIDE DEF q, y
      <3> QED BY <1>3, <3>1 DEF Calm, CalmBar, Awake
    <2>2. CASE ~b
      <3>1. /\ z \in Controllers /\ z.enabled = w.enabled
            /\ z.phase = w.phase /\ z.auth = w.auth /\ z.act = w.act /\ z.id = w.id
            /\ z.confirm = w.confirm /\ z.verify = w.verify /\ z.mon = w.mon
            /\ z.pending = w.pending /\ z.request = w.request /\ z.calls = w.calls
            /\ z.suspended = w.suspended /\ z.dirty = w.dirty /\ z.owed = w.owed
            /\ z.checking = w.checking /\ z.unheard = w.unheard /\ z.stale = w.stale
        BY <1>3 DEF Controllers
      <3> HIDE DEF z
      <3> QED BY <1>3, <1>6, <2>2, <3>1 DEF QueuedIsArmed, OwedIsQueued, Awake
    <2> QED BY <2>1, <2>2
  <1> HIDE DEF y
  <1>5. Lists(y) = Lists(x) /\ Cmds(y) = Cmds(x)
    BY <1>4 DEF Lists, Cmds
  <1> QED BY <1>1, <1>4, <1>5 DEF Good, InventoryIsSound, ListsAreTold, PendingIsListed,
                                  SuspendedIsBusy, Watched, Running, Kept

\* The activity goes on to its next stage.
Stage(x, act, confirm) == [x EXCEPT !.confirm = confirm, !.act = act]

\* request_confirmation and the callbacks of the dialogs change its stage, and nothing of what
\* is waited for.
LEMMA StageDoes ==
  ASSUME NEW x, Good(x), Running(x), x.act # "idle", ~x.verify,
         NEW act \in Commands \cup Interactions, NEW confirm \in Confirms,
         NEW y, y = Stage(x, act, confirm)
  PROVE  /\ Good(y) /\ y.phase = x.phase /\ y.auth = x.auth /\ y.id = x.id /\ y.act = act
         /\ y.confirm = confirm /\ ~y.verify /\ Cmds(y) = Cmds(x) /\ y.stale = x.stale
  <1>1. x \in Controllers /\ act \in Activities /\ act # "idle"
    BY DEF Good, Activities, Commands, Interactions
  <1>2. /\ y \in Controllers /\ y.act = act /\ y.confirm = confirm
        /\ y.phase = x.phase /\ y.auth = x.auth /\ y.id = x.id
        /\ y.verify = x.verify /\ y.mon = x.mon /\ y.enabled = x.enabled
        /\ y.pending = x.pending /\ y.request = x.request /\ y.calls = x.calls
        /\ y.suspended = x.suspended /\ y.dirty = x.dirty /\ y.timer = x.timer
        /\ y.owed = x.owed /\ y.checking = x.checking
        /\ y.unheard = x.unheard /\ y.stale = x.stale
    BY <1>1 DEF Controllers, Stage
  <1>3. Lists(y) = Lists(x) /\ Cmds(y) = Cmds(x)
    BY <1>2 DEF Lists, Cmds
  <1>4. Good(y)
    BY <1>1, <1>2, <1>3 DEF Good, InventoryIsSound, ListsAreTold, PendingIsListed,
                            SuspendedIsBusy, QueuedIsArmed, OwedIsQueued, Watched, Running
  <1> QED BY <1>2, <1>3, <1>4

\* apply_inventory_reply changes what is known.
LEMMA ApplyReplyDoes ==
  ASSUME NEW x \in Controllers, NEW c \in Calls, NEW quick \in BOOLEAN
  PROVE  /\ ApplyReply(x, c, quick) \in Controllers /\ Calm(x, ApplyReply(x, c, quick))
         /\ ~ApplyReply(x, c, quick).owed
  <1> DEFINE m == IF quick THEN {} ELSE {"quick"}
             s == c.saved
             y == [x EXCEPT !.known = TRUE, !.missing = m, !.saved = s, !.owed = FALSE]
  <1>1. m \in Missings /\ s \in BOOLEAN
    BY DEF Missings, Calls
  <1>2. ApplyReply(x, c, quick) = IF y.saved = x.saved THEN y ELSE RuntimeRefresh(y)
    BY DEF ApplyReply
  <1> HIDE DEF m, s
  <1>3. y \in Controllers /\ Calm(x, y) /\ ~y.owed
    BY <1>1, ZenonT(30) DEF Controllers, Calm, CalmBar, Awake
  <1> HIDE DEF y
  <1>4. /\ RuntimeRefresh(y) \in Controllers /\ Calm(y, RuntimeRefresh(y))
        /\ RuntimeRefresh(y).owed = y.owed
    BY <1>3, RuntimeDoes
  <1> QED BY <1>2, <1>3, <1>4 DEF Calm, CalmBar, Awake

\* A controller whose wait for the inventory ends.
Unlisted(x) ==
  /\ x \in Controllers /\ IsFiniteSet(x.calls) /\ ListsAreTold(x)
  /\ SuspendedIsBusy(x) /\ QueuedIsArmed(x) /\ OwedIsQueued(x) /\ Watched(x)

\* finish_request of the current request ends the wait for it.
LEMMA FinishRequestDoes ==
  ASSUME NEW x, Unlisted(x), NEW z \in Controllers, Calm(x, z), NEW c, RequestIsCurrent(x, c),
         z.owed => z.dirty
  PROVE  Good(FinishRequest(z, c)) /\ Kept(x, FinishRequest(z, c))
  <1> DEFINE w == [z EXCEPT !.pending = FALSE]
             y == ScheduleQueued(w)
  <1>1. FinishRequest(z, c) = y
    BY DEF FinishRequest, RequestIsCurrent, Calm, CalmBar, Running
  <1>2. /\ w \in Controllers /\ ~w.pending
        /\ w.phase = z.phase /\ w.auth = z.auth /\ w.act = z.act /\ w.id = z.id
        /\ w.confirm = z.confirm /\ w.verify = z.verify /\ w.mon = z.mon
        /\ w.calls = z.calls /\ w.suspended = z.suspended
        /\ w.dirty = z.dirty /\ w.owed = z.owed
        /\ w.checking = z.checking /\ w.unheard = z.unheard /\ w.stale = z.stale
    BY DEF Controllers
  <1> HIDE DEF w
  <1>3. y \in Controllers /\ Calm(w, y) /\ QueuedIsArmed(y) /\ OwedIsQueued(y)
    <2>1. OwedIsQueued(w)
      BY <1>2 DEF OwedIsQueued
    <2> QED BY <1>2, <2>1, ScheduleQueuedDoes
  <1> HIDE DEF y
  <1>4. Lists(y) = Lists(x) /\ Cmds(y) = Cmds(x)
    BY <1>2, <1>3 DEF Calm, CalmBar, Lists, Cmds
  <1>5. Kept(x, y)
    BY <1>2, <1>3, <1>4 DEF Calm, CalmBar, Kept, Awake
  <1>6. Good(y)
    BY <1>2, <1>3, <1>4 DEF Unlisted, Good, InventoryIsSound, ListsAreTold, PendingIsListed,
                            SuspendedIsBusy, Watched, Calm, CalmBar, Awake, Running
  <1> QED BY <1>1, <1>5, <1>6

\* inventory_result_cb: a request that is not current changes nothing, the current one is
\* waited for no longer.
LEMMA InventoryResultDoes ==
  ASSUME NEW x, Unlisted(x), NEW c \in Calls, NEW r, NEW quick \in BOOLEAN,
         RequestIsCurrent(x, c) \/ PendingIsListed(x), RequestIsCurrent(x, c) => r # "cancelled"
  PROVE  LET y == InventoryResult(x, c, r, quick)
         IN Good(y) /\ (Kept(x, y) \/ Lost(x, y))
  <1> DEFINE y == InventoryResult(x, c, r, quick)
             z == Reach(x, r = "busy")
             t == Reach(x, TRUE)
             l == LoseAuthorization(t)
  <1>1. x \in Controllers
    BY DEF Unlisted
  <1>2. CASE ~RequestIsCurrent(x, c)
    <2>1. y = x
      BY <1>2 DEF InventoryResult
    <2> QED BY <1>2, <2>1 DEF Unlisted, Good, InventoryIsSound, Kept, Awake
  <1>3. CASE RequestIsCurrent(x, c)
    <2>1. z \in Controllers /\ Calm(x, z) /\ t \in Controllers /\ Calm(x, t)
      BY <1>1, ReachDoes
    <2>2. y \in {FinishRequest(ApplyReply(x, c, quick), c),
                 FinishRequest(QueueRefresh(x), c), FinishRequest(QueueRefresh(z), c),
                 FinishRequest(l, c)}
      BY <1>3 DEF InventoryResult, InventoryFailed
    <2> HIDE DEF z, t
    <2>3. CASE y = FinishRequest(ApplyReply(x, c, quick), c)
      BY <1>1, <1>3, <2>3, ApplyReplyDoes, FinishRequestDoes
    <2>4. Running(x)
      BY <1>3 DEF RequestIsCurrent
    <2>5. CASE y = FinishRequest(QueueRefresh(x), c)
      BY <1>1, <1>3, <2>4, <2>5, QueueRefreshDoes, FinishRequestDoes
    <2>6. CASE y = FinishRequest(QueueRefresh(z), c)
      <3>1. /\ QueueRefresh(z) \in Controllers /\ Calm(x, QueueRefresh(z))
            /\ QueueRefresh(z).dirty
        <4>1. Running(z)
          BY <2>1, <2>4 DEF Calm, CalmBar, Running
        <4>2. /\ QueueRefresh(z) \in Controllers /\ Calm(z, QueueRefresh(z))
              /\ QueueRefresh(z).dirty
          BY <2>1, <4>1, QueueRefreshDoes
        <4> QED BY <2>1, <4>2 DEF Calm, CalmBar, Awake
      <3> QED BY <1>1, <1>3, <2>6, <3>1, FinishRequestDoes
    <2>7. CASE y = FinishRequest(l, c)
      <3>1. IsFiniteSet(t.calls) /\ ListsAreTold(t) /\ Running(t) /\ Cmds(t) = Cmds(x)
        BY <1>3, <2>1 DEF Unlisted, ListsAreTold, Lists, Cmds, Calm, CalmBar, Running,
                          RequestIsCurrent
      <3>2. Good(l) /\ Lost(t, l)
        BY <2>1, <3>1, LoseAuthorizationDoes
      <3>3. y = l
        BY <2>7, <3>2 DEF Lost, FinishRequest, RequestIsCurrent
      <3>4. Lost(x, l)
        <4> HIDE DEF l
        <4> QED BY <2>1, <3>1, <3>2 DEF Lost, Calm, CalmBar
      <3> QED BY <3>2, <3>3, <3>4
    <2> QED BY <2>2, <2>3, <2>5, <2>6, <2>7
  <1> QED BY <1>2, <1>3

\* Whatever was learnt with the answer, complete_mutation and finish_activity end the
\* activity, or leave it to the runtime source.
LEMMA OverAfterKept ==
  ASSUME NEW x, Good(x), Running(x), x.act # "idle", NEW y, Good(y), Kept(x, y), NEW op
  PROVE  /\ Good(CompleteMutation(y, op))
         /\ Ended(x, CompleteMutation(y, op)) \/ Waits(x, CompleteMutation(y, op))
         /\ ~CompleteMutation(y, op).stale
         /\ Good(FinishActivity(y)) /\ Ended(x, FinishActivity(y))
         /\ FinishActivity(y).stale => y.stale
  <1> DEFINE m == CompleteMutation(y, op)
             f == FinishActivity(y)
  <1>1. Running(y) /\ y.act # "idle"
    BY DEF Kept, Running
  <1>2. Good(m) /\ (Ended(y, m) \/ Waits(y, m)) /\ ~m.stale
    BY <1>1, CompleteMutationDoes
  <1>3. Good(f) /\ Ended(y, f)
    BY <1>1, FinishActivityDoes
  <1> HIDE DEF m, f
  <1>4. (Ended(x, m) \/ Waits(x, m)) /\ Ended(x, f) /\ (f.stale => y.stale)
    BY <1>2, <1>3 DEF Ended, Waits, Kept, Awake
  <1> QED BY <1>2, <1>3, <1>4 DEF m, f

\* What is known of the saved profile says nothing about the activity.
LEMMA SavedDoes ==
  ASSUME NEW x, Good(x), NEW b \in BOOLEAN
  PROVE  Good([x EXCEPT !.saved = b]) /\ Kept(x, [x EXCEPT !.saved = b])
  <1> DEFINE y == [x EXCEPT !.saved = b]
  <1>1. /\ x \in Controllers /\ y \in Controllers /\ Calm(x, y)
        /\ y.dirty = x.dirty /\ y.timer = x.timer
        /\ y.owed = x.owed /\ y.checking = x.checking
        /\ y.unheard = x.unheard /\ y.stale = x.stale
    BY DEF Good, Controllers, Calm, CalmBar, Awake
  <1> HIDE DEF y
  <1>2. QueuedIsArmed(y) /\ OwedIsQueued(y)
    BY <1>1 DEF Good, InventoryIsSound, QueuedIsArmed, OwedIsQueued, Calm, CalmBar, Running
  <1>3. Good(y) /\ Kept(x, y)
    BY <1>1, <1>2, CalmIsGood
  <1> QED BY <1>3 DEF y

\* One more thing that is learnt leaves the activity as it was.
LEMMA LearntDoes ==
  ASSUME NEW x, NEW y, Good(y), Kept(x, y), NEW b \in BOOLEAN
  PROVE  /\ Good(Reach(y, b)) /\ Kept(x, Reach(y, b))
         /\ Good(QueueRefresh(y)) /\ Kept(x, QueueRefresh(y))
         /\ Good(RuntimeRefresh(y)) /\ Kept(x, RuntimeRefresh(y)) /\ ~RuntimeRefresh(y).stale
  <1>1. y \in Controllers /\ QueuedIsArmed(y) /\ OwedIsQueued(y)
    BY DEF Good, InventoryIsSound
  <1>2. /\ Good(Reach(y, b)) /\ Kept(y, Reach(y, b))
        /\ Good(QueueRefresh(y)) /\ Kept(y, QueueRefresh(y))
        /\ Good(RuntimeRefresh(y)) /\ Kept(y, RuntimeRefresh(y)) /\ ~RuntimeRefresh(y).stale
    BY <1>1, ReachDoes, QueueRefreshDoes, RuntimeDoes, CalmIsGood
  <1> QED BY <1>2 DEF Kept, Awake

\* The success branch of backend_service_result.
LEMMA SucceededDoes ==
  ASSUME NEW x, Good(x), Running(x), x.act # "idle", NEW y, Good(y), Kept(x, y), NEW op
  PROVE  /\ Good(Succeeded(y, op))
         /\ Ended(x, Succeeded(y, op)) \/ Waits(x, Succeeded(y, op))
         /\ ~Succeeded(y, op).stale
  <1> DEFINE gone == [y EXCEPT !.saved = FALSE]
             here == [y EXCEPT !.saved = TRUE]
             q == QueueRefresh(RuntimeRefresh(gone))
  <1>1. Good(gone) /\ Kept(x, gone) /\ Good(here) /\ Kept(x, here)
    BY SavedDoes DEF Kept, Awake
  <1>2. Succeeded(y, op) \in {FinishActivity(q), CompleteMutation(here, op), CompleteMutation(y, op)}
    BY DEF Succeeded
  <1> HIDE DEF gone, here
  <1>3. Good(q) /\ Kept(x, q) /\ ~q.stale
    <2> DEFINE g == RuntimeRefresh(gone)
    <2>1. Good(g) /\ Kept(x, g) /\ ~g.stale
      BY <1>1, LearntDoes
    <2> HIDE DEF g
    <2>2. Good(QueueRefresh(g)) /\ Kept(x, QueueRefresh(g))
      BY <2>1, LearntDoes
    <2>3. g \in Controllers
      BY <2>1 DEF Good
    <2>4. ~QueueRefresh(g).stale
      BY <2>1, <2>3, QueueRefreshDoes DEF Calm, CalmBar, Awake
    <2> QED BY <2>2, <2>4 DEF g
  <1> HIDE DEF q
  <1>4. CASE Succeeded(y, op) = FinishActivity(q)
    BY <1>3, <1>4, OverAfterKept
  <1>5. CASE Succeeded(y, op) = CompleteMutation(here, op)
    BY <1>1, <1>5, OverAfterKept
  <1>6. CASE Succeeded(y, op) = CompleteMutation(y, op)
    BY <1>6, OverAfterKept
  <1> QED BY <1>2, <1>4, <1>5, <1>6

Results == {"cancelled", "timed_out", "failed", "not_authorized", "busy", "success", "recheck",
            "refused"}

\* backend_service_result of the activity that is shown ends it, or leaves it to the runtime
\* source, also when authorization is lost with the answer.
LEMMA ServiceResultDoes ==
  ASSUME NEW x, Good(x), NEW c, ServiceActionMatches(x, c), NEW r \in Results \ {"cancelled"}
  PROVE  LET y == ServiceResult(x, c, r)
         IN Good(y) /\ (Ended(x, y) \/ Waits(x, y)) /\ ~y.stale
  <1> DEFINE y == ServiceResult(x, c, r)
             t == Reach(x, TRUE)
             u == Reach(x, FALSE)
             l == LoseAuthorization(t)
  <1> SUFFICES Good(y) /\ (Ended(x, y) \/ Waits(x, y)) /\ ~y.stale
    OBVIOUS
  <1>1. Running(x) /\ x.act # "idle" /\ x.id = c.id
    BY DEF ServiceActionMatches, ActivityMatches
  <1>2. Kept(x, x)
    BY DEF Kept, Awake
  <1>3. Good(t) /\ Kept(x, t) /\ Good(u) /\ Kept(x, u)
    BY <1>2, LearntDoes
  <1>4. y \in {CompleteMutation(x, c.op), CompleteMutation(QueueRefresh(u), c.op),
               IF ServiceActionMatches(l, c) THEN FinishActivity(l) ELSE l,
               CompleteMutation(t, c.op), Succeeded(t, c.op),
               CompleteMutation(QueueRefresh(t), c.op)}
    BY DEF ServiceResult, Results
  <1> HIDE DEF t, u, y
  <1>5. /\ Good(QueueRefresh(t)) /\ Kept(x, QueueRefresh(t))
        /\ Good(QueueRefresh(u)) /\ Kept(x, QueueRefresh(u))
    BY <1>3, LearntDoes
  <1>7. CASE y = CompleteMutation(x, c.op)
    BY <1>1, <1>2, <1>7, OverAfterKept
  <1>8. CASE y = CompleteMutation(QueueRefresh(u), c.op)
    BY <1>1, <1>5, <1>8, OverAfterKept
  <1>9. CASE y = CompleteMutation(t, c.op)
    BY <1>1, <1>3, <1>9, OverAfterKept
  <1>10. CASE y = Succeeded(t, c.op)
    BY <1>1, <1>3, <1>10, SucceededDoes
  <1>11. CASE y = CompleteMutation(QueueRefresh(t), c.op)
    BY <1>1, <1>5, <1>11, OverAfterKept
  <1>12. CASE y = IF ServiceActionMatches(l, c) THEN FinishActivity(l) ELSE l
    <2>1. Good(l) /\ Lost(t, l)
      BY <1>1, <1>3, LoseAuthorizationDoes DEF Good, InventoryIsSound, Kept, Running
    <2> HIDE DEF l
    <2>2. /\ Running(l) /\ l.id = c.id /\ l.phase = x.phase /\ ~l.verify /\ Cmds(l) = Cmds(x)
          /\ ~l.stale
      BY <1>1, <1>3, <2>1 DEF Lost, Kept, Running
    <2>3. CASE l.act = "idle"
      BY <1>1, <1>12, <2>1, <2>2, <2>3 DEF Ended, ServiceActionMatches, ActivityMatches
    <2>4. CASE l.act # "idle"
      <3>1. Good(FinishActivity(l)) /\ Ended(l, FinishActivity(l))
        BY <2>1, <2>2, <2>4, FinishActivityDoes
      <3>2. y = FinishActivity(l)
        BY <1>12, <2>2, <2>4 DEF ServiceActionMatches, ActivityMatches
      <3> QED BY <1>1, <2>2, <3>1, <3>2 DEF Ended
    <2> QED BY <2>3, <2>4
  <1> QED BY <1>4, <1>7, <1>8, <1>9, <1>10, <1>11, <1>12

-----------------------------------------------------------------------------
(* What a step does to the invariant.                                      *)

\* No command is open.
Silent(x) == \A c \in Cmds(x) : ~c.open

\* Every command was sent before, for the same activity.
Fewer(x, y) ==
  \A c \in Cmds(y) :
    \E b \in Cmds(x) : /\ b.op = c.op /\ b.id = c.id /\ (c.at = "done" => c.res # "none")
                       /\ c.res = "replace_required" => c.op = "import"

\* The rest of the sidebar.
Around ==
  /\ world' \in BOOLEAN /\ ext' \in BOOLEAN /\ dialogs' \subseteq Dialogs
  /\ agreed \subseteq agreed' /\ agreed' \subseteq Dialogs

\* An activity without a command of its own has none open.
LEMMA SilentUnlessSent ==
  ASSUME IndInv, k.phase # "stopped", k.act \notin Commands \/ k.verify
  PROVE  Silent(k)
  <1>1. \A c \in Cmds(k) : c.op \in Commands /\ (c.open => c \in Open)
    BY DEF IndInv, Types, Controllers, Calls, Cmds, Open
  <1> QED BY <1>1 DEF IndInv, CommandIsShown, Silent

\* Commands that were sent before were confirmed before.
LEMMA FewerIsConfirmed ==
  ASSUME IndInv, Fewer(k, k'), agreed \subseteq agreed'
  PROVE  CallsAreMade' /\ Confirmed'
  <1> DEFINE l == k'
  <1>1. Fewer(k, l)
    OBVIOUS
  <1>2. Confirmed
    BY DEF IndInv
  <1>3. \A c \in Cmds(l) : /\ c.at = "done" => c.res # "none"
                           /\ c.res = "replace_required" => c.op = "import"
    BY <1>1 DEF Fewer
  <1>4. \A c \in l.calls : c.op \in {"delete", "replace"} => [kind |-> c.op, id |-> c.id] \in agreed'
    <2> TAKE c \in l.calls
    <2> HAVE c.op \in {"delete", "replace"}
    <2>1. c \in Cmds(l)
      BY DEF Cmds
    <2>2. PICK b \in Cmds(k) : b.op = c.op /\ b.id = c.id
      BY <1>1, <2>1 DEF Fewer
    <2>3. b \in k.calls
      BY DEF Cmds
    <2> QED BY <1>2, <2>2, <2>3 DEF Confirmed
  <1> QED BY <1>3, <1>4 DEF CallsAreMade, Confirmed

\* The same commands are fewer.
LEMMA SameIsFewer ==
  ASSUME IndInv, NEW y, Cmds(y) \subseteq Cmds(k)
  PROVE  Fewer(k, y) /\ (Silent(k) => Silent(y))
  BY DEF IndInv, CallsAreMade, Fewer, Silent

\* What concerns the types and the bounds.
LEMMA FrameStep ==
  ASSUME IndInv, Good(k'), Around, IdIsBounded', CommandIsShown', DialogIsAsked',
         CallsAreMade', Confirmed', CheckIsAwaited(k')
  PROVE  IndInv'
  BY DEF IndInv, Good, Around, Types

\* The activity and its commands are the same.
Stays(x, y) ==
  /\ y.phase = x.phase /\ y.act = x.act /\ y.id = x.id /\ y.confirm = x.confirm
  /\ y.verify = x.verify /\ Cmds(y) = Cmds(x) /\ (CheckIsAwaited(x) => CheckIsAwaited(y))

\* A step that leaves the activity, its commands and its dialog alone.
LEMMA StaysStep ==
  ASSUME IndInv, Good(k'), Stays(k, k'), Around, dialogs' \subseteq dialogs,
         k.phase # "stopped" /\ k.act \in Interactions =>
           [kind |-> Kind(k.act), id |-> k.id] \in dialogs'
  PROVE  IndInv'
  <1> DEFINE l == k'
  <1>1. Stays(k, l)
    OBVIOUS
  <1>2. Open' = Open
    <2>1. Open' = {c \in Cmds(l) : c.open} /\ Open = {c \in Cmds(k) : c.open}
      BY DEF Open, Cmds
    <2> QED BY <1>1, <2>1 DEF Stays
  <1> HIDE DEF l
  <1>3. CommandIsShown'
    <2>1. l = k' /\ CommandIsShown
      BY DEF IndInv, l
    <2> QED BY <1>1, <1>2, <2>1 DEF CommandIsShown, Stays
  <1>4. DialogIsAsked'
    <2>1. l = k' /\ DialogIsAsked
      BY DEF IndInv, l
    <2> QED BY <1>1, <2>1 DEF DialogIsAsked, Stays
  <1>5. IdIsBounded'
    <2>1. l = k' /\ IdIsBounded
      BY DEF IndInv, l
    <2> QED BY <1>1, <2>1 DEF IdIsBounded, Stays
  <1>6. CallsAreMade' /\ Confirmed'
    BY <1>1, SameIsFewer, FewerIsConfirmed DEF Stays, Around, l
  <1>7. CheckIsAwaited(k')
    BY DEF IndInv, Stays
  <1> QED BY <1>3, <1>4, <1>5, <1>6, <1>7, FrameStep

\* A step that ends the activity, or leaves it to the runtime source.
Over(x, y) ==
  /\ y.phase = x.phase /\ x.id <= y.id /\ Silent(y) /\ Fewer(x, y) /\ ~y.stale
  /\ \/ y.act = "idle" /\ ~y.verify
     \/ /\ y.id = x.id /\ y.act = x.act /\ y.act \in Commands
        /\ y.verify /\ y.auth /\ y.checking

LEMMA OverStep ==
  ASSUME IndInv, Good(k'), Over(k, k'), Around, dialogs' \subseteq dialogs, IdIsBounded'
  PROVE  IndInv'
  <1> DEFINE l == k'
  <1>1. Over(k, l) /\ Good(l)
    OBVIOUS
  <1>2. Open' = {}
    <2>1. Open' = {c \in Cmds(l) : c.open}
      BY DEF Open, Cmds
    <2> QED BY <1>1, <2>1 DEF Over, Silent
  <1>3. "idle" \notin Commands \cup Interactions /\ Commands \cap Interactions = {}
    BY DEF Commands, Interactions
  <1>4. k.id \in Nat /\ l.id \in Nat /\ \A d \in dialogs : d.id \in Nat
    BY <1>1 DEF Good, Controllers, IndInv, Types, Dialogs
  <1> HIDE DEF l
  <1>5. CommandIsShown'
    <2>1. l = k'
      BY DEF l
    <2> QED BY <1>1, <1>2, <1>3, <2>1 DEF CommandIsShown, Over
  <1>6. DialogIsAsked'
    <2>1. l = k' /\ DialogIsAsked
      BY DEF IndInv, l
    <2> SUFFICES ASSUME l.phase # "stopped" PROVE DialogIsAsked'
      BY <2>1 DEF DialogIsAsked
    <2>2. /\ \A d \in dialogs' : d.id <= l.id
          /\ \A d, e \in dialogs' : d.id = e.id => d = e
      BY <1>1, <1>4, <2>1 DEF DialogIsAsked, Over
    <2>3. CASE l.act = "idle"
      BY <1>3, <2>1, <2>2, <2>3 DEF DialogIsAsked, Interactions
    <2>4. CASE l.id = k.id /\ l.act = k.act /\ l.act \in Commands
      <3>1. l.act \notin Interactions /\ l.act \notin {"replace_confirm", "delete_confirm"}
        BY <1>3, <2>4 DEF Interactions
      <3>2. \A d \in dialogs : d.id # k.id
        BY <1>1, <2>1, <2>4 DEF DialogIsAsked, Over
      <3> QED BY <2>1, <2>2, <2>4, <3>1, <3>2 DEF DialogIsAsked
    <2> QED BY <1>1, <2>3, <2>4 DEF Over
  <1>7. CallsAreMade' /\ Confirmed'
    BY <1>1, FewerIsConfirmed DEF Around, Over, l
  <1>8. CheckIsAwaited(k')
    BY <1>1 DEF CheckIsAwaited, Over, l
  <1> QED BY <1>5, <1>6, <1>7, <1>8, FrameStep

\* A step that takes authorization away.
LEMMA LostStep ==
  ASSUME IndInv, Running(k), Good(k'), Lost(k, k'), Around, dialogs' = dialogs
  PROVE  IndInv'
  <1> DEFINE l == k'
  <1>1. Lost(k, l)
    OBVIOUS
  <1>2. IdIsBounded'
    BY DEF IndInv, IdIsBounded, Lost
  <1>3. CASE k.act \in Interactions \/ k.verify
    <2>1. k.act \notin Commands \/ k.verify
      BY <1>3 DEF Commands, Interactions
    <2>2. Silent(k)
      BY <2>1, SilentUnlessSent DEF Running
    <2>3. Fewer(k, l) /\ Silent(l)
      BY <1>1, <2>2, SameIsFewer DEF Lost
    <2>4. k.id \in Nat
      BY DEF IndInv, Types, Controllers
    <2>5. Over(k, l)
      BY <1>1, <1>3, <2>3, <2>4 DEF Over, Lost
    <2> QED BY <1>2, <2>5, OverStep DEF l
  <1>4. CASE ~(k.act \in Interactions \/ k.verify)
    <2>1. Open' = Open
      <3>1. Open' = {c \in Cmds(l) : c.open} /\ Open = {c \in Cmds(k) : c.open}
        BY DEF Open, Cmds
      <3> QED BY <1>1, <3>1 DEF Lost
    <2> HIDE DEF l
    <2>2. l = k' /\ l.act = k.act /\ l.id = k.id /\ ~l.verify /\ l.phase = k.phase
      BY <1>1, <1>4 DEF Lost, l
    <2>3. CommandIsShown'
      BY <1>4, <2>1, <2>2 DEF IndInv, CommandIsShown
    <2>4. DialogIsAsked'
      BY <1>4, <2>2 DEF IndInv, DialogIsAsked, Interactions
    <2>5. CallsAreMade' /\ Confirmed'
      BY <1>1, SameIsFewer, FewerIsConfirmed DEF Lost, Around, l
    <2>6. CheckIsAwaited(k')
      BY <1>1, <2>2 DEF CheckIsAwaited, Lost
    <2> QED BY <1>2, <2>3, <2>4, <2>5, <2>6, FrameStep
  <1> QED BY <1>3, <1>4

\* A step that sends the command of the activity that is shown.
LEMMA SendsStep ==
  ASSUME IndInv, Running(k), Silent(k), Good(k'), Around, NEW op \in Commands, NEW id \in Nat,
         k'.phase = k.phase, k'.act = op, k'.id = id, ~k'.verify, ~k'.stale,
         Cmds(k') = Cmds(k) \cup {Call(op, id)}, k.id <= id, IdIsBounded',
         op \in {"delete", "replace"} => [kind |-> op, id |-> id] \in agreed',
         dialogs' \subseteq dialogs, \A d \in dialogs' : d.id # id
  PROVE  IndInv'
  <1> DEFINE l == k'
             call == Call(op, id)
  <1>1. /\ call.op = op /\ call.id = id /\ call.open /\ ~call.cancelled /\ call.at = "sent"
        /\ call.res = "none"
    BY CallIsSent DEF Call
  <1> HIDE DEF call
  <1>2. Open' = {call}
    <2>1. Open' = {c \in Cmds(l) : c.open}
      BY DEF Open, Cmds
    <2> QED BY <1>1, <2>1 DEF Silent, call
  <1>3. op # "idle" /\ op \notin Interactions /\ op \notin {"replace_confirm", "delete_confirm"}
    BY DEF Commands, Interactions
  <1>4. CommandIsShown'
    BY <1>1, <1>2, <1>3 DEF CommandIsShown
  <1>5. DialogIsAsked'
    <2>1. k.id \in Nat /\ \A d \in dialogs : d.id \in Nat /\ d.id <= k.id
      BY DEF IndInv, Types, Controllers, Dialogs, DialogIsAsked, Running
    <2>2. /\ \A d \in dialogs' : d.id <= id
          /\ \A d, e \in dialogs' : d.id = e.id => d = e
      BY <2>1 DEF IndInv, DialogIsAsked, Running
    <2> QED BY <1>3, <2>2 DEF DialogIsAsked
  <1>6. CallsAreMade'
    BY <1>1 DEF IndInv, CallsAreMade, call
  <1>7. Confirmed'
    <2> SUFFICES ASSUME NEW c \in l.calls, c.op \in {"delete", "replace"}
                 PROVE  [kind |-> c.op, id |-> c.id] \in agreed'
      BY DEF Confirmed
    <2>1. c \in Cmds(l)
      BY DEF Cmds
    <2>2. CASE c = call
      BY <1>1, <2>2
    <2>3. CASE c \in Cmds(k)
      BY <2>3 DEF IndInv, Confirmed, Cmds, Around
    <2> QED BY <2>1, <2>2, <2>3 DEF call
  <1>8. CheckIsAwaited(k')
    BY DEF CheckIsAwaited
  <1> QED BY <1>4, <1>5, <1>6, <1>7, <1>8, FrameStep

\* A step that asks the question of an activity.
LEMMA AskedStep ==
  ASSUME IndInv, Running(k), Good(k'), Around, Silent(k'), Fewer(k, k'),
         k'.phase = k.phase, ~k'.verify, ~k'.stale, NEW act \in Interactions, k'.act = act, k.id <= k'.id,
         IdIsBounded', NEW rest \in SUBSET dialogs, \A d \in rest : d.id # k'.id,
         dialogs' = rest \cup {[kind |-> Kind(act), id |-> k'.id]},
         act = "replace_confirm" => k'.confirm = [op |-> "import", id |-> k'.id],
         act = "delete_confirm" => k'.confirm = [op |-> "delete", id |-> k'.id]
  PROVE  IndInv'
  <1> DEFINE l == k'
             new == [kind |-> Kind(act), id |-> l.id]
  <1>1. Open' = {}
    <2>1. Open' = {c \in Cmds(l) : c.open}
      BY DEF Open, Cmds
    <2> QED BY <2>1 DEF Silent
  <1>2. act # "idle" /\ act \notin Commands
    BY DEF Commands, Interactions
  <1>3. CommandIsShown'
    BY <1>1, <1>2 DEF CommandIsShown
  <1>4. DialogIsAsked'
    <2>1. k.id \in Nat /\ l.id \in Nat /\ \A d \in dialogs : d.id \in Nat /\ d.id <= k.id
      BY DEF IndInv, Types, Controllers, Dialogs, DialogIsAsked, Running, Good
    <2>2. /\ \A d \in dialogs' : d.id <= l.id
          /\ \A d, e \in dialogs' : d.id = e.id => d = e
      <3>1. new.id = l.id
        OBVIOUS
      <3>2. dialogs' = rest \cup {new}
        OBVIOUS
      <3>3. \A d, e \in dialogs : d.id = e.id => d = e
        BY DEF IndInv, DialogIsAsked, Running
      <3> HIDE DEF new
      <3> QED BY <2>1, <3>1, <3>2, <3>3
    <2> QED BY <1>2, <2>2 DEF DialogIsAsked
  <1>5. CallsAreMade' /\ Confirmed'
    BY FewerIsConfirmed DEF Around
  <1>6. CheckIsAwaited(k')
    BY DEF CheckIsAwaited
  <1> QED BY <1>3, <1>4, <1>5, <1>6, FrameStep

-----------------------------------------------------------------------------
(* The steps of the user.                                                  *)

\* An operation that begins is allowed only while nothing else is under way.
LEMMA AllowedIsIdle ==
  ASSUME NEW x, NEW op, Allowed(x, op, FALSE)
  PROVE  x.auth /\ x.act = "idle"
  BY DEF Allowed, Blocked

\* The invariant of a controller that runs.
LEMMA RunningIsGood ==
  ASSUME IndInv
  PROVE  /\ Good(k) /\ Kept(k, k) /\ k.id \in Nat /\ k.id <= MaxActivities + 1
         /\ k.phase # "stopped" => k.id <= MaxActivities
         /\ k.phase # "stopped" /\ k.stale => k.act \in {"up", "down"} /\ ~k.verify
  <1>1. k.id \in Nat /\ MaxActivities \in Nat
    BY BoundsAssumption DEF IndInv, Types, Controllers
  <1>2. Good(k) /\ Kept(k, k)
    BY DEF IndInv, Types, Good, Kept, Awake
  <1> QED BY <1>1, <1>2 DEF IndInv, IdIsBounded, CheckIsAwaited

\* What leaves the activity alone changes none of its questions.
LEMMA KeptStep ==
  ASSUME IndInv, Good(k'), Kept(k, k'), Around, dialogs' = dialogs
  PROVE  IndInv'
  <1>1. Stays(k, k')
    <2>1. CheckIsAwaited(k) => CheckIsAwaited(k')
      BY DEF IndInv, InventoryIsSound, Watched, CheckIsAwaited, Kept, Awake
    <2> QED BY <2>1 DEF Stays, Kept
  <1>2. k.phase # "stopped" /\ k.act \in Interactions =>
          [kind |-> Kind(k.act), id |-> k.id] \in dialogs'
    BY DEF IndInv, DialogIsAsked
  <1> QED BY <1>1, <1>2, StaysStep

\* An activity that begins has no command yet, and its number is new.
LEMMA BegunDoes ==
  ASSUME IndInv, CanBegin, k.act = "idle", NEW act \in Commands \cup Interactions
  PROVE  LET b == BeginActivity(k, act)
         IN /\ Good(b) /\ Running(b) /\ b.phase = k.phase /\ b.id = k.id + 1 /\ b.act = act
            /\ ~b.verify /\ ~b.stale /\ b.confirm = k.confirm /\ Silent(b) /\ Fewer(k, b)
            /\ b.id \in Nat /\ b.id <= MaxActivities /\ b.act # "idle"
            /\ \A d \in dialogs : d.id # b.id
            /\ Good(FinishActivity(b)) /\ Over(k, FinishActivity(b))
            /\ FinishActivity(b).id = b.id
  <1> DEFINE b == BeginActivity(k, act)
             f == FinishActivity(b)
  <1> SUFFICES /\ Good(b) /\ Running(b) /\ b.phase = k.phase /\ b.id = k.id + 1 /\ b.act = act
               /\ ~b.verify /\ ~b.stale /\ b.confirm = k.confirm /\ Silent(b) /\ Fewer(k, b)
               /\ b.id \in Nat /\ b.id <= MaxActivities /\ b.act # "idle"
               /\ \A d \in dialogs : d.id # b.id
               /\ Good(f) /\ Over(k, f) /\ f.id = b.id
    OBVIOUS
  <1>1. /\ Good(k) /\ Running(k) /\ k.id \in Nat /\ k.id < MaxActivities /\ MaxActivities \in Nat
        /\ ~k.stale
    BY RunningIsGood, BoundsAssumption DEF CanBegin, Running
  <1>2. /\ Good(b) /\ b.phase = k.phase /\ b.id = k.id + 1 /\ b.act = act
        /\ ~b.verify /\ ~b.stale /\ b.confirm = k.confirm /\ Cmds(b) = Cmds(k)
    BY <1>1, BeginActivityDoes
  <1> HIDE DEF b
  <1>3. Silent(k) /\ act # "idle"
    BY <1>1, SilentUnlessSent DEF Commands, Interactions, Running
  <1>4. Silent(b) /\ Fewer(k, b)
    BY <1>2, <1>3, SameIsFewer
  <1>5. \A d \in dialogs : d.id # b.id
    BY <1>1, <1>2 DEF IndInv, Types, Dialogs, DialogIsAsked, Running
  <1>6. Good(f) /\ Ended(b, f)
    BY <1>1, <1>2, <1>3, FinishActivityDoes DEF Running
  <1> HIDE DEF f
  <1>7. Fewer(k, f) /\ Silent(f)
    BY <1>2, <1>3, <1>6, SameIsFewer DEF Ended
  <1>8. Over(k, f) /\ f.id = b.id
    BY <1>1, <1>2, <1>6, <1>7 DEF Over, Ended
  <1> QED BY <1>1, <1>2, <1>3, <1>4, <1>5, <1>6, <1>8 DEF Running


\* dispatch_service_action for an activity without a question and without a command.
LEMMA DispatchStep ==
  ASSUME IndInv, Running(k), Silent(k), Around, NEW op \in Commands, NEW x, Good(x),
         x.phase = k.phase, x.act = op, ~x.verify, ~x.stale, Cmds(x) = Cmds(k), x.id \in Nat,
         k.id <= x.id, x.id <= MaxActivities, k' = DispatchAction(x, op),
         dialogs' \subseteq dialogs, \A d \in dialogs' : d.id # x.id,
         op \in {"delete", "replace"} => [kind |-> op, id |-> x.id] \in agreed'
  PROVE  IndInv'
  <1> DEFINE y == DispatchAction(x, op)
  <1>1. Running(x)
    BY DEF Running
  <1>2. Good(y) /\ (Ended(x, y) \/ Sends(x, y, op))
    BY <1>1, DispatchActionDoes
  <1>3. k' = y
    OBVIOUS
  <1> HIDE DEF y
  <1>4. y.id = x.id /\ y.phase = k.phase
    BY <1>2 DEF Ended, Sends
  <1>5. IdIsBounded'
    <2>1. MaxActivities \in Nat
      BY BoundsAssumption
    <2> QED BY <1>3, <1>4, <2>1 DEF IdIsBounded, Running
  <1>6. CASE Ended(x, y)
    <2>1. Fewer(k, y) /\ Silent(y)
      BY <1>6, SameIsFewer DEF Ended
    <2>2. Over(k, y)
      BY <1>4, <1>6, <2>1 DEF Over, Ended
    <2> QED BY <1>2, <1>3, <1>5, <2>2, OverStep
  <1>7. CASE Sends(x, y, op)
    <2>1. y.act = op /\ ~y.verify /\ ~y.stale /\ Cmds(y) = Cmds(k) \cup {Call(op, x.id)}
      BY <1>7 DEF Sends
    <2> QED BY <1>2, <1>3, <1>4, <1>5, <2>1, SendsStep
  <1> QED BY <1>2, <1>6, <1>7

\* A number that is not above the bound.
LEMMA BoundedId ==
  ASSUME NEW id \in Nat, id <= MaxActivities, k'.id = id
  PROVE  IdIsBounded'
  BY BoundsAssumption DEF IdIsBounded

\* An operation that is refused refreshes at most.
LEMMA RefusedStep ==
  ASSUME IndInv, Around, NEW op, NEW continuing, k' = Refused(k, op, continuing),
         dialogs' = dialogs
  PROVE  IndInv'
  <1>1. Good(Refused(k, op, continuing)) /\ Kept(k, Refused(k, op, continuing))
    BY RunningIsGood, RefusedDoes
  <1> QED BY <1>1, KeptStep

\* What begins an activity that asks a question asks it, or fails to.
LEMMA BegunStep ==
  ASSUME IndInv, CanBegin, k.act = "idle", Around, NEW act \in {"import_select", "delete_confirm"},
         NEW b, b = BeginActivity(k, act),
         \/ k' = k /\ dialogs' = dialogs
         \/ k' = FinishActivity(b) /\ dialogs' = dialogs
         \/ /\ k' = IF act = "import_select" THEN b
                    ELSE [b EXCEPT !.confirm = [op |-> "delete", id |-> b.id]]
            /\ dialogs' = dialogs \cup {[kind |-> Kind(act), id |-> b.id]}
  PROVE  IndInv'
  <1> DEFINE confirm == [op |-> "delete", id |-> b.id]
             y == [b EXCEPT !.confirm = confirm]
  <1>1. act \in Interactions
    BY DEF Interactions
  <1>2. /\ Good(b) /\ Running(b) /\ b.phase = k.phase /\ b.id = k.id + 1 /\ b.act = act
        /\ ~b.verify /\ ~b.stale /\ b.confirm = k.confirm /\ Silent(b) /\ Fewer(k, b)
        /\ b.id \in Nat /\ b.id <= MaxActivities /\ b.act # "idle"
        /\ \A d \in dialogs : d.id # b.id
        /\ Good(FinishActivity(b)) /\ Over(k, FinishActivity(b))
        /\ FinishActivity(b).id = b.id
    BY <1>1, BegunDoes
  <1>3. Running(k) /\ k.id \in Nat /\ k.id <= b.id
    BY <1>2, RunningIsGood DEF CanBegin
  <1>4. CASE k' = k /\ dialogs' = dialogs
    BY <1>4, RunningIsGood, KeptStep
  <1>5. CASE k' = FinishActivity(b) /\ dialogs' = dialogs
    <2>1. k'.id = b.id
      BY <1>2, <1>5
    <2>2. IdIsBounded'
      BY <1>2, <2>1, BoundedId
    <2> QED BY <1>2, <1>5, <2>2, OverStep
  <1>6. CASE /\ k' = b /\ act = "import_select"
             /\ dialogs' = dialogs \cup {[kind |-> Kind(act), id |-> b.id]}
    <2>1. k'.id = b.id
      BY <1>6
    <2>2. IdIsBounded'
      BY <1>2, <2>1, BoundedId
    <2> QED BY <1>1, <1>2, <1>3, <1>6, <2>2, AskedStep
  <1>7. CASE /\ k' = y /\ act = "delete_confirm"
             /\ dialogs' = dialogs \cup {[kind |-> Kind(act), id |-> b.id]}
    <2>1. confirm \in Confirms
      BY <1>2 DEF Confirms
    <2> HIDE DEF confirm
    <2>2. y = Stage(b, act, confirm)
      BY <1>2, ZenonT(30) DEF Good, Controllers, Stage
    <2> HIDE DEF y
    <2>3. /\ Good(y) /\ y.phase = b.phase /\ y.auth = b.auth /\ y.id = b.id /\ y.act = act
          /\ y.confirm = confirm /\ ~y.verify /\ ~y.stale /\ Cmds(y) = Cmds(b)
      BY <1>1, <1>2, <2>1, <2>2, StageDoes
    <2>4. Silent(y) /\ Fewer(k, y)
      BY <1>2, <2>3 DEF Silent, Fewer
    <2>5. k'.id = b.id
      BY <1>7, <2>3
    <2>6. IdIsBounded'
      BY <1>2, <2>5, BoundedId
    <2>7. /\ Good(k') /\ Silent(k') /\ Fewer(k, k') /\ k'.phase = k.phase
          /\ ~k'.verify /\ ~k'.stale /\ k'.act = act
      BY <1>2, <1>7, <2>3, <2>4
    <2>8. k'.confirm = [op |-> "delete", id |-> k'.id]
      BY <1>7, <2>3, <2>5 DEF confirm
    <2>9. dialogs' = dialogs \cup {[kind |-> Kind(act), id |-> k'.id]}
      BY <1>7, <2>5
    <2>10. k.id <= k'.id /\ \A d \in dialogs : d.id # k'.id
      BY <1>2, <1>3, <2>5
    <2> QED BY <1>1, <1>3, <1>7, <2>6, <2>7, <2>8, <2>9, <2>10, AskedStep
  <1> QED BY <1>4, <1>5, <1>6, <1>7

\* network_sidebar_awg_controller_import.
LEMMA ImportStep == IndInv /\ Import => IndInv'
  <1> SUFFICES ASSUME IndInv, Import PROVE IndInv'
    OBVIOUS
  <1> DEFINE b == BeginActivity(k, "import_select")
  <1>1. /\ CanBegin /\ world' \in BOOLEAN /\ ext' \in BOOLEAN /\ agreed' = agreed
        /\ agreed \subseteq Dialogs /\ dialogs \subseteq Dialogs
    BY DEF Import, IndInv, Types
  <1>2. CASE ~Allowed(k, "import", FALSE)
    BY <1>1, <1>2, RefusedStep DEF Import, Around
  <1>3. CASE Allowed(k, "import", FALSE)
    <2>1. k.act = "idle"
      BY <1>3, AllowedIsIdle
    <2>2. b.id \in Nat
      BY <1>1, <2>1, BegunDoes DEF Interactions
    <2>3. \/ k' = k /\ dialogs' = dialogs
          \/ k' = b /\ dialogs' = dialogs \cup {[kind |-> Kind("import_select"), id |-> b.id]}
          \/ k' = FinishActivity(b) /\ dialogs' = dialogs
      BY <1>3 DEF Import, Show, Kind
    <2> HIDE DEF b
    <2>4. Around
      BY <1>1, <2>2, <2>3 DEF Around, Dialogs, Kind
    <2> QED BY <1>1, <2>1, <2>3, <2>4, BegunStep DEF b
  <1> QED BY <1>2, <1>3

\* network_sidebar_awg_controller_confirm_delete and request_confirmation.
LEMMA ConfirmDeleteStep == IndInv /\ ConfirmDelete => IndInv'
  <1> SUFFICES ASSUME IndInv, ConfirmDelete PROVE IndInv'
    OBVIOUS
  <1> DEFINE b == BeginActivity(k, "delete_confirm")
  <1>1. /\ CanBegin /\ world' \in BOOLEAN /\ ext' \in BOOLEAN /\ agreed' = agreed
        /\ agreed \subseteq Dialogs /\ dialogs \subseteq Dialogs
    BY DEF ConfirmDelete, IndInv, Types
  <1>2. CASE ~Allowed(k, "delete", FALSE)
    BY <1>1, <1>2, RefusedStep DEF ConfirmDelete, Around
  <1>3. CASE Allowed(k, "delete", FALSE)
    <2>1. k.act = "idle"
      BY <1>3, AllowedIsIdle
    <2>2. b.id \in Nat
      BY <1>1, <2>1, BegunDoes DEF Interactions
    <2>3. \/ k' = k /\ dialogs' = dialogs
          \/ /\ k' = [b EXCEPT !.confirm = [op |-> "delete", id |-> b.id]]
             /\ dialogs' = dialogs \cup {[kind |-> Kind("delete_confirm"), id |-> b.id]}
          \/ k' = FinishActivity(b) /\ dialogs' = dialogs
      BY <1>3 DEF ConfirmDelete, Show, Kind
    <2> HIDE DEF b
    <2>4. Around
      BY <1>1, <2>2, <2>3 DEF Around, Dialogs, Kind
    <2> QED BY <1>1, <2>1, <2>3, <2>4, BegunStep DEF b
  <1> QED BY <1>2, <1>3

\* network_sidebar_awg_controller_set_active.
LEMMA SetActiveStep ==
  ASSUME IndInv, NEW op \in {"up", "down"}, SetActive(op)
  PROVE  IndInv'
  <1>1. /\ CanBegin /\ Around /\ dialogs' = dialogs
    BY DEF SetActive, IndInv, Types, Around
  <1>2. CASE ~Allowed(k, op, FALSE)
    BY <1>1, <1>2, RefusedStep DEF SetActive
  <1>3. CASE Allowed(k, op, FALSE)
    <2> DEFINE b == BeginActivity(k, op)
    <2>1. k.act = "idle"
      BY <1>3, AllowedIsIdle
    <2>2. op \in Commands /\ op \notin {"delete", "replace"}
      BY DEF Commands
    <2>3. /\ Good(b) /\ b.phase = k.phase /\ b.id = k.id + 1 /\ b.act = op
          /\ ~b.verify /\ ~b.stale /\ b.id \in Nat /\ b.id <= MaxActivities
          /\ \A d \in dialogs : d.id # b.id
      BY <1>1, <2>1, <2>2, BegunDoes
    <2>4. Running(k) /\ k.id \in Nat /\ k.id <= b.id /\ Good(k)
      BY <1>1, <2>3, RunningIsGood DEF CanBegin
    <2>5. Cmds(b) = Cmds(k)
      BY <2>1, <2>2, <2>4, BeginActivityDoes
    <2>6. Silent(k)
      BY <2>1, <2>4, SilentUnlessSent DEF Commands, Running
    <2>7. k' = DispatchAction(b, op)
      BY <1>3 DEF SetActive
    <2> HIDE DEF b
    <2> QED BY <1>1, <2>2, <2>3, <2>4, <2>5, <2>6, <2>7, DispatchStep
  <1> QED BY <1>2, <1>3

\* finish_activity of an activity that has no command.
LEMMA FinishStep ==
  ASSUME IndInv, Running(k), k.act # "idle", Silent(k), ~k.stale, k' = FinishActivity(k), Around,
         dialogs' \subseteq dialogs
  PROVE  IndInv'
  <1> DEFINE f == FinishActivity(k)
  <1>1. Good(k) /\ k.id \in Nat /\ k.id <= MaxActivities
    BY RunningIsGood DEF Running
  <1>2. Good(f) /\ Ended(k, f)
    BY <1>1, FinishActivityDoes
  <1>3. k' = f
    OBVIOUS
  <1> HIDE DEF f
  <1>4. Fewer(k, f) /\ Silent(f)
    BY <1>2, SameIsFewer DEF Ended
  <1>5. Over(k, f)
    BY <1>1, <1>2, <1>4 DEF Over, Ended
  <1>6. IdIsBounded'
    BY <1>1, <1>2, <1>3, BoundedId DEF Ended
  <1> QED BY <1>2, <1>3, <1>5, <1>6, OverStep

\* network_sidebar_awg_controller_cancel_import.
LEMMA CancelImportStep == IndInv /\ CancelImport => IndInv'
  <1> SUFFICES ASSUME IndInv, CancelImport PROVE IndInv'
    OBVIOUS
  <1>1. Around /\ dialogs' = dialogs
    BY DEF CancelImport, IndInv, Types, Around
  <1>2. Running(k) /\ k.act # "idle" /\ k.act \notin Commands /\ k' = FinishActivity(k)
    BY DEF CancelImport, Commands
  <1>3. Silent(k) /\ ~k.stale
    BY <1>2, SilentUnlessSent, RunningIsGood DEF Running, Commands
  <1> QED BY <1>1, <1>2, <1>3, FinishStep

\* An answer that does not match the activity was no answer to its question.
LEMMA StaleAnswerStep ==
  ASSUME IndInv, k' = k, Around, NEW d \in dialogs, dialogs' = dialogs \ {d},
         Running(k) /\ k.act \in Interactions => ~(d.id = k.id /\ d.kind = Kind(k.act))
  PROVE  IndInv'
  <1>1. Good(k') /\ Stays(k, k')
    BY RunningIsGood DEF Stays
  <1>2. k.phase # "stopped" /\ k.act \in Interactions =>
          [kind |-> Kind(k.act), id |-> k.id] \in dialogs'
    <2> SUFFICES ASSUME k.phase # "stopped", k.act \in Interactions
                 PROVE  [kind |-> Kind(k.act), id |-> k.id] \in dialogs'
      OBVIOUS
    <2>1. Running(k)
      BY DEF IndInv, Types, Controllers, Phases, InventoryIsSound, Watched, Interactions, Running
    <2>2. [kind |-> Kind(k.act), id |-> k.id] \in dialogs
      BY DEF IndInv, DialogIsAsked
    <2> QED BY <2>1, <2>2
  <1> QED BY <1>1, <1>2, StaysStep

\* The activity that waits for an answer has no command, and no other question.
LEMMA AskedIsAlone ==
  ASSUME IndInv, Running(k), k.act \in Interactions, NEW d \in dialogs, d.id = k.id
  PROVE  /\ Silent(k) /\ k.act # "idle" /\ ~k.verify /\ ~k.stale
         /\ \A e \in dialogs \ {d} : e.id # k.id
  <1>1. k.act \notin Commands /\ k.act # "idle"
    BY DEF Interactions, Commands
  <1>2. ~k.verify
    BY <1>1 DEF IndInv, InventoryIsSound, Watched
  <1>3. \A e \in dialogs \ {d} : e.id # k.id
    BY DEF IndInv, DialogIsAsked, Running
  <1>4. ~k.stale
    BY <1>1, RunningIsGood DEF Running, Commands
  <1> QED BY <1>1, <1>2, <1>3, <1>4, SilentUnlessSent DEF Running

\* network_sidebar_awg_controller_import_file_selected, _selection_cancelled.
LEMMA FileSelectedStep == IndInv /\ FileSelected => IndInv'
  <1> SUFFICES ASSUME IndInv, NEW d \in dialogs, d.kind = "select",
                      IF ActivityMatches(k, d.id) /\ k.act = "import_select"
                      THEN \/ /\ k' = [k EXCEPT !.act = "import_load"]
                              /\ dialogs' = (dialogs \ {d}) \cup {[kind |-> "load", id |-> d.id]}
                           \/ k' = FinishActivity(k) /\ Answered(d)
                      ELSE k' = k /\ Answered(d),
                      UNCHANGED <<world, ext, agreed, flips, faults>>
               PROVE  IndInv'
    BY DEF FileSelected
  <1>1. /\ world' \in BOOLEAN /\ ext' \in BOOLEAN /\ agreed' = agreed
        /\ agreed \subseteq Dialogs /\ dialogs \subseteq Dialogs
    BY DEF IndInv, Types
  <1>2. CASE ~(ActivityMatches(k, d.id) /\ k.act = "import_select")
    <2>1. k' = k /\ dialogs' = dialogs \ {d}
      BY <1>2 DEF Answered
    <2>2. Around
      BY <1>1, <2>1 DEF Around
    <2>3. Running(k) /\ k.act \in Interactions => ~(d.id = k.id /\ d.kind = Kind(k.act))
      BY <1>2 DEF ActivityMatches, Interactions, Kind
    <2> QED BY <2>1, <2>2, <2>3, StaleAnswerStep
  <1>3. CASE ActivityMatches(k, d.id) /\ k.act = "import_select"
    <2>1. Running(k) /\ k.act \in Interactions /\ d.id = k.id
      BY <1>3 DEF ActivityMatches, Interactions
    <2>2. /\ Silent(k) /\ k.act # "idle" /\ ~k.verify /\ ~k.stale
          /\ \A e \in dialogs \ {d} : e.id # k.id
      BY <2>1, AskedIsAlone
    <2>3. Good(k) /\ k.id \in Nat /\ k.id <= MaxActivities
      BY <2>1, RunningIsGood DEF Running
    <2>4. CASE k' = FinishActivity(k) /\ dialogs' = dialogs \ {d}
      <3>1. Around
        BY <1>1, <2>4 DEF Around
      <3> QED BY <2>1, <2>2, <2>4, <3>1, FinishStep
    <2>5. CASE /\ k' = [k EXCEPT !.act = "import_load"]
               /\ dialogs' = (dialogs \ {d}) \cup {[kind |-> "load", id |-> d.id]}
      <3> DEFINE act == "import_load"
                 y == Stage(k, act, k.confirm)
      <3>1. act \in Interactions /\ Kind(act) = "load" /\ act \notin {"replace_confirm", "delete_confirm"}
        BY DEF Interactions, Kind
      <3>2. k' = y /\ k.confirm \in Confirms
        BY <2>3, <2>5 DEF Stage, Good, Controllers
      <3> HIDE DEF y
      <3>3. /\ Good(y) /\ y.phase = k.phase /\ y.auth = k.auth /\ y.id = k.id /\ y.act = act
            /\ ~y.verify /\ ~y.stale /\ Cmds(y) = Cmds(k)
        BY <2>1, <2>2, <2>3, <3>1, <3>2, StageDoes DEF y
      <3>4. Silent(y) /\ Fewer(k, y)
        BY <2>2, <3>3, SameIsFewer
      <3>5. IdIsBounded'
        BY <2>3, <3>2, <3>3, BoundedId
      <3>6. Around
        BY <1>1, <2>1, <2>3, <2>5 DEF Around, Dialogs
      <3>7. dialogs' = (dialogs \ {d}) \cup {[kind |-> Kind(act), id |-> k'.id]}
        BY <2>1, <2>5, <3>1, <3>2, <3>3
      <3>8. /\ dialogs \ {d} \in SUBSET dialogs /\ \A e \in dialogs \ {d} : e.id # k'.id
            /\ k.id <= k'.id
        BY <2>2, <2>3, <3>2, <3>3
      <3> QED BY <2>1, <3>1, <3>2, <3>3, <3>4, <3>5, <3>6, <3>7, <3>8, AskedStep
    <2> QED BY <1>3, <2>4, <2>5 DEF Answered
  <1> QED BY <1>2, <1>3

\* network_sidebar_awg_controller_import_loaded, _import_failed.
LEMMA ImportLoadedStep == IndInv /\ ImportLoaded => IndInv'
  <1> SUFFICES ASSUME IndInv, NEW d \in dialogs, d.kind = "load", dialogs' = dialogs \ {d},
                      IF ActivityMatches(k, d.id) /\ k.act = "import_load"
                      THEN k' \in {DispatchAction([k EXCEPT !.act = "import"], "import"),
                                   FinishActivity(k)}
                      ELSE k' = k,
                      UNCHANGED <<world, ext, agreed, flips, faults>>
               PROVE  IndInv'
    BY DEF ImportLoaded, Answered
  <1>1. Around
    BY DEF IndInv, Types, Around
  <1>2. CASE ~(ActivityMatches(k, d.id) /\ k.act = "import_load")
    <2>1. Running(k) /\ k.act \in Interactions => ~(d.id = k.id /\ d.kind = Kind(k.act))
      BY <1>2 DEF ActivityMatches, Interactions, Kind
    <2> QED BY <1>1, <1>2, <2>1, StaleAnswerStep
  <1>3. CASE ActivityMatches(k, d.id) /\ k.act = "import_load"
    <2>1. Running(k) /\ k.act \in Interactions /\ d.id = k.id
      BY <1>3 DEF ActivityMatches, Interactions
    <2>2. /\ Silent(k) /\ k.act # "idle" /\ ~k.verify /\ ~k.stale
          /\ \A e \in dialogs \ {d} : e.id # k.id
      BY <2>1, AskedIsAlone
    <2>3. Good(k) /\ k.id \in Nat /\ k.id <= MaxActivities
      BY <2>1, RunningIsGood DEF Running
    <2>4. CASE k' = FinishActivity(k)
      BY <1>1, <2>1, <2>2, <2>4, FinishStep
    <2>5. CASE k' = DispatchAction([k EXCEPT !.act = "import"], "import")
      <3> DEFINE op == "import"
                 y == Stage(k, op, k.confirm)
      <3>1. op \in Commands /\ op \notin {"delete", "replace"}
        BY DEF Commands
      <3>2. k' = DispatchAction(y, op) /\ k.confirm \in Confirms
        <4>1. y = [k EXCEPT !.act = "import"] /\ k.confirm \in Confirms
          BY <2>3 DEF Stage, Good, Controllers
        <4> QED BY <2>5, <4>1
      <3> HIDE DEF y
      <3>3. /\ Good(y) /\ y.phase = k.phase /\ y.auth = k.auth /\ y.id = k.id /\ y.act = op
            /\ ~y.verify /\ ~y.stale /\ Cmds(y) = Cmds(k)
        BY <2>1, <2>2, <2>3, <3>1, <3>2, StageDoes DEF y
      <3>4. y.id \in Nat /\ y.id <= MaxActivities /\ k.id <= y.id /\ \A e \in dialogs' : e.id # y.id
        BY <2>2, <2>3, <3>3
      <3> HIDE DEF op
      <3> QED BY <1>1, <2>1, <2>2, <3>1, <3>2, <3>3, <3>4, DispatchStep
    <2> QED BY <1>3, <2>4, <2>5
  <1> QED BY <1>2, <1>3

\* network_sidebar_awg_controller_confirmation_response to the confirmation that is asked:
\* the command is sent, or the activity is over.
LEMMA ResponseStep ==
  ASSUME IndInv, Running(k), k.act \in {"replace_confirm", "delete_confirm"},
         NEW kind \in {"replace", "delete"}, NEW yes \in BOOLEAN, NEW d \in dialogs,
         d.id = k.id, d.kind = kind, dialogs' = dialogs \ {d}, Around, yes => d \in agreed',
         k' = Response(k, kind, yes)
  PROVE  IndInv'
  <1> DEFINE y == Stage(k, k.act, NoConfirm)
             q == Refused(y, kind, TRUE)
             refused == IF yes THEN q ELSE y
             z == Stage(y, kind, NoConfirm)
  <1>1. k.act \in Interactions /\ k.act \in Commands \cup Interactions /\ k.act \notin Commands
    BY DEF Interactions, Commands
  <1>2. /\ Silent(k) /\ k.act # "idle" /\ ~k.verify /\ ~k.stale
        /\ \A e \in dialogs \ {d} : e.id # k.id
    BY <1>1, AskedIsAlone
  <1>3. Good(k) /\ k.id \in Nat /\ k.id <= MaxActivities
    BY RunningIsGood DEF Running
  <1>4. NoConfirm \in Confirms
    BY DEF NoConfirm, Confirms
  <1>5. y = [k EXCEPT !.confirm = NoConfirm] /\ z = [y EXCEPT !.act = kind]
    BY <1>3 DEF Stage, Good, Controllers
  <1>6. \/ k' = DispatchAction(z, kind) /\ yes
        \/ k' \in {CompleteMutation(refused, "import"), FinishActivity(refused)}
    <2> HIDE DEF y, z
    <2> QED BY <1>5 DEF Response, refused, q
  <1> HIDE DEF y
  <1>7. /\ Good(y) /\ y.phase = k.phase /\ y.auth = k.auth /\ y.id = k.id /\ y.act = k.act
        /\ ~y.verify /\ ~y.stale /\ Cmds(y) = Cmds(k)
    BY <1>1, <1>2, <1>3, <1>4, StageDoes DEF y
  <1>8. Running(y)
    BY <1>7 DEF Running
  <1>9. CASE k' = DispatchAction(z, kind) /\ yes
    <2>1. kind \in Commands
      BY DEF Commands
    <2> HIDE DEF z
    <2>2. /\ Good(z) /\ z.phase = y.phase /\ z.id = y.id /\ z.act = kind
          /\ ~z.verify /\ ~z.stale /\ Cmds(z) = Cmds(y)
      BY <1>2, <1>4, <1>7, <1>8, <2>1, StageDoes DEF z
    <2>3. d = [kind |-> kind, id |-> k.id]
      BY DEF IndInv, Types, Dialogs
    <2>4. kind \in {"delete", "replace"} => [kind |-> kind, id |-> z.id] \in agreed'
      BY <1>7, <1>9, <2>2, <2>3
    <2>5. /\ z.phase = k.phase /\ Cmds(z) = Cmds(k) /\ z.id \in Nat /\ z.id <= MaxActivities
          /\ k.id <= z.id /\ \A e \in dialogs' : e.id # z.id
      BY <1>2, <1>3, <1>7, <2>2
    <2> QED BY <1>2, <1>9, <2>1, <2>2, <2>4, <2>5, DispatchStep
  <1>10. CASE k' \in {CompleteMutation(refused, "import"), FinishActivity(refused)}
    <2>1. Good(q) /\ Kept(y, q)
      BY <1>7, RefusedDoes
    <2>2. Good(refused) /\ Kept(y, refused)
      BY <1>7, <2>1 DEF Kept, Awake
    <2> HIDE DEF refused
    <2> DEFINE m == CompleteMutation(refused, "import")
               f == FinishActivity(refused)
    <2>3. /\ Good(m) /\ (Ended(y, m) \/ Waits(y, m)) /\ Good(f) /\ Ended(y, f)
      BY <1>2, <1>7, <1>8, <2>2, OverAfterKept
    <2>4. k' \in {m, f}
      BY <1>10
    <2> HIDE DEF m, f
    <2>5. Good(k') /\ Ended(y, k') /\ ~k'.stale
      BY <1>1, <1>7, <2>3, <2>4 DEF Waits, Ended
    <2>6. Fewer(k, k') /\ Silent(k')
      BY <1>2, <1>7, <2>5, SameIsFewer DEF Ended
    <2>7. Over(k, k') /\ k'.id = k.id
      BY <1>3, <1>7, <2>5, <2>6 DEF Over, Ended
    <2>8. IdIsBounded'
      BY <1>3, <2>7, BoundedId
    <2> QED BY <2>5, <2>7, <2>8, OverStep
  <1> QED BY <1>6, <1>9, <1>10

\* network_sidebar_awg_controller_confirmation_response, also to a question that is no longer
\* the one that is asked.
LEMMA ConfirmationResponseStep == IndInv /\ ConfirmationResponse => IndInv'
  <1> SUFFICES ASSUME IndInv, NEW d \in dialogs, NEW yes \in BOOLEAN,
                      d.kind \in {"replace", "delete"}, dialogs' = dialogs \ {d},
                      agreed' = IF yes THEN agreed \cup {d} ELSE agreed,
                      k' = IF ConfirmationMatches(k, d.kind, d.id) THEN Response(k, d.kind, yes)
                           ELSE k,
                      UNCHANGED <<world, ext, flips, faults>>
               PROVE  IndInv'
    BY DEF ConfirmationResponse, Answered
  <1>1. Around
    BY DEF IndInv, Types, Around
  <1>2. CASE ~ConfirmationMatches(k, d.kind, d.id)
    <2>1. ASSUME Running(k), k.act \in Interactions, d.id = k.id, d.kind = Kind(k.act)
          PROVE  FALSE
      <3>1. \/ d.kind = "replace" /\ k.act = "replace_confirm"
            \/ d.kind = "delete" /\ k.act = "delete_confirm"
        BY <2>1 DEF Kind, Interactions
      <3>2. k.act # "idle"
        BY <3>1
      <3> QED BY <1>2, <2>1, <3>1, <3>2 DEF IndInv, DialogIsAsked, ConfirmationMatches,
                                        ActivityMatches, Running
    <2> QED BY <1>1, <1>2, <2>1, StaleAnswerStep
  <1>3. CASE ConfirmationMatches(k, d.kind, d.id)
    <2>1. Running(k) /\ k.act \in {"replace_confirm", "delete_confirm"} /\ d.id = k.id
      BY <1>3 DEF ConfirmationMatches, ActivityMatches
    <2>2. k' = Response(k, d.kind, yes) /\ (yes => d \in agreed')
      BY <1>3
    <2> DEFINE kind == d.kind
    <2>3. kind \in {"replace", "delete"} /\ d.kind = kind /\ k' = Response(k, kind, yes)
      BY <2>2
    <2> HIDE DEF kind
    <2> QED BY <1>1, <2>1, <2>2, <2>3, ResponseStep
  <1> QED BY <1>2, <1>3

-----------------------------------------------------------------------------
(* The answers, and what runs by itself.                                   *)

\* A call is replaced by what is left of it, and the rest stays.
LEMMA CallsReplaced ==
  ASSUME IndInv, NEW S \in SUBSET Calls, IsFiniteSet(S)
  PROVE  LET x == [k EXCEPT !.calls = S]
         IN /\ x \in Controllers /\ IsFiniteSet(x.calls) /\ x.calls = S
            /\ x.phase = k.phase /\ x.auth = k.auth /\ x.act = k.act /\ x.id = k.id
            /\ x.confirm = k.confirm /\ x.verify = k.verify /\ x.mon = k.mon
            /\ x.enabled = k.enabled /\ x.pending = k.pending /\ x.request = k.request
            /\ x.suspended = k.suspended /\ x.dirty = k.dirty /\ x.timer = k.timer
            /\ x.owed = k.owed /\ x.checking = k.checking
            /\ x.unheard = k.unheard /\ x.stale = k.stale
  BY DEF IndInv, Types, Controllers

\* A request for the inventory is answered.
LEMMA ListEnds ==
  ASSUME IndInv, Around, dialogs' = dialogs, NEW c \in k.calls, c.op = "list", NEW r,
         r = "cancelled" => c.cancelled,
         NEW quick \in BOOLEAN, k' = InventoryResult(Closed(c, r), c, r, quick)
  PROVE  IndInv'
  <1> DEFINE S == k.calls \ {c}
             x == [k EXCEPT !.calls = S]
             y == InventoryResult(x, c, r, quick)
  <1>1. k \in Controllers /\ IsFiniteSet(k.calls) /\ k.calls \subseteq Calls /\ c \in Calls
    BY DEF IndInv, Types, Controllers
  <1>2. S \in SUBSET Calls /\ IsFiniteSet(S)
    BY <1>1, FS_RemoveElement
  <1>3. Closed(c, r) = x
    BY DEF Closed
  <1> HIDE DEF S
  <1>4. /\ x \in Controllers /\ IsFiniteSet(x.calls) /\ x.calls = S
        /\ x.phase = k.phase /\ x.auth = k.auth /\ x.act = k.act /\ x.id = k.id
        /\ x.confirm = k.confirm /\ x.verify = k.verify /\ x.mon = k.mon
        /\ x.enabled = k.enabled /\ x.pending = k.pending /\ x.request = k.request
        /\ x.suspended = k.suspended /\ x.dirty = k.dirty /\ x.timer = k.timer
        /\ x.owed = k.owed /\ x.checking = k.checking
        /\ x.unheard = k.unheard /\ x.stale = k.stale
    BY <1>2, CallsReplaced
  <1> HIDE DEF x
  <1>5. Lists(x) = Lists(k) \ {c} /\ Cmds(x) = Cmds(k)
    BY <1>4 DEF Lists, Cmds, S
  <1>6. Unlisted(x)
    BY <1>4, <1>5 DEF IndInv, InventoryIsSound, Unlisted, ListsAreTold, SuspendedIsBusy,
                      QueuedIsArmed, OwedIsQueued, Watched, Running
  <1>7. RequestIsCurrent(x, c) \/ PendingIsListed(x)
    BY <1>4, <1>5 DEF IndInv, InventoryIsSound, PendingIsListed, RequestIsCurrent, Running
  <1>12. RequestIsCurrent(x, c) => r # "cancelled"
    <2>1. c \in Lists(k)
      BY DEF Lists
    <2> QED BY <1>4, <2>1 DEF IndInv, InventoryIsSound, PendingIsListed, ListsAreTold,
                              RequestIsCurrent
  <1>8. Good(y) /\ (Kept(x, y) \/ Lost(x, y))
    BY <1>1, <1>6, <1>7, <1>12, InventoryResultDoes
  <1>9. k' = y
    BY <1>3
  <1> HIDE DEF y
  <1>10. CASE Kept(x, y)
    <2>1. Kept(k, y)
      BY <1>4, <1>5, <1>10 DEF Kept, Awake
    <2> QED BY <1>8, <1>9, <2>1, KeptStep
  <1>11. CASE Lost(x, y)
    <2>1. Lost(k, y)
      BY <1>4, <1>5, <1>11 DEF Lost
    <2>2. CASE Running(k)
      BY <1>8, <1>9, <2>1, <2>2, LostStep
    <2>3. CASE ~Running(k)
      <3>1. y = x
        BY <1>4, <1>9, <2>3, <1>3 DEF InventoryResult, RequestIsCurrent, Running
      <3>2. Kept(k, y)
        BY <1>4, <1>5, <3>1 DEF Kept, Awake
      <3> QED BY <1>8, <1>9, <3>2, KeptStep
    <2> QED BY <2>2, <2>3
  <1> QED BY <1>8, <1>10, <1>11

\* What is left of a command that is answered is no longer open; the activity that sent it is
\* the one that is shown.
LEMMA CommandCloses ==
  ASSUME IndInv, NEW c \in k.calls, c.op # "list", c.open, NEW r, NEW x, x = Closed(c, r)
  PROVE  /\ Good(x) /\ x.phase = k.phase /\ x.auth = k.auth /\ x.act = k.act /\ x.id = k.id
         /\ x.confirm = k.confirm /\ x.verify = k.verify /\ x.stale = k.stale
         /\ Fewer(k, x)
         /\ Running(k) => /\ Silent(x) /\ ServiceActionMatches(x, c) /\ k.act \in Commands
                          /\ ~k.verify /\ c.op = k.act /\ ~c.cancelled
         /\ ~Running(k) => k.phase = "stopped"
  <1> DEFINE e == [c EXCEPT !.open = FALSE]
             L == IF c.op # "list" /\ c.at = "sent" /\ r # "not_authorized" THEN {e} ELSE {}
             S == (k.calls \ {c}) \cup L
  <1>1. k \in Controllers /\ IsFiniteSet(k.calls) /\ k.calls \subseteq Calls /\ c \in Calls
    BY DEF IndInv, Types, Controllers
  <1>2. /\ e \in Calls /\ e.op = c.op /\ e.id = c.id /\ ~e.open /\ e.at = c.at /\ e.res = c.res
    BY <1>1 DEF Calls
  <1>3. x = [k EXCEPT !.calls = S]
    BY DEF Closed
  <1> HIDE DEF e
  <1>4. L \in {{}, {e}} /\ IsFiniteSet(L)
    BY FS_EmptySet, FS_Singleton
  <1> HIDE DEF L
  <1>5. S \in SUBSET Calls /\ IsFiniteSet(S)
    BY <1>1, <1>2, <1>4, FS_RemoveElement, FS_Union
  <1>6. /\ x \in Controllers /\ IsFiniteSet(x.calls) /\ x.calls = S
        /\ x.phase = k.phase /\ x.auth = k.auth /\ x.act = k.act /\ x.id = k.id
        /\ x.confirm = k.confirm /\ x.verify = k.verify /\ x.mon = k.mon
        /\ x.enabled = k.enabled /\ x.pending = k.pending /\ x.request = k.request
        /\ x.suspended = k.suspended /\ x.dirty = k.dirty /\ x.timer = k.timer
        /\ x.owed = k.owed /\ x.checking = k.checking
        /\ x.unheard = k.unheard /\ x.stale = k.stale
    <2> HIDE DEF S
    <2> QED BY <1>3, <1>5, CallsReplaced
  <1>7. Lists(x) = Lists(k) /\ Cmds(x) = (Cmds(k) \ {c}) \cup L
    BY <1>2, <1>4, <1>6 DEF Lists, Cmds
  <1>8. Good(x)
    BY <1>6, <1>7 DEF IndInv, InventoryIsSound, Good, ListsAreTold, PendingIsListed,
                      SuspendedIsBusy, QueuedIsArmed, OwedIsQueued, Watched, Running
  <1>9. Fewer(k, x)
    <2>1. /\ c \in Cmds(k)
          /\ \A b \in Cmds(k) : /\ b.at = "done" => b.res # "none"
                                /\ b.res = "replace_required" => b.op = "import"
      BY DEF IndInv, CallsAreMade, Cmds
    <2>2. \A d \in Cmds(x) : d \in Cmds(k) \/ d = e
      BY <1>4, <1>7
    <2>3. (c.at = "done" => c.res # "none") /\ (c.res = "replace_required" => c.op = "import")
      BY ONLY <2>1, Zenon
    <2>4. /\ e.op = c.op /\ e.id = c.id /\ (e.at = "done" => e.res # "none")
          /\ e.res = "replace_required" => e.op = "import"
      BY ONLY <1>2, <2>3, Zenon
    <2>5. ASSUME NEW d \in Cmds(x)
          PROVE  \E b \in Cmds(k) : /\ b.op = d.op /\ b.id = d.id
                                    /\ d.at = "done" => d.res # "none"
                                    /\ d.res = "replace_required" => d.op = "import"
      <3>1. CASE d \in Cmds(k)
        BY <2>1, <3>1, Zenon
      <3>2. CASE d = e
        BY <2>1, <2>4, <3>2, Zenon
      <3> QED BY <2>2, <2>5, <3>1, <3>2, Zenon
    <2> QED BY <2>5 DEF Fewer
  <1>10. k.phase # "stopped" => /\ c.id = k.id /\ c.op = k.act /\ ~k.verify /\ ~c.cancelled
                                /\ \A d \in Open : d = c
    BY DEF IndInv, CommandIsShown, Open
  <1>11. c.op \in Commands /\ "idle" \notin Commands
    BY <1>1 DEF Calls, Commands
  <1>12. k.phase \in {"new", "running", "stopped"} /\ (k.phase = "new" => k.act = "idle")
    BY <1>1 DEF Controllers, Phases, IndInv, InventoryIsSound, Watched
  <1>13. ASSUME Running(k) PROVE Silent(x)
    <2>1. \A d \in Cmds(k) \ {c} : ~d.open
      BY <1>10, <1>13 DEF Open, Cmds, Running
    <2> QED BY <1>2, <1>4, <1>7, <2>1 DEF Silent
  <1>14. ASSUME Running(k)
         PROVE  /\ ServiceActionMatches(x, c) /\ k.act \in Commands /\ ~k.verify
                /\ c.op = k.act /\ ~c.cancelled
    BY <1>6, <1>10, <1>11, <1>14 DEF ServiceActionMatches, ActivityMatches, Running
  <1> QED BY <1>6, <1>8, <1>9, <1>10, <1>11, <1>12, <1>13, <1>14 DEF Running

\* The answer is taken, or it is too late for a controller that was stopped.
LEMMA StoppedStep ==
  ASSUME IndInv, Good(k'), Around, k.phase = "stopped", k'.phase = "stopped", k'.id = k.id,
         Fewer(k, k')
  PROVE  IndInv'
  <1>1. IdIsBounded' /\ CommandIsShown' /\ DialogIsAsked'
    BY DEF IndInv, IdIsBounded, CommandIsShown, DialogIsAsked
  <1>2. CallsAreMade' /\ Confirmed'
    BY FewerIsConfirmed DEF Around
  <1>3. CheckIsAwaited(k')
    BY DEF CheckIsAwaited
  <1> QED BY <1>1, <1>2, <1>3, FrameStep

\* A command is answered.
LEMMA CommandEnds ==
  ASSUME IndInv, Around, dialogs' = dialogs, NEW c \in k.calls, c.op # "list", c.open,
         NEW r \in Results, r = "cancelled" => c.cancelled, k' = ServiceResult(Closed(c, r), c, r)
  PROVE  IndInv'
  <1> DEFINE x == Closed(c, r)
             y == ServiceResult(x, c, r)
  <1>1. k' = y
    OBVIOUS
  <1>2. /\ Good(x) /\ x.phase = k.phase /\ x.act = k.act /\ x.id = k.id /\ x.verify = k.verify
        /\ Fewer(k, x)
        /\ Running(k) => /\ Silent(x) /\ ServiceActionMatches(x, c) /\ k.act \in Commands
                         /\ ~c.cancelled
        /\ ~Running(k) => k.phase = "stopped"
    BY CommandCloses
  <1> HIDE DEF x
  <1>3. CASE Running(k)
    <2>1. Good(y) /\ (Ended(x, y) \/ Waits(x, y)) /\ ~y.stale
      BY <1>2, <1>3, ServiceResultDoes
    <2> HIDE DEF y
    <2>2. k.id \in Nat /\ k.id <= MaxActivities
      BY <1>3, RunningIsGood DEF Running
    <2>3. Cmds(y) = Cmds(x)
      BY <2>1 DEF Ended, Waits
    <2>4. Fewer(k, y) /\ Silent(y)
      BY <1>2, <1>3, <2>3 DEF Fewer, Silent
    <2>5. Over(k, y) /\ y.id = k.id
      BY <1>2, <2>1, <2>2, <2>4 DEF Over, Ended, Waits
    <2>6. IdIsBounded'
      BY <1>1, <2>2, <2>5, BoundedId
    <2> QED BY <1>1, <2>1, <2>5, <2>6, OverStep
  <1>4. CASE ~Running(k)
    <2>1. y = x
      BY <1>2, <1>4 DEF ServiceResult, ServiceActionMatches, ActivityMatches, Running
    <2> QED BY <1>1, <1>2, <1>4, <2>1, StoppedStep
  <1> QED BY <1>3, <1>4

\* request_confirmation after REPLACE_CONFIRMATION_REQUIRED.
LEMMA ReplaceAsks ==
  ASSUME IndInv, NEW c \in k.calls, c.op # "list", c.open, c.op = "import", NEW r,
         ReplaceRequired(Closed(c, r), c), UNCHANGED <<world, ext, agreed>>
  PROVE  IndInv'
  <1> DEFINE x == Closed(c, r)
             y == Reach(x, TRUE)
             f == FinishActivity(y)
             m == CompleteMutation(y, "import")
             act == "replace_confirm"
             confirm == [op |-> "import", id |-> y.id]
             z == Stage(y, act, confirm)
             new == [kind |-> "replace", id |-> y.id]
  <1>1. /\ Good(x) /\ x.phase = k.phase /\ x.act = k.act /\ x.id = k.id /\ x.verify = k.verify
        /\ x.stale = k.stale /\ Fewer(k, x)
        /\ Running(k) => /\ Silent(x) /\ ServiceActionMatches(x, c) /\ k.act \in Commands
                         /\ ~k.verify /\ k.act = "import"
        /\ ~Running(k) => k.phase = "stopped"
    BY CommandCloses
  <1>2. /\ world' \in BOOLEAN /\ ext' \in BOOLEAN /\ agreed' = agreed
        /\ agreed \subseteq Dialogs /\ dialogs \subseteq Dialogs
    BY DEF IndInv, Types
  <1>3. \/ /\ dialogs' = dialogs
           /\ (k' = x /\ ~ServiceActionMatches(x, c)) \/ k' \in {f, m}
        \/ k' = z /\ dialogs' = dialogs \cup {new}
    BY DEF ReplaceRequired, Show, Stage
  <1> HIDE DEF x
  <1>4. k.id \in Nat
    BY RunningIsGood
  <1>5. CASE ~Running(k)
    <2>1. k' = x /\ dialogs' = dialogs
      BY <1>1, <1>5 DEF ReplaceRequired, ServiceActionMatches, ActivityMatches, Running, x
    <2>2. Around
      BY <1>2, <2>1 DEF Around
    <2> QED BY <1>1, <1>5, <2>1, <2>2, StoppedStep
  <1>6. CASE Running(k)
    <2>1. k.id <= MaxActivities /\ k.act # "idle" /\ Running(x) /\ ~k.stale
      BY <1>1, <1>6, RunningIsGood DEF Commands, Running
    <2>2. Good(y) /\ Kept(x, y) /\ ~y.stale
      <3>1. Kept(x, x)
        BY DEF Kept, Awake
      <3>2. Good(y) /\ Kept(x, y)
        BY <1>1, <3>1, LearntDoes
      <3> HIDE DEF y
      <3> QED BY <1>1, <2>1, <3>2 DEF Kept, Awake
    <2>3. /\ Good(m) /\ (Ended(x, m) \/ Waits(x, m)) /\ Good(f) /\ Ended(x, f)
      BY <1>1, <2>1, <2>2, OverAfterKept
    <2> HIDE DEF y, m, f
    <2>4. CASE k' \in {m, f} /\ dialogs' = dialogs
      <3>1. Good(k') /\ (Ended(x, k') \/ Waits(x, k')) /\ ~k'.stale
        BY <1>1, <2>1, <2>3, <2>4 DEF Ended, Waits
      <3>2. Cmds(k') = Cmds(x)
        BY <3>1 DEF Ended, Waits
      <3>3. Fewer(k, k') /\ Silent(k')
        BY <1>1, <1>6, <3>2 DEF Fewer, Silent
      <3>4. Over(k, k') /\ k'.id = k.id
        BY <1>1, <1>4, <3>1, <3>3 DEF Over, Ended, Waits
      <3>5. IdIsBounded' /\ Around
        BY <1>2, <1>4, <2>1, <2>4, <3>4, BoundedId DEF Around
      <3> QED BY <2>4, <3>1, <3>4, <3>5, OverStep
    <2>5. CASE k' = z /\ dialogs' = dialogs \cup {new}
      <3>1. act \in Interactions /\ act # "delete_confirm" /\ Kind(act) = "replace"
        BY DEF Interactions, Kind
      <3>2. confirm \in Confirms /\ y.id = k.id
        BY <1>1, <1>4, <2>2 DEF Confirms, Kept
      <3>3. Running(y) /\ y.act # "idle" /\ ~y.verify
        BY <1>1, <1>6, <2>1, <2>2 DEF Kept, Running
      <3>4. confirm = [op |-> "import", id |-> k.id] /\ new = [kind |-> Kind(act), id |-> k.id]
        BY <3>1, <3>2
      <3>12. new \in Dialogs
        BY <1>4, <3>2 DEF Dialogs
      <3> HIDE DEF z, new, confirm, act
      <3>5. /\ Good(z) /\ z.phase = y.phase /\ z.id = y.id /\ z.act = act
            /\ z.confirm = confirm /\ ~z.verify /\ ~z.stale /\ Cmds(z) = Cmds(y)
        BY <2>2, <3>1, <3>2, <3>3, StageDoes DEF z
      <3>6. z.id = k.id /\ z.phase = k.phase
        BY <1>1, <3>2, <3>5, <2>2 DEF Kept
      <3>7. Fewer(k, z) /\ Silent(z)
        BY <1>1, <1>6, <2>2, <3>5 DEF Fewer, Silent, Kept
      <3>8. IdIsBounded'
        BY <1>4, <2>1, <2>5, <3>6, BoundedId
      <3>9. Around
        BY <1>2, <2>5, <3>12 DEF Around
      <3>10. \A d \in dialogs : d.id # k'.id
        BY <1>1, <1>6, <2>5, <3>6 DEF IndInv, DialogIsAsked, Running
      <3>11. /\ Good(k') /\ Silent(k') /\ Fewer(k, k') /\ k'.phase = k.phase
             /\ ~k'.verify /\ ~k'.stale /\ k'.act = act /\ k.id <= k'.id /\ k'.confirm = [op |-> "import", id |-> k'.id]
             /\ dialogs' = dialogs \cup {[kind |-> Kind(act), id |-> k'.id]}
        BY <1>4, <2>5, <3>4, <3>5, <3>6, <3>7
      <3> QED BY <1>6, <3>1, <3>8, <3>9, <3>10, <3>11, AskedStep
    <2>6. ~(k' = x /\ ~ServiceActionMatches(x, c))
      BY <1>1, <1>6
    <2> QED BY <1>3, <2>4, <2>5, <2>6
  <1> QED BY <1>5, <1>6

\* backend_service_result and inventory_result_cb: the answer, a call that fails on the way,
\* a call that was cancelled.
LEMMA CallEndsStep == IndInv /\ CallEnds => IndInv'
  <1> SUFFICES ASSUME IndInv, CallEnds PROVE IndInv'
    OBVIOUS
  <1> DEFINE Failures == {"timed_out", "failed", "not_authorized"}
  <1>1. PICK c \in k.calls :
           /\ c.open
           /\ \/ c.cancelled /\ Deliver(c, "cancelled") /\ UNCHANGED faults
              \/ ~c.cancelled /\ c.at = "done" /\ Deliver(c, c.res) /\ UNCHANGED faults
              \/ ~c.cancelled /\ Fault /\ \E r \in Failures : Deliver(c, r)
           /\ UNCHANGED <<world, ext, agreed, flips>>
    BY Zenon DEF CallEnds
  <1>2. PICK r : /\ Deliver(c, r)
                 /\ \/ r = "cancelled" /\ c.cancelled
                    \/ r \in Failures
                    \/ c.at = "done" /\ r = c.res
    BY <1>1
  <1>6. c \in Calls /\ (c.op # "list" => c \in Cmds(k))
    BY DEF Cmds, IndInv, Types, Controllers
  <1>7. r = "cancelled" => c.cancelled
    <2>1. c.res # "cancelled"
      BY <1>6 DEF Calls, Answers
    <2> QED BY <1>2, <2>1
  <1>3. CASE c.op = "list"
    <2>1. PICK quick \in BOOLEAN : k' = InventoryResult(Closed(c, r), c, r, quick)
      BY <1>2, <1>3 DEF Deliver
    <2>2. dialogs' = dialogs
      BY <1>2, <1>3 DEF Deliver
    <2>3. Around
      BY <1>1, <2>2 DEF IndInv, Types, Around
    <2> QED BY <1>3, <1>7, <2>1, <2>2, <2>3, <1>1, ListEnds
  <1>4. CASE c.op # "list" /\ r = "replace_required"
    <2>1. c.op = "import"
      BY <1>2, <1>4, <1>6 DEF IndInv, CallsAreMade
    <2> QED BY <1>4, <1>1, <1>2, <2>1, ReplaceAsks DEF Deliver
  <1>5. CASE c.op # "list" /\ r # "replace_required"
    <2>2. c.at = "done" => c.res \in Answers
      BY <1>5, <1>6 DEF IndInv, CallsAreMade, Calls
    <2>3. r \in Results
      BY <1>5, <1>2, <2>2 DEF Results, Answers
    <2>4. dialogs' = dialogs /\ k' = ServiceResult(Closed(c, r), c, r)
      BY <1>5, <1>2 DEF Deliver
    <2>5. Around
      BY <1>1, <2>4 DEF IndInv, Types, Around
    <2> QED BY <1>5, <1>7, <2>3, <2>4, <2>5, <1>1, CommandEnds
  <1> QED BY <1>3, <1>4, <1>5

\* The service takes note of a call, or ends one that nobody waits for.
LEMMA ServiceStep ==
  ASSUME IndInv, NEW c \in k.calls, NEW L \in SUBSET Calls, IsFiniteSet(L),
         \A e \in L : /\ e.op = c.op /\ e.id = c.id /\ e.open = c.open
                      /\ e.cancelled = c.cancelled /\ e.at = "done" /\ e.res # "none",
         \A e \in L : e.res = "replace_required" => e.op = "import",
         \A d, e \in L : d = e, c.open => L # {}, NEW late \in BOOLEAN,
         late => k.stale \/ (c.open /\ c.op \in {"up", "down"}),
         k' = [k EXCEPT !.stale = late, !.calls = (@ \ {c}) \cup L], Around, dialogs' = dialogs
  PROVE  IndInv'
  <1> DEFINE S == (k.calls \ {c}) \cup L
             x == [k EXCEPT !.stale = late, !.calls = S]
  <1>1. k \in Controllers /\ IsFiniteSet(k.calls) /\ k.calls \subseteq Calls /\ c \in Calls
    BY DEF IndInv, Types, Controllers
  <1>2. S \in SUBSET Calls /\ IsFiniteSet(S)
    BY <1>1, FS_RemoveElement, FS_Union
  <1>3. k' = x
    OBVIOUS
  <1>4. /\ x \in Controllers /\ IsFiniteSet(x.calls) /\ x.calls = S
        /\ x.phase = k.phase /\ x.auth = k.auth /\ x.act = k.act /\ x.id = k.id
        /\ x.confirm = k.confirm /\ x.verify = k.verify /\ x.mon = k.mon
        /\ x.enabled = k.enabled /\ x.pending = k.pending /\ x.request = k.request
        /\ x.suspended = k.suspended /\ x.dirty = k.dirty /\ x.timer = k.timer
        /\ x.owed = k.owed /\ x.checking = k.checking
        /\ x.unheard = k.unheard /\ x.stale = late
    <2> HIDE DEF S
    <2> QED BY <1>1, <1>2 DEF Controllers
  <1> HIDE DEF x
  <1>5. Lists(x) = {d \in S : d.op = "list"} /\ Cmds(x) = {d \in S : d.op # "list"}
    BY <1>4 DEF Lists, Cmds
  <1>6. ListsAreTold(x)
    BY <1>5 DEF IndInv, InventoryIsSound, ListsAreTold, Lists
  <1>7. PendingIsListed(x)
    BY <1>4, <1>5 DEF IndInv, InventoryIsSound, ListsAreTold, PendingIsListed, Lists, Running
  <1>8. Good(x)
    BY <1>4, <1>6, <1>7 DEF IndInv, InventoryIsSound, Good, SuspendedIsBusy, QueuedIsArmed,
                            OwedIsQueued, Watched, Running
  <1>9. Fewer(k, x)
    <2>1. \A b \in Cmds(k) : /\ b.at = "done" => b.res # "none"
                             /\ b.res = "replace_required" => b.op = "import"
      BY DEF IndInv, CallsAreMade
    <2>2. \A d \in Cmds(x) : (d \in Cmds(k)) \/ (c \in Cmds(k) /\ d \in L)
      BY <1>5 DEF Cmds
    <2> QED BY <2>1, <2>2 DEF Fewer
  <1>10. CommandIsShown'
    <2> SUFFICES ASSUME k.phase # "stopped" PROVE CommandIsShown'
      BY <1>3, <1>4 DEF CommandIsShown
    <2>1. Open' = {d \in S : d.open /\ d.op # "list"}
      BY <1>3, <1>4 DEF Open
    <2>2. \A d \in Open' : d.id = k.id /\ d.op = k.act /\ ~k.verify /\ ~d.cancelled
      BY <2>1 DEF IndInv, CommandIsShown, Open
    <2>3. \A d, e \in Open' : d = e
      BY <2>1 DEF IndInv, CommandIsShown, Open
    <2>4. Open # {} => Open' # {}
      BY <2>1 DEF Open
    <2> QED BY <1>3, <1>4, <2>2, <2>3, <2>4 DEF IndInv, CommandIsShown
  <1>11. DialogIsAsked' /\ IdIsBounded'
    BY <1>3, <1>4 DEF IndInv, DialogIsAsked, IdIsBounded
  <1>12. CallsAreMade' /\ Confirmed'
    BY <1>3, <1>9, FewerIsConfirmed DEF Around
  <1>13. CheckIsAwaited(k')
    <2> SUFFICES ASSUME k.phase # "stopped" PROVE CheckIsAwaited(x)
      BY <1>3, <1>4 DEF CheckIsAwaited
    <2>1. CheckIsAwaited(k)
      BY DEF IndInv
    <2>2. c.open /\ c.op \in {"up", "down"} => k.act = c.op /\ ~k.verify
      BY DEF IndInv, CommandIsShown, Open
    <2> QED BY <1>4, <2>1, <2>2 DEF CheckIsAwaited
  <1> QED BY <1>3, <1>8, <1>10, <1>11, <1>12, <1>13, FrameStep

\* The service runs a command, also one that the sidebar has given up.
LEMMA ServiceRunsStep ==
  ASSUME IndInv, NEW waitedFor \in BOOLEAN, ServiceRuns(waitedFor)
  PROVE  IndInv'
  <1> DEFINE left(c, r, w) == IF waitedFor THEN {[c EXCEPT !.at = "done", !.res = r, !.saved = w]}
                              ELSE {}
             late(c) == k.stale \/ (waitedFor /\ c.op \in {"up", "down"})
             done(c, r, w) == /\ world' = w
                              /\ k' = [k EXCEPT !.stale = late(c),
                                                !.calls = (@ \ {c}) \cup left(c, r, w)]
  <1>1. PICK c \in k.calls :
          /\ c.at = "sent" /\ c.open = waitedFor
          /\ UNCHANGED <<ext, dialogs, agreed, flips, faults>>
          /\ \/ done(c, "busy", world)
             \/ CASE c.op = "list"            -> done(c, "success", world)
                  [] c.op = "import" /\ world -> done(c, "replace_required", world)
                  [] c.op = "import" /\ ~world -> \/ done(c, "success", TRUE)
                                                 \/ done(c, "refused", TRUE)
                                                 \/ done(c, "refused", FALSE)
                  [] c.op = "replace"         -> \/ done(c, "success", TRUE)
                                                 \/ done(c, "refused", world)
                  [] c.op = "delete"          -> \/ done(c, "success", FALSE)
                                                 \/ done(c, "refused", FALSE)
                                                 \/ done(c, "refused", world)
                  [] c.op \in {"up", "down"}  -> \/ done(c, "success", world)
                                                 \/ done(c, "recheck", world)
    BY DEF ServiceRuns
  <1>2. c \in Calls /\ c.op \in {"list", "import", "replace", "up", "down", "delete"}
        /\ world \in BOOLEAN
    BY DEF IndInv, Types, Controllers, Calls, Commands
  <1>3. PICK r \in Answers, w \in BOOLEAN : done(c, r, w) /\ (r = "replace_required" => c.op = "import")
    <2> HIDE DEF done
    <2>1. {"success", "replace_required", "refused", "busy", "recheck"} = Answers
      BY DEF Answers
    <2> QED BY <1>1, <1>2, <2>1
  <1> DEFINE e == [c EXCEPT !.at = "done", !.res = r, !.saved = w]
             L == left(c, r, w)
             b == late(c)
  <1>4. /\ e \in Calls /\ e.op = c.op /\ e.id = c.id /\ e.open = c.open
        /\ e.cancelled = c.cancelled /\ e.at = "done" /\ e.res = r /\ e.res # "none"
    BY <1>2 DEF Calls, Answers
  <1>5. L = IF waitedFor THEN {e} ELSE {}
    OBVIOUS
  <1> HIDE DEF e
  <1> HIDE DEF L, late, left, done
  <1>6. L \in SUBSET Calls /\ IsFiniteSet(L) /\ (\A d \in L : d = e) /\ (waitedFor => L # {})
    <2>1. L = {e} \/ (L = {} /\ ~waitedFor)
      BY ONLY <1>5, Zenon
    <2>2. IsFiniteSet({e}) /\ IsFiniteSet({}) /\ e \in Calls
      BY <1>4, FS_EmptySet, FS_Singleton
    <2> QED BY <2>1, <2>2
  <1>7. Around /\ dialogs' = dialogs /\ k' = [k EXCEPT !.stale = b, !.calls = (@ \ {c}) \cup L]
    BY <1>1, <1>3 DEF IndInv, Types, Around, late, left, done, L, b
  <1>8. b \in BOOLEAN /\ (b => k.stale \/ (c.open /\ c.op \in {"up", "down"}))
    BY <1>1, <1>2 DEF b, late, IndInv, Types, Controllers
  <1> HIDE DEF b
  <1>9. \A d \in L : d.res = "replace_required" => d.op = "import"
    BY <1>3, <1>4, <1>6
  <1> QED BY <1>1, <1>4, <1>6, <1>7, <1>8, <1>9, ServiceStep, ZenonT(30)

\* A check of the runtime source ends, and an activity that waited for it with it
\* (runtime_source_changed).
LEMMA CheckEndsStep == IndInv /\ CheckEnds => IndInv'
  <1> SUFFICES ASSUME IndInv, CheckEnds PROVE IndInv'
    OBVIOUS
  <1>1. PICK s \in Observed, told \in BOOLEAN :
          LET x == [k EXCEPT !.checking = FALSE, !.seen = s, !.unheard = ~told]
          IN k' = IF told THEN RuntimeChanged(x) ELSE x
    BY DEF CheckEnds
  <1> DEFINE unheard == ~told
             x == [k EXCEPT !.checking = FALSE, !.seen = s, !.unheard = unheard]
             f == FinishActivity(x)
  <1>2. k' = IF told THEN RuntimeChanged(x) ELSE x
    BY <1>1
  <1>3. Around /\ dialogs' = dialogs
    BY DEF CheckEnds, IndInv, Types, Around
  <1>4. s \in Seens /\ unheard \in BOOLEAN /\ k \in Controllers
    BY BoundsAssumption DEF Seens, IndInv, Types
  <1>5. /\ x \in Controllers /\ ~x.checking /\ x.unheard = unheard
        /\ x.phase = k.phase /\ x.auth = k.auth /\ x.act = k.act /\ x.id = k.id
        /\ x.confirm = k.confirm /\ x.verify = k.verify /\ x.mon = k.mon
        /\ x.enabled = k.enabled /\ x.pending = k.pending /\ x.request = k.request
        /\ x.suspended = k.suspended /\ x.dirty = k.dirty /\ x.timer = k.timer
        /\ x.owed = k.owed /\ x.stale = k.stale /\ x.calls = k.calls
    <2> HIDE DEF unheard
    <2> QED BY <1>4 DEF Controllers
  <1> HIDE DEF x
  <1>6. Lists(x) = Lists(k) /\ Cmds(x) = Cmds(k)
    BY <1>5 DEF Lists, Cmds
  <1>7. Good(x)
    BY <1>5, <1>6, RunningIsGood
       DEF Good, InventoryIsSound, ListsAreTold, PendingIsListed, SuspendedIsBusy,
           QueuedIsArmed, OwedIsQueued, Watched, Running
  <1>8. Watched(k) /\ CheckIsAwaited(k)
    BY DEF IndInv, InventoryIsSound
  <1>9. CASE told /\ Running(x) /\ x.verify
    <2>1. k' = f
      BY <1>2, <1>5, <1>9 DEF RuntimeChanged
    <2>2. Running(k) /\ k.verify /\ x.act # "idle" /\ ~x.stale
      BY <1>5, <1>8, <1>9 DEF Running, Watched, CheckIsAwaited, Commands
    <2>3. Good(f) /\ Ended(x, f)
      BY <1>7, <1>9, <2>2, FinishActivityDoes
    <2> HIDE DEF f
    <2>4. Silent(k) /\ k.id \in Nat /\ k.id <= MaxActivities
      BY <2>2, SilentUnlessSent, RunningIsGood DEF Running
    <2>5. Fewer(k, f) /\ Silent(f)
      BY <1>6, <2>3, <2>4, SameIsFewer DEF Ended
    <2>6. Over(k, f) /\ f.id = k.id
      BY <1>5, <2>2, <2>3, <2>4, <2>5 DEF Over, Ended
    <2>7. IdIsBounded'
      BY <2>1, <2>4, <2>6, BoundedId
    <2> QED BY <1>3, <2>1, <2>3, <2>6, <2>7, OverStep
  <1>10. CASE ~(told /\ Running(x) /\ x.verify)
    <2>1. k' = x
      BY <1>2, <1>10 DEF RuntimeChanged
    <2>2. CheckIsAwaited(x)
      BY <1>5, <1>8, <1>10 DEF CheckIsAwaited, Watched, Running, Controllers, Phases, unheard
    <2>3. Stays(k, k') /\ Good(k')
      BY <1>5, <1>6, <1>7, <2>1, <2>2 DEF Stays
    <2>4. k.phase # "stopped" /\ k.act \in Interactions =>
            [kind |-> Kind(k.act), id |-> k.id] \in dialogs'
      BY <1>3 DEF IndInv, DialogIsAsked
    <2> QED BY <1>3, <2>3, <2>4, StaysStep
  <1> QED BY <1>9, <1>10

\* refresh_source_cb: what was queued is asked for, dropped with the authorization, or stays
\* queued until it may run.
LEMMA RefreshTimerStep == IndInv /\ RefreshTimer => IndInv'
  <1> SUFFICES ASSUME IndInv, RefreshTimer PROVE IndInv'
    OBVIOUS
  <1> DEFINE x == [k EXCEPT !.timer = FALSE]
             z == [x EXCEPT !.dirty = FALSE, !.owed = FALSE]
  <1>1. Around /\ dialogs' = dialogs
    BY DEF RefreshTimer, IndInv, Types, Around
  <1>2. k' = IF ~Running(x) \/ ~x.auth THEN z
             ELSE IF ~x.enabled \/ x.suspended THEN x ELSE RequestRefresh(x, TRUE)
    BY DEF RefreshTimer
  <1>3. k \in Controllers /\ Good(k) /\ OwedIsQueued(k)
    BY RunningIsGood DEF Good, InventoryIsSound
  <1>4. /\ x \in Controllers /\ Calm(k, x) /\ x.dirty = k.dirty /\ x.owed = k.owed
        /\ z \in Controllers /\ Calm(k, z) /\ ~z.dirty /\ ~z.owed
    BY <1>3, ZenonT(30) DEF Controllers, Calm, CalmBar, Awake
  <1>8. OwedIsQueued(x) /\ OwedIsQueued(z)
    <2> HIDE DEF x, z
    <2> QED BY <1>3, <1>4 DEF OwedIsQueued, Calm, CalmBar
  <1>5. CASE ~Running(x) \/ ~x.auth
    <2> HIDE DEF z, x
    <2>1. Good(z) /\ Kept(k, z)
      BY <1>3, <1>4, <1>8, CalmIsGood DEF QueuedIsArmed
    <2> QED BY <1>1, <1>2, <1>5, <2>1, KeptStep
  <1>6. CASE Running(x) /\ x.auth /\ (~x.enabled \/ x.suspended)
    <2> HIDE DEF z, x
    <2>1. Good(x) /\ Kept(k, x)
      BY <1>3, <1>4, <1>6, <1>8, CalmIsGood DEF QueuedIsArmed
    <2> QED BY <1>1, <1>2, <1>6, <2>1, KeptStep
  <1>7. CASE Running(x) /\ x.auth /\ x.enabled /\ ~x.suspended
    <2>1. k' = RequestRefresh(x, TRUE)
      BY <1>2, <1>7
    <2>2. CASE x.pending
      <3> HIDE DEF z, x
      <3>1. k' = x
        BY <1>7, <2>1, <2>2 DEF RequestRefresh
      <3>2. Good(x) /\ Kept(k, x)
        BY <1>3, <1>4, <1>8, <2>2, CalmIsGood DEF QueuedIsArmed
      <3> QED BY <1>1, <3>1, <3>2, KeptStep
    <2>3. CASE ~x.pending
      <3> DEFINE v == [x EXCEPT !.timer = FALSE, !.dirty = FALSE, !.recent = TRUE]
                 w == [k EXCEPT !.timer = FALSE, !.dirty = FALSE, !.recent = TRUE]
      <3>1. v = w
        BY <1>3 DEF Controllers
      <3>2. NewRequest(x) = NewRequest(k)
        BY <1>3 DEF NewRequest, Controllers
      <3>3. Running(k) /\ k.auth /\ k.enabled /\ ~k.suspended /\ ~k.pending
        BY <1>3, <1>7, <2>3 DEF Running, Controllers
      <3> HIDE DEF x, v, w
      <3>4. RequestRefresh(x, TRUE) = RequestRefresh(k, TRUE)
        BY <1>7, <2>3, <3>1, <3>2, <3>3 DEF RequestRefresh, v, w
      <3>5. Good(RequestRefresh(k, TRUE)) /\ Kept(k, RequestRefresh(k, TRUE))
        BY <1>3, RequestRefreshDoes
      <3> QED BY <1>1, <2>1, <3>4, <3>5, KeptStep
    <2> QED BY <2>2, <2>3
  <1> QED BY <1>5, <1>6, <1>7

\* network_sidebar_awg_controller_start.
LEMMA StartStep == IndInv /\ Start => IndInv'
  <1> SUFFICES ASSUME IndInv, Start PROVE IndInv'
    OBVIOUS
  <1> DEFINE l == k'
  <1>1. k \in Controllers /\ k.phase = "new" /\ l = [k EXCEPT !.phase = "running"] /\ Good(k)
    BY RunningIsGood DEF Start, Good
  <1>2. /\ l \in Controllers /\ l.phase = "running"
        /\ l.auth = k.auth /\ l.act = k.act /\ l.id = k.id
        /\ l.confirm = k.confirm /\ l.verify = k.verify /\ l.mon = k.mon
        /\ l.enabled = k.enabled /\ l.pending = k.pending /\ l.request = k.request
        /\ l.suspended = k.suspended /\ l.dirty = k.dirty /\ l.timer = k.timer
        /\ l.owed = k.owed /\ l.checking = k.checking
        /\ l.unheard = k.unheard /\ l.stale = k.stale
        /\ l.calls = k.calls
    BY <1>1 DEF Controllers, Phases
  <1>3. Around /\ dialogs' = dialogs /\ l = k'
    BY DEF Start, IndInv, Types, Around
  <1> HIDE DEF l
  <1>4. Lists(l) = Lists(k) /\ Cmds(l) = Cmds(k)
    BY <1>2 DEF Lists, Cmds
  <1>5. Good(l)
    BY <1>1, <1>2, <1>4 DEF Good, InventoryIsSound, ListsAreTold, PendingIsListed,
                            SuspendedIsBusy, QueuedIsArmed, OwedIsQueued, Watched, Running
  <1>6. Open' = Open
    BY <1>2, <1>3 DEF Open
  <1>7. CommandIsShown' /\ DialogIsAsked' /\ IdIsBounded'
    BY <1>1, <1>2, <1>3, <1>6, ZenonT(30) DEF IndInv, CommandIsShown, DialogIsAsked, IdIsBounded
  <1>8. CallsAreMade' /\ Confirmed'
    BY <1>3, <1>4, SameIsFewer, FewerIsConfirmed DEF Around
  <1>9. CheckIsAwaited(k')
    BY <1>1, <1>2, <1>3 DEF IndInv, CheckIsAwaited
  <1> QED BY <1>3, <1>5, <1>7, <1>8, <1>9, FrameStep

\* backend_authorization_changed.
LEMMA AuthorizationChangedStep == IndInv /\ AuthorizationChanged => IndInv'
  <1> SUFFICES ASSUME IndInv, AuthorizationChanged PROVE IndInv'
    OBVIOUS
  <1>1. Running(k) /\ Around /\ dialogs' = dialogs /\ Good(k)
    BY RunningIsGood DEF AuthorizationChanged, IndInv, Types, Around
  <1>2. k' = SetAuthorized(k, TRUE) \/ k' = LoseAuthorization(k)
    BY DEF AuthorizationChanged, SetAuthorized
  <1>3. CASE k' = SetAuthorized(k, TRUE)
    <2> DEFINE y == SetAuthorized(k, TRUE)
    <2>1. /\ Good(y) /\ y.phase = k.phase /\ y.id = k.id /\ y.act = k.act /\ y.auth
          /\ y.confirm = k.confirm /\ y.verify = k.verify /\ Cmds(y) = Cmds(k)
          /\ (y.stale => k.stale)
          /\ k.auth /\ (k.checking \/ k.unheard) => y.checking \/ y.unheard
      BY <1>1, GainAuthorizationDoes
    <2>2. k' = y
      BY <1>3
    <2> HIDE DEF y
    <2>3. Stays(k, k') /\ Good(k')
      BY <2>1, <2>2 DEF Stays, CheckIsAwaited
    <2>4. k.phase # "stopped" /\ k.act \in Interactions =>
            [kind |-> Kind(k.act), id |-> k.id] \in dialogs'
      BY <1>1 DEF IndInv, DialogIsAsked
    <2> QED BY <1>1, <2>3, <2>4, StaysStep
  <1>4. CASE k' = LoseAuthorization(k)
    <2>1. Good(LoseAuthorization(k)) /\ Lost(k, LoseAuthorization(k))
      BY <1>1, LoseAuthorizationDoes DEF Good, InventoryIsSound
    <2> QED BY <1>1, <1>4, <2>1, LostStep
  <1> QED BY <1>2, <1>3, <1>4

\* The sidebar is shown or hidden (network_sidebar_awg_inventory_set_enabled).
LEMMA ShowOrHideStep == IndInv /\ ShowOrHide => IndInv'
  <1> SUFFICES ASSUME IndInv, ShowOrHide PROVE IndInv'
    OBVIOUS
  <1> DEFINE x == SetEnabled(k, TRUE)
             y == SetEnabled(k, FALSE)
             z == RequestInventory(x, TRUE)
  <1>1. Around /\ dialogs' = dialogs
    BY DEF ShowOrHide, IndInv, Types, Around
  <1>2. k' \in {x, y, z}
    BY DEF ShowOrHide
  <1>3. Good(x) /\ Kept(k, x) /\ Good(y) /\ Kept(k, y)
    BY RunningIsGood, SetEnabledDoes
  <1> HIDE DEF x, y
  <1>4. Good(z) /\ Kept(x, z)
    BY <1>3, RequestInventoryDoes
  <1> HIDE DEF z
  <1>5. Good(k') /\ Kept(k, k')
    BY <1>2, <1>3, <1>4 DEF Kept, Awake
  <1> QED BY <1>1, <1>5, KeptStep

\* periodic_refresh_cb, and the interval of the inventory.
LEMMA PeriodicStep == IndInv /\ (Periodic \/ TimePasses \/ ExternalInteraction) => IndInv'
  <1> SUFFICES ASSUME IndInv, Periodic \/ TimePasses \/ ExternalInteraction PROVE IndInv'
    OBVIOUS
  <1> DEFINE x == [k EXCEPT !.recent = FALSE]
  <1>1. Around /\ dialogs' = dialogs
    BY DEF Periodic, TimePasses, ExternalInteraction, IndInv, Types, Around
  <1>2. k' \in {RequestInventory(k, FALSE), x, k}
    BY DEF Periodic, TimePasses, ExternalInteraction
  <1>3. Good(k) /\ Kept(k, k)
    BY RunningIsGood
  <1>4. /\ Good(RequestInventory(k, FALSE)) /\ Kept(k, RequestInventory(k, FALSE))
    BY <1>3, RequestInventoryDoes
  <1>5. x \in Controllers /\ Calm(k, x) /\ x.dirty = k.dirty /\ x.timer = k.timer
        /\ x.owed = k.owed /\ x.checking = k.checking
        /\ x.unheard = k.unheard /\ x.stale = k.stale
    BY <1>3 DEF Good, Controllers, Calm, CalmBar, Awake
  <1> HIDE DEF x
  <1>6. QueuedIsArmed(x) /\ OwedIsQueued(x)
    BY <1>3, <1>5 DEF Good, InventoryIsSound, QueuedIsArmed, OwedIsQueued, Calm, CalmBar, Running
  <1>7. Good(x) /\ Kept(k, x)
    BY <1>3, <1>5, <1>6, CalmIsGood
  <1> QED BY <1>1, <1>2, <1>3, <1>4, <1>7, KeptStep

\* controller_stop_internal: nothing is waited for any more, and no call is forgotten before
\* its answer has come.
LEMMA StopStep == IndInv /\ Stop => IndInv'
  <1> SUFFICES ASSUME IndInv, Stop PROVE IndInv'
    OBVIOUS
  <1> DEFINE w == ResetInventory(k)
             g == [c \in w.calls |-> [c EXCEPT !.cancelled = TRUE]]
             T == {[c EXCEPT !.cancelled = TRUE] : c \in w.calls}
             n == w.id + 1
             y == [w EXCEPT !.phase = "stopped", !.id = n, !.act = "idle", !.verify = FALSE,
                            !.auth = FALSE, !.confirm = NoConfirm, !.enabled = FALSE,
                            !.mon = FALSE, !.checking = FALSE, !.seen = "unknown",
                            !.unheard = FALSE, !.stale = FALSE, !.calls = T]
  <1>1. k \in Controllers /\ Running(k) /\ k.id \in Nat /\ k.id <= MaxActivities /\ MaxActivities \in Nat
    BY RunningIsGood, BoundsAssumption DEF Stop, Good, Running
  <1>2. /\ w \in Controllers /\ IsFiniteSet(w.calls) /\ ListsAreTold(w) /\ ~w.pending
        /\ Kept(k, w) /\ ~w.owed
    BY <1>1, ResetInventoryDoes DEF IndInv, Types, InventoryIsSound
  <1>3. k' = y
    BY DEF Stop
  <1> HIDE DEF w
  <1>4. w.calls \subseteq Calls /\ w.id = k.id
    BY <1>2 DEF Controllers, Kept
  <1>5. \A c \in w.calls : /\ g[c] \in Calls /\ g[c].op = c.op /\ g[c].id = c.id
                           /\ g[c].open = c.open /\ g[c].at = c.at /\ g[c].res = c.res
    BY <1>4, CancelledCall
  <1>6. T = {g[c] : c \in w.calls} /\ g = [c \in w.calls |-> g[c]]
    OBVIOUS
  <1>7. n \in Nat /\ n <= MaxActivities + 1
    BY <1>1, <1>4
  <1> HIDE DEF g, T, n
  <1>8. T \in SUBSET Calls /\ IsFiniteSet(T)
    BY <1>2, <1>5, <1>6, ImageIsFinite
  <1>9. /\ y \in Controllers /\ y.phase = "stopped" /\ y.id = n /\ y.act = "idle" /\ ~y.verify
        /\ ~y.auth /\ ~y.mon /\ y.pending = w.pending /\ y.owed = w.owed /\ y.calls = T
    <2>1. /\ "stopped" \in Phases /\ "idle" \in Activities /\ NoConfirm \in Confirms
          /\ "unknown" \in Seens
      BY DEF Phases, Activities, NoConfirm, Confirms, Seens
    <2>2. /\ y.phase = "stopped" /\ y.id = n /\ y.act = "idle" /\ ~y.verify /\ ~y.auth
          /\ ~y.mon /\ y.pending = w.pending /\ y.owed = w.owed /\ y.calls = T
      BY <1>2 DEF Controllers
    <2>3. y \in Controllers
      <3> DEFINE v == [w EXCEPT !.phase = "stopped", !.id = n, !.act = "idle", !.verify = FALSE,
                                !.auth = FALSE, !.confirm = NoConfirm]
                 u == [v EXCEPT !.enabled = FALSE, !.mon = FALSE, !.checking = FALSE,
                                !.seen = "unknown", !.unheard = FALSE, !.stale = FALSE]
      <3>1. v \in Controllers
        BY <1>2, <1>7, <2>1 DEF Controllers
      <3>2. y = [u EXCEPT !.calls = T]
        OBVIOUS
      <3> HIDE DEF v, y
      <3>3. u \in Controllers
        BY <2>1, <3>1, ZenonT(30) DEF Controllers
      <3> HIDE DEF u
      <3> QED BY <1>8, <3>2, <3>3 DEF Controllers
    <2> QED BY <2>2, <2>3
  <1> HIDE DEF y
  <1>10. \A c \in T : \E b \in w.calls : /\ c = g[b] /\ b.op = c.op /\ b.id = c.id
                                         /\ b.open = c.open /\ b.at = c.at /\ b.res = c.res
    <2> TAKE c \in T
    <2>1. PICK b \in w.calls : c = g[b]
      BY <1>6
    <2> QED BY <1>5, <2>1
  <1>11. ListsAreTold(y)
    <2>1. \A c \in Lists(y) : \E b \in Lists(w) : c = g[b] /\ b.id = c.id /\ b.open = c.open
      BY <1>9, <1>10 DEF Lists
    <2> QED BY <1>2, <2>1 DEF ListsAreTold
  <1>12. Good(y)
    BY <1>2, <1>8, <1>9, <1>11 DEF Good, InventoryIsSound, PendingIsListed, SuspendedIsBusy,
                                   QueuedIsArmed, OwedIsQueued, Watched, Running
  <1>13. Fewer(k, y)
    <2>1. \A c \in Cmds(y) : \E b \in Cmds(k) : b.op = c.op /\ b.id = c.id /\ b.at = c.at /\ b.res = c.res
      <3>1. Cmds(w) = Cmds(k)
        BY <1>2 DEF Kept
      <3>2. \A c \in Cmds(y) : \E b \in Cmds(w) : b.op = c.op /\ b.id = c.id /\ b.at = c.at /\ b.res = c.res
        BY <1>9, <1>10 DEF Cmds
      <3> QED BY <3>1, <3>2
    <2> QED BY <2>1 DEF Fewer, IndInv, CallsAreMade
  <1>14. Around
    BY DEF Stop, IndInv, Types, Around
  <1>15. CommandIsShown' /\ DialogIsAsked'
    BY <1>3, <1>9 DEF CommandIsShown, DialogIsAsked
  <1>16. IdIsBounded'
    BY <1>3, <1>7, <1>9 DEF IdIsBounded
  <1>17. CallsAreMade' /\ Confirmed'
    BY <1>3, <1>13, <1>14, FewerIsConfirmed DEF Around
  <1>18. CheckIsAwaited(k')
    BY <1>3, <1>9 DEF CheckIsAwaited
  <1> QED BY <1>3, <1>12, <1>14, <1>15, <1>16, <1>17, <1>18, FrameStep

-----------------------------------------------------------------------------
(* The theorems.                                                           *)

\* A controller that was made waits for nothing (network_sidebar_awg_controller_new).
LEMMA InitHolds == Init => IndInv
  <1> SUFFICES ASSUME Init PROVE IndInv
    OBVIOUS
  <1>1. /\ "new" \in Phases /\ "idle" \in Activities /\ NoConfirm \in Confirms
        /\ "unknown" \in Seens /\ Unknown \in Missings
    BY DEF Phases, Activities, NoConfirm, Confirms, Seens, Unknown, Missings
  <1>2. k \in Controllers
    BY <1>1 DEF Init, Controllers
  <1>3. k.calls = {} /\ k.phase = "new" /\ k.act = "idle" /\ k.id = 0 /\ ~k.pending /\ ~k.auth
        /\ ~k.mon /\ ~k.verify /\ ~k.suspended /\ ~k.owed /\ ~k.stale
    BY DEF Init
  <1>4. Types
    BY <1>2, <1>3, FS_EmptySet DEF Init, Types
  <1>5. Lists(k) = {} /\ Cmds(k) = {} /\ Open = {}
    BY <1>3 DEF Lists, Cmds, Open
  <1>6. InventoryIsSound(k)
    BY <1>3, <1>5 DEF InventoryIsSound, ListsAreTold, PendingIsListed, SuspendedIsBusy,
                      QueuedIsArmed, OwedIsQueued, Watched
  <1>10. CheckIsAwaited(k)
    BY <1>3 DEF CheckIsAwaited
  <1>7. CommandIsShown /\ CallsAreMade /\ Confirmed
    BY <1>3, <1>5 DEF CommandIsShown, CallsAreMade, Confirmed, Commands
  <1>8. DialogIsAsked
    BY <1>3 DEF Init, DialogIsAsked, Commands, Interactions
  <1>9. IdIsBounded
    BY <1>3, BoundsAssumption DEF IdIsBounded
  <1> QED BY <1>4, <1>6, <1>7, <1>8, <1>9, <1>10 DEF IndInv

\* Every step of the controller keeps the invariant.
LEMMA NextKeeps == IndInv /\ [Next]_vars => IndInv'
  <1> SUFFICES ASSUME IndInv, [Next]_vars PROVE IndInv'
    OBVIOUS
  <1>1. CASE Import
    BY <1>1, ImportStep
  <1>2. CASE FileSelected
    BY <1>2, FileSelectedStep
  <1>3. CASE ImportLoaded
    BY <1>3, ImportLoadedStep
  <1>4. CASE CancelImport
    BY <1>4, CancelImportStep
  <1>5. CASE SetActive("up") \/ SetActive("down")
    BY <1>5, SetActiveStep
  <1>6. CASE ConfirmDelete
    BY <1>6, ConfirmDeleteStep
  <1>7. CASE ConfirmationResponse
    BY <1>7, ConfirmationResponseStep
  <1>8. CASE CallEnds
    BY <1>8, CallEndsStep
  <1>9. CASE ServiceRuns(TRUE) \/ ServiceRuns(FALSE)
    BY <1>9, ServiceRunsStep
  <1>10. CASE CheckEnds
    BY <1>10, CheckEndsStep
  <1>11. CASE RefreshTimer
    BY <1>11, RefreshTimerStep
  <1>12. CASE Start
    BY <1>12, StartStep
  <1>13. CASE AuthorizationChanged
    BY <1>13, AuthorizationChangedStep
  <1>14. CASE ShowOrHide
    BY <1>14, ShowOrHideStep
  <1>15. CASE Periodic \/ TimePasses \/ ExternalInteraction
    BY <1>15, PeriodicStep
  <1>16. CASE Stop
    BY <1>16, StopStep
  <1>17. CASE UNCHANGED vars
    BY <1>17 DEF vars, IndInv, Types, CommandIsShown, DialogIsAsked, IdIsBounded, CallsAreMade,
                 Confirmed, Open
  <1> QED BY <1>1, <1>2, <1>3, <1>4, <1>5, <1>6, <1>7, <1>8, <1>9, <1>10, <1>11, <1>12, <1>13,
             <1>14, <1>15, <1>16, <1>17 DEF Next, User

\* What is waited for is under way, in every state of the controller (controller.c,
\* inventory.c).
THEOREM InvariantHolds == Spec => []IndInv
  BY InitHolds, NextKeeps, PTL DEF Spec

\* A command that changes the system is sent for one activity at a time, its answer counts
\* for that activity alone, the service deletes or replaces a profile only after the user
\* has agreed to just that, and what is shown once an operation is over was looked up after
\* its command (service_action_matches, confirmation_matches,
\* complete_mutation_action_with_purpose).
THEOREM OperationsStaySingle == Spec => []OneOperation
  <1>1. IndInv => OneOperation
    <2> SUFFICES ASSUME IndInv PROVE OneOperation
      OBVIOUS
    <2>1. k.id \in Nat /\ k.id <= MaxActivities + 1 /\ MaxActivities \in Nat
      BY RunningIsGood, BoundsAssumption
    <2>2. TypeOK
      BY <2>1 DEF IndInv, Types, Controllers, Phases, Seens, Missings, TypeOK
    <2>3. OneCommand
      BY DEF IndInv, CommandIsShown, OneCommand, Running
    <2>4. ShownIsCurrent
      BY DEF IndInv, CheckIsAwaited, ShownIsCurrent, Running
    <2> QED BY <2>2, <2>3, <2>4 DEF OneOperation, IndInv
  <1> QED BY <1>1, InvariantHolds, PTL

\* A list that is owed is queued or asked for and has a timer as soon as it may run, a list
\* that counts as pending has a call whose answer will end it, and an activity that is shown
\* has a call, a question or a check under way that will end it, except after a check that
\* ended without telling the controller (schedule_queued_refresh, request_is_current,
\* finish_activity, scheduled_refresh_cb).
THEOREM WaitsStayOwned == Spec => []EveryWaitIsOwned
  <1>1. IndInv => EveryWaitIsOwned
    <2> SUFFICES ASSUME IndInv PROVE EveryWaitIsOwned
      OBVIOUS
    <2>1. RefreshIsArmed
      BY DEF IndInv, Types, Controllers, InventoryIsSound, SuspendedIsBusy, QueuedIsArmed,
             OwedIsQueued, RefreshIsArmed, Running
    <2>2. PendingIsOwned
      BY DEF IndInv, InventoryIsSound, PendingIsListed, ListsAreTold, Lists, PendingIsOwned
    <2>3. ActivityIsOwned
      <3> SUFFICES ASSUME Running(k), k.act # "idle" PROVE ActivityIsOwned
        BY DEF ActivityIsOwned
      <3>1. CASE k.act \in Interactions
        <4>1. [kind |-> Kind(k.act), id |-> k.id] \in dialogs
          BY <3>1 DEF IndInv, DialogIsAsked, Running
        <4> QED BY <3>1, <4>1 DEF ActivityIsOwned
      <3>2. CASE k.act \in Commands
        <4>1. k.act \notin Interactions
          BY <3>2 DEF Commands, Interactions
        <4> QED BY <3>2, <4>1 DEF IndInv, CommandIsShown, CheckIsAwaited, InventoryIsSound,
                                  Watched, ActivityIsOwned, Running
      <3> QED BY <3>1, <3>2 DEF IndInv, Types, Controllers, Activities
    <2> QED BY <2>1, <2>2, <2>3 DEF EveryWaitIsOwned
  <1> QED BY <1>1, InvariantHolds, PTL
=============================================================================
