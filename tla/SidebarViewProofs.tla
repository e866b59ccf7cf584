------------------------- MODULE SidebarViewProofs -------------------------
(***************************************************************************)
(* Proofs about what the sidebar believes.  First AwgRuntimeSource, for    *)
(* every set of profiles, every room in the cache and every number of      *)
(* changes, calls and faults: no change is missed, and a session is        *)
(* followed.  Then AwgBackend, for every set of calls and every bound: the *)
(* belief about the policy is no older than the last change that was told, *)
(* and every call is answered once, by a cancellation when the backend has *)
(* stopped.                                                                *)
(***************************************************************************)
EXTENDS AwgRuntimeSource, AwgBackend, FiniteSetTheorems, TLAPS

-----------------------------------------------------------------------------
(* The functions that make up the source's callbacks.                        *)

\* What the invariant says of the source's own fields.
Fits(s) ==
  /\ s \in Flags
  /\ s.enabled => Running(s)
  /\ s.fresh \/ s.timer => Active(s)
  /\ Active(s) => s.fresh \/ s.pending \/ s.running
  /\ s.phase # "stopped" /\ ~Active(s) /\ s.shown[1] => ~s.running
Armed(s) == Active(s) /\ s.pending => s.timer \/ s.retry \/ (s.running /\ s.queued)
IsShown(s)  == Active(s) => s.shown[1] = s.fresh /\ (s.shown[2] /\ ~Checking(s) => s.fresh)
Sound(s) == Fits(s) /\ Armed(s) /\ IsShown(s)

\* A purpose, and what has been shown.
Purposes == 0 .. 1
Showings == BOOLEAN \X BOOLEAN

\* The fields that a step of the source leaves alone unless it says so.
SameLife(s, t) == t.phase = s.phase /\ t.enabled = s.enabled

\* The larger of two purposes is a purpose.
LEMMA MaxIs ==
  ASSUME NEW a \in Purposes, NEW b \in Purposes
  PROVE  Max(a, b) \in Purposes
  BY DEF Max, Purposes

\* The fields have their types.
LEMMA FlagsAre ==
  ASSUME NEW s \in Flags
  PROVE  /\ s.phase \in {"new", "running", "stopped"} /\ s.enabled \in BOOLEAN
         /\ s.fresh \in BOOLEAN /\ s.pending \in BOOLEAN /\ s.running \in BOOLEAN
         /\ s.queued \in BOOLEAN /\ s.timer \in BOOLEAN /\ s.retry \in BOOLEAN
         /\ s.qp \in Purposes /\ s.sp \in Purposes /\ s.rp \in Purposes
         /\ s.mutation \in BOOLEAN /\ s.recon \in BOOLEAN /\ s.shown \in Showings
         /\ s.shown[1] \in BOOLEAN /\ s.shown[2] \in BOOLEAN
         /\ View(s) \in Showings /\ View(s)[1] = s.fresh /\ View(s)[2] = Checking(s)
         /\ AutomaticPurpose(s) \in Purposes
  <1>1. Checking(s) \in BOOLEAN
    BY DEF Checking, Active, Running, Flags
  <1>2. s.shown \in Showings /\ s.fresh \in BOOLEAN
    BY DEF Flags, Showings
  <1>3. s.shown[1] \in BOOLEAN /\ s.shown[2] \in BOOLEAN
    BY <1>2 DEF Showings
  <1>4. View(s) \in Showings /\ View(s)[1] = s.fresh /\ View(s)[2] = Checking(s)
    BY <1>1, <1>2 DEF View, Showings
  <1>5. AutomaticPurpose(s) \in Purposes
    BY DEF AutomaticPurpose, Purposes
  <1> QED BY <1>2, <1>3, <1>4, <1>5 DEF Flags, Purposes

\* notify_changed shows what there is to see, or nothing.
LEMMA NotifyDoes ==
  ASSUME NEW s \in Flags, NEW p \in BOOLEAN
  PROVE  /\ Notify(s, p) \in Flags
         /\ Notify(s, p) = [s EXCEPT !.shown = Notify(s, p).shown]
         /\ p /\ Running(s) => Notify(s, p).shown = View(s)
         /\ ~(p /\ Running(s)) => Notify(s, p) = s
  <1>1. View(s) \in Showings
    BY FlagsAre
  <1>2. [s EXCEPT !.shown = View(s)] \in Flags /\ s = [s EXCEPT !.shown = s.shown]
        /\ [s EXCEPT !.shown = View(s)].shown = View(s)
    BY <1>1 DEF Flags, Showings
  <1> QED BY <1>2 DEF Notify

\* What a notification leaves alone.
SameButShown(s, t) ==
  /\ SameLife(s, t) /\ t.fresh = s.fresh /\ t.pending = s.pending /\ t.running = s.running
  /\ t.queued = s.queued /\ t.timer = s.timer /\ t.retry = s.retry

\* A notification changes nothing but what is shown.
LEMMA NotifyKeeps ==
  ASSUME NEW s \in Flags, NEW p \in BOOLEAN
  PROVE  /\ Notify(s, p) \in Flags /\ SameButShown(s, Notify(s, p))
         /\ p /\ Running(s) => Notify(s, p).shown = View(s)
         /\ ~(p /\ Running(s)) => Notify(s, p).shown = s.shown
  <1>1. /\ Notify(s, p) \in Flags /\ Notify(s, p) = [s EXCEPT !.shown = Notify(s, p).shown]
        /\ p /\ Running(s) => Notify(s, p).shown = View(s)
        /\ ~(p /\ Running(s)) => Notify(s, p) = s
    BY NotifyDoes
  <1>2. \A w : SameButShown(s, [s EXCEPT !.shown = w])
    BY DEF Flags, SameButShown, SameLife
  <1> QED BY <1>1, <1>2

\* What queueing a scan leaves alone.
SameButQueue(s, t) ==
  /\ SameLife(s, t) /\ t.running = s.running /\ t.queued = s.queued /\ t.timer = s.timer
  /\ t.retry = s.retry /\ t.shown = s.shown /\ t.rp = s.rp /\ t.sp = s.sp
  /\ t.mutation = s.mutation

\* queue_scan.
LEMMA QueueScanDoes ==
  ASSUME NEW s \in Flags, NEW p \in Purposes
  PROVE  /\ QueueScan(s, p) \in Flags /\ SameButQueue(s, QueueScan(s, p))
         /\ QueueScan(s, p).pending /\ QueueScan(s, p).fresh = s.fresh
  <1> DEFINE q == IF s.running THEN Max(p, s.sp) ELSE p
             m == Max(s.qp, q)
  <1>1. s.qp \in Purposes /\ s.sp \in Purposes
    BY FlagsAre
  <1>2. q \in Purposes
    BY <1>1, MaxIs
  <1>3. m \in Purposes
    BY <1>1, <1>2, MaxIs
  <1>4. QueueScan(s, p) = [s EXCEPT !.recon = p = 0, !.pending = TRUE, !.qp = m]
    BY DEF QueueScan
  <1>5. (p = 0) \in BOOLEAN
    OBVIOUS
  <1> HIDE DEF m
  <1> QED BY <1>3, <1>4, <1>5 DEF Flags, SameButQueue, SameLife, Purposes

\* invalidate_records.
LEMMA InvalidateDoes ==
  ASSUME NEW s \in Flags, NEW p \in Purposes
  PROVE  /\ Invalidate(s, p) \in Flags /\ SameButQueue(s, Invalidate(s, p))
         /\ Invalidate(s, p).pending /\ ~Invalidate(s, p).fresh
  <1>1. /\ QueueScan(s, p) \in Flags /\ SameButQueue(s, QueueScan(s, p))
        /\ QueueScan(s, p).pending
    BY QueueScanDoes
  <1>2. \A t \in Flags : /\ [t EXCEPT !.fresh = FALSE] \in Flags
                         /\ SameButQueue(t, [t EXCEPT !.fresh = FALSE])
                         /\ ~[t EXCEPT !.fresh = FALSE].fresh
                         /\ [t EXCEPT !.fresh = FALSE].pending = t.pending
    BY ZenonT(30) DEF Flags, SameButQueue, SameLife
  <1>3. Invalidate(s, p) = [QueueScan(s, p) EXCEPT !.fresh = FALSE]
    BY DEF Invalidate
  <1> HIDE DEF Invalidate
  <1> QED BY <1>1, <1>2, <1>3 DEF SameButQueue, SameLife

\* What the timers leave alone.
SameButTimers(s, t) ==
  /\ SameLife(s, t) /\ t.fresh = s.fresh /\ t.pending = s.pending /\ t.running = s.running
  /\ t.queued = s.queued /\ t.shown = s.shown /\ t.qp = s.qp /\ t.sp = s.sp
  /\ t.mutation = s.mutation /\ t.recon = s.recon

\* schedule_refresh, clear_retry and schedule_retry.
LEMMA TimersDo ==
  ASSUME NEW s \in Flags, NEW p \in Purposes
  PROVE  /\ ScheduleRefresh(s) \in Flags /\ SameButTimers(s, ScheduleRefresh(s))
         /\ ScheduleRefresh(s).timer = (s.timer \/ Active(s))
         /\ ScheduleRefresh(s).retry = s.retry
         /\ ClearRetry(s) \in Flags /\ SameButTimers(s, ClearRetry(s))
         /\ ~ClearRetry(s).retry /\ ClearRetry(s).timer = s.timer
         /\ ScheduleRetry(s, p) \in Flags /\ SameButTimers(s, ScheduleRetry(s, p))
         /\ ScheduleRetry(s, p).retry = (s.retry \/ Active(s))
         /\ ScheduleRetry(s, p).timer = s.timer
  <1>1. s.rp \in Purposes /\ s.timer \in BOOLEAN /\ s.retry \in BOOLEAN
    BY FlagsAre
  <1>2. Max(s.rp, p) \in 0 .. 1
    BY <1>1, MaxIs DEF Purposes
  <1>3. /\ ScheduleRefresh(s) \in Flags /\ SameButTimers(s, ScheduleRefresh(s))
        /\ ScheduleRefresh(s).timer = (s.timer \/ Active(s)) /\ ScheduleRefresh(s).retry = s.retry
    <2>1. CASE Active(s)
      BY <1>1, <2>1 DEF ScheduleRefresh, Flags, SameButTimers, SameLife
    <2>2. CASE ~Active(s)
      BY <1>1, <2>2 DEF ScheduleRefresh, SameButTimers, SameLife
    <2> QED BY <2>1, <2>2
  <1>4. /\ ClearRetry(s) \in Flags /\ SameButTimers(s, ClearRetry(s))
        /\ ~ClearRetry(s).retry /\ ClearRetry(s).timer = s.timer
    <2>1. 0 \in 0 .. 1
      OBVIOUS
    <2>2. ClearRetry(s) = [s EXCEPT !.retry = FALSE, !.rp = 0]
      BY DEF ClearRetry
    <2> QED BY <1>1, <2>1, <2>2 DEF Flags, SameButTimers, SameLife
  <1>5. /\ ScheduleRetry(s, p) \in Flags /\ SameButTimers(s, ScheduleRetry(s, p))
        /\ ScheduleRetry(s, p).retry = (s.retry \/ Active(s)) /\ ScheduleRetry(s, p).timer = s.timer
    <2>1. CASE Active(s)
      <3> DEFINE m == Max(s.rp, p)
      <3>1. ScheduleRetry(s, p) = [s EXCEPT !.rp = m, !.retry = TRUE]
        BY <2>1 DEF ScheduleRetry
      <3> HIDE DEF m
      <3>2. m \in 0 .. 1
        BY <1>2 DEF m
      <3> QED BY <1>1, <2>1, <3>1, <3>2 DEF Flags, SameButTimers, SameLife
    <2>2. CASE ~Active(s)
      BY <1>1, <2>2 DEF ScheduleRetry, SameButTimers, SameLife
    <2> QED BY <2>1, <2>2
  <1> QED BY <1>3, <1>4, <1>5

-----------------------------------------------------------------------------
(* What a callback does to the source.                                       *)

\* Records that stay fresh are still due to be looked at if they were, and an active
\* source without a scan pending was so before.
Steps(s, t) ==
  /\ t.fresh => s.fresh /\ (Due(s) => Due(t))
  /\ Active(t) => t.pending \/ (Active(s) /\ ~s.pending)

\* A source that is active and looks for new records, with nothing fresh in between.
Renewed(s, t) ==
  /\ Sound(t) /\ SameLife(s, t) /\ t.running = s.running /\ t.queued = s.queued
  /\ t.pending /\ ~t.fresh

\* The same life is an active one, or not, alike.
LEMMA SameLifeActive ==
  ASSUME NEW s, NEW t, SameLife(s, t)
  PROVE  (Running(t) <=> Running(s)) /\ (Active(t) <=> Active(s))
  BY DEF SameLife, Running, Active

\* A renewed source takes a legal step.
LEMMA RenewedSteps ==
  ASSUME NEW s, NEW t, Renewed(s, t)
  PROVE  Sound(t) /\ Steps(s, t)
  BY DEF Renewed, Steps

\* invalidate_records and schedule_refresh leave the timer armed, and the controller
\* is told if the records were fresh or it may not know of the check.
LEMMA RefreshDoes ==
  ASSUME NEW s \in Flags, NEW p \in Purposes, NEW b \in BOOLEAN, Active(s),
         s.fresh \/ ~Checking(s) => b,
         ~s.fresh /\ Checking(s) => ~s.shown[1]
  PROVE  Renewed(s, Notify(ScheduleRefresh(Invalidate(ClearRetry(s), p)), b))
  <1> DEFINE c == ClearRetry(s)
             i == Invalidate(c, p)
             t == ScheduleRefresh(i)
             u == Notify(t, b)
  <1>1. c \in Flags /\ SameButTimers(s, c)
    BY TimersDo
  <1>2. i \in Flags /\ SameButQueue(c, i) /\ i.pending /\ ~i.fresh
    <2> HIDE DEF c
    <2> QED BY <1>1, InvalidateDoes
  <1>3. Active(i) /\ Active(c)
    BY <1>1, <1>2 DEF SameButTimers, SameButQueue, SameLife, Active, Running
  <1>4. t \in Flags /\ SameButTimers(i, t) /\ t.timer
    <2> HIDE DEF i
    <2> QED BY <1>2, <1>3, TimersDo
  <1>5. /\ SameLife(s, t) /\ t.running = s.running /\ t.queued = s.queued /\ t.pending
        /\ ~t.fresh /\ t.shown = s.shown
    <2> HIDE DEF c, i, t
    <2> QED BY <1>1, <1>2, <1>4 DEF SameButTimers, SameButQueue, SameLife
  <1>6. Active(t) /\ Running(t) /\ Checking(t)
    <2> HIDE DEF t
    <2> QED BY <1>4, <1>5 DEF SameLife, Active, Running, Checking
  <1>7. /\ u \in Flags /\ SameButShown(t, u)
        /\ b => u.shown = View(t)
        /\ ~b => u.shown = t.shown
    <2> HIDE DEF t
    <2> QED BY <1>4, <1>6, NotifyKeeps
  <1>8. View(t)[1] = FALSE
    <2> HIDE DEF t
    <2> QED BY <1>5 DEF View
  <1>9. u.shown[1] = FALSE
    <2> HIDE DEF t, u
    <2>1. CASE b
      BY <1>7, <1>8, <2>1
    <2>2. CASE ~b
      <3>1. ~s.fresh /\ Checking(s) /\ ~s.shown[1] /\ u.shown = s.shown
        BY <1>5, <1>7, <2>2
      <3>2. s.shown[1] \in BOOLEAN
        BY FlagsAre
      <3> QED BY <3>1, <3>2
    <2> QED BY <2>1, <2>2
  <1>10. /\ SameLife(s, u) /\ u.running = s.running /\ u.queued = s.queued /\ u.pending
         /\ u.fresh = FALSE /\ u.timer /\ Active(u) /\ Running(u) /\ Checking(u)
    <2>1. u.fresh \in BOOLEAN
      <3> HIDE DEF u
      <3> QED BY <1>7, FlagsAre
    <2> HIDE DEF t, u
    <2> QED BY <1>4, <1>5, <1>6, <1>7, <2>1 DEF SameButShown, SameLife, Active, Running, Checking
  <1>11. Sound(u)
    <2> HIDE DEF u
    <2> QED BY <1>7, <1>9, <1>10 DEF Sound, Fits, Armed, IsShown, Active, Running
  <1> HIDE DEF u
  <1>12. Renewed(s, u)
    BY <1>10, <1>11 DEF Renewed
  <1> QED BY <1>12 DEF u

\* A sound source has not shown fresh records while it has none.
LEMMA SoundShows ==
  ASSUME NEW s, Sound(s), Active(s)
  PROVE  s \in Flags /\ (~s.fresh /\ Checking(s) => ~s.shown[1])
  BY DEF Sound, Fits, IsShown

\* network_sidebar_awg_runtime_source_request_refresh.
LEMMA RequestRefreshDoes ==
  ASSUME NEW s \in Flags, NEW p \in Purposes, Active(s),
         ~s.fresh /\ Checking(s) => ~s.shown[1]
  PROVE  Renewed(s, RequestRefresh(s, p))
  <1> DEFINE t == ScheduleRefresh(Invalidate(ClearRetry(s), p))
             b == s.fresh \/ ~Checking(s) \/ Loading(s) # Loading(t)
  <1>1. RequestRefresh(s, p) = Notify(t, b)
    BY DEF RequestRefresh
  <1>2. s.fresh \/ ~Checking(s) => b
    OBVIOUS
  <1>3. b \in BOOLEAN
    BY FlagsAre
  <1> HIDE DEF b
  <1>4. Renewed(s, Notify(t, b))
    BY <1>2, <1>3, RefreshDoes
  <1> QED BY <1>1, <1>4

\* schedule_monitor_refresh.
LEMMA MonitorRefreshDoes ==
  ASSUME NEW s, Sound(s), Active(s)
  PROVE  Renewed(s, MonitorRefresh(s))
  <1> DEFINE p == AutomaticPurpose(s)
             b == s.fresh \/ ~Checking(s)
  <1>1. s \in Flags /\ (~s.fresh /\ Checking(s) => ~s.shown[1])
    BY SoundShows
  <1>2. p \in Purposes /\ b \in BOOLEAN
    BY <1>1, FlagsAre
  <1>3. MonitorRefresh(s) = Notify(ScheduleRefresh(Invalidate(ClearRetry(s), p)), b)
    BY DEF MonitorRefresh
  <1>4. s.fresh \/ ~Checking(s) => b
    OBVIOUS
  <1> HIDE DEF p, b
  <1>5. Renewed(s, Notify(ScheduleRefresh(Invalidate(ClearRetry(s), p)), b))
    BY <1>1, <1>2, <1>4, RefreshDoes
  <1> QED BY <1>3, <1>5

\* The monitors are not what they were, or they are not complete.
Bad == MonitorsChanged \/ ~MonitorsReady

\* network_sidebar_awg_runtime_source_ensure_monitor: nothing, or the records are no
\* longer fresh and a timer or a retry is armed.
LEMMA EnsureMonitorDoes ==
  ASSUME NEW s \in Flags, Active(s)
  PROVE  /\ EnsureMonitor(s) \in Flags /\ SameLife(s, EnsureMonitor(s))
         /\ EnsureMonitor(s).running = s.running /\ EnsureMonitor(s).queued = s.queued
         /\ ~Bad => EnsureMonitor(s) = s
         /\ Bad => /\ EnsureMonitor(s).pending /\ ~EnsureMonitor(s).fresh
                   /\ EnsureMonitor(s).timer \/ EnsureMonitor(s).retry
                   /\ \/ EnsureMonitor(s).shown = <<FALSE, Checking(EnsureMonitor(s))>>
                      \/ /\ EnsureMonitor(s).shown = s.shown /\ ~s.fresh
                         /\ Checking(EnsureMonitor(s)) = Checking(s)
  <1> DEFINE p  == AutomaticPurpose(s)
             s1 == IF Bad THEN Invalidate(s, p) ELSE s
             s2 == IF MonitorsChanged THEN ScheduleRefresh(s1) ELSE s1
             s3 == IF MonitorsReady THEN s2 ELSE ScheduleRetry(s2, AutomaticPurpose(s2))
             b  == (Bad /\ s.fresh) \/ Checking(s) # Checking(s3)
  <1>1. EnsureMonitor(s) = Notify(s3, b)
    BY DEF EnsureMonitor, Bad
  <1>2. b \in BOOLEAN
    <2>1. s.fresh \in BOOLEAN
      BY FlagsAre
    <2> HIDE DEF s3
    <2> QED BY <2>1
  <1>3. CASE ~Bad
    <2>1. s1 = s /\ ~MonitorsChanged /\ MonitorsReady
      BY <1>3 DEF Bad
    <2>2. s3 = s
      BY <2>1
    <2>3. b = FALSE
      BY <1>3, <2>2
    <2>4. Notify(s, FALSE) = s
      BY DEF Notify
    <2>5. EnsureMonitor(s) = s
      BY <1>1, <2>2, <2>3, <2>4
    <2> QED BY <1>3, <2>5 DEF SameLife
  <1>4. CASE Bad
    <2>1. s1 \in Flags /\ SameButQueue(s, s1) /\ s1.pending /\ ~s1.fresh
      <3>1. p \in Purposes
        BY FlagsAre
      <3> HIDE DEF p
      <3>2. Invalidate(s, p) \in Flags /\ SameButQueue(s, Invalidate(s, p))
            /\ Invalidate(s, p).pending /\ ~Invalidate(s, p).fresh
        BY <3>1, InvalidateDoes
      <3> QED BY <1>4, <3>2
    <2> HIDE DEF s1
    <2>2. Active(s1)
      BY <2>1 DEF SameButQueue, SameLife, Active, Running
    <2>3. /\ s2 \in Flags /\ SameButTimers(s1, s2) /\ s2.retry = s1.retry
          /\ MonitorsChanged => s2.timer
      <3>1. /\ ScheduleRefresh(s1) \in Flags /\ SameButTimers(s1, ScheduleRefresh(s1))
            /\ ScheduleRefresh(s1).retry = s1.retry /\ ScheduleRefresh(s1).timer
        BY <2>1, <2>2, TimersDo, 0 \in Purposes DEF Purposes
      <3>2. SameButTimers(s1, s1)
        BY DEF SameButTimers, SameLife
      <3> QED BY <2>1, <3>1, <3>2
    <2> HIDE DEF s2
    <2>4. Active(s2)
      BY <2>2, <2>3 DEF SameButTimers, SameLife, Active, Running
    <2>5. /\ s3 \in Flags /\ SameButTimers(s2, s3) /\ (s2.timer => s3.timer)
          /\ ~MonitorsReady => s3.retry
      <3>1. AutomaticPurpose(s2) \in Purposes
        BY <2>3, FlagsAre
      <3>2. /\ ScheduleRetry(s2, AutomaticPurpose(s2)) \in Flags
            /\ SameButTimers(s2, ScheduleRetry(s2, AutomaticPurpose(s2)))
            /\ ScheduleRetry(s2, AutomaticPurpose(s2)).retry
            /\ ScheduleRetry(s2, AutomaticPurpose(s2)).timer = s2.timer
        BY <2>3, <2>4, <3>1, TimersDo
      <3>3. SameButTimers(s2, s2)
        BY DEF SameButTimers, SameLife
      <3> QED BY <2>3, <3>2, <3>3
    <2> HIDE DEF s3, b
    <2>6. /\ SameLife(s, s3) /\ s3.running = s.running /\ s3.queued = s.queued
          /\ s3.pending /\ ~s3.fresh /\ s3.shown = s.shown
      BY <2>1, <2>3, <2>5 DEF SameButTimers, SameButQueue, SameLife
    <2>7. s3.timer \/ s3.retry
      BY <1>4, <2>3, <2>5 DEF Bad
    <2>8. Running(s3) /\ Active(s3)
      BY <2>6, SameLifeActive DEF Active
    <2>9. /\ Notify(s3, b) \in Flags /\ SameButShown(s3, Notify(s3, b))
          /\ b => Notify(s3, b).shown = View(s3)
          /\ ~b => Notify(s3, b).shown = s3.shown
      BY <1>2, <2>5, <2>8, NotifyKeeps
    <2> DEFINE u == Notify(s3, b)
    <2>10. Checking(u) = Checking(s3)
      <3> HIDE DEF u
      <3>1. SameButShown(s3, u)
        BY <2>9 DEF u
      <3> QED BY <3>1 DEF SameButShown, SameLife, Checking, Active, Running
    <2>11. /\ u \in Flags /\ SameLife(s, u) /\ u.running = s.running /\ u.queued = s.queued
           /\ u.pending /\ ~u.fresh /\ (u.timer \/ u.retry)
      <3> HIDE DEF u
      <3>1. u \in Flags /\ SameButShown(s3, u)
        BY <2>9 DEF u
      <3> QED BY <2>6, <2>7, <3>1 DEF SameButShown, SameLife
    <2>12. \/ u.shown = <<FALSE, Checking(u)>>
           \/ u.shown = s.shown /\ ~s.fresh /\ Checking(u) = Checking(s)
      <3>1. s3.fresh = FALSE
        BY <2>5, <2>6, FlagsAre
      <3>2. CASE b
        BY <2>9, <2>10, <3>1, <3>2 DEF View
      <3>3. CASE ~b
        <4>1. u.shown = s.shown
          BY <2>6, <2>9, <3>3
        <4>2. ~s.fresh /\ Checking(s) = Checking(s3)
          BY <1>4, <3>3 DEF b
        <4> QED BY <2>10, <4>1, <4>2
      <3> QED BY <3>2, <3>3
    <2> HIDE DEF u
    <2>13. EnsureMonitor(s) = u
      BY <1>1 DEF u
    <2> HIDE DEF Bad
    <2> QED BY <1>4, <2>11, <2>12, <2>13
  <1> QED BY <1>3, <1>4

\* The monitors are looked after while the source is active.
LEMMA EnsureMonitorIsSound ==
  ASSUME NEW s, Sound(s), Active(s)
  PROVE  Sound(EnsureMonitor(s)) /\ Steps(s, EnsureMonitor(s))
         /\ (Bad => Renewed(s, EnsureMonitor(s)))
  <1> DEFINE u == EnsureMonitor(s)
  <1>1. s \in Flags
    BY SoundShows
  <1>2. CASE ~Bad
    <2>1. u = s
      BY <1>1, <1>2, EnsureMonitorDoes
    <2> HIDE DEF u
    <2>2. Sound(u) /\ Steps(s, u)
      BY <1>2, <2>1 DEF Steps, Sound, Fits, Due
    <2> QED BY <1>2, <2>2 DEF u
  <1>3. CASE Bad
    <2>1. /\ u \in Flags /\ SameLife(s, u) /\ u.running = s.running /\ u.queued = s.queued
          /\ u.pending /\ ~u.fresh /\ (u.timer \/ u.retry)
          /\ \/ u.shown = <<FALSE, Checking(u)>>
             \/ u.shown = s.shown /\ ~s.fresh /\ Checking(u) = Checking(s)
      BY <1>1, <1>3, EnsureMonitorDoes
    <2> HIDE DEF u
    <2>2. Active(u)
      BY <2>1, SameLifeActive
    <2>3. IsShown(u)
      <3>1. u.fresh = FALSE /\ s.shown[1] \in BOOLEAN
        BY <1>1, <2>1, FlagsAre
      <3>2. CASE u.shown = <<FALSE, Checking(u)>>
        <4>1. u.shown[1] = FALSE /\ u.shown[2] = Checking(u)
          BY <3>2
        <4> QED BY <3>1, <4>1 DEF IsShown
      <3>3. CASE u.shown = s.shown /\ ~s.fresh /\ Checking(u) = Checking(s)
        BY <3>1, <3>3 DEF Sound, IsShown
      <3> QED BY <2>1, <3>2, <3>3
    <2>4. Fits(u) /\ Armed(u)
      BY <2>1, <2>2 DEF Fits, Armed, Active
    <2>5. Renewed(s, u)
      BY <2>1, <2>3, <2>4 DEF Renewed, Sound
    <2>6. Sound(u) /\ Steps(s, u)
      BY <2>5, RenewedSteps
    <2> QED BY <1>3, <2>5, <2>6 DEF u
  <1> QED BY <1>2, <1>3

\* network_sidebar_awg_runtime_source_set_monitor_enabled, on.
LEMMA EnableDoes ==
  ASSUME NEW s, Sound(s), Running(s), ~s.enabled
  PROVE  LET u == RequestRefresh(EnsureMonitor([s EXCEPT !.enabled = TRUE]), 1)
         IN Sound(u) /\ Steps(s, u) /\ u.pending /\ ~u.fresh
  <1> DEFINE e == [s EXCEPT !.enabled = TRUE]
             m == EnsureMonitor(e)
             u == RequestRefresh(m, 1)
  <1>1. s \in Flags /\ ~s.fresh /\ ~s.timer /\ (s.shown[1] => ~s.running)
    BY DEF Sound, Fits, Active, Running
  <1>2. /\ e \in Flags /\ Active(e) /\ ~e.fresh /\ (Checking(e) <=> s.running)
        /\ e.shown = s.shown
    BY <1>1 DEF Flags, Active, Running, Checking
  <1>3. m \in Flags /\ SameLife(e, m) /\ (~m.fresh /\ Checking(m) => ~m.shown[1])
    <2> HIDE DEF e
    <2>1. m \in Flags /\ SameLife(e, m)
      BY <1>2, EnsureMonitorDoes
    <2>2. CASE ~Bad
      <3>1. m = e
        BY <1>2, <2>2, EnsureMonitorDoes
      <3> HIDE DEF m
      <3> QED BY <1>1, <1>2, <2>1, <3>1
    <2>3. CASE Bad
      <3>1. \/ m.shown = <<FALSE, Checking(m)>>
            \/ m.shown = e.shown /\ Checking(m) = Checking(e)
        BY <1>2, <2>3, EnsureMonitorDoes
      <3> HIDE DEF m
      <3>2. CASE m.shown = <<FALSE, Checking(m)>>
        <4>1. ~m.shown[1]
          BY <3>2
        <4> QED BY <2>1, <4>1
      <3> QED BY <1>1, <1>2, <2>1, <3>1, <3>2
    <2> QED BY <2>2, <2>3
  <1>4. Renewed(m, u)
    <2>1. Active(m) /\ 1 \in Purposes
      <3> HIDE DEF m, e
      <3> QED BY <1>2, <1>3, SameLifeActive DEF Purposes
    <2> HIDE DEF m
    <2> QED BY <1>3, <2>1, RequestRefreshDoes
  <1> HIDE DEF u
  <1>5. Sound(u) /\ Steps(s, u) /\ u.pending /\ ~u.fresh
    BY <1>4 DEF Renewed, Steps
  <1> QED BY <1>5 DEF u

\* start_scan from scheduled_refresh_cb.
LEMMA StartScanDoes ==
  ASSUME NEW s, Sound(s), Active(s)
  PROVE  LET u == [StartScan(s) EXCEPT !.timer = FALSE]
         IN Sound(u) /\ SameLife(s, u) /\ ~u.pending /\ u.running
            /\ (u.fresh => s.fresh /\ ~Bad)
  <1> DEFINE i  == Invalidate(s, s.qp)
             s1 == IF Bad THEN Notify(i, s.fresh) ELSE s
             t  == [s1 EXCEPT !.pending = FALSE, !.queued = FALSE, !.running = TRUE,
                              !.sp = s1.qp, !.qp = 0]
             u  == [t EXCEPT !.timer = FALSE]
  <1>1. StartScan(s) = t
    BY DEF StartScan, Bad
  <1>2. s \in Flags /\ s.qp \in Purposes /\ s.fresh \in BOOLEAN /\ s.shown[1] = s.fresh
        /\ s.enabled /\ Running(s)
    <2>1. s \in Flags /\ s.shown[1] = s.fresh
      BY DEF Sound, Fits, IsShown
    <2> QED BY <2>1, FlagsAre DEF Active
  <1>3. /\ s1 \in Flags /\ SameLife(s, s1) /\ s1.shown[1] = s1.fresh
        /\ (s1.fresh => s.fresh /\ ~Bad)
    <2>1. CASE ~Bad
      BY <1>2, <2>1 DEF SameLife
    <2>2. CASE Bad
      <3>1. i \in Flags /\ SameButQueue(s, i) /\ ~i.fresh
        BY <1>2, InvalidateDoes
      <3> HIDE DEF i
      <3>2. Running(i) /\ i.fresh = FALSE
        BY <1>2, <3>1, FlagsAre DEF SameButQueue, SameLife, Running
      <3> DEFINE v == Notify(i, s.fresh)
      <3>3. /\ v \in Flags /\ SameButShown(i, v)
            /\ s.fresh => v.shown = View(i)
            /\ ~s.fresh => v.shown = i.shown
        BY <1>2, <3>1, <3>2, NotifyKeeps
      <3> HIDE DEF v
      <3>4. View(i)[1] = FALSE
        BY <3>2 DEF View
      <3>5. v.fresh = FALSE /\ v.shown[1] = FALSE /\ SameLife(s, v)
        BY <1>2, <3>1, <3>2, <3>3, <3>4 DEF SameButShown, SameButQueue, SameLife
      <3>6. s1 = v
        BY <2>2 DEF v
      <3> QED BY <3>3, <3>5, <3>6
    <2> QED BY <2>1, <2>2
  <1> HIDE DEF s1
  <1>4. /\ u \in Flags /\ SameLife(s1, u) /\ u.fresh = s1.fresh /\ u.shown = s1.shown
        /\ ~u.pending /\ u.running /\ ~u.timer
    <2>1. s1.qp \in 0 .. 1 /\ 0 \in 0 .. 1
      BY <1>3, FlagsAre DEF Purposes
    <2> QED BY <1>3, <2>1 DEF Flags, SameLife
  <1> HIDE DEF u
  <1>5. Active(u) /\ Running(u) /\ u.enabled /\ Checking(u) /\ SameLife(s, u)
    BY <1>2, <1>3, <1>4 DEF SameLife, Active, Running, Checking
  <1>6. Sound(u)
    BY <1>3, <1>4, <1>5 DEF Sound, Fits, Armed, IsShown
  <1>7. [StartScan(s) EXCEPT !.timer = FALSE] = u
    BY <1>1 DEF u
  <1> QED BY <1>3, <1>4, <1>5, <1>6, <1>7

\* scheduled_refresh_cb when a scan runs already, or none is pending.
LEMMA PostponeDoes ==
  ASSUME NEW s, Sound(s), s.timer, s.running \/ ~s.pending
  PROVE  LET u == [s EXCEPT !.queued = @ \/ s.running, !.timer = FALSE]
         IN Sound(u) /\ Steps(s, u) /\ u.pending = s.pending
  <1> DEFINE u == [s EXCEPT !.queued = @ \/ s.running, !.timer = FALSE]
  <1>1. s \in Flags /\ Active(s) /\ s.running \in BOOLEAN /\ s.queued \in BOOLEAN
    <2>1. s \in Flags
      BY DEF Sound, Fits
    <2> QED BY <2>1, FlagsAre DEF Sound, Fits
  <1>2. /\ u \in Flags /\ SameLife(s, u) /\ u.fresh = s.fresh /\ u.pending = s.pending
        /\ u.running = s.running /\ u.shown = s.shown /\ u.retry = s.retry /\ ~u.timer
        /\ (s.running => u.queued)
    BY <1>1 DEF Flags, SameLife
  <1> HIDE DEF u
  <1>3. Active(u) /\ u.enabled /\ Running(u)
    BY <1>1, <1>2 DEF SameLife, Active, Running
  <1>4. Checking(s) /\ (Checking(u) <=> s.running)
    BY <1>1, <1>2, <1>3 DEF Checking
  <1>5. IsShown(u) /\ Armed(u)
    BY <1>1, <1>2, <1>3, <1>4 DEF IsShown, Armed, Sound, Fits
  <1>6. Fits(u)
    BY <1>1, <1>2, <1>3 DEF Fits, Sound
  <1>7. Steps(s, u)
    BY <1>1, <1>2 DEF Steps, Due
  <1>8. Sound(u) /\ Steps(s, u) /\ u.pending = s.pending
    BY <1>2, <1>5, <1>6, <1>7 DEF Sound
  <1> QED BY <1>8 DEF u

\* scan_complete_cb and publish_scan_cb after the source was switched off, and
\* network_sidebar_awg_runtime_source_start and _set_mutation_active.
LEMMA SmallStepsDo ==
  ASSUME NEW s, Sound(s)
  PROVE  /\ ~Active(s) =>
              LET u == [s EXCEPT !.running = FALSE, !.sp = 0] IN Sound(u) /\ ~Active(u)
         /\ ~Active(s) =>
              LET u == [s EXCEPT !.running = FALSE, !.queued = FALSE, !.sp = 0,
                                 !.recon = FALSE] IN Sound(u) /\ ~Active(u)
         /\ s.phase = "new" =>
              LET u == [s EXCEPT !.phase = "running"] IN Sound(u) /\ ~Active(u)
         /\ LET u == [s EXCEPT !.mutation = ~s.mutation]
            IN Sound(u) /\ Steps(s, u) /\ u.pending = s.pending
  <1>1. s \in Flags
    BY DEF Sound, Fits
  <1>2. ~Active(s) => ~s.enabled /\ ~s.fresh /\ ~s.timer
    BY DEF Sound, Fits, Active
  <1>3. s.phase = "new" => ~Active(s)
    BY DEF Active, Running
  <1>4. 0 \in 0 .. 1
    OBVIOUS
  <1>5. ASSUME ~Active(s)
        PROVE  LET u == [s EXCEPT !.running = FALSE, !.sp = 0] IN Sound(u) /\ ~Active(u)
    <2> DEFINE u == [s EXCEPT !.running = FALSE, !.sp = 0]
    <2>1. /\ u \in Flags /\ SameLife(s, u) /\ u.fresh = s.fresh /\ u.timer = s.timer
          /\ ~u.running
      BY <1>1, <1>4 DEF Flags, SameLife
    <2> HIDE DEF u
    <2>2. ~Active(u) /\ ~u.enabled
      BY <1>2, <1>5, <2>1 DEF SameLife, Active, Running
    <2>3. Sound(u)
      BY <1>2, <1>5, <2>1, <2>2 DEF Sound, Fits, Armed, IsShown
    <2> QED BY <2>2, <2>3 DEF u
  <1>6. ASSUME ~Active(s)
        PROVE  LET u == [s EXCEPT !.running = FALSE, !.queued = FALSE, !.sp = 0,
                                  !.recon = FALSE] IN Sound(u) /\ ~Active(u)
    <2> DEFINE u == [s EXCEPT !.running = FALSE, !.queued = FALSE, !.sp = 0, !.recon = FALSE]
    <2>1. /\ u \in Flags /\ SameLife(s, u) /\ u.fresh = s.fresh /\ u.timer = s.timer
          /\ ~u.running
      BY <1>1, <1>4 DEF Flags, SameLife
    <2> HIDE DEF u
    <2>2. ~Active(u) /\ ~u.enabled
      BY <1>2, <1>6, <2>1 DEF SameLife, Active, Running
    <2>3. Sound(u)
      BY <1>2, <1>6, <2>1, <2>2 DEF Sound, Fits, Armed, IsShown
    <2> QED BY <2>2, <2>3 DEF u
  <1>7. ASSUME s.phase = "new"
        PROVE  LET u == [s EXCEPT !.phase = "running"] IN Sound(u) /\ ~Active(u)
    <2> DEFINE u == [s EXCEPT !.phase = "running"]
    <2>1. /\ u \in Flags /\ u.enabled = s.enabled /\ u.fresh = s.fresh /\ u.timer = s.timer
          /\ u.running = s.running /\ u.shown = s.shown
      BY <1>1 DEF Flags
    <2> HIDE DEF u
    <2>2. ~Active(u) /\ ~u.enabled
      BY <1>2, <1>3, <1>7, <2>1 DEF Active
    <2>3. Sound(u)
      BY <1>2, <1>3, <1>7, <2>1, <2>2 DEF Sound, Fits, Armed, IsShown
    <2> QED BY <2>2, <2>3 DEF u
  <1>8. LET u == [s EXCEPT !.mutation = ~s.mutation]
        IN Sound(u) /\ Steps(s, u) /\ u.pending = s.pending
    <2> DEFINE u == [s EXCEPT !.mutation = ~s.mutation]
    <2>1. /\ u \in Flags /\ SameLife(s, u) /\ u.fresh = s.fresh /\ u.timer = s.timer
          /\ u.running = s.running /\ u.shown = s.shown /\ u.retry = s.retry
          /\ u.queued = s.queued /\ u.pending = s.pending
      <3>1. (~s.mutation) \in BOOLEAN
        OBVIOUS
      <3> QED BY <1>1, <3>1 DEF Flags, SameLife
    <2> HIDE DEF u
    <2>2. Sound(u) /\ Steps(s, u)
      BY <2>1 DEF Sound, Fits, Armed, IsShown, Steps, Due, Checking, Active, Running, SameLife
    <2> QED BY <2>1, <2>2 DEF u
  <1> QED BY <1>5, <1>6, <1>7, <1>8

\* network_sidebar_awg_runtime_source_set_monitor_enabled, off: a controller that believed
\* a check to be under way is told that there is none.
LEMMA DisableDoes ==
  ASSUME NEW s, Sound(s), Active(s)
  PROVE  LET t == [s EXCEPT !.enabled = FALSE, !.timer = FALSE, !.retry = FALSE,
                            !.fresh = FALSE, !.pending = FALSE, !.queued = FALSE,
                            !.qp = 0, !.sp = 0, !.rp = 0, !.mutation = FALSE, !.recon = FALSE]
             u == Notify(t, Checking(s))
         IN Sound(u) /\ ~Active(u)
  <1> DEFINE t == [s EXCEPT !.enabled = FALSE, !.timer = FALSE, !.retry = FALSE,
                            !.fresh = FALSE, !.pending = FALSE, !.queued = FALSE,
                            !.qp = 0, !.sp = 0, !.rp = 0, !.mutation = FALSE, !.recon = FALSE]
             u == Notify(t, Checking(s))
  <1>1. s \in Flags /\ Running(s)
    BY DEF Sound, Fits, Active
  <1>2. 0 \in 0 .. 1
    OBVIOUS
  <1>3. /\ t \in Flags /\ t.phase = s.phase /\ ~t.enabled /\ t.fresh = FALSE /\ ~t.timer
        /\ t.running = s.running /\ t.shown = s.shown
    BY <1>1, <1>2, ZenonT(30) DEF Flags
  <1> HIDE DEF t
  <1>4. Running(t) /\ Checking(s) \in BOOLEAN
    BY <1>1, <1>3 DEF Running, Checking, Active, Flags
  <1>5. /\ u \in Flags /\ SameButShown(t, u)
        /\ Checking(s) => u.shown = View(t)
    BY <1>3, <1>4, NotifyKeeps
  <1> HIDE DEF u
  <1>6. /\ ~u.enabled /\ ~u.fresh /\ ~u.timer /\ ~Active(u) /\ Running(u)
        /\ u.running = s.running
    BY <1>3, <1>4, <1>5 DEF SameButShown, SameLife, Active, Running
  <1>7. Checking(s) => u.shown[1] = FALSE
    BY <1>3, <1>5 DEF View
  <1>8. ~Checking(s) => ~s.running
    BY DEF Checking
  <1>9. u.shown[1] => ~u.running
    BY <1>6, <1>7, <1>8
  <1>10. Sound(u)
    BY <1>5, <1>6, <1>9 DEF Sound, Fits, Armed, IsShown
  <1> QED BY <1>6, <1>10 DEF t, u

\* runtime_source_stop_internal.
LEMMA StopDoes ==
  ASSUME NEW s, Sound(s)
  PROVE  LET u == [s EXCEPT !.phase = "stopped", !.enabled = FALSE, !.timer = FALSE,
                            !.retry = FALSE, !.fresh = FALSE, !.pending = FALSE,
                            !.queued = FALSE]
         IN Sound(u) /\ ~Active(u)
  <1> DEFINE u == [s EXCEPT !.phase = "stopped", !.enabled = FALSE, !.timer = FALSE,
                            !.retry = FALSE, !.fresh = FALSE, !.pending = FALSE,
                            !.queued = FALSE]
  <1>1. s \in Flags
    BY DEF Sound, Fits
  <1>2. u \in Flags /\ u.phase = "stopped" /\ ~u.enabled /\ ~u.fresh /\ ~u.timer
    BY <1>1 DEF Flags
  <1> HIDE DEF u
  <1>3. ~Active(u)
    BY <1>2 DEF Active
  <1>4. Sound(u)
    BY <1>2, <1>3 DEF Sound, Fits, Armed, IsShown
  <1> QED BY <1>3, <1>4 DEF u

\* network_sidebar_awg_runtime_source_poll: the purposes are raised, or a scan is queued.
LEMMA PollDoes ==
  ASSUME NEW s, Sound(s), Active(s), NEW p \in Purposes
  PROVE  LET busy == s.running \/ s.pending
             t    == [s EXCEPT !.recon = @ /\ p = 0,
                               !.sp = IF s.running THEN Max(@, p) ELSE @,
                               !.qp = IF s.pending THEN Max(@, p) ELSE @]
             u    == IF busy THEN Notify(t, Loading(t) # Loading(s))
                     ELSE Notify(ScheduleRefresh(QueueScan(ClearRetry(s), p)), TRUE)
         IN /\ Sound(u) /\ Steps(s, u)
            /\ busy => u.pending = s.pending
            /\ ~busy => u.pending
  <1> DEFINE busy == s.running \/ s.pending
             sp == IF s.running THEN Max(s.sp, p) ELSE s.sp
             qp == IF s.pending THEN Max(s.qp, p) ELSE s.qp
             t  == [s EXCEPT !.recon = s.recon /\ p = 0, !.sp = sp, !.qp = qp]
             b  == Loading(t) # Loading(s)
             v  == Notify(t, b)
             c  == ClearRetry(s)
             q  == QueueScan(c, p)
             r  == ScheduleRefresh(q)
             w  == Notify(r, TRUE)
  <1>1. s \in Flags /\ s.sp \in Purposes /\ s.qp \in Purposes
    <2>1. s \in Flags
      BY DEF Sound, Fits
    <2> QED BY <2>1, FlagsAre
  <1>2. CASE busy
    <2>1. sp \in 0 .. 1 /\ qp \in 0 .. 1
      <3>1. Max(s.sp, p) \in Purposes /\ Max(s.qp, p) \in Purposes
        BY <1>1, MaxIs
      <3> QED BY <1>1, <3>1 DEF Purposes
    <2> HIDE DEF sp, qp
    <2>2. t \in Flags /\ SameButShown(s, t) /\ t.shown = s.shown
      <3>1. (s.recon /\ p = 0) \in BOOLEAN
        BY <1>1 DEF Flags
      <3> QED BY <1>1, <2>1, <3>1 DEF Flags, SameButShown, SameLife
    <2> HIDE DEF t
    <2>3. b \in BOOLEAN
      OBVIOUS
    <2> HIDE DEF b
    <2>4. /\ v \in Flags /\ SameButShown(t, v)
          /\ b /\ Running(t) => v.shown = View(t)
          /\ ~(b /\ Running(t)) => v.shown = t.shown
      BY <2>2, <2>3, NotifyKeeps
    <2> HIDE DEF v
    <2>5. SameButShown(s, v) /\ Checking(v) = Checking(t) /\ Checking(t) = Checking(s)
          /\ t.fresh = s.fresh
      BY <2>2, <2>4 DEF SameButShown, SameLife, Checking, Active, Running
    <2>6. v.shown = s.shown \/ v.shown = <<s.fresh, Checking(s)>>
      BY <2>2, <2>4, <2>5 DEF View
    <2>7. Active(v)
      BY <2>5 DEF SameButShown, SameLife, Active, Running
    <2>8. v.fresh = s.fresh
      BY <2>5 DEF SameButShown
    <2>9. IsShown(v)
      <3>1. CASE v.shown = s.shown
        BY <2>5, <2>8, <3>1 DEF IsShown, Sound
      <3>2. CASE v.shown = <<s.fresh, Checking(s)>>
        <4>1. v.shown[1] = s.fresh /\ v.shown[2] = Checking(s)
          BY <3>2
        <4> QED BY <2>5, <2>8, <4>1 DEF IsShown
      <3> QED BY <2>6, <3>1, <3>2
    <2>10. Fits(v) /\ Armed(v) /\ Steps(s, v) /\ v.pending = s.pending
      BY <2>4, <2>5, <2>7 DEF SameButShown, SameLife, Fits, Armed, Sound, Steps, Due, Active, Running
    <2>11. Sound(v)
      BY <2>9, <2>10 DEF Sound
    <2>12. v = Notify([s EXCEPT !.recon = @ /\ p = 0,
                                !.sp = IF s.running THEN Max(@, p) ELSE @,
                                !.qp = IF s.pending THEN Max(@, p) ELSE @],
                      Loading([s EXCEPT !.recon = @ /\ p = 0,
                                !.sp = IF s.running THEN Max(@, p) ELSE @,
                                !.qp = IF s.pending THEN Max(@, p) ELSE @]) # Loading(s))
      BY DEF v, b, t, sp, qp
    <2> QED BY <1>2, <2>10, <2>11, <2>12
  <1>3. CASE ~busy
    <2>1. c \in Flags /\ SameButTimers(s, c)
      BY <1>1, TimersDo
    <2> HIDE DEF c
    <2>2. q \in Flags /\ SameButQueue(c, q) /\ q.pending /\ q.fresh = c.fresh
      BY <2>1, QueueScanDoes
    <2> HIDE DEF q
    <2>3. r \in Flags /\ SameButTimers(q, r) /\ r.timer
      <3>1. Active(q)
        BY <2>1, <2>2 DEF SameButTimers, SameButQueue, SameLife, Active, Running
      <3> QED BY <2>2, <3>1, TimersDo
    <2> HIDE DEF r
    <2>4. SameLife(s, r) /\ r.pending /\ r.fresh = s.fresh
      BY <2>1, <2>2, <2>3 DEF SameButTimers, SameButQueue, SameLife
    <2>5. Active(r) /\ Running(r) /\ Checking(r) /\ r.fresh \in BOOLEAN
      BY <2>3, <2>4, FlagsAre DEF SameLife, Active, Running, Checking
    <2>6. w \in Flags /\ SameButShown(r, w) /\ w.shown = View(r)
      BY <2>3, <2>5, NotifyKeeps
    <2> HIDE DEF w
    <2>7. w.shown[1] = r.fresh
      BY <2>6 DEF View
    <2>8. /\ Active(w) /\ Running(w) /\ Checking(w) /\ w.pending /\ w.timer /\ w.fresh = s.fresh
          /\ w.fresh = r.fresh
      BY <2>3, <2>4, <2>5, <2>6 DEF SameButShown, SameLife, Active, Running, Checking
    <2>9. Sound(w)
      BY <2>6, <2>7, <2>8 DEF Sound, Fits, Armed, IsShown, Active
    <2>10. Steps(s, w)
      BY <2>8 DEF Steps, Due
    <2>11. w = Notify(ScheduleRefresh(QueueScan(ClearRetry(s), p)), TRUE)
      BY DEF w, r, q, c
    <2> QED BY <1>3, <2>8, <2>9, <2>10, <2>11
  <1> QED BY <1>2, <1>3

\* network_sidebar_awg_runtime_source_set_names.
LEMMA SetNamesDoes ==
  ASSUME NEW s, Sound(s), NEW p \in Purposes
  PROVE  LET t == Invalidate(s, p)
             u == IF Active(s) THEN ScheduleRefresh(ClearRetry(t)) ELSE t
             v == Notify(u, s.fresh \/ Checking(u) # Checking(s) \/ Loading(u) # Loading(s))
         IN Sound(v) /\ v.pending /\ ~v.fresh
  <1> DEFINE t == Invalidate(s, p)
             c == ClearRetry(t)
             u == IF Active(s) THEN ScheduleRefresh(c) ELSE t
             b == s.fresh \/ Checking(u) # Checking(s) \/ Loading(u) # Loading(s)
             v == Notify(u, b)
  <1>1. s \in Flags /\ s.fresh \in BOOLEAN /\ s.shown[1] \in BOOLEAN
    <2>1. s \in Flags
      BY DEF Sound, Fits
    <2> QED BY <2>1, FlagsAre
  <1>2. t \in Flags /\ SameButQueue(s, t) /\ t.pending /\ ~t.fresh
    BY <1>1, InvalidateDoes
  <1> HIDE DEF t
  <1>3. /\ u \in Flags /\ SameLife(s, u) /\ u.pending /\ ~u.fresh /\ u.running = s.running
        /\ u.shown = s.shown /\ (Active(s) => u.timer) /\ (~Active(s) => u.timer = s.timer)
    <2>1. CASE ~Active(s)
      BY <1>2, <2>1 DEF SameButQueue, SameLife
    <2>2. CASE Active(s)
      <3>1. c \in Flags /\ SameButTimers(t, c)
        BY <1>2, TimersDo, 0 \in Purposes DEF Purposes
      <3> HIDE DEF c
      <3>2. Active(c)
        BY <1>2, <2>2, <3>1 DEF SameButTimers, SameButQueue, SameLife, Active, Running
      <3> DEFINE r == ScheduleRefresh(c)
      <3>3. r \in Flags /\ SameButTimers(c, r) /\ r.timer
        BY <3>1, <3>2, TimersDo, 0 \in Purposes DEF Purposes
      <3> HIDE DEF r
      <3>4. u = r
        BY <2>2 DEF r
      <3> QED BY <1>2, <2>2, <3>1, <3>3, <3>4 DEF SameButTimers, SameButQueue, SameLife
    <2> QED BY <2>1, <2>2
  <1>4. v = Notify(LET t1 == Invalidate(s, p)
                   IN IF Active(s) THEN ScheduleRefresh(ClearRetry(t1)) ELSE t1, b)
    BY DEF t
  <1> HIDE DEF u
  <1>5. b \in BOOLEAN
    BY <1>1
  <1>6. /\ v \in Flags /\ SameButShown(u, v)
        /\ b /\ Running(u) => v.shown = View(u)
        /\ ~(b /\ Running(u)) => v.shown = u.shown
    <2> HIDE DEF b
    <2> QED BY <1>3, <1>5, NotifyKeeps
  <1>7. u.fresh = FALSE /\ (Active(u) <=> Active(s)) /\ (Running(u) <=> Running(s))
    BY <1>3, FlagsAre, SameLifeActive
  <1>8. ~(b /\ Running(u)) => v.shown[1] = s.shown[1]
    BY <1>3, <1>6
  <1>9. b /\ Running(u) => v.shown[1] = FALSE
    BY <1>6, <1>7 DEF View
  <1>10. /\ SameLife(s, v) /\ v.pending /\ v.fresh = FALSE /\ v.running = s.running
         /\ (Active(s) => v.timer) /\ (~Active(s) => v.timer = s.timer)
    BY <1>3, <1>6, <1>7 DEF SameButShown, SameLife
  <1>11. s.fresh => b
    OBVIOUS
  <1> HIDE DEF b, v
  <1>12. (Active(v) <=> Active(s)) /\ (Running(v) <=> Running(s)) /\ v.enabled = s.enabled
         /\ v.phase = s.phase
    BY <1>10, SameLifeActive DEF SameLife
  <1>13. ASSUME Active(s) PROVE Sound(v)
    <2>1. ~v.shown[1]
      <3>1. s.shown[1] = s.fresh
        BY <1>13 DEF Sound, IsShown
      <3> QED BY <1>7, <1>8, <1>9, <1>11, <1>13, <3>1 DEF Active
    <2>2. Checking(v)
      BY <1>10, <1>12, <1>13 DEF Checking
    <2>3. v.shown[1] = FALSE
      BY <2>1, <1>6, FlagsAre
    <2> QED BY <1>6, <1>10, <1>12, <1>13, <2>2, <2>3 DEF Sound, Fits, Armed, IsShown, Active
  <1>14. ASSUME ~Active(s) PROVE Sound(v)
    <2>1. ~s.timer /\ (s.enabled => Running(s))
          /\ (s.phase # "stopped" /\ s.shown[1] => ~s.running)
      BY <1>14 DEF Sound, Fits
    <2>2. v.phase # "stopped" /\ v.shown[1] => ~v.running
      BY <1>8, <1>9, <1>10, <1>12, <2>1
    <2> QED BY <1>6, <1>10, <1>12, <1>14, <2>1, <2>2 DEF Sound, Fits, Armed, IsShown
  <1>15. Sound(v) /\ v.pending /\ ~v.fresh
    BY <1>10, <1>13, <1>14
  <1> QED BY <1>15 DEF v, b, u, c, t

-----------------------------------------------------------------------------
(* publish_scan_cb.                                                          *)

\* A scan is published if the monitors are as they were, nothing has overtaken it and
\* no other one is pending.
Published == ~Bad /\ scan.current /\ ~src.pending

\* The source as publish_scan_cb leaves it before it starts the next scan or does not.
BeforeNext(t) ==
  /\ t \in Flags /\ SameLife(src, t) /\ ~t.running /\ t.shown = src.shown
  /\ t.timer = src.timer /\ (src.queued => t.queued)
  /\ t.fresh = (Published \/ (src.fresh /\ ~Bad))
  /\ t.pending = (Bad \/ src.pending)
  /\ Published /\ ~scan.complete => t.retry
  /\ ~Published /\ src.retry => t.retry
  /\ Bad => t.queued \/ t.retry

\* What publish_scan_cb makes of the source before it looks at the next scan.
PublishFirst ==
  LET p  == src.sp
      s0 == [src EXCEPT !.running = FALSE]
      s1 == IF Bad THEN [Invalidate(s0, p) EXCEPT !.queued = @ \/ MonitorsChanged] ELSE s0
      s2 == IF ~Acceptable(s1) THEN s1
            ELSE IF scan.complete THEN [ClearRetry(s1) EXCEPT !.fresh = TRUE]
            ELSE ScheduleRetry([s1 EXCEPT !.fresh = TRUE], p)
  IN IF MonitorsReady THEN s2 ELSE ScheduleRetry(s2, p)

\* The scan is over, and what it found is published or another one is pending.
LEMMA PublishFirstDoes ==
  ASSUME Sound(src), Active(src), scan.current \in BOOLEAN
  PROVE  /\ BeforeNext(PublishFirst)
         /\ Acceptable(IF Bad THEN [Invalidate([src EXCEPT !.running = FALSE], src.sp)
                                      EXCEPT !.queued = @ \/ MonitorsChanged]
                       ELSE [src EXCEPT !.running = FALSE]) <=> Published
  <1> DEFINE p  == src.sp
             s0 == [src EXCEPT !.running = FALSE]
             i  == Invalidate(s0, p)
             j  == [i EXCEPT !.queued = i.queued \/ MonitorsChanged]
             s1 == IF Bad THEN j ELSE s0
             c  == ClearRetry(s1)
             f  == [s1 EXCEPT !.fresh = TRUE]
             s2 == IF ~Acceptable(s1) THEN s1
                   ELSE IF scan.complete THEN [c EXCEPT !.fresh = TRUE] ELSE ScheduleRetry(f, p)
             s3 == IF MonitorsReady THEN s2 ELSE ScheduleRetry(s2, p)
  <1>1. src \in Flags /\ p \in Purposes /\ src.pending \in BOOLEAN /\ src.fresh \in BOOLEAN
        /\ src.queued \in BOOLEAN
    <2>1. src \in Flags
      BY DEF Sound, Fits
    <2> QED BY <2>1, FlagsAre
  <1>2. /\ s0 \in Flags /\ SameLife(src, s0) /\ ~s0.running /\ s0.shown = src.shown
        /\ s0.timer = src.timer /\ s0.retry = src.retry /\ s0.queued = src.queued
        /\ s0.fresh = src.fresh /\ s0.pending = src.pending
    BY <1>1 DEF Flags, SameLife
  <1> HIDE DEF s0
  <1>3. i \in Flags /\ SameButQueue(s0, i) /\ i.pending /\ ~i.fresh
    BY <1>1, <1>2, InvalidateDoes
  <1> HIDE DEF i
  <1>4. /\ j \in Flags /\ SameLife(src, j) /\ ~j.running /\ j.shown = src.shown
        /\ j.timer = src.timer /\ j.retry = src.retry
        /\ j.queued = (src.queued \/ MonitorsChanged)
        /\ j.fresh = FALSE /\ j.pending = TRUE
    <2>1. (i.queued \/ MonitorsChanged) \in BOOLEAN /\ i.fresh = FALSE /\ i.pending = TRUE
      BY <1>3, FlagsAre
    <2>2. /\ j \in Flags /\ SameLife(i, j) /\ j.running = i.running /\ j.shown = i.shown
          /\ j.timer = i.timer /\ j.retry = i.retry
          /\ j.queued = (i.queued \/ MonitorsChanged)
          /\ j.fresh = i.fresh /\ j.pending = i.pending
      BY <1>3, <2>1 DEF Flags, SameLife
    <2> HIDE DEF j
    <2> QED BY <1>2, <1>3, <2>1, <2>2 DEF SameButQueue, SameLife
  <1> HIDE DEF j
  <1>5. /\ s1 \in Flags /\ SameLife(src, s1) /\ ~s1.running /\ s1.shown = src.shown
        /\ s1.timer = src.timer /\ s1.retry = src.retry /\ (src.queued => s1.queued)
        /\ s1.fresh = (src.fresh /\ ~Bad) /\ s1.pending = (Bad \/ src.pending)
        /\ (MonitorsChanged => s1.queued)
    <2>1. CASE Bad
      BY <1>4, <2>1
    <2>2. CASE ~Bad
      <3>1. ~MonitorsChanged
        BY <2>2 DEF Bad
      <3> HIDE DEF Bad
      <3> QED BY <1>1, <1>2, <2>2, <3>1
    <2> QED BY <2>1, <2>2
  <1>6. Acceptable(s1) <=> Published
    <2> HIDE DEF s1
    <2> QED BY <1>5 DEF Acceptable, Published, Bad
  <1>7. s1 = IF Bad THEN [Invalidate([src EXCEPT !.running = FALSE], src.sp)
                            EXCEPT !.queued = @ \/ MonitorsChanged]
             ELSE [src EXCEPT !.running = FALSE]
    BY DEF j, i, s0
  <1>8. PublishFirst = s3
    BY DEF PublishFirst, j, i, s0
  <1> HIDE DEF s1
  <1>9. Active(s1)
    BY <1>5, SameLifeActive
  <1>10. /\ s2 \in Flags /\ SameLife(src, s2) /\ ~s2.running /\ s2.shown = src.shown
         /\ s2.timer = src.timer /\ (src.queued => s2.queued)
         /\ s2.fresh = (Published \/ (src.fresh /\ ~Bad)) /\ s2.pending = (Bad \/ src.pending)
         /\ Published /\ ~scan.complete => s2.retry
         /\ ~Published => s2.retry = src.retry
         /\ MonitorsChanged => s2.queued
    <2>1. CASE ~Published
      <3>1. s2 = s1
        BY <1>6, <2>1
      <3>2. s1.fresh = (Published \/ (src.fresh /\ ~Bad))
        BY <1>5, <2>1
      <3> HIDE DEF s2
      <3> QED BY <1>5, <2>1, <3>1, <3>2
    <2>2. CASE Published /\ scan.complete
      <3>1. s2 = [c EXCEPT !.fresh = TRUE]
        BY <1>6, <2>2
      <3>2. c \in Flags /\ SameButTimers(s1, c) /\ c.timer = s1.timer
        BY <1>5, TimersDo, 0 \in Purposes DEF Purposes
      <3> HIDE DEF c
      <3>3. /\ s2 \in Flags /\ SameLife(c, s2) /\ s2.running = c.running /\ s2.shown = c.shown
            /\ s2.timer = c.timer /\ s2.queued = c.queued /\ s2.pending = c.pending
            /\ s2.fresh = TRUE
        BY <3>1, <3>2 DEF Flags, SameLife
      <3> HIDE DEF s2
      <3> QED BY <1>5, <2>2, <3>2, <3>3 DEF SameButTimers, SameLife
    <2>3. CASE Published /\ ~scan.complete
      <3>1. s2 = ScheduleRetry(f, p)
        BY <1>6, <2>3
      <3>2. /\ f \in Flags /\ SameLife(s1, f) /\ f.running = s1.running /\ f.shown = s1.shown
            /\ f.timer = s1.timer /\ f.queued = s1.queued /\ f.pending = s1.pending
            /\ f.fresh = TRUE
        BY <1>5 DEF Flags, SameLife
      <3> HIDE DEF f
      <3>3. Active(f)
        BY <1>9, <3>2, SameLifeActive
      <3>4. s2 \in Flags /\ SameButTimers(f, s2) /\ s2.timer = f.timer /\ s2.retry
        <4> DEFINE r == ScheduleRetry(f, p)
        <4>1. /\ r \in Flags /\ SameButTimers(f, r) /\ r.timer = f.timer
              /\ r.retry = (f.retry \/ Active(f))
          <5> HIDE DEF p
          <5> QED BY <1>1, <3>2, <3>3, TimersDo
        <4> HIDE DEF r
        <4>2. r.retry
          BY <1>1, <3>2, <3>3, <4>1
        <4>3. s2 = r
          BY <3>1 DEF r
        <4> HIDE DEF s2
        <4> QED BY <4>1, <4>2, <4>3
      <3> HIDE DEF s2
      <3> QED BY <1>5, <2>3, <3>2, <3>4 DEF SameButTimers, SameLife
    <2> QED BY <2>1, <2>2, <2>3
  <1> HIDE DEF s2
  <1>11. Active(s2)
    BY <1>10, SameLifeActive
  <1>12. BeforeNext(s3)
    <2>1. CASE MonitorsReady
      <3>1. s3 = s2
        BY <2>1
      <3>2. Bad => s2.queued
        BY <1>10, <2>1 DEF Bad
      <3> HIDE DEF s3
      <3> QED BY <1>10, <3>1, <3>2 DEF BeforeNext
    <2>2. CASE ~MonitorsReady
      <3>1. s3 = ScheduleRetry(s2, p)
        BY <2>2
      <3>2. s3 \in Flags /\ SameButTimers(s2, s3) /\ s3.timer = s2.timer /\ s3.retry
        <4> DEFINE r == ScheduleRetry(s2, p)
        <4>1. /\ r \in Flags /\ SameButTimers(s2, r) /\ r.timer = s2.timer
              /\ r.retry = (s2.retry \/ Active(s2))
          <5> HIDE DEF p
          <5> QED BY <1>1, <1>10, <1>11, TimersDo
        <4> HIDE DEF r
        <4>2. r.retry
          BY <1>1, <1>10, <1>11, <4>1
        <4>3. s3 = r
          BY <3>1 DEF r
        <4> HIDE DEF s3
        <4> QED BY <4>1, <4>2, <4>3
      <3> HIDE DEF s3
      <3> QED BY <1>10, <3>2 DEF BeforeNext, SameButTimers, SameLife
    <2> QED BY <2>1, <2>2
  <1> QED BY <1>6, <1>7, <1>8, <1>12

\* publish_scan_cb in two halves.
LEMMA PublishInHalves ==
  ASSUME PublishActive
  PROVE  LET t  == PublishFirst
             s4 == [t EXCEPT !.queued = FALSE, !.sp = 0]
             ok == Acceptable(IF Bad THEN [Invalidate([src EXCEPT !.running = FALSE], src.sp)
                                             EXCEPT !.queued = @ \/ MonitorsChanged]
                              ELSE [src EXCEPT !.running = FALSE])
         IN /\ records' = IF ok THEN Reconciled ELSE records
            /\ filter' = IF ~ok THEN filter ELSE IF scan.complete THEN scan.ask ELSE Names
            /\ \/ /\ ~(t.pending /\ t.queued)
                  /\ scan' = NoScan
                  /\ src' = LET s5 == [s4 EXCEPT !.recon = @ /\ Checking(s4)]
                            IN Notify(s5, \/ ok \/ (Bad /\ src.fresh)
                                          \/ Checking(s5) # Checking(src) \/ Loading(s5) # Loading(src))
               \/ /\ t.pending /\ t.queued
                  /\ scan' = NewScan(records)
                  /\ src' = LET s5 == [s4 EXCEPT !.pending = FALSE, !.running = TRUE,
                                                 !.sp = s4.qp, !.qp = 0]
                            IN Notify(s5, (Bad /\ src.fresh) \/ Loading(s5) # Loading(src))
  BY Zenon DEF PublishActive, PublishFirst, Bad

\* publish_scan_cb: what was found is published, or it is not and something will look again.
LEMMA PublishDoes ==
  ASSUME Sound(src), scan.current \in BOOLEAN, scan.pc = "publish", OutdatedIsPending,
         PublishActive
  PROVE  /\ Sound(src') /\ SameLife(src, src')
         /\ Published => /\ src'.fresh /\ records' = Reconciled /\ scan' = NoScan
                         /\ filter' = IF scan.complete THEN scan.ask ELSE Names
                         /\ ~scan.complete => src'.retry
         /\ ~Published => /\ records' = records /\ filter' = filter
                          /\ src'.fresh => src.fresh /\ ~Bad
                          /\ src'.pending \/ src'.running
                          /\ scan' = NoScan \/ scan' = NewScan(records)
  <1> DEFINE t  == PublishFirst
             s4 == [t EXCEPT !.queued = FALSE, !.sp = 0]
             sa == [s4 EXCEPT !.recon = s4.recon /\ Checking(s4)]
             sb == [s4 EXCEPT !.pending = FALSE, !.running = TRUE, !.sp = s4.qp, !.qp = 0]
             ba == \/ Published \/ (Bad /\ src.fresh)
                   \/ Checking(sa) # Checking(src) \/ Loading(sa) # Loading(src)
             bb == (Bad /\ src.fresh) \/ Loading(sb) # Loading(src)
  <1>1. Active(src) /\ Running(src)
    BY DEF PublishActive, Active
  <1>2. BeforeNext(t)
    BY <1>1, PublishFirstDoes
  <1>3. /\ records' = IF Published THEN Reconciled ELSE records
        /\ filter' = IF ~Published THEN filter ELSE IF scan.complete THEN scan.ask ELSE Names
        /\ \/ ~(t.pending /\ t.queued) /\ scan' = NoScan /\ src' = Notify(sa, ba)
           \/ t.pending /\ t.queued /\ scan' = NewScan(records) /\ src' = Notify(sb, bb)
    BY <1>1, PublishFirstDoes, PublishInHalves, Zenon
  <1>4. src \in Flags /\ src.fresh \in BOOLEAN /\ src.shown[1] = src.fresh
    <2>1. src \in Flags /\ src.shown[1] = src.fresh
      BY <1>1 DEF Sound, Fits, IsShown
    <2> QED BY <2>1, FlagsAre
  <1>5. ba \in BOOLEAN /\ bb \in BOOLEAN
    <2> HIDE DEF sa, sb
    <2> QED BY <1>4
  <1>6. t \in Flags /\ t.qp \in 0 .. 1 /\ t.pending \in BOOLEAN
    <2>1. t \in Flags
      BY <1>2 DEF BeforeNext
    <2> QED BY <2>1, FlagsAre DEF Purposes
  <1> HIDE DEF t
  <1>7. /\ s4 \in Flags /\ SameLife(t, s4) /\ s4.running = t.running /\ s4.shown = t.shown
        /\ s4.timer = t.timer /\ s4.retry = t.retry /\ s4.fresh = t.fresh
        /\ s4.pending = t.pending /\ s4.qp = t.qp
    <2>1. 0 \in 0 .. 1
      OBVIOUS
    <2> QED BY <1>6, <2>1 DEF Flags, SameLife
  <1> HIDE DEF s4
  <1>8. CASE ~(t.pending /\ t.queued)
    <2>1. /\ sa \in Flags /\ SameLife(s4, sa) /\ sa.running = s4.running /\ sa.shown = s4.shown
          /\ sa.timer = s4.timer /\ sa.retry = s4.retry /\ sa.fresh = s4.fresh
          /\ sa.pending = s4.pending
      <3>1. (s4.recon /\ Checking(s4)) \in BOOLEAN
        OBVIOUS
      <3> QED BY <1>7, <3>1 DEF Flags, SameLife
    <2> HIDE DEF sa
    <2>2. SameLife(src, sa) /\ ~sa.running /\ sa.shown = src.shown /\ sa.timer = src.timer
          /\ sa.retry = t.retry /\ sa.fresh = t.fresh /\ sa.pending = t.pending
      BY <1>2, <1>7, <2>1 DEF BeforeNext, SameLife
    <2>3. src' = Notify(sa, ba) /\ scan' = NoScan
      BY <1>3, <1>8
    <2>4. /\ src' \in Flags /\ SameButShown(sa, src')
          /\ ba /\ Running(sa) => src'.shown = View(sa)
          /\ ~(ba /\ Running(sa)) => src'.shown = sa.shown
      <3> HIDE DEF ba
      <3> DEFINE u == Notify(sa, ba)
      <3>1. /\ u \in Flags /\ SameButShown(sa, u)
            /\ ba /\ Running(sa) => u.shown = View(sa)
            /\ ~(ba /\ Running(sa)) => u.shown = sa.shown
        BY <1>5, <2>1, NotifyKeeps
      <3> HIDE DEF u
      <3>2. src' = u
        BY <2>3 DEF u
      <3> QED BY <3>1, <3>2
    <2>5. Active(sa) /\ Running(sa)
      BY <1>1, <2>2, SameLifeActive
    <2>6. /\ SameLife(src, src') /\ ~src'.running /\ src'.timer = src.timer
          /\ src'.retry = t.retry /\ src'.fresh = t.fresh /\ src'.pending = t.pending
      BY <2>2, <2>4 DEF SameButShown, SameLife
    <2>7. Active(src') /\ Running(src') /\ src'.enabled /\ src'.phase = "running"
      BY <1>1, <2>6 DEF SameLife, Active, Running
    <2>8. Checking(src') = Checking(sa)
      BY <2>2, <2>4 DEF SameButShown, SameLife, Checking, Active, Running
    <2>9. IsShown(src')
      <3>1. CASE ba
        <4>1. src'.shown[1] = sa.fresh /\ src'.shown[2] = Checking(sa)
          BY <2>4, <2>5, <3>1 DEF View
        <4> QED BY <2>2, <2>6, <2>8, <4>1 DEF IsShown
      <3>2. CASE ~ba
        <4>1. src'.shown = src.shown /\ ~Published /\ ~(Bad /\ src.fresh)
              /\ Checking(sa) = Checking(src)
          BY <2>2, <2>4, <3>2
        <4>2. t.fresh = src.fresh
          BY <1>2, <1>4, <4>1 DEF BeforeNext
        <4>3. Checking(src') = Checking(src) /\ src'.fresh = src.fresh
          BY <2>6, <2>8, <4>1, <4>2
        <4> QED BY <1>1, <4>1, <4>3 DEF IsShown, Sound
      <3> QED BY <3>1, <3>2
    <2>10. Armed(src')
      <3>1. ASSUME t.pending, ~src.timer
            PROVE  t.retry
        <4>1. ~t.queued /\ ~src.queued /\ ~Published
          BY <1>2, <1>8, <3>1 DEF BeforeNext, Published
        <4>2. CASE Bad
          BY <1>2, <4>1, <4>2 DEF BeforeNext
        <4>3. CASE ~Bad
          <5>1. src.pending
            BY <1>2, <3>1, <4>3 DEF BeforeNext
          <5>2. src.retry
            BY <1>1, <3>1, <4>1, <5>1 DEF Sound, Armed
          <5> QED BY <1>2, <4>1, <5>2 DEF BeforeNext
        <4> QED BY <4>2, <4>3
      <3> QED BY <2>6, <3>1 DEF Armed
    <2>11. ~Published => t.pending
      <3>1. ~scan.current => src.pending
        BY <1>1 DEF OutdatedIsPending
      <3> QED BY <1>2, <3>1 DEF BeforeNext, Published
    <2>12. Published => t.fresh
      BY <1>2 DEF BeforeNext
    <2>13. Fits(src')
      BY <2>4, <2>6, <2>7, <2>11, <2>12 DEF Fits
    <2>14. t.fresh => Published \/ (src.fresh /\ ~Bad)
      BY <1>2 DEF BeforeNext
    <2>15. Published /\ ~scan.complete => t.retry
      BY <1>2 DEF BeforeNext
    <2> HIDE DEF Published, Bad
    <2> QED BY <1>3, <2>3, <2>6, <2>9, <2>10, <2>11, <2>12, <2>13, <2>14, <2>15 DEF Sound
  <1>9. CASE t.pending /\ t.queued
    <2>1. /\ sb \in Flags /\ SameLife(s4, sb) /\ sb.running /\ ~sb.pending
          /\ sb.shown = s4.shown /\ sb.timer = s4.timer /\ sb.fresh = s4.fresh
      <3>1. s4.qp \in 0 .. 1 /\ 0 \in 0 .. 1
        BY <1>6, <1>7
      <3> QED BY <1>7, <3>1 DEF Flags, SameLife
    <2> HIDE DEF sb
    <2>2. /\ SameLife(src, sb) /\ sb.shown = src.shown /\ sb.timer = src.timer
          /\ sb.fresh = t.fresh
      BY <1>2, <1>7, <2>1 DEF BeforeNext, SameLife
    <2>3. src' = Notify(sb, bb) /\ scan' = NewScan(records)
      BY <1>3, <1>9
    <2>4. /\ src' \in Flags /\ SameButShown(sb, src')
          /\ bb /\ Running(sb) => src'.shown = View(sb)
          /\ ~(bb /\ Running(sb)) => src'.shown = sb.shown
      <3> HIDE DEF bb
      <3> DEFINE u == Notify(sb, bb)
      <3>1. /\ u \in Flags /\ SameButShown(sb, u)
            /\ bb /\ Running(sb) => u.shown = View(sb)
            /\ ~(bb /\ Running(sb)) => u.shown = sb.shown
        BY <1>5, <2>1, NotifyKeeps
      <3> HIDE DEF u
      <3>2. src' = u
        BY <2>3 DEF u
      <3> QED BY <3>1, <3>2
    <2>5. Active(sb) /\ Running(sb)
      BY <1>1, <2>2, SameLifeActive
    <2>6. /\ SameLife(src, src') /\ src'.running /\ ~src'.pending /\ src'.fresh = t.fresh
      BY <2>1, <2>2, <2>4 DEF SameButShown, SameLife
    <2>7. Active(src') /\ Running(src') /\ src'.enabled /\ src'.phase = "running" /\ Checking(src')
      BY <1>1, <2>6 DEF SameLife, Active, Running, Checking
    <2>8. ~Published
      <3>1. Published => t.pending = FALSE
        BY <1>2, <1>6 DEF BeforeNext, Published
      <3> QED BY <1>9, <3>1
    <2>9. t.fresh => src.fresh /\ ~Bad
      BY <1>2, <2>8 DEF BeforeNext
    <2>10. src'.shown[1] = src'.fresh
      <3>1. CASE bb
        <4>1. src'.shown[1] = sb.fresh
          BY <2>4, <2>5, <3>1 DEF View
        <4> QED BY <2>2, <2>6, <4>1
      <3>2. CASE ~bb
        <4>1. src'.shown = src.shown /\ ~(Bad /\ src.fresh)
          BY <2>2, <2>4, <3>2
        <4>2. t.fresh = src.fresh
          BY <1>2, <1>4, <2>8, <4>1 DEF BeforeNext
        <4> QED BY <1>4, <2>6, <4>1, <4>2
      <3> QED BY <3>1, <3>2
    <2>11. Fits(src') /\ Armed(src') /\ IsShown(src')
      BY <2>4, <2>6, <2>7, <2>10 DEF Fits, Armed, IsShown
    <2> HIDE DEF Published, Bad
    <2> QED BY <1>3, <2>3, <2>6, <2>8, <2>9, <2>11 DEF Sound
  <1> QED BY <1>8, <1>9

-----------------------------------------------------------------------------
(* A callback or a call keeps the invariant.                                 *)

\* The source's part of the invariant.
LEMMA SoundIs ==
  ASSUME IndInv
  PROVE  Sound(src)
  BY DEF IndInv, TypeOK, SourceFits, RefreshIsScheduled, ControllerIsTold, Sound, Fits,
         Armed, IsShown

\* The source's part of the invariant after a step.
LEMMA SoundIsNext ==
  ASSUME Sound(src')
  PROVE  (src \in Flags)' /\ SourceFits' /\ RefreshIsScheduled' /\ ControllerIsTold'
  BY DEF SourceFits, RefreshIsScheduled, ControllerIsTold, Sound, Fits, Armed, IsShown,
         Active, Running, Checking

\* A cache has room for what it had room for, and less.
LEMMA RoomForLess ==
  ASSUME NEW r, NEW q, \A n \in Names : q[n] \in {r[n], "none"},
         Cardinality({n \in Names : r[n] # "none"}) <= MaxNames
  PROVE  Cardinality({n \in Names : q[n] # "none"}) <= MaxNames
  <1> DEFINE A == {n \in Names : r[n] # "none"}
             B == {n \in Names : q[n] # "none"}
  <1>1. IsFiniteSet(A)
    BY NamesAssumption, FS_Subset
  <1>2. B \subseteq A
    OBVIOUS
  <1>3. Cardinality(B) <= Cardinality(A) /\ Cardinality(A) \in Nat /\ Cardinality(B) \in Nat
    BY <1>1, <1>2, FS_Subset, FS_CardinalityType
  <1> QED BY <1>3, MaxNamesAssumption

\* The scan goes on, or is overtaken.
Kept == scan' = scan \/ (scan.pc = "done" /\ scan' = [scan EXCEPT !.pc = "publish"])
Follows ==
  \/ scan' = NoScan
  \/ scan' = NewScan(records) /\ records' = records /\ names' = names
  \/ (Kept \/ scan' = Outdated(scan)) /\ (Active(src') => src'.pending)
  \/ Kept /\ Active(src) /\ ~src.pending

\* Nothing has happened that a fresh cache or a scan under way has to know of.
Quiet ==
  /\ lnk' = lnk /\ names' = names
  /\ Watching' => Watching
  /\ mon.failed \/ mon.event # {} \/ mon.level = depth =>
       mon'.failed \/ mon'.event # {} \/ mon'.level = depth

\* The fields of a scan have their types, and those of the next one too.
LEMMA ScansAre ==
  ASSUME scan \in Scans, records \in [Names -> States], names \subseteq Names
  PROVE  /\ NoScan \in Scans /\ Outdated(scan) \in Scans /\ NewScan(records) \in Scans
         /\ [scan EXCEPT !.pc = "publish"] \in Scans
         /\ NoScan.pc = "none"
         /\ Outdated(scan).pc = scan.pc /\ ~Outdated(scan).current
         /\ NewScan(records).pc = "read" /\ NewScan(records).current
         /\ NewScan(records).ask = names
         /\ NewScan(records).seen = {n \in Names : IdentifiesSession(n)}
  <1>1. [n \in Names |-> "none"] \in [Names -> States]
    BY DEF States
  <1>2. {n \in Names : records[n] \notin {"none", "inactive"}} \in SUBSET Names
    OBVIOUS
  <1>3. NoScan \in Scans /\ NoScan.pc = "none"
    BY <1>1 DEF NoScan, Scans
  <1>4. Outdated(scan) \in Scans /\ Outdated(scan).pc = scan.pc /\ ~Outdated(scan).current
    BY DEF Outdated, Scans
  <1>5. [scan EXCEPT !.pc = "publish"] \in Scans
    BY DEF Scans
  <1>6. /\ NewScan(records) \in Scans /\ NewScan(records).pc = "read"
        /\ NewScan(records).current /\ NewScan(records).ask = names
        /\ NewScan(records).seen = {n \in Names : IdentifiesSession(n)}
    <2> DEFINE N == NoScan
    <2>1. N \in Scans
      BY <1>3
    <2> HIDE DEF N
    <2>2. NewScan(records) = [N EXCEPT !.pc = "read", !.current = TRUE,
                                !.seen = {n \in Names : records[n] \notin {"none", "inactive"}},
                                !.ask = names]
      BY DEF NewScan, N
    <2> QED BY <1>2, <2>1, <2>2 DEF Scans, IdentifiesSession
  <1> QED BY <1>3, <1>4, <1>5, <1>6

\* The scan's part of the invariant after a step.
LEMMA ScanFitsNext ==
  ASSUME IndInv, Follows, \A n \in Names : records'[n] \in {records[n], "none"}
  PROVE  ScanFits' /\ OutdatedIsPending'
  <1>1. /\ scan \in Scans /\ records \in [Names -> States] /\ names \subseteq Names
        /\ ScanFits /\ OutdatedIsPending
    BY DEF IndInv, TypeOK, ScanFits, States
  <1>2. \A n \in Names : IdentifiesSession(n)' => IdentifiesSession(n)
    BY DEF IdentifiesSession
  <1>3. CASE scan' = NoScan
    BY <1>1, <1>3, ScansAre DEF ScanFits, OutdatedIsPending
  <1>4. CASE scan' = NewScan(records)
    <2>1. /\ scan' \in Scans /\ scan'.pc = "read" /\ scan'.current
          /\ scan'.seen = {n \in Names : IdentifiesSession(n)}
      BY <1>1, <1>4, ScansAre
    <2> QED BY <1>2, <2>1 DEF ScanFits, OutdatedIsPending
  <1>5. CASE scan' = Outdated(scan) /\ (Active(src') => src'.pending)
    <2>1. /\ scan' \in Scans /\ scan'.pc = scan.pc /\ scan'.seen = scan.seen
          /\ scan'.ask = scan.ask /\ scan'.found = scan.found
      BY <1>1, <1>5, ScansAre DEF Outdated, Scans
    <2>2. ScanFits'
      BY <1>1, <1>2, <2>1 DEF ScanFits
    <2>3. OutdatedIsPending'
      BY <1>5 DEF OutdatedIsPending, Active, Running
    <2> QED BY <2>2, <2>3
  <1>6. CASE Kept /\ ((Active(src') => src'.pending) \/ (Active(src) /\ ~src.pending))
    <2>1. /\ scan' \in Scans /\ (scan'.pc = scan.pc \/ (scan.pc = "done" /\ scan'.pc = "publish"))
          /\ scan'.seen = scan.seen /\ scan'.ask = scan.ask /\ scan'.found = scan.found
          /\ scan'.current = scan.current
      BY <1>1, <1>6, ScansAre DEF Kept, Scans
    <2>2. ScanFits'
      BY <1>1, <1>2, <2>1 DEF ScanFits
    <2>3. OutdatedIsPending'
      BY <1>1, <1>6, <2>1 DEF OutdatedIsPending, Active, Running
    <2> QED BY <2>2, <2>3
  <1> QED BY <1>3, <1>4, <1>5, <1>6 DEF Follows

\* What is published of a scan stays true, and what is cached stays watched over.
LEMMA FollowsNext ==
  ASSUME IndInv, Sound(src'), Follows, UNCHANGED <<filter, depth, marker, link>>,
         src'.fresh => src.fresh /\ (Due(src) => Due(src')) /\ records' = records,
         src'.fresh \/ Valid' => Quiet
  PROVE  ScanFollows' /\ CacheFollows'
  <1>1. /\ scan \in Scans /\ records \in [Names -> States] /\ names \subseteq Names
        /\ ScanFollows /\ CacheFollows
    BY DEF IndInv, TypeOK, ScanFits, States
  <1>2. CacheFollows'
    <2> SUFFICES ASSUME src'.fresh
                 PROVE  CacheFollows'
      BY DEF CacheFollows
    <2>1. /\ src.fresh /\ (Due(src) => Due(src')) /\ records' = records /\ lnk' = lnk
          /\ names' = names /\ (Watching' => Watching) /\ Quiet
      BY DEF Quiet
    <2>2. lnk'.on /\ (mon'.failed \/ mon'.event # {} \/ mon'.level = depth')
      BY <1>1, <2>1 DEF CacheFollows, Quiet
    <2>3. ASSUME Watching'
          PROVE  /\ names' \cup marker' \subseteq filter'
                 /\ \A n \in Names : records'[n] # "none" => n \in filter'
      BY <1>1, <2>1, <2>3 DEF CacheFollows
    <2>4. ASSUME Watching', lnk'.queue \cap filter' = {}, NEW n \in Names
          PROVE  \/ records'[n] \in {Truth(n)', "unknown"}
                 \/ records'[n] = "none" /\ (n \notin names' \cup marker' \/ Due(src'))
      <3>1. Truth(n)' = Truth(n)
        BY DEF Truth, State
      <3>2. \/ records[n] \in {Truth(n), "unknown"}
            \/ records[n] = "none" /\ (n \notin names \cup marker \/ Due(src))
        BY <1>1, <2>1, <2>4 DEF CacheFollows
      <3> QED BY <2>1, <3>1, <3>2
    <2> QED BY <2>2, <2>3, <2>4 DEF CacheFollows, Due
  <1>3. ScanFollows'
    <2> SUFFICES ASSUME Valid', Watching'
                 PROVE  ScanFollows'
      BY DEF ScanFollows
    <2>1. lnk' = lnk /\ names' = names /\ Watching
      BY DEF Quiet
    <2>2. Active(src') /\ ~src'.pending /\ scan'.pc # "none" /\ scan'.current
      BY DEF Valid, Active, Running
    <2>3. CASE scan' = NoScan
      BY <1>1, <2>2, <2>3, ScansAre
    <2>4. CASE scan' = NewScan(records) /\ records' = records
      <3>1. /\ scan'.pc = "read" /\ scan'.ask = names
            /\ scan'.seen = {n \in Names : IdentifiesSession(n)}
        BY <1>1, <2>4, ScansAre
      <3>2. src'.fresh => scan'.seen \cup scan'.ask \subseteq filter
        <4> SUFFICES ASSUME src'.fresh
                     PROVE  scan'.seen \cup scan'.ask \subseteq filter
          OBVIOUS
        <4>1. names \subseteq filter /\ \A n \in Names : records[n] # "none" => n \in filter
          BY <1>1, <2>1 DEF CacheFollows
        <4> QED BY <3>1, <4>1 DEF IdentifiesSession
      <3> QED BY <2>1, <3>1, <3>2 DEF ScanFollows
    <2>5. CASE (Kept \/ scan' = Outdated(scan)) /\ (Active(src') => src'.pending)
      BY <2>2, <2>5
    <2>6. CASE Kept /\ Active(src) /\ ~src.pending
      <3>1. /\ (scan'.pc = scan.pc \/ (scan.pc = "done" /\ scan'.pc = "publish"))
            /\ scan'.seen = scan.seen /\ scan'.ask = scan.ask /\ scan'.found = scan.found
            /\ scan'.links = scan.links /\ scan'.complete = scan.complete
            /\ scan'.current = scan.current
        BY <1>1, <2>6 DEF Kept, Scans
      <3>2. Valid
        BY <2>2, <2>6, <3>1 DEF Valid
      <3>3. /\ scan.pc = "read" => scan.ask = names
            /\ scan.pc # "read" /\ scan.complete => names \cup marker \subseteq scan.ask
            /\ scan.pc # "read" =>
                 \A n \in scan.ask : n \in lnk.queue \/ (n \in scan.links <=> n \in link)
            /\ scan.pc \in {"done", "publish"} =>
                 \A n \in scan.ask : scan.found[n] \in
                   {"unknown", State(n \in marker, n \in scan.links)}
            /\ src.fresh => scan.seen \cup scan.ask \subseteq filter
        BY <1>1, <2>1, <3>2 DEF ScanFollows
      <3>4. /\ scan'.pc = "read" => scan'.ask = names'
            /\ scan'.pc # "read" /\ scan'.complete => names' \cup marker' \subseteq scan'.ask
            /\ scan'.pc # "read" =>
                 \A n \in scan'.ask : n \in lnk'.queue \/ (n \in scan'.links <=> n \in link')
            /\ src'.fresh => scan'.seen \cup scan'.ask \subseteq filter'
        BY <2>1, <3>1, <3>3
      <3>5. scan'.pc \in {"done", "publish"} =>
              \A n \in scan'.ask : scan'.found[n] \in
                {"unknown", State(n \in marker', n \in scan'.links)}
        BY <3>1, <3>3
      <3> QED BY <3>4, <3>5 DEF ScanFollows, State
    <2> QED BY <1>1, <2>3, <2>4, <2>5, <2>6 DEF Follows
  <1> QED BY <1>2, <1>3

\* The parts that most callbacks leave as they are.
Typed ==
  /\ mon' \in Monitors
  /\ lnk' \in Sockets
  /\ names' \subseteq Names /\ records' \in [Names -> States]
  /\ \A n \in Names : records'[n] \in {records[n], "none"}

\* A callback or a call.
LEMMA CallbackKeeps ==
  ASSUME IndInv, Looks, Sound(src'), Follows, Typed, MonitorTells', filter' = filter,
         src'.fresh => src.fresh /\ (Due(src) => Due(src')) /\ records' = records,
         src'.fresh \/ Valid' => Quiet
  PROVE  IndInv'
  <1>1. ScanFits' /\ OutdatedIsPending'
    BY ScanFitsNext DEF Typed
  <1>2. ScanFollows' /\ CacheFollows'
    BY FollowsNext DEF Looks
  <1>3. (src \in Flags)' /\ SourceFits' /\ RefreshIsScheduled' /\ ControllerIsTold'
    BY SoundIsNext
  <1>4. /\ filter \subseteq Names /\ depth \in Levels /\ marker \subseteq Names
        /\ link \subseteq Names /\ Cardinality({n \in Names : records[n] # "none"}) <= MaxNames
    BY DEF IndInv, TypeOK
  <1>5. Cardinality({n \in Names : records'[n] # "none"}) <= MaxNames
    BY <1>4, RoomForLess DEF Typed
  <1>6. scan'.pc \in {"none", "read", "markers", "done", "publish"}
    BY <1>1 DEF ScanFits, Scans
  <1>7. TypeOK'
    BY <1>3, <1>4, <1>5, <1>6 DEF Typed, TypeOK, Looks, States
  <1> QED BY <1>1, <1>2, <1>3, <1>7 DEF IndInv

\* ensure_monitors: the file monitor is told of what comes and goes, and if nothing had to
\* be set up, it watched already.
LEMMA EnsureDoes ==
  ASSUME IndInv, Looks, NEW ff \in BOOLEAN, NEW lf \in BOOLEAN, EnsureMonitors(ff, lf)
  PROVE  /\ mon' \in Monitors
         /\ lnk' \in Sockets
         /\ MonitorTells'
         /\ ~Bad => /\ lnk' = lnk /\ lnk'.on /\ (Watching' => Watching)
                    /\ mon'.failed \/ mon'.event # {} \/ mon'.level = depth'
  <1>1. /\ mon \in Monitors
        /\ lnk \in Sockets
        /\ depth \in Levels /\ late \in Levels /\ MonitorTells
    BY DEF IndInv, TypeOK
  <1>2. /\ ff => late < mon.level
        /\ mon' \in FileMonitors(ff) /\ lnk' = LinkMonitor(lf)
        /\ late' = depth /\ depth' = depth
    BY DEF EnsureMonitors, Looks
  <1>3. depth \in 0 .. 2 /\ late \in 0 .. 2 /\ depth <= late
    BY <1>1 DEF Levels, MonitorTells
  <1>4. PICK l \in IF ff THEN late + 1 .. 3 ELSE depth .. late :
          mon' = [IF mon.level <= l THEN mon ELSE [NoMonitor EXCEPT !.level = l]
                    EXCEPT !.failed = ff]
    BY <1>2 DEF FileMonitors
  <1>5. l \in 0 .. 3 /\ depth <= l /\ (ff => late < l) /\ (~ff => l <= late)
    BY <1>3, <1>4
  <1>6. CASE mon.level <= l
    <2>1. /\ mon' \in Monitors
          /\ mon'.level = mon.level /\ mon'.event = mon.event /\ mon'.dead = mon.dead
          /\ mon'.failed = ff
      BY <1>1, <1>4, <1>6 DEF Monitors
    <2>2. MonitorTells'
      BY <1>1, <1>2, <1>3, <1>5, <1>6, <2>1 DEF MonitorTells, Monitors
    <2>3. ~ff /\ mon.event = {} => mon.level = depth /\ ~mon.failed
      BY <1>1, <1>3, <1>5, <1>6 DEF MonitorTells, Monitors
    <2>4. LinkMonitor(lf) \in Sockets
      BY <1>1 DEF LinkMonitor, Sockets
    <2>5. ~Bad => lnk' = lnk /\ lnk'.on
      BY <1>1, <1>2 DEF Bad, MonitorsChanged, MonitorsReady, LinkMonitor, Sockets
    <2>6. ~Bad => (Watching' => Watching)
      BY <1>2, <2>1, <2>3, <2>5 DEF Watching
    <2>7. mon'.failed \/ mon'.event # {} \/ mon'.level = depth'
      BY <1>2, <2>1, <2>3
    <2> QED BY <1>2, <2>1, <2>2, <2>4, <2>5, <2>6, <2>7
  <1>7. CASE ~(mon.level <= l)
    <2>1. mon' = [level |-> l, event |-> {}, dead |-> FALSE, failed |-> ff]
      BY <1>4, <1>7 DEF NoMonitor
    <2>2. mon' \in Monitors
      BY <1>5, <2>1 DEF Monitors
    <2>3. MonitorTells'
      BY <1>2, <1>3, <1>5, <2>1 DEF MonitorTells
    <2>4. Bad
      BY <1>1, <1>5, <1>7, <2>1 DEF Bad, MonitorsChanged, Monitors
    <2>5. LinkMonitor(lf) \in Sockets
      BY <1>1 DEF LinkMonitor, Sockets
    <2> QED BY <1>2, <2>2, <2>3, <2>4, <2>5
  <1> QED BY <1>6, <1>7

\* A callback after which nothing is fresh and a scan is pending, or the source is not
\* active any more.
LEMMA OvertakenKeeps ==
  ASSUME IndInv, Looks, Sound(src'), scan' \in {scan, Outdated(scan), NoScan}, ~src'.fresh,
         Active(src') => src'.pending, Typed, MonitorTells', filter' = filter
  PROVE  IndInv'
  <1>1. Follows
    BY DEF Follows, Kept
  <1>2. ~Valid'
    BY DEF Valid, Active, Running
  <1> QED BY <1>1, <1>2, CallbackKeeps

\* The monitors are left alone, or closed.
LEMMA MonitorsLeft ==
  ASSUME IndInv, Looks
  PROVE  /\ mon' = mon /\ lnk' = lnk =>
              /\ mon' \in Monitors
              /\ lnk' \in Sockets
              /\ MonitorTells'
              /\ names' = names => Quiet
         /\ NoMonitor \in Monitors
         /\ NoLink \in Sockets
         /\ mon' = NoMonitor => MonitorTells'
         /\ names \subseteq Names /\ records \in [Names -> States]
         /\ mon \in Monitors
         /\ lnk \in Sockets
  <1>1. /\ mon \in Monitors
        /\ lnk \in Sockets
        /\ depth \in 0 .. 2 /\ late \in 0 .. 2 /\ MonitorTells
        /\ names \subseteq Names /\ records \in [Names -> States]
    BY DEF IndInv, TypeOK, Levels, States
  <1>2. late' = depth /\ depth' = depth /\ marker' = marker /\ link' = link
    BY DEF Looks
  <1>3. mon' = mon => MonitorTells'
    BY <1>1, <1>2 DEF MonitorTells, Monitors
  <1>4. mon' = NoMonitor => MonitorTells'
    BY <1>1, <1>2 DEF MonitorTells, NoMonitor
  <1>5. mon' = mon /\ lnk' = lnk /\ names' = names => Quiet
    BY <1>2 DEF Quiet, Watching
  <1>6. NoMonitor \in Monitors
        /\ NoLink \in Sockets
    BY DEF NoMonitor, NoLink, Monitors, Sockets
  <1> QED BY <1>1, <1>3, <1>4, <1>5, <1>6

\* queue_scan leaves the scan, or makes it one that is overtaken.
LEMMA AfterQueueIs ==
  AfterQueue(scan) \in {scan, Outdated(scan)}
  BY DEF AfterQueue

\* retry_cb.
LEMMA RetryKeeps ==
  ASSUME IndInv, Retry
  PROVE  IndInv'
  <1> DEFINE s == [src EXCEPT !.retry = FALSE, !.rp = 0]
  <1>1. Sound(src) /\ Looks
    BY SoundIs DEF Retry
  <1>2. src \in Flags /\ src.rp \in Purposes
    <2>1. src \in Flags
      BY <1>1 DEF Sound, Fits
    <2> QED BY <2>1, FlagsAre
  <1>3. /\ s \in Flags /\ SameLife(src, s) /\ s.fresh = src.fresh /\ s.pending = src.pending
        /\ s.running = src.running /\ s.queued = src.queued /\ s.timer = src.timer
        /\ s.shown = src.shown
    <2>1. 0 \in 0 .. 1
      OBVIOUS
    <2> QED BY <1>2, <2>1 DEF Flags, SameLife
  <1>4. src' = RequestRefresh(s, src.rp)
    BY DEF Retry
  <1> HIDE DEF s
  <1>5. CASE Active(src)
    <2>1. Active(s)
      BY <1>3, <1>5, SameLifeActive
    <2>2. ~s.fresh /\ Checking(s) => ~s.shown[1]
      BY <1>1, <1>3, <1>5 DEF Sound, IsShown
    <2> DEFINE u == RequestRefresh(s, src.rp)
    <2>3. Renewed(s, u)
      BY <1>2, <1>3, <2>1, <2>2, RequestRefreshDoes
    <2> HIDE DEF u
    <2>4. src' = u
      BY <1>4 DEF u
    <2>5. Sound(src') /\ src'.pending /\ ~src'.fresh
      BY <2>3, <2>4 DEF Renewed
    <2>6. Typed /\ MonitorTells'
      BY <1>1, MonitorsLeft DEF Retry, Typed
    <2> QED BY <1>1, <2>5, <2>6, AfterQueueIs, OvertakenKeeps DEF Retry
  <1>6. CASE ~Active(src)
    <2>1. ~Active(s)
      BY <1>3, <1>6, SameLifeActive
    <2>2. src' = s
      BY <1>4, <2>1 DEF RequestRefresh
    <2>3. Sound(s)
      BY <1>1, <1>3, <1>6, <2>1 DEF Sound, Fits, Armed, IsShown, SameLife, Running
    <2>4. ~src'.fresh /\ ~Active(src') /\ Sound(src')
      BY <1>1, <1>3, <1>6, <2>1, <2>2, <2>3 DEF Sound, Fits
    <2>5. Typed /\ MonitorTells'
      BY <1>1, MonitorsLeft DEF Retry, Typed
    <2> QED BY <1>1, <2>4, <2>5, AfterQueueIs, OvertakenKeeps DEF Retry
  <1> QED BY <1>5, <1>6

\* publish_scan_cb and scan_complete_cb after the source was switched off, and
\* network_sidebar_awg_runtime_source_start.
LEMMA InactiveKeeps ==
  ASSUME IndInv, PublishInactive \/ Start \/ (ScanComplete /\ ~Active(src))
  PROVE  IndInv'
  <1>1. Sound(src) /\ Looks /\ mon' = mon /\ lnk' = lnk /\ names' = names
        /\ records' = records /\ filter' = filter
    BY SoundIs DEF PublishInactive, Start, ScanComplete
  <1>2. Typed /\ MonitorTells'
    BY <1>1, MonitorsLeft DEF Typed
  <1>3. scan' \in {scan, Outdated(scan), NoScan}
    BY DEF PublishInactive, Start, ScanComplete
  <1>4. Sound(src') /\ ~Active(src')
    <2>1. CASE PublishInactive
      BY <1>1, <2>1, SmallStepsDo DEF PublishInactive
    <2>2. CASE Start
      BY <1>1, <2>2, SmallStepsDo DEF Start
    <2>3. CASE ScanComplete /\ ~Active(src)
      BY <1>1, <2>3, SmallStepsDo DEF ScanComplete
    <2> QED BY <2>1, <2>2, <2>3
  <1>5. ~src'.fresh
    BY <1>4 DEF Sound, Fits
  <1> QED BY <1>1, <1>2, <1>3, <1>4, <1>5, OvertakenKeeps

\* A source of which a controller or a notification asks for a refresh.
LEMMA RenewedKeeps ==
  ASSUME IndInv, Looks, NEW s, Renewed(s, src'), scan' \in {scan, Outdated(scan)},
         Typed, MonitorTells', filter' = filter
  PROVE  IndInv'
  <1>1. Sound(src') /\ ~src'.fresh /\ src'.pending
    BY DEF Renewed
  <1> QED BY <1>1, OvertakenKeeps

\* monitor_changed_cb.
LEMMA MonitorChangedKeeps ==
  ASSUME IndInv, MonitorChanged
  PROVE  IndInv'
  <1>1. Sound(src) /\ Active(src) /\ Looks
    BY SoundIs DEF MonitorChanged
  <1>2. Renewed(src, src')
    <2>1. Renewed(src, MonitorRefresh(src))
      BY <1>1, MonitorRefreshDoes
    <2> QED BY <2>1 DEF MonitorChanged
  <1>3. PICK e \in mon.event :
          mon' = IF e = "clear" THEN NoMonitor ELSE [mon EXCEPT !.event = @ \ {e}]
    BY DEF MonitorChanged
  <1>4. lnk' = lnk /\ names' = names /\ records' = records /\ filter' = filter
        /\ scan' = AfterQueue(scan)
    BY DEF MonitorChanged
  <1>5. /\ mon' \in Monitors
        /\ MonitorTells'
    <2>1. CASE e = "clear"
      BY <1>1, <1>3, <2>1, MonitorsLeft
    <2>2. CASE e # "clear"
      <3>1. /\ mon \in Monitors
            /\ MonitorTells /\ depth \in 0 .. 2 /\ late \in 0 .. 2
        BY DEF IndInv, TypeOK, Levels
      <3>2. mon' = [mon EXCEPT !.event = mon.event \ {e}]
        BY <1>3, <2>2
      <3>3. /\ mon'.level = mon.level /\ mon'.dead = mon.dead /\ mon'.failed = mon.failed
            /\ mon'.event = mon.event \ {e}
            /\ mon' \in Monitors
        BY <3>1, <3>2 DEF Monitors
      <3>4. "clear" \in mon.event => "clear" \in mon'.event
        BY <2>2, <3>3
      <3>5. late' = depth /\ depth' = depth
        BY <1>1 DEF Looks
      <3>6. mon'.level <= 3 /\ mon'.level \in 0 .. 3
        BY <3>3 DEF Monitors
      <3>7. MonitorTells'
        BY <3>1, <3>3, <3>4, <3>5, <3>6 DEF MonitorTells
      <3> QED BY <3>3, <3>7
    <2> QED BY <2>1, <2>2
  <1>6. Typed
    BY <1>1, <1>4, <1>5, MonitorsLeft DEF Typed
  <1> QED BY <1>1, <1>2, <1>4, <1>5, <1>6, AfterQueueIs, RenewedKeeps

\* link_monitor_cb when the socket fails.
LEMMA LinkFailsKeeps ==
  ASSUME IndInv, LinkFails
  PROVE  IndInv'
  <1>1. Sound(src) /\ Active(src) /\ Looks
    BY SoundIs DEF LinkFails
  <1>2. Renewed(src, src')
    <2>1. Renewed(src, MonitorRefresh(src))
      BY <1>1, MonitorRefreshDoes
    <2> QED BY <2>1 DEF LinkFails
  <1>3. /\ mon' = mon /\ lnk' = NoLink /\ names' = names /\ records' = records
        /\ filter' = filter /\ scan' = AfterQueue(scan)
    BY DEF LinkFails
  <1>4. MonitorTells'
    <2>1. depth' = depth /\ late' = depth /\ depth \in 0 .. 2 /\ late \in 0 .. 2 /\ MonitorTells
          /\ mon.level \in 0 .. 3
      BY <1>1 DEF Looks, IndInv, TypeOK, Levels, Monitors
    <2> QED BY <1>3, <2>1 DEF MonitorTells
  <1>5. Typed
    BY <1>1, <1>3, MonitorsLeft DEF Typed
  <1> QED BY <1>1, <1>2, <1>3, <1>4, <1>5, AfterQueueIs, RenewedKeeps

\* A scan ends, or the next one starts, and nothing is published.
LEMMA NextScanKeeps ==
  ASSUME IndInv, Looks, Sound(src'), scan' \in {NoScan, NewScan(records)},
         names' = names, records' = records, filter' = filter,
         src'.fresh => src.fresh /\ ~Bad /\ (Due(src) => Due(src')),
         NEW ff \in BOOLEAN, NEW lf \in BOOLEAN, EnsureMonitors(ff, lf)
  PROVE  IndInv'
  <1>1. names \subseteq Names /\ records \in [Names -> States]
    BY MonitorsLeft
  <1>2. /\ Typed /\ MonitorTells'
        /\ ~Bad => /\ lnk' = lnk /\ lnk'.on /\ (Watching' => Watching)
                   /\ mon'.failed \/ mon'.event # {} \/ mon'.level = depth'
    BY <1>1, EnsureDoes DEF Typed
  <1>3. depth' = depth
    BY DEF Looks
  <1>4. ~Bad => Quiet
    BY <1>2, <1>3 DEF Quiet
  <1>5. Follows
    BY DEF Follows
  <1>6. ScanFits' /\ OutdatedIsPending'
    BY <1>5, ScanFitsNext
  <1>7. ScanFollows' /\ CacheFollows'
    <2>1. CASE src'.fresh
      BY <1>4, <1>5, <2>1, FollowsNext DEF Looks
    <2>2. CASE ~src'.fresh
      <3>1. scan \in Scans
        BY DEF IndInv, ScanFits
      <3>2. scan'.pc = "none" \/ (scan'.pc = "read" /\ scan'.ask = names')
        BY <1>1, <3>1, ScansAre
      <3> QED BY <2>2, <3>2 DEF ScanFollows, CacheFollows, Valid
    <2> QED BY <2>1, <2>2
  <1>8. TypeOK'
    <2>1. /\ filter \subseteq Names /\ depth \in Levels /\ marker \subseteq Names
          /\ link \subseteq Names /\ Cardinality({n \in Names : records[n] # "none"}) <= MaxNames
      BY DEF IndInv, TypeOK
    <2>2. scan'.pc \in {"none", "read", "markers", "done", "publish"}
      BY <1>6 DEF ScanFits, Scans
    <2>3. (src \in Flags)'
      BY SoundIsNext
    <2> QED BY <1>2, <2>1, <2>2, <2>3 DEF Typed, TypeOK, Looks, States
  <1>9. SourceFits' /\ RefreshIsScheduled' /\ ControllerIsTold'
    BY SoundIsNext
  <1> QED BY <1>2, <1>6, <1>7, <1>8, <1>9 DEF IndInv

\* scheduled_refresh_cb.
LEMMA ScheduledKeeps ==
  ASSUME IndInv, Scheduled
  PROVE  IndInv'
  <1>1. Sound(src) /\ Looks /\ src.timer /\ Active(src)
    BY SoundIs DEF Scheduled, Sound, Fits
  <1>2. names' = names /\ records' = records /\ filter' = filter
    BY DEF Scheduled
  <1>4. CASE src.running \/ ~src.pending
    <2>1. /\ src' = [src EXCEPT !.queued = @ \/ src.running, !.timer = FALSE]
          /\ mon' = mon /\ lnk' = lnk /\ scan' = scan
      BY <1>4 DEF Scheduled
    <2>2. Sound(src') /\ Steps(src, src') /\ src'.pending = src.pending
      BY <1>1, <1>4, <2>1, PostponeDoes
    <2>3. Typed /\ MonitorTells' /\ Quiet
      BY <1>1, <1>2, <2>1, MonitorsLeft DEF Typed
    <2>4. Follows
      BY <2>1, <2>2 DEF Follows, Kept, Steps
    <2> QED BY <1>1, <1>2, <2>2, <2>3, <2>4, CallbackKeeps DEF Steps
  <1>5. CASE ~(src.running \/ ~src.pending)
    <2>1. PICK ff \in BOOLEAN, lf \in BOOLEAN : EnsureMonitors(ff, lf)
      BY <1>5 DEF Scheduled
    <2>2. src' = [StartScan(src) EXCEPT !.timer = FALSE] /\ scan' = NewScan(records)
      BY <1>5 DEF Scheduled
    <2>3. /\ Sound(src') /\ SameLife(src, src') /\ ~src'.pending /\ src'.running
          /\ src'.fresh => src.fresh /\ ~Bad
      <3> DEFINE u == [StartScan(src) EXCEPT !.timer = FALSE]
      <3>1. /\ Sound(u) /\ SameLife(src, u) /\ ~u.pending /\ u.running
            /\ u.fresh => src.fresh /\ ~Bad
        BY <1>1, StartScanDoes
      <3>2. src' = u
        BY <2>2
      <3> HIDE DEF u
      <3> QED BY <3>1, <3>2
    <2>4. src'.fresh => src.fresh /\ ~Bad /\ (Due(src) => Due(src'))
      BY <2>3 DEF Due
    <2> QED BY <1>1, <1>2, <2>1, <2>2, <2>3, <2>4, NextScanKeeps
  <1> QED BY <1>4, <1>5

\* scan_complete_cb while the source is active.
LEMMA ScanCompleteKeeps ==
  ASSUME IndInv, ScanComplete
  PROVE  IndInv'
  <1>1. CASE ~Active(src)
    BY <1>1, InactiveKeeps
  <1>2. CASE Active(src)
    <2>1. /\ Sound(src) /\ Looks /\ scan.pc = "done" /\ scan' = [scan EXCEPT !.pc = "publish"]
          /\ src' = src /\ mon' = mon /\ lnk' = lnk /\ names' = names /\ records' = records
          /\ filter' = filter
      BY <1>2, SoundIs DEF ScanComplete
    <2>2. Typed /\ MonitorTells' /\ Quiet
      BY <2>1, MonitorsLeft DEF Typed
    <2>3. Follows
      BY <1>2, <2>1 DEF Follows, Kept
    <2>4. Sound(src') /\ (src'.fresh => src.fresh /\ (Due(src) => Due(src')) /\ records' = records)
      BY <2>1
    <2> QED BY <2>1, <2>2, <2>3, <2>4, CallbackKeeps
  <1> QED BY <1>1, <1>2

\* What a scan that is published found.
LEMMA PublishedIs ==
  ASSUME IndInv, scan.pc = "publish"
  PROVE  /\ Reconciled \in [Names -> States]
         /\ {n \in Names : Reconciled[n] # "none"} \subseteq scan.ask
         /\ Cardinality({n \in Names : Reconciled[n] # "none"}) <= MaxNames
         /\ \A n \in Names : IdentifiesSession(n) => Reconciled[n] # "none"
         /\ \A n \in scan.ask : Reconciled[n] = scan.found[n]
         /\ \A n \in Names : n \notin scan.ask => Reconciled[n] = "none"
         /\ scan.ask \subseteq Names
  <1>1. /\ scan \in Scans /\ scan.seen \subseteq scan.ask /\ Cardinality(scan.ask) <= MaxNames
        /\ \A n \in Names : IdentifiesSession(n) => n \in scan.seen
        /\ \A n \in Names : scan.found[n] = "none" <=> n \notin scan.ask
    BY DEF IndInv, ScanFits
  <1>2. scan.ask \subseteq Names /\ scan.found \in [Names -> States]
    BY <1>1 DEF Scans
  <1>3. Reconciled \in [Names -> States]
    BY <1>2 DEF Reconciled, States
  <1>4. \A n \in Names : n \in scan.ask => Reconciled[n] = scan.found[n]
    BY <1>1 DEF Reconciled
  <1>5. \A n \in Names : n \notin scan.ask => ~IdentifiesSession(n) /\ Reconciled[n] = "none"
    BY <1>1 DEF Reconciled
  <1>6. \A n \in Names : IdentifiesSession(n) => Reconciled[n] # "none"
    BY <1>1, <1>4, <1>5
  <1>7. {n \in Names : Reconciled[n] # "none"} \subseteq scan.ask
    BY <1>5
  <1>8. Cardinality({n \in Names : Reconciled[n] # "none"}) <= MaxNames
    <2> DEFINE B == {n \in Names : Reconciled[n] # "none"}
    <2>1. IsFiniteSet(scan.ask)
      BY <1>2, NamesAssumption, FS_Subset
    <2>2. Cardinality(B) <= Cardinality(scan.ask) /\ Cardinality(scan.ask) \in Nat
          /\ Cardinality(B) \in Nat
      BY <1>7, <2>1, FS_Subset, FS_CardinalityType
    <2> QED BY <1>1, <2>2, MaxNamesAssumption
  <1> QED BY <1>2, <1>3, <1>4, <1>5, <1>6, <1>7, <1>8

\* publish_scan_cb: fresh records are what the scan found, and it followed what happened.
LEMMA PublishKeeps ==
  ASSUME IndInv, PublishActive
  PROVE  IndInv'
  <1>1. /\ Sound(src) /\ Active(src) /\ Looks /\ scan.pc = "publish" /\ scan.current \in BOOLEAN
        /\ OutdatedIsPending /\ names' = names
    BY SoundIs DEF PublishActive, IndInv, ScanFits, Scans
  <1>2. PICK ff \in BOOLEAN, lf \in BOOLEAN : EnsureMonitors(ff, lf)
    BY DEF PublishActive
  <1>3. /\ Sound(src') /\ SameLife(src, src')
        /\ Published => /\ src'.fresh /\ records' = Reconciled /\ scan' = NoScan
                        /\ filter' = IF scan.complete THEN scan.ask ELSE Names
                        /\ ~scan.complete => src'.retry
        /\ ~Published => /\ records' = records /\ filter' = filter
                         /\ src'.fresh => src.fresh /\ ~Bad
                         /\ src'.pending \/ src'.running
                         /\ scan' = NoScan \/ scan' = NewScan(records)
    BY <1>1, PublishDoes
  <1>4. CASE ~Published
    <2>1. src'.fresh => src.fresh /\ ~Bad /\ (Due(src) => Due(src'))
      BY <1>3, <1>4 DEF Due
    <2>2. scan' \in {NoScan, NewScan(records)}
      BY <1>3, <1>4
    <2> QED BY <1>1, <1>2, <1>3, <1>4, <2>1, <2>2, NextScanKeeps
  <1>5. CASE Published
    <2>1. /\ src'.fresh /\ records' = Reconciled /\ scan' = NoScan
          /\ filter' = IF scan.complete THEN scan.ask ELSE Names
          /\ ~scan.complete => src'.retry
      BY <1>3, <1>5
    <2>2. ~Bad /\ scan.current /\ ~src.pending
      BY <1>5 DEF Published
    <2>3. Valid
      BY <1>1, <2>2 DEF Valid
    <2>4. depth' = depth /\ marker' = marker /\ link' = link
      BY <1>1 DEF Looks
    <2>5. /\ mon' \in Monitors
          /\ lnk' \in Sockets
          /\ MonitorTells' /\ lnk' = lnk /\ lnk'.on /\ (Watching' => Watching)
          /\ mon'.failed \/ mon'.event # {} \/ mon'.level = depth'
      BY <1>1, <1>2, <2>2, EnsureDoes
    <2>6. /\ Reconciled \in [Names -> States]
          /\ {n \in Names : Reconciled[n] # "none"} \subseteq scan.ask
          /\ Cardinality({n \in Names : Reconciled[n] # "none"}) <= MaxNames
          /\ \A n \in scan.ask : Reconciled[n] = scan.found[n]
          /\ \A n \in Names : n \notin scan.ask => Reconciled[n] = "none"
          /\ scan.ask \subseteq Names
      BY <1>1, PublishedIs
    <2>7. filter' \subseteq Names
      BY <2>1, <2>6
    <2>8. ScanFits' /\ OutdatedIsPending' /\ ScanFollows'
      <3>1. scan \in Scans /\ records \in [Names -> States] /\ names \subseteq Names
        BY <1>1, MonitorsLeft DEF IndInv, ScanFits
      <3>2. scan' \in Scans /\ scan'.pc = "none"
        BY <2>1, <3>1, ScansAre
      <3> QED BY <3>2 DEF ScanFits, OutdatedIsPending, ScanFollows, Valid
    <2>9. TypeOK'
      <3>1. /\ depth \in Levels /\ marker \subseteq Names /\ link \subseteq Names
            /\ names \subseteq Names
        BY DEF IndInv, TypeOK
      <3>2. scan'.pc \in {"none", "read", "markers", "done", "publish"}
        BY <2>8 DEF ScanFits, Scans
      <3>3. (src \in Flags)'
        BY <1>3, SoundIsNext
      <3> QED BY <1>1, <2>1, <2>5, <2>6, <2>7, <3>1, <3>2, <3>3 DEF TypeOK, Looks, States
    <2>10. CacheFollows'
      <3> SUFFICES ASSUME Watching'
                   PROVE  /\ names' \cup marker' \subseteq filter'
                          /\ \A n \in Names : records'[n] # "none" => n \in filter'
                          /\ lnk'.queue \cap filter' = {} =>
                               \A n \in Names :
                                  \/ records'[n] \in {Truth(n)', "unknown"}
                                  \/ records'[n] = "none" /\ (n \notin names' \cup marker' \/ Due(src'))
        BY <2>5 DEF CacheFollows, Due
      <3>1. /\ scan.complete => names \cup marker \subseteq scan.ask
            /\ \A n \in scan.ask : n \in lnk.queue \/ (n \in scan.links <=> n \in link)
            /\ \A n \in scan.ask : scan.found[n] \in
                 {"unknown", State(n \in marker, n \in scan.links)}
        BY <1>1, <2>3, <2>5 DEF ScanFollows, IndInv
      <3>2. names \cup marker \subseteq Names
        BY DEF IndInv, TypeOK
      <3>3. names' \cup marker' \subseteq filter'
        BY <1>1, <2>1, <2>4, <3>1, <3>2
      <3>4. \A n \in Names : records'[n] # "none" => n \in filter'
        BY <2>1, <2>6
      <3>5. ASSUME lnk'.queue \cap filter' = {}, NEW n \in Names
            PROVE  \/ records'[n] \in {Truth(n)', "unknown"}
                   \/ records'[n] = "none" /\ (n \notin names' \cup marker' \/ Due(src'))
        <4>1. CASE n \in scan.ask
          <5>1. n \in filter'
            BY <2>1, <4>1
          <5>2. n \in scan.links <=> n \in link
            BY <2>5, <3>1, <3>5, <4>1, <5>1
          <5>3. scan.found[n] \in {"unknown", State(n \in marker, n \in scan.links)}
            BY <3>1, <4>1
          <5>4. records'[n] \in {"unknown", State(n \in marker, n \in scan.links)}
            BY <2>1, <2>6, <4>1, <5>3
          <5> QED BY <2>4, <5>2, <5>4 DEF Truth, State
        <4>2. CASE n \notin scan.ask
          <5>1. records'[n] = "none"
            BY <2>1, <2>6, <4>2
          <5>2. n \notin names' \cup marker' \/ Due(src')
            BY <1>1, <2>1, <2>4, <3>1, <4>2 DEF Due
          <5> QED BY <5>1, <5>2
        <4> QED BY <4>1, <4>2
      <3> QED BY <3>3, <3>4, <3>5
    <2>11. SourceFits' /\ RefreshIsScheduled' /\ ControllerIsTold'
      BY <1>3, SoundIsNext
    <2> QED BY <2>5, <2>8, <2>9, <2>10, <2>11 DEF IndInv
  <1> QED BY <1>4, <1>5

\* link_monitor_cb: only events that do not matter go without a refresh.
LEMMA LinkEventsKeeps ==
  ASSUME IndInv, LinkEvents
  PROVE  IndInv'
  <1>1. Sound(src) /\ Looks /\ mon' = mon /\ names' = names /\ records' = records
        /\ filter' = filter
    BY SoundIs DEF LinkEvents
  <1>2. PICK S \in SUBSET lnk.queue \ {{}} :
          /\ lnk' = [lnk EXCEPT !.queue = @ \ S]
          /\ IF MustRefresh(S) /\ Active(src)
               THEN src' = MonitorRefresh(src) /\ scan' = AfterQueue(scan)
               ELSE UNCHANGED <<src, scan>>
    BY DEF LinkEvents
  <1>3. lnk'.on = TRUE /\ "error" \notin lnk.queue /\ lnk.on /\ lnk'.queue \subseteq lnk.queue
        /\ lnk'.queue = lnk.queue \ S /\ lnk' \in Sockets
    <2>1. lnk.on = TRUE /\ "error" \notin lnk.queue
      BY DEF LinkEvents, IndInv, TypeOK
    <2>2. lnk \in Sockets
      BY DEF IndInv, TypeOK
    <2> QED BY <1>2, <2>1, <2>2 DEF Sockets
  <1>4. Typed /\ MonitorTells'
    <2>1. names \subseteq Names /\ records \in [Names -> States]
          /\ mon \in Monitors
      BY <1>1, MonitorsLeft
    <2>2. MonitorTells'
      <3>1. depth' = depth /\ late' = depth /\ depth \in 0 .. 2 /\ late \in 0 .. 2 /\ MonitorTells
        BY <1>1 DEF Looks, IndInv, TypeOK, Levels, Monitors
      <3> QED BY <1>1, <2>1, <3>1 DEF MonitorTells, Monitors
    <2> QED BY <1>1, <1>3, <2>1, <2>2 DEF Typed
  <1>5. CASE MustRefresh(S) /\ Active(src)
    <2>1. Renewed(src, src')
      <3>1. Renewed(src, MonitorRefresh(src))
        BY <1>1, <1>5, MonitorRefreshDoes
      <3> QED BY <1>2, <1>5, <3>1
    <2> QED BY <1>1, <1>2, <1>4, <1>5, <2>1, AfterQueueIs, RenewedKeeps
  <1>6. CASE ~(MustRefresh(S) /\ Active(src))
    <2>1. src' = src /\ scan' = scan
      BY <1>2, <1>6
    <2>2. CASE ~Active(src)
      <3>1. ~src.fresh
        BY <1>1, <2>2 DEF Sound, Fits
      <3> QED BY <1>1, <1>4, <2>1, <2>2, <3>1, OvertakenKeeps
    <2>3. CASE Active(src) /\ ~MustRefresh(S)
      <3>1. src.fresh /\ S \cap filter = {} /\ S = lnk.queue
        BY <2>3 DEF MustRefresh
      <3>2. depth' = depth /\ marker' = marker /\ link' = link
        BY <1>1 DEF Looks
      <3>3. Watching' => Watching
        BY <1>1, <1>3, <3>2 DEF Watching
      <3>4. ScanFits' /\ OutdatedIsPending'
        BY <1>1, <2>1 DEF IndInv, ScanFits, OutdatedIsPending, IdentifiesSession, Active, Running
      <3>5. ScanFollows'
        <4> SUFFICES ASSUME Valid', Watching'
                     PROVE  ScanFollows'
          BY DEF ScanFollows
        <4>1. Valid
          BY <2>1 DEF Valid, Active, Running
        <4>2. /\ scan.pc = "read" => scan.ask = names
              /\ scan.pc # "read" /\ scan.complete => names \cup marker \subseteq scan.ask
              /\ scan.pc # "read" =>
                   \A n \in scan.ask : n \in lnk.queue \/ (n \in scan.links <=> n \in link)
              /\ scan.pc \in {"done", "publish"} =>
                   \A n \in scan.ask : scan.found[n] \in
                     {"unknown", State(n \in marker, n \in scan.links)}
              /\ scan.seen \cup scan.ask \subseteq filter
          BY <3>1, <3>3, <4>1 DEF IndInv, ScanFollows
        <4>3. \A n \in scan.ask : n \notin lnk.queue
          BY <3>1, <4>2
        <4> QED BY <1>1, <2>1, <3>2, <4>2, <4>3 DEF ScanFollows, State
      <3>6. CacheFollows'
        <4>1. lnk'.on /\ (mon'.failed \/ mon'.event # {} \/ mon'.level = depth')
          BY <1>1, <1>3, <3>1, <3>2 DEF IndInv, CacheFollows
        <4> SUFFICES ASSUME Watching'
                     PROVE  /\ names' \cup marker' \subseteq filter'
                            /\ \A n \in Names : records'[n] # "none" => n \in filter'
                            /\ lnk'.queue \cap filter' = {} =>
                                 \A n \in Names :
                                    \/ records'[n] \in {Truth(n)', "unknown"}
                                    \/ records'[n] = "none" /\ (n \notin names' \cup marker' \/ Due(src'))
          BY <4>1 DEF CacheFollows, Due
        <4>2. /\ names \cup marker \subseteq filter
              /\ \A n \in Names : records[n] # "none" => n \in filter
              /\ lnk.queue \cap filter = {} =>
                   \A n \in Names : \/ records[n] \in {Truth(n), "unknown"}
                                    \/ records[n] = "none" /\ (n \notin names \cup marker \/ Due(src))
          BY <3>1, <3>3 DEF IndInv, CacheFollows
        <4>3. lnk.queue \cap filter = {}
          BY <3>1
        <4>4. \A n \in Names : Truth(n)' = Truth(n)
          BY <3>2 DEF Truth, State
        <4> QED BY <1>1, <2>1, <3>2, <4>2, <4>3, <4>4
      <3>7. TypeOK'
        BY <1>1, <1>4, <2>1, <3>2 DEF IndInv, TypeOK, Typed, Looks
      <3>8. SourceFits' /\ RefreshIsScheduled' /\ ControllerIsTold'
        BY <1>1, <2>1, SoundIsNext
      <3> QED BY <1>4, <3>4, <3>5, <3>6, <3>7, <3>8 DEF IndInv
    <2> QED BY <1>6, <2>2, <2>3
  <1> QED BY <1>5, <1>6

-----------------------------------------------------------------------------
(* The worker thread.                                                        *)

\* What the worker leaves alone.
WorkerKeeps == UNCHANGED <<src, mon, lnk, names, records, filter, world>>

\* A step of the worker keeps what is not about the scan.
LEMMA WorkerStepKeeps ==
  ASSUME IndInv, WorkerKeeps, ScanFits', ScanFollows', scan.pc # "none", scan'.current = scan.current
  PROVE  IndInv'
  <1>1. /\ src' = src /\ mon' = mon /\ lnk' = lnk /\ names' = names /\ records' = records
        /\ filter' = filter /\ depth' = depth /\ late' = late /\ marker' = marker /\ link' = link
    BY DEF WorkerKeeps, world
  <1>2. scan'.pc \in {"none", "read", "markers", "done", "publish"}
    BY DEF ScanFits, Scans
  <1>3. TypeOK'
    BY <1>1, <1>2 DEF IndInv, TypeOK
  <1>4. SourceFits' /\ RefreshIsScheduled' /\ ControllerIsTold'
    BY <1>1, SoundIs, SoundIsNext
  <1>5. MonitorTells'
    BY <1>1 DEF IndInv, MonitorTells
  <1>6. OutdatedIsPending'
    BY <1>1 DEF IndInv, OutdatedIsPending, Active, Running
  <1>7. CacheFollows'
    <2>1. Watching' = Watching
      BY <1>1 DEF Watching
    <2>2. \A n \in Names : Truth(n)' = Truth(n)
      BY <1>1 DEF Truth, State
    <2>3. Due(src)' = Due(src)
      BY <1>1 DEF Due
    <2> QED BY <1>1, <2>1, <2>2, <2>3 DEF IndInv, CacheFollows
  <1> QED BY <1>3, <1>4, <1>5, <1>6, <1>7 DEF IndInv

\* scan_runtime, the names and the links.
LEMMA ScanNamesKeeps ==
  ASSUME IndInv, ScanNames
  PROVE  IndInv'
  <1> DEFINE all == scan.seen \cup scan.ask \cup marker
  <1>1. PICK S \in Candidates(all), fails \in BOOLEAN :
          scan' = [scan EXCEPT !.pc = "markers", !.ask = S, !.links = link,
                               !.complete = S = all /\ ~fails]
    BY DEF ScanNames
  <1>2. WorkerKeeps /\ scan.pc = "read"
    BY DEF ScanNames, WorkerKeeps
  <1>3. /\ scan \in Scans /\ marker \subseteq Names /\ link \subseteq Names
        /\ \A n \in Names : IdentifiesSession(n) => n \in scan.seen
    BY <1>2 DEF IndInv, TypeOK, ScanFits
  <1>4. S \subseteq all /\ scan.seen \subseteq S /\ Cardinality(S) <= MaxNames
    BY <1>1 DEF Candidates
  <1>5. S \subseteq Names
    BY <1>3, <1>4 DEF Scans
  <1>6. (S = all /\ ~fails) \in BOOLEAN
    OBVIOUS
  <1>7. /\ scan' \in Scans /\ scan'.pc = "markers" /\ scan'.ask = S /\ scan'.links = link
        /\ scan'.complete = (S = all /\ ~fails) /\ scan'.seen = scan.seen
        /\ scan'.current = scan.current
    <2> HIDE DEF all
    <2> QED BY <1>1, <1>3, <1>5, <1>6 DEF Scans
  <1>8. /\ src' = src /\ mon' = mon /\ lnk' = lnk /\ names' = names /\ records' = records
        /\ filter' = filter /\ depth' = depth /\ marker' = marker /\ link' = link
    BY <1>2 DEF WorkerKeeps, world
  <1>9. ScanFits'
    BY <1>3, <1>4, <1>7, <1>8 DEF ScanFits, IdentifiesSession
  <1>10. ScanFollows'
    <2> SUFFICES ASSUME Valid', Watching'
                 PROVE  ScanFollows'
      BY DEF ScanFollows
    <2>1. Valid /\ Watching
      BY <1>2, <1>7, <1>8 DEF Valid, Watching, Active, Running
    <2>2. scan.ask = names /\ (src.fresh => scan.seen \cup scan.ask \subseteq filter)
      BY <1>2, <2>1 DEF IndInv, ScanFollows
    <2>3. src.fresh => names \cup marker \subseteq filter
      BY <2>1 DEF IndInv, CacheFollows
    <2>4. src.fresh => scan.seen \cup S \subseteq filter
      BY <1>4, <2>2, <2>3
    <2> QED BY <1>7, <1>8, <2>2, <2>4 DEF ScanFollows
  <1> QED BY <1>2, <1>7, <1>9, <1>10, WorkerStepKeeps

\* scan_runtime, the markers.
LEMMA ScanMarkersKeeps ==
  ASSUME IndInv, ScanMarkers
  PROVE  IndInv'
  <1>1. PICK unread \in {{}, scan.ask} \cup {{n} : n \in scan.ask} :
          scan' = [scan EXCEPT !.pc = "done", !.complete = @ /\ unread = {},
                     !.found = [n \in Names |->
                       IF n \notin scan.ask THEN "none"
                       ELSE IF n \in unread THEN "unknown"
                       ELSE State(n \in marker, n \in scan.links)]]
    BY DEF ScanMarkers
  <1> DEFINE f == [n \in Names |-> IF n \notin scan.ask THEN "none"
                                   ELSE IF n \in unread THEN "unknown"
                                   ELSE State(n \in marker, n \in scan.links)]
             c == scan.complete /\ unread = {}
  <1>2. WorkerKeeps /\ scan.pc = "markers"
    BY DEF ScanMarkers, WorkerKeeps
  <1>3. /\ scan \in Scans /\ scan.seen \subseteq scan.ask /\ Cardinality(scan.ask) <= MaxNames
        /\ \A n \in Names : IdentifiesSession(n) => n \in scan.seen
    BY <1>2 DEF IndInv, ScanFits
  <1>4. /\ f \in [Names -> States] /\ \A n \in Names : f[n] = "none" <=> n \notin scan.ask
        /\ \A n \in Names : n \in scan.ask =>
             f[n] \in {"unknown", State(n \in marker, n \in scan.links)}
    <2>1. "none" \in States /\ "unknown" \in States \ {"none"}
      BY DEF States
    <2>2. \A n \in Names : State(n \in marker, n \in scan.links) \in States \ {"none"}
      BY DEF State, States
    <2>3. ASSUME NEW n \in Names
          PROVE  /\ f[n] \in States /\ (f[n] = "none" <=> n \notin scan.ask)
                 /\ n \in scan.ask => f[n] \in {"unknown", State(n \in marker, n \in scan.links)}
      BY <2>1, <2>2
    <2>4. f \in [Names -> States]
      BY <2>3
    <2> HIDE DEF f
    <2> QED BY <2>3, <2>4
  <1>5. /\ scan' \in Scans /\ scan'.pc = "done" /\ scan'.found = f /\ scan'.ask = scan.ask
        /\ scan'.seen = scan.seen /\ scan'.links = scan.links /\ scan'.current = scan.current
        /\ (scan'.complete => scan.complete)
    <2>1. scan' = [scan EXCEPT !.pc = "done", !.complete = c, !.found = f]
      BY <1>1
    <2>2. c \in BOOLEAN /\ (c => scan.complete)
      BY <1>3 DEF Scans
    <2> HIDE DEF f, c
    <2> QED BY <1>3, <1>4, <2>1, <2>2 DEF Scans
  <1> HIDE DEF f
  <1>6. /\ src' = src /\ mon' = mon /\ lnk' = lnk /\ names' = names /\ records' = records
        /\ filter' = filter /\ depth' = depth /\ marker' = marker /\ link' = link
    BY <1>2 DEF WorkerKeeps, world
  <1>7. ScanFits'
    BY <1>3, <1>4, <1>5, <1>6 DEF ScanFits, IdentifiesSession
  <1>8. ScanFollows'
    <2> SUFFICES ASSUME Valid', Watching'
                 PROVE  ScanFollows'
      BY DEF ScanFollows
    <2>1. Valid /\ Watching
      BY <1>2, <1>5, <1>6 DEF Valid, Watching, Active, Running
    <2>2. /\ scan.complete => names \cup marker \subseteq scan.ask
          /\ \A n \in scan.ask : n \in lnk.queue \/ (n \in scan.links <=> n \in link)
          /\ src.fresh => scan.seen \cup scan.ask \subseteq filter
      BY <1>2, <2>1 DEF IndInv, ScanFollows
    <2>3. scan.ask \subseteq Names
      BY <1>3 DEF Scans
    <2> QED BY <1>4, <1>5, <1>6, <2>2, <2>3 DEF ScanFollows, State
  <1> QED BY <1>2, <1>5, <1>7, <1>8, WorkerStepKeeps

-----------------------------------------------------------------------------
(* The controller.                                                           *)

\* The calls that leave the cache as it is, or nothing fresh in it.
LEMMA CallsKeep ==
  ASSUME IndInv, Enable \/ Disable \/ Stop \/ CallEnsureMonitor \/ SetMutationActive
  PROVE  IndInv'
  <1>1. /\ Sound(src) /\ Looks /\ names' = names /\ records' = records /\ filter' = filter
        /\ names \subseteq Names /\ records \in [Names -> States]
    <2>1. Looks /\ names' = names /\ records' = records /\ filter' = filter
      BY DEF Enable, Disable, Stop, CallEnsureMonitor, SetMutationActive, Call
    <2> QED BY <2>1, SoundIs, MonitorsLeft
  <1>2. CASE Enable
    <2>1. PICK ff \in BOOLEAN, lf \in BOOLEAN : EnsureMonitors(ff, lf)
      BY <1>2 DEF Enable
    <2> DEFINE u == RequestRefresh(EnsureMonitor([src EXCEPT !.enabled = TRUE]), 1)
    <2>2. Sound(u) /\ u.pending /\ ~u.fresh
      BY <1>1, <1>2, EnableDoes DEF Enable
    <2> HIDE DEF u
    <2>3. src' = u /\ scan' = Outdated(scan)
      BY <1>2 DEF Enable, u
    <2>4. Typed /\ MonitorTells'
      BY <1>1, <2>1, EnsureDoes DEF Typed
    <2> QED BY <1>1, <2>2, <2>3, <2>4, OvertakenKeeps
  <1>3. CASE Disable
    <2>1. Active(src) /\ mon' = NoMonitor /\ lnk' = NoLink /\ scan' = Outdated(scan)
      BY <1>3 DEF Disable
    <2>2. Sound(src') /\ ~Active(src')
      BY <1>1, <1>3, <2>1, DisableDoes DEF Disable
    <2>3. ~src'.fresh
      BY <2>2 DEF Sound, Fits
    <2>4. Typed /\ MonitorTells'
      BY <1>1, <2>1, MonitorsLeft DEF Typed
    <2> QED BY <1>1, <2>1, <2>2, <2>3, <2>4, OvertakenKeeps
  <1>4. CASE Stop
    <2>1. mon' = NoMonitor /\ lnk' = NoLink /\ scan' \in {scan, NoScan}
      BY <1>4 DEF Stop
    <2>2. Sound(src') /\ ~Active(src')
      BY <1>1, <1>4, StopDoes DEF Stop
    <2>3. ~src'.fresh
      BY <2>2 DEF Sound, Fits
    <2>4. Typed /\ MonitorTells'
      BY <1>1, <2>1, MonitorsLeft DEF Typed
    <2> QED BY <1>1, <2>1, <2>2, <2>3, <2>4, OvertakenKeeps
  <1>5. CASE CallEnsureMonitor
    <2>1. PICK ff \in BOOLEAN, lf \in BOOLEAN : EnsureMonitors(ff, lf)
      BY <1>5 DEF CallEnsureMonitor
    <2>2. /\ Active(src) /\ src' = EnsureMonitor(src)
          /\ scan' = IF Bad THEN AfterQueue(scan) ELSE scan
      BY <1>5 DEF CallEnsureMonitor, Bad
    <2>3. Sound(src') /\ Steps(src, src') /\ (Bad => Renewed(src, src'))
      <3> DEFINE u == EnsureMonitor(src)
      <3>1. Sound(u) /\ Steps(src, u) /\ (Bad => Renewed(src, u))
        BY <1>1, <2>2, EnsureMonitorIsSound
      <3> HIDE DEF u
      <3>2. src' = u
        BY <2>2 DEF u
      <3> QED BY <3>1, <3>2
    <2>4. /\ Typed /\ MonitorTells'
          /\ ~Bad => /\ lnk' = lnk /\ (Watching' => Watching)
                     /\ mon'.failed \/ mon'.event # {} \/ mon'.level = depth'
      BY <1>1, <2>1, EnsureDoes DEF Typed
    <2>5. CASE Bad
      BY <1>1, <2>2, <2>3, <2>4, <2>5, AfterQueueIs, RenewedKeeps
    <2>6. CASE ~Bad
      <3>1. depth' = depth
        BY <1>1 DEF Looks
      <3>2. Quiet
        BY <1>1, <2>4, <2>6, <3>1 DEF Quiet
      <3>3. Follows
        BY <2>2, <2>3, <2>6 DEF Follows, Kept, Steps
      <3> QED BY <1>1, <2>3, <2>4, <3>2, <3>3, CallbackKeeps DEF Steps
    <2> QED BY <2>5, <2>6
  <1>6. CASE SetMutationActive
    <2>1. mon' = mon /\ lnk' = lnk /\ scan' = scan /\ src' = [src EXCEPT !.mutation = ~src.mutation]
      BY <1>6 DEF SetMutationActive
    <2>2. Sound(src') /\ Steps(src, src')
      BY <1>1, <2>1, SmallStepsDo
    <2>3. Typed /\ MonitorTells' /\ Quiet
      BY <1>1, <2>1, MonitorsLeft DEF Typed
    <2>4. Follows
      BY <2>1, <2>2 DEF Follows, Kept, Steps
    <2> QED BY <1>1, <2>2, <2>3, <2>4, CallbackKeeps DEF Steps
  <1> QED BY <1>2, <1>3, <1>4, <1>5, <1>6

\* network_sidebar_awg_runtime_source_poll.
LEMMA PollKeeps ==
  ASSUME IndInv, NEW p \in Purposes, Poll(p)
  PROVE  IndInv'
  <1> DEFINE busy == src.running \/ src.pending
  <1>1. /\ Sound(src) /\ Active(src) /\ Looks /\ names' = names /\ records' = records
        /\ filter' = filter /\ mon' = mon /\ lnk' = lnk
        /\ scan' = IF busy THEN scan ELSE AfterQueue(scan)
    BY SoundIs DEF Poll, Call
  <1>2. /\ Sound(src') /\ Steps(src, src')
        /\ busy => src'.pending = src.pending
        /\ ~busy => src'.pending
    BY <1>1, PollDoes DEF Poll
  <1>3. Typed /\ MonitorTells' /\ Quiet
    BY <1>1, MonitorsLeft DEF Typed
  <1>4. Follows
    BY <1>1, <1>2, AfterQueueIs DEF Follows, Kept, Steps
  <1> QED BY <1>1, <1>2, <1>3, <1>4, CallbackKeeps DEF Steps

\* network_sidebar_awg_runtime_source_request_refresh and _record_delete.
LEMMA RefreshCallsKeep ==
  ASSUME IndInv,
         (\E p \in Purposes : CallRequestRefresh(p)) \/ (\E n \in Names : RecordDelete(n))
  PROVE  IndInv'
  <1>1. /\ Sound(src) /\ Looks /\ mon' = mon /\ lnk' = lnk /\ names' = names /\ filter' = filter
        /\ records \in [Names -> States]
    <2>1. Looks /\ mon' = mon /\ lnk' = lnk /\ names' = names /\ filter' = filter
      BY DEF CallRequestRefresh, RecordDelete, Call
    <2> QED BY <2>1, SoundIs, MonitorsLeft
  <1>2. records' \in [Names -> States] /\ \A n \in Names : records'[n] \in {records[n], "none"}
    <2>1. CASE \E p \in Purposes : CallRequestRefresh(p)
      BY <1>1, <2>1 DEF CallRequestRefresh
    <2>2. CASE \E n \in Names : RecordDelete(n)
      BY <1>1, <2>2 DEF RecordDelete, States
    <2> QED BY <2>1, <2>2
  <1>3. PICK p \in Purposes : src' = RequestRefresh(src, p)
    BY DEF CallRequestRefresh, RecordDelete, Purposes
  <1>4. Typed /\ MonitorTells'
    BY <1>1, <1>2, MonitorsLeft DEF Typed
  <1>5. scan' \in {scan, Outdated(scan)}
    BY AfterQueueIs DEF CallRequestRefresh, RecordDelete
  <1>6. CASE Active(src)
    <2>1. Renewed(src, src')
      <3> DEFINE u == RequestRefresh(src, p)
      <3>1. Renewed(src, u)
        BY <1>1, <1>6, SoundShows, RequestRefreshDoes
      <3> HIDE DEF u
      <3>2. src' = u
        BY <1>3 DEF u
      <3> QED BY <3>1, <3>2
    <2> QED BY <1>1, <1>4, <1>5, <2>1, RenewedKeeps
  <1>7. CASE ~Active(src)
    <2>1. src' = src
      BY <1>3, <1>7 DEF RequestRefresh
    <2>2. ~src.fresh
      BY <1>1, <1>7 DEF Sound, Fits
    <2> QED BY <1>1, <1>4, <1>5, <1>7, <2>1, <2>2, OvertakenKeeps
  <1> QED BY <1>6, <1>7

\* network_sidebar_awg_runtime_source_set_names.
LEMMA SetNamesKeeps ==
  ASSUME IndInv, NEW p \in Purposes, NEW S \in SUBSET Names, SetNames(S, p)
  PROVE  IndInv'
  <1>1. /\ Sound(src) /\ Looks /\ mon' = mon /\ lnk' = lnk /\ names' = S /\ records' = records
        /\ filter' = filter /\ records \in [Names -> States]
    <2>1. Looks /\ mon' = mon /\ lnk' = lnk /\ names' = S /\ records' = records /\ filter' = filter
      BY DEF SetNames, Call
    <2> QED BY <2>1, SoundIs, MonitorsLeft
  <1>2. Sound(src') /\ src'.pending /\ ~src'.fresh
    BY <1>1, SetNamesDoes DEF SetNames
  <1>3. Typed /\ MonitorTells'
    BY <1>1, MonitorsLeft DEF Typed
  <1>4. scan' \in {scan, Outdated(scan)}
    BY AfterQueueIs DEF SetNames
  <1> QED BY <1>1, <1>2, <1>3, <1>4, OvertakenKeeps

-----------------------------------------------------------------------------
(* The world.                                                                *)

\* What the world leaves alone.
SourceKeeps == UNCHANGED <<src, names, records, filter, scan>>

\* A change of the world keeps what is about the source and its scan.
LEMMA WorldStepKeeps ==
  ASSUME IndInv, SourceKeeps, mon' \in Monitors, lnk' \in Sockets, depth' \in Levels,
         late' \in Levels, marker' \subseteq Names, link' \subseteq Names,
         MonitorTells', ScanFollows', CacheFollows'
  PROVE  IndInv'
  <1>1. src' = src /\ names' = names /\ records' = records /\ filter' = filter /\ scan' = scan
    BY DEF SourceKeeps
  <1>2. TypeOK'
    BY <1>1 DEF IndInv, TypeOK
  <1>3. SourceFits' /\ RefreshIsScheduled' /\ ControllerIsTold'
    BY <1>1, SoundIs, SoundIsNext
  <1>4. ScanFits' /\ OutdatedIsPending'
    BY <1>1 DEF IndInv, ScanFits, OutdatedIsPending, IdentifiesSession, Active, Running
  <1> QED BY <1>2, <1>3, <1>4 DEF IndInv

\* What is reported is added to what the monitor has to tell.
LEMMA ReportedIs ==
  ASSUME mon \in Monitors, NEW e \in {"change", "clear"}, NEW p \in BOOLEAN
  PROVE  /\ Reported(e, p) \in Monitors /\ Reported(e, p).level = mon.level
         /\ Reported(e, p).dead = mon.dead /\ Reported(e, p).failed = mon.failed
         /\ mon.event \subseteq Reported(e, p).event
         /\ p => mon.dead \/ e \in Reported(e, p).event
         /\ ~p => Reported(e, p) = mon
  <1>1. CASE p /\ ~mon.dead
    BY <1>1 DEF Reported, Monitors
  <1>2. CASE ~(p /\ ~mon.dead)
    BY <1>2 DEF Reported
  <1> QED BY <1>1, <1>2

\* The monitor is of a directory, and where it should be or with something to tell.
LEMMA MonitorsAre ==
  ASSUME IndInv
  PROVE  /\ mon \in Monitors /\ mon.level \in 0 .. 3 /\ mon.dead \in BOOLEAN
         /\ mon.failed \in BOOLEAN /\ depth \in 0 .. 2 /\ late \in 0 .. 2 /\ depth <= late
         /\ mon.dead => "clear" \in mon.event
         /\ mon.level <= late /\ (mon.level # depth \/ mon.failed) => "clear" \in mon.event
         /\ src.fresh => mon.failed \/ mon.event # {} \/ mon.level = depth
         /\ marker \subseteq Names /\ link \subseteq Names /\ lnk \in Sockets
         /\ depth \in Levels /\ late \in Levels
  BY DEF IndInv, TypeOK, MonitorTells, CacheFollows, Monitors, Levels

\* A change that concerns the cache and of which nothing is told leaves the cache as it
\* was: not fresh, and no scan about to be published.
LEMMA UnwatchedKeeps ==
  ASSUME IndInv, SourceKeeps, lnk' = lnk, mon' \in Monitors, depth' \in Levels,
         late' \in Levels, marker' \subseteq Names, link' \subseteq Names,
         MonitorTells', ~Watching',
         mon.failed \/ mon.event # {} \/ mon.level = depth =>
           mon'.failed \/ mon'.event # {} \/ mon'.level = depth'
  PROVE  IndInv'
  <1>1. lnk \in Sockets
    BY DEF IndInv, TypeOK
  <1>2. ScanFollows'
    BY DEF ScanFollows
  <1>3. CacheFollows'
    BY DEF IndInv, CacheFollows, SourceKeeps
  <1> QED BY <1>1, <1>2, <1>3, WorldStepKeeps

\* The runtime directory, or one above it, is created.
LEMMA CreateDirectoryKeeps ==
  ASSUME IndInv, CreateDirectory
  PROVE  IndInv'
  <1> DEFINE r == Reported("clear", mon.level = depth)
  <1>1. /\ SourceKeeps /\ lnk' = lnk /\ depth > 0 /\ depth' = depth - 1 /\ late' = late
        /\ marker' = marker /\ link' = link /\ mon' = r
    BY DEF CreateDirectory, SourceKeeps
  <1>2. /\ mon \in Monitors /\ mon.level \in 0 .. 3 /\ mon.dead \in BOOLEAN
        /\ depth \in 0 .. 2 /\ late \in 0 .. 2 /\ depth <= late
        /\ mon.dead => "clear" \in mon.event
        /\ mon.level <= late /\ (mon.level # depth \/ mon.failed) => "clear" \in mon.event
        /\ marker \subseteq Names /\ link \subseteq Names /\ late \in Levels
    BY MonitorsAre
  <1>3. /\ r \in Monitors /\ r.level = mon.level /\ r.dead = mon.dead /\ r.failed = mon.failed
        /\ mon.event \subseteq r.event
        /\ mon.level = depth => mon.dead \/ "clear" \in r.event
    BY <1>2, ReportedIs
  <1> HIDE DEF r
  <1>4. depth' \in Levels
    BY <1>1, <1>2 DEF Levels
  <1>5. mon.level <= late => "clear" \in r.event
    BY <1>2, <1>3
  <1>6. MonitorTells'
    BY <1>1, <1>2, <1>3, <1>5 DEF MonitorTells
  <1>7. ~Watching'
    BY <1>1, <1>2, <1>3, <1>5 DEF Watching
  <1>8. mon.failed \/ mon.event # {} \/ mon.level = depth =>
          mon'.failed \/ mon'.event # {} \/ mon'.level = depth'
    BY <1>1, <1>2, <1>3
  <1> QED BY <1>1, <1>2, <1>3, <1>4, <1>6, <1>7, <1>8, UnwatchedKeeps

\* The runtime directory, or one above it, is removed.
LEMMA RemoveDirectoryKeeps ==
  ASSUME IndInv, RemoveDirectory
  PROVE  IndInv'
  <1> DEFINE r == Reported("clear", mon.level \in {depth, depth + 1})
             d == mon.dead \/ mon.level = depth
  <1>1. /\ SourceKeeps /\ lnk' = lnk /\ depth < 2 /\ depth' = depth + 1 /\ late' = depth + 1
        /\ marker' = marker /\ link' = link
        /\ mon' = [r EXCEPT !.dead = r.dead \/ mon.level = depth]
    BY DEF RemoveDirectory, SourceKeeps
  <1>2. /\ mon \in Monitors /\ mon.level \in 0 .. 3 /\ mon.dead \in BOOLEAN
        /\ depth \in 0 .. 2 /\ late \in 0 .. 2 /\ depth <= late
        /\ mon.dead => "clear" \in mon.event
        /\ mon.level <= late /\ (mon.level # depth \/ mon.failed) => "clear" \in mon.event
        /\ marker \subseteq Names /\ link \subseteq Names
    BY MonitorsAre
  <1>3. /\ r \in Monitors /\ r.level = mon.level /\ r.dead = mon.dead /\ r.failed = mon.failed
        /\ mon.event \subseteq r.event
        /\ mon.level \in {depth, depth + 1} => mon.dead \/ "clear" \in r.event
    <2> DEFINE b == mon.level \in {depth, depth + 1}
    <2>1. b \in BOOLEAN
      OBVIOUS
    <2> HIDE DEF b
    <2>2. LET q == Reported("clear", b)
          IN /\ q \in Monitors /\ q.level = mon.level /\ q.dead = mon.dead
             /\ q.failed = mon.failed /\ mon.event \subseteq q.event
             /\ b => mon.dead \/ "clear" \in q.event
      BY <1>2, <2>1, ReportedIs
    <2> QED BY <2>2 DEF b
  <1> HIDE DEF r
  <1>4. /\ mon' \in Monitors /\ mon'.level = mon.level /\ mon'.failed = mon.failed
        /\ mon'.event = r.event /\ mon'.dead = d
    <2>1. d \in BOOLEAN /\ mon' = [r EXCEPT !.dead = d]
      BY <1>1, <1>2, <1>3
    <2> HIDE DEF d
    <2> QED BY <1>3, <2>1 DEF Monitors
  <1>5. depth' \in Levels /\ late' \in Levels
    BY <1>1, <1>2 DEF Levels
  <1>6. mon.level <= depth + 1 => "clear" \in r.event
    BY <1>2, <1>3
  <1>7. MonitorTells'
    BY <1>1, <1>2, <1>3, <1>4, <1>6 DEF MonitorTells
  <1>8. ~Watching'
    BY <1>1, <1>2, <1>4, <1>6 DEF Watching
  <1>9. mon.failed \/ mon.event # {} \/ mon.level = depth =>
          mon'.failed \/ mon'.event # {} \/ mon'.level = depth'
    BY <1>1, <1>2, <1>3, <1>4, <1>6
  <1> QED BY <1>1, <1>2, <1>4, <1>5, <1>7, <1>8, <1>9, UnwatchedKeeps

\* A helper writes or removes a marker.
LEMMA MarkerChangeKeeps ==
  ASSUME IndInv, NEW n \in Names, MarkerChange(n)
  PROVE  IndInv'
  <1> DEFINE r == Reported("change", mon.level = 0)
  <1>1. /\ SourceKeeps /\ lnk' = lnk /\ depth = 0 /\ depth' = depth /\ late' = late
        /\ link' = link /\ mon' = r
        /\ marker' = IF n \in marker THEN marker \ {n} ELSE marker \cup {n}
    BY DEF MarkerChange, SourceKeeps
  <1>2. /\ mon \in Monitors /\ mon.level \in 0 .. 3 /\ mon.dead \in BOOLEAN
        /\ depth \in Levels /\ late \in Levels /\ late \in 0 .. 2 /\ depth <= late
        /\ mon.dead => "clear" \in mon.event
        /\ mon.level <= late /\ (mon.level # depth \/ mon.failed) => "clear" \in mon.event
        /\ marker \subseteq Names /\ link \subseteq Names
    BY MonitorsAre
  <1>3. /\ r \in Monitors /\ r.level = mon.level /\ r.dead = mon.dead /\ r.failed = mon.failed
        /\ mon.event \subseteq r.event
        /\ mon.level = 0 => mon.dead \/ "change" \in r.event
    BY <1>2, ReportedIs
  <1> HIDE DEF r
  <1>4. marker' \subseteq Names
    BY <1>1, <1>2
  <1>5. MonitorTells'
    BY <1>1, <1>2, <1>3 DEF MonitorTells
  <1>6. ~Watching'
    BY <1>1, <1>2, <1>3 DEF Watching
  <1>7. mon.failed \/ mon.event # {} \/ mon.level = depth =>
          mon'.failed \/ mon'.event # {} \/ mon'.level = depth'
    BY <1>1, <1>2, <1>3
  <1> QED BY <1>1, <1>2, <1>3, <1>4, <1>5, <1>6, <1>7, UnwatchedKeeps

\* A link appears or disappears: the socket tells, unless it is closed or loses the event.
LEMMA LinkChangeKeeps ==
  ASSUME IndInv, NEW n \in Names, LinkChange(n)
  PROVE  IndInv'
  <1>1. /\ SourceKeeps /\ mon' = mon /\ depth' = depth /\ late' = late /\ marker' = marker
        /\ link' = IF n \in link THEN link \ {n} ELSE link \cup {n}
        /\ src' = src /\ names' = names /\ records' = records /\ filter' = filter
        /\ scan' = scan
    BY DEF LinkChange, SourceKeeps
  <1>2. PICK e \in {"error", n} :
          lnk' = IF lnk.on THEN [lnk EXCEPT !.queue = @ \cup {e}] ELSE lnk
    BY DEF LinkChange
  <1>3. /\ mon \in Monitors /\ lnk \in Sockets /\ depth \in Levels /\ late \in Levels
        /\ marker \subseteq Names /\ link \subseteq Names
    BY MonitorsAre
  <1>4. /\ lnk' \in Sockets /\ lnk'.on = lnk.on /\ lnk.queue \subseteq lnk'.queue
        /\ lnk.on => e \in lnk'.queue
    BY <1>2, <1>3 DEF Sockets
  <1>5. link' \subseteq Names /\ \A m \in Names \ {n} : m \in link' <=> m \in link
    BY <1>1, <1>3
  <1>6. MonitorTells'
    BY <1>1 DEF IndInv, MonitorTells
  <1>7. Watching' => Watching /\ n \in lnk'.queue
    BY <1>1, <1>2, <1>4 DEF Watching
  <1>8. ScanFollows'
    <2> SUFFICES ASSUME Valid', Watching'
                 PROVE  ScanFollows'
      BY DEF ScanFollows
    <2>1. Valid /\ Watching /\ n \in lnk'.queue
      BY <1>1, <1>7 DEF Valid, Active, Running
    <2>2. /\ scan.pc = "read" => scan.ask = names
          /\ scan.pc # "read" /\ scan.complete => names \cup marker \subseteq scan.ask
          /\ scan.pc # "read" =>
               \A m \in scan.ask : m \in lnk.queue \/ (m \in scan.links <=> m \in link)
          /\ scan.pc \in {"done", "publish"} =>
               \A m \in scan.ask : scan.found[m] \in
                 {"unknown", State(m \in marker, m \in scan.links)}
          /\ src.fresh => scan.seen \cup scan.ask \subseteq filter
      BY <2>1 DEF IndInv, ScanFollows
    <2>3. scan.ask \subseteq Names
      BY DEF IndInv, ScanFits, Scans
    <2>4. scan.pc # "read" =>
            \A m \in scan.ask : m \in lnk'.queue \/ (m \in scan.links <=> m \in link')
      BY <1>4, <1>5, <2>1, <2>2, <2>3
    <2> QED BY <1>1, <2>2, <2>4 DEF ScanFollows, State
  <1>9. CacheFollows'
    <2> SUFFICES ASSUME src'.fresh
                 PROVE  CacheFollows'
      BY DEF CacheFollows
    <2>1. lnk'.on /\ (mon'.failed \/ mon'.event # {} \/ mon'.level = depth')
      BY <1>1, <1>4 DEF IndInv, CacheFollows
    <2> SUFFICES ASSUME Watching'
                 PROVE  /\ names' \cup marker' \subseteq filter'
                        /\ \A m \in Names : records'[m] # "none" => m \in filter'
                        /\ lnk'.queue \cap filter' = {} =>
                             \A m \in Names :
                                \/ records'[m] \in {Truth(m)', "unknown"}
                                \/ records'[m] = "none" /\ (m \notin names' \cup marker' \/ Due(src'))
      BY <2>1 DEF CacheFollows, Due
    <2>2. Watching /\ n \in lnk'.queue
      BY <1>7
    <2>3. /\ names \cup marker \subseteq filter
          /\ \A m \in Names : records[m] # "none" => m \in filter
          /\ lnk.queue \cap filter = {} =>
               \A m \in Names : \/ records[m] \in {Truth(m), "unknown"}
                                \/ records[m] = "none" /\ (m \notin names \cup marker \/ Due(src))
      BY <1>1, <2>2 DEF IndInv, CacheFollows
    <2>4. ASSUME lnk'.queue \cap filter' = {}, NEW m \in Names
          PROVE  \/ records'[m] \in {Truth(m)', "unknown"}
                 \/ records'[m] = "none" /\ (m \notin names' \cup marker' \/ Due(src'))
      <3>1. n \notin filter /\ lnk.queue \cap filter = {}
        BY <1>1, <1>4, <2>2, <2>4
      <3>2. CASE m = n
        BY <1>1, <2>3, <3>1, <3>2
      <3>3. CASE m # n
        <4>1. Truth(m)' = Truth(m)
          BY <1>1, <1>5, <3>3 DEF Truth, State
        <4> QED BY <1>1, <2>3, <3>1, <4>1
      <3> QED BY <3>2, <3>3
    <2> QED BY <1>1, <2>3, <2>4
  <1> QED BY <1>1, <1>3, <1>4, <1>5, <1>6, <1>8, <1>9, WorldStepKeeps

-----------------------------------------------------------------------------
(* The theorems.                                                             *)

\* A source that was just made knows nothing, and nobody watches.
LEMMA InitHolds ==
  Init => IndInv
  <1> SUFFICES ASSUME Init
               PROVE  IndInv
    OBVIOUS
  <1>1. /\ src.phase = "new" /\ ~src.enabled /\ src.fresh = FALSE /\ ~src.timer
        /\ ~src.running /\ src.shown[1] = FALSE
    BY DEF Init
  <1>2. ~Active(src)
    BY <1>1 DEF Active
  <1>3. src \in Flags
    <2>1. <<FALSE, FALSE>> \in BOOLEAN \X BOOLEAN
      OBVIOUS
    <2>2. 0 \in 0 .. 1
      OBVIOUS
    <2> QED BY <2>1, <2>2 DEF Init, Flags
  <1>4. Cardinality({n \in Names : records[n] # "none"}) <= MaxNames
    <2>1. {n \in Names : records[n] # "none"} = {}
      BY DEF Init
    <2> QED BY <2>1, FS_EmptySet, MaxNamesAssumption
  <1>5. scan \in Scans /\ scan.pc = "none"
    BY DEF Init, NoScan, Scans, States
  <1>6. mon \in Monitors /\ mon.level = 3 /\ ~mon.dead /\ mon.event = {} /\ lnk \in Sockets
    BY DEF Init, NoMonitor, NoLink, Monitors, Sockets
  <1>7. TypeOK
    BY <1>3, <1>4, <1>5, <1>6 DEF Init, TypeOK
  <1>8. MonitorTells
    <2>1. depth \in 0 .. 2 /\ late = depth
      BY DEF Init, Levels
    <2> QED BY <1>6, <2>1 DEF MonitorTells
  <1>9. SourceFits /\ RefreshIsScheduled /\ ControllerIsTold
    BY <1>1, <1>2 DEF SourceFits, RefreshIsScheduled, ControllerIsTold
  <1>10. ScanFits /\ OutdatedIsPending /\ ScanFollows /\ CacheFollows
    BY <1>1, <1>2, <1>5 DEF ScanFits, OutdatedIsPending, ScanFollows, CacheFollows, Valid
  <1> QED BY <1>7, <1>8, <1>9, <1>10 DEF IndInv

\* Every step keeps the invariant.
LEMMA NextKeeps ==
  IndInv /\ [Next]_vars => IndInv'
  <1> SUFFICES ASSUME IndInv, [Next]_vars
               PROVE  IndInv'
    OBVIOUS
  <1>1. CASE MainLoop
    BY <1>1, ScheduledKeeps, RetryKeeps, ScanCompleteKeeps, PublishKeeps, InactiveKeeps,
       MonitorChangedKeeps, LinkEventsKeeps, LinkFailsKeeps DEF MainLoop
  <1>2. CASE Worker
    BY <1>2, ScanNamesKeeps, ScanMarkersKeeps DEF Worker
  <1>3. CASE Controller
    BY <1>3, InactiveKeeps, CallsKeep, PollKeeps, RefreshCallsKeep, SetNamesKeeps
       DEF Controller, Purposes
  <1>4. CASE World
    BY <1>4, CreateDirectoryKeeps, RemoveDirectoryKeeps, MarkerChangeKeeps, LinkChangeKeeps
       DEF World
  <1>5. CASE UNCHANGED vars
    <2>1. UNCHANGED <<src, mon, lnk, names, records, filter, scan, depth, late, marker, link>>
      BY <1>5 DEF vars, source, world
    <2> QED BY <2>1 DEF IndInv, TypeOK, SourceFits, RefreshIsScheduled, ControllerIsTold,
         MonitorTells, ScanFits, OutdatedIsPending, ScanFollows, CacheFollows, Valid, Watching,
         IdentifiesSession, Active, Running, Checking, Truth, State, Due
  <1> QED BY <1>1, <1>2, <1>3, <1>4, <1>5 DEF Next

\* The inductive invariant holds in every state (every callback, call, scan and change of
\* the world that this module has).
THEOREM InvariantHolds ==
  Spec => []IndInv
  BY InitHolds, NextKeeps, PTL DEF Spec

\* What the invariant says of the cache is what a reader of the cache relies on.
LEMMA CacheIsCurrentHolds ==
  ASSUME IndInv
  PROVE  CacheIsCurrent
  <1> SUFFICES ASSUME NEW n \in Names
               PROVE  \/ Cached(n) \in {Truth(n), "unknown"}
                      \/ Cached(n) = "none" /\ (~src.fresh \/ n \notin names \cup marker \/ Due(src))
                      \/ mon.event # {} \/ lnk.queue \cap (filter \cup {"error"}) # {} \/ mon.failed
    BY DEF CacheIsCurrent
  <1>1. CASE ~src.fresh
    BY <1>1 DEF Cached
  <1>2. CASE src.fresh /\ ~Watching
    BY <1>2 DEF IndInv, CacheFollows, Watching
  <1>3. CASE src.fresh /\ Watching
    BY <1>3 DEF IndInv, CacheFollows, Cached
  <1> QED BY <1>1, <1>2, <1>3

\* No change is missed: what a reader of the cache is told agrees with the runtime directory
\* and the links, or the difference is on its way, for every set of profiles and every room
\* in the cache (publish_scan_cb, ensure_monitors, link_monitor_cb).
THEOREM ChangesAreNoticed ==
  Spec => []NoChangeIsMissed
  <1>1. IndInv => NoChangeIsMissed
    BY CacheIsCurrentHolds DEF IndInv, NoChangeIsMissed
  <1> QED BY <1>1, InvariantHolds, PTL

\* Only a reported deletion removes a session that was seen, and otherwise a scan that looked
\* at it (scan_runtime, reconcile_scan_records).
LEMMA StepFollows ==
  IndInv /\ [Next]_vars =>
    [\A n \in Names : IdentifiesSession(n) /\ records'[n] = "none" => RecordDelete(n)]_vars
  <1> SUFFICES ASSUME IndInv, Next, NEW n \in Names, IdentifiesSession(n), records'[n] = "none"
               PROVE  RecordDelete(n)
    OBVIOUS
  <1>1. records[n] # "none" /\ records \in [Names -> States]
    BY MonitorsLeft DEF IdentifiesSession, IndInv, TypeOK, States
  <1>2. CASE records' = records
    BY <1>1, <1>2
  <1>3. CASE PublishActive
    <2>1. scan.pc = "publish" /\ (records' = Reconciled \/ records' = records)
      BY <1>3 DEF PublishActive
    <2>2. Reconciled[n] # "none"
      BY <2>1, PublishedIs
    <2> QED BY <1>1, <2>1, <2>2
  <1>4. CASE \E m \in Names : RecordDelete(m)
    <2>1. PICK m \in Names : RecordDelete(m)
      BY <1>4
    <2>2. records' = [records EXCEPT ![m] = "none"]
      BY <2>1 DEF RecordDelete
    <2>3. n = m
      BY <1>1, <2>2
    <2> QED BY <2>1, <2>3
  <1>5. records' = records \/ PublishActive \/ \E m \in Names : RecordDelete(m)
    <2>1. CASE MainLoop
      BY <2>1 DEF MainLoop, Scheduled, Retry, ScanComplete, PublishInactive, MonitorChanged,
                  LinkEvents, LinkFails
    <2>2. CASE Worker
      BY <2>2 DEF Worker, ScanNames, ScanMarkers
    <2>3. CASE Controller
      BY <2>3 DEF Controller, Start, Enable, Disable, Stop, CallEnsureMonitor,
                  SetMutationActive, Poll, CallRequestRefresh, SetNames
    <2>4. CASE World
      BY <2>4 DEF World, CreateDirectory, RemoveDirectory, MarkerChange, LinkChange
    <2> QED BY <2>1, <2>2, <2>3, <2>4 DEF Next
  <1> QED BY <1>2, <1>3, <1>4, <1>5

\* A profile that was seen to have a session is followed, however many other names compete
\* for the cache (scan_runtime, reconcile_scan_records).
THEOREM SessionStaysFollowed ==
  Spec => SessionIsFollowed
  <1>1. IndInv /\ [Next]_vars =>
          [\A n \in Names : IdentifiesSession(n) /\ records'[n] = "none" => RecordDelete(n)]_vars
    BY StepFollows
  <1> QED BY <1>1, InvariantHolds, PTL DEF Spec, SessionIsFollowed

-----------------------------------------------------------------------------
(* Facts about the inbox.                                                  *)

\* A message that the main loop takes leaves the others behind it in order.
LEMMA TailFacts ==
  ASSUME NEW S, NEW s \in Seq(S), s # <<>>
  PROVE  /\ Tail(s) \in Seq(S) /\ Len(s) \in Nat \ {0} /\ Len(Tail(s)) = Len(s) - 1
         /\ Head(s) = s[1] /\ Head(s) \in S
         /\ \A k \in 1 .. Len(Tail(s)) : k + 1 \in 1 .. Len(s) /\ Tail(s)[k] = s[k + 1]
         /\ \A k \in 1 .. Len(s) : k # 1 => k - 1 \in 1 .. Len(Tail(s))
                                            /\ s[k] = Tail(s)[k - 1]
  OBVIOUS

\* A message that polkitd sends comes last.
LEMMA AppendFacts ==
  ASSUME NEW S, NEW s \in Seq(S), NEW m \in S
  PROVE  /\ Append(s, m) \in Seq(S) /\ Len(s) \in Nat /\ Len(Append(s, m)) = Len(s) + 1
         /\ Append(s, m)[Len(s) + 1] = m
         /\ \A k \in 1 .. Len(s) : Append(s, m)[k] = s[k]
         /\ \A k \in 1 .. Len(Append(s, m)) : k \in 1 .. Len(s) \/ k = Len(s) + 1
  OBVIOUS

-----------------------------------------------------------------------------
(* The calls.                                                              *)

\* A BackendCall.
CallRecords == [st : {"none", "bus", "sent", "done"}, over : BOOLEAN, cancelled : BOOLEAN,
                transport : BOOLEAN, callbacks : 0 .. 2, result : Results]

\* The callback of the call ran if, and only if, the call is done.
Answered(x) == x.callbacks = IF x.st = "done" THEN 1 ELSE 0

\* deliver_result leaves the call answered, once.
LEMMA DeliveredOnce ==
  ASSUME NEW x \in CallRecords, Answered(x), NEW r \in Results
  PROVE  Delivered(x, r) \in CallRecords /\ Answered(Delivered(x, r))
  <1> DEFINE y == [x EXCEPT !.st = "done", !.callbacks = x.callbacks + 1, !.result = r]
  <1>1. CASE x.callbacks > 0
    BY <1>1 DEF Delivered
  <1>2. CASE ~(x.callbacks > 0)
    <2>1. x.callbacks = 0
      BY <1>2 DEF Answered
    <2>2. Delivered(x, r) = y
      BY <1>2 DEF Delivered
    <2>3. y = [x EXCEPT !.st = "done", !.callbacks = 1, !.result = r]
      BY <2>1
    <2>4. y.st = "done" /\ y.callbacks = 1
      BY <2>3 DEF CallRecords
    <2>5. 1 \in 0 .. 2
      OBVIOUS
    <2>6. y \in CallRecords
      <3> HIDE DEF y
      <3> QED BY <2>3, <2>5, Zenon DEF CallRecords
    <2> QED BY <2>2, <2>4, <2>6 DEF Answered
  <1> QED BY <1>1, <1>2

\* A step of call c leaves it answered, or still to be answered.
LEMMA CallEffect ==
  ASSUME BackendInv, NEW c \in Calls, CallStep(c)
  PROVE  \E y \in CallRecords : call' = [call EXCEPT ![c] = y] /\ Answered(y)
  <1> DEFINE x == call[c]
             s == [x EXCEPT !.transport = FALSE]
  <1>1. x \in CallRecords /\ Answered(x)
    BY DEF BackendInv, BackendTypeOK, AnsweredOnce, CallRecords, Answered
  <1>2. s \in CallRecords /\ Answered(s) /\ s.st = x.st
    BY <1>1 DEF CallRecords, Answered
  <1>3. MustEnd(s) \in {"done", "cancelled", "timed_out", "none"}
    BY DEF MustEnd
  <1>4. CASE Execute(c)
    <2>1. CASE IsRunning
      <3>1. call' = [call EXCEPT ![c] = [x EXCEPT !.st = "bus", !.transport = TRUE]] /\ x.st = "none"
        BY <1>4, <2>1 DEF Execute, Set
      <3>2. /\ [x EXCEPT !.st = "bus", !.transport = TRUE] \in CallRecords
            /\ Answered([x EXCEPT !.st = "bus", !.transport = TRUE])
        BY <1>1, <3>1 DEF CallRecords, Answered
      <3> QED BY <3>1, <3>2
    <2>2. CASE ~IsRunning
      BY <1>1, <1>4, <2>2, DeliveredOnce DEF Execute, Set, Results
    <2> QED BY <2>1, <2>2
  <1>5. CASE BusReady(c)
    <2>1. PICK ok \in BOOLEAN :
            Set(c, IF MustEnd(s) = "done" THEN Delivered(s, "cancelled")
                   ELSE IF MustEnd(s) # "none" THEN Delivered(s, MustEnd(s))
                   ELSE IF ~ok THEN Delivered(s, "bus_unavailable")
                   ELSE [s EXCEPT !.st = "sent", !.transport = TRUE])
      BY <1>5 DEF BusReady
    <2>2. CASE MustEnd(s) = "none" /\ ok
      <3>1. s.st # "done"
        BY <2>2 DEF MustEnd
      <3>2. /\ [s EXCEPT !.st = "sent", !.transport = TRUE] \in CallRecords
            /\ Answered([s EXCEPT !.st = "sent", !.transport = TRUE])
        BY <1>2, <3>1 DEF CallRecords, Answered
      <3> HIDE DEF s
      <3> QED BY <2>1, <2>2, <3>2 DEF Set
    <2>3. CASE \E r \in Results : Set(c, Delivered(s, r))
      <3> HIDE DEF s
      <3> QED BY <1>2, <2>3, DeliveredOnce DEF Set
    <2> HIDE DEF s
    <2> QED BY <1>3, <2>1, <2>2, <2>3 DEF Results
  <1>6. CASE CallReturns(c)
    <2>1. \E r \in Results : Set(c, Delivered(s, r))
      BY <1>3, <1>6 DEF CallReturns, Results, MustEnd
    <2> HIDE DEF s
    <2> QED BY <1>2, <2>1, DeliveredOnce DEF Set
  <1>7. CASE Deadline(c)
    <2>1. Set(c, Delivered(x, MustEnd(x))) /\ MustEnd(x) \in Results
      BY <1>7 DEF Deadline, MustEnd, Results
    <2> QED BY <1>1, <2>1, DeliveredOnce DEF Set
  <1>8. CASE Cancel(c)
    <2>1. [x EXCEPT !.cancelled = TRUE] \in CallRecords /\ Answered([x EXCEPT !.cancelled = TRUE])
      BY <1>1 DEF CallRecords, Answered
    <2> QED BY <1>8, <2>1 DEF Cancel, Set
  <1>9. CASE TimePasses(c)
    <2>1. [x EXCEPT !.over = TRUE] \in CallRecords /\ Answered([x EXCEPT !.over = TRUE])
      BY <1>1 DEF CallRecords, Answered
    <2> QED BY <1>9, <2>1 DEF TimePasses, Set
  <1> QED BY <1>4, <1>5, <1>6, <1>7, <1>8, <1>9 DEF CallStep

\* No other step touches a call.
LEMMA QuietCalls ==
  ASSUME [BackendNext]_backendVars, ~ \E c \in Calls : CallStep(c)
  PROVE  UNCHANGED call
  BY DEF BackendNext, backendVars, StartBackend, AuthorityReady,
     AuthorityChanged, CheckAnswered, RetryAuthorization, StopBackend,
     PolicyChanges, Decide, Answer

\* Every step keeps the calls answered once.
LEMMA CallsStep ==
  ASSUME BackendInv, [BackendNext]_backendVars
  PROVE  call' \in [Calls -> CallRecords] /\ AnsweredOnce'
  <1>1. call \in [Calls -> CallRecords] /\ \A c \in Calls : Answered(call[c])
    BY DEF BackendInv, BackendTypeOK, AnsweredOnce, CallRecords, Answered
  <1>2. call' \in [Calls -> CallRecords] /\ \A c \in Calls : Answered(call'[c])
    BY <1>1, CallEffect, QuietCalls
  <1> QED BY <1>2 DEF AnsweredOnce, Answered

\* What the backend knows of its authorization stays of its type.
LEMMA TypeStep ==
  ASSUME BackendInv, [BackendNext]_backendVars
  PROVE  BackendTypeOK'
  <1>0. call' \in [Calls -> CallRecords]
    BY CallsStep
  <1> DEFINE A == /\ phase' \in {"new", "running", "stopped"}
                  /\ auth' \in [authority : {"none", "getting", "ready"}, check : BOOLEAN,
                                recheck : BOOLEAN, retry : BOOLEAN, told : BOOLEAN]
                  /\ asked' \in {"none", "asked", "yes", "no", "sent"}
  <1> SUFFICES A
    BY <1>0 DEF BackendTypeOK, CallRecords
  <1> USE DEF BackendInv, BackendTypeOK, CheckIsTracked, Messages
  <1>1. CASE StartBackend
    BY <1>1 DEF StartBackend
  <1>2. CASE AuthorityReady
    BY <1>2 DEF AuthorityReady, Checked, CanCheck,
       Invalidated, Told, WithRetry, Finished, Ask
  <1>3. CASE AuthorityChanged
    BY <1>3 DEF AuthorityChanged, Checked, CanCheck,
       Invalidated, Told, WithRetry, Finished, Ask
  <1>4. CASE CheckAnswered
    BY <1>4 DEF CheckAnswered, Checked, CanCheck, Invalidated,
       Told, WithRetry, Finished, Ask
  <1>5. CASE RetryAuthorization
    BY <1>5 DEF RetryAuthorization, Checked, CanCheck, Invalidated,
       Told, WithRetry, Finished, Ask
  <1>6. CASE StopBackend
    BY <1>6 DEF StopBackend
  <1>7. CASE PolicyChanges
    BY <1>7 DEF PolicyChanges
  <1>8. CASE Decide
    BY <1>8 DEF Decide
  <1>9. CASE Answer
    BY <1>9 DEF Answer
  <1>10. CASE \E c \in Calls : Execute(c)
    BY <1>10 DEF Execute
  <1>11. CASE \E c \in Calls : BusReady(c)
    BY <1>11 DEF BusReady
  <1>12. CASE \E c \in Calls : CallReturns(c)
    <2>1. phase' = phase /\ auth' \in {auth, Invalidated(auth)} /\ asked' \in {asked, "asked"}
      BY <1>12 DEF CallReturns, Ask
    <2> QED BY <2>1 DEF Invalidated, Checked, CanCheck, Told
  <1>13. CASE \E c \in Calls : Deadline(c)
    BY <1>13 DEF Deadline
  <1>14. CASE \E c \in Calls : Cancel(c)
    BY <1>14 DEF Cancel
  <1>15. CASE \E c \in Calls : TimePasses(c)
    BY <1>15 DEF TimePasses
  <1>16. CASE UNCHANGED backendVars
    BY <1>16 DEF backendVars
  <1> QED BY <1>1, <1>2, <1>3, <1>4, <1>5, <1>6, <1>7, <1>8, <1>9, <1>10, <1>11, <1>12, <1>13,
     <1>14, <1>15, <1>16 DEF BackendNext, CallStep

\* Whoever asks polkitd has subscribed to its changes.
LEMMA SubscribedStep ==
  ASSUME BackendInv, [BackendNext]_backendVars
  PROVE  SubscribedFirst'
  <1> USE DEF BackendInv, BackendTypeOK, CheckIsTracked, SubscribedFirst,
     IsRunning
  <1>1. CASE StartBackend
    BY <1>1 DEF StartBackend
  <1>2. CASE AuthorityReady
    BY <1>2 DEF AuthorityReady, Checked, CanCheck,
       Invalidated, Told, WithRetry, Finished, Ask
  <1>3. CASE AuthorityChanged
    BY <1>3 DEF AuthorityChanged, Checked, CanCheck,
       Invalidated, Told, WithRetry, Finished, Ask
  <1>4. CASE CheckAnswered
    BY <1>4 DEF CheckAnswered, Checked, CanCheck, Invalidated,
       Told, WithRetry, Finished, Ask
  <1>5. CASE RetryAuthorization
    BY <1>5 DEF RetryAuthorization, Checked, CanCheck, Invalidated,
       Told, WithRetry, Finished, Ask
  <1>6. CASE StopBackend
    BY <1>6 DEF StopBackend
  <1>7. CASE PolicyChanges
    BY <1>7 DEF PolicyChanges
  <1>8. CASE Decide
    BY <1>8 DEF Decide
  <1>9. CASE Answer
    BY <1>9 DEF Answer
  <1>10. CASE \E c \in Calls : Execute(c)
    BY <1>10 DEF Execute
  <1>11. CASE \E c \in Calls : BusReady(c)
    BY <1>11 DEF BusReady
  <1>12. CASE \E c \in Calls : CallReturns(c)
    <2>1. phase' = phase /\ auth' \in {auth, Invalidated(auth)} /\ asked' \in {asked, "asked"}
      BY <1>12 DEF CallReturns, Ask
    <2> QED BY <2>1 DEF Invalidated, Checked, CanCheck, Told
  <1>13. CASE \E c \in Calls : Deadline(c)
    BY <1>13 DEF Deadline
  <1>14. CASE \E c \in Calls : Cancel(c)
    BY <1>14 DEF Cancel
  <1>15. CASE \E c \in Calls : TimePasses(c)
    BY <1>15 DEF TimePasses
  <1>16. CASE UNCHANGED backendVars
    BY <1>16 DEF backendVars
  <1> QED BY <1>1, <1>2, <1>3, <1>4, <1>5, <1>6, <1>7, <1>8, <1>9, <1>10, <1>11, <1>12, <1>13,
     <1>14, <1>15, <1>16 DEF BackendNext, CallStep

\* polkitd holds one check at most, or its answer is in the inbox.
LEMMA CheckStep ==
  ASSUME BackendInv, [BackendNext]_backendVars
  PROVE  CheckIsTracked'
  <1> USE DEF BackendInv, BackendTypeOK, CheckIsTracked, SubscribedFirst,
     IsRunning, Messages
  <1>1. CASE StartBackend
    BY <1>1 DEF StartBackend
  <1>2. CASE AuthorityReady
    BY <1>2 DEF AuthorityReady, Checked, CanCheck,
       Invalidated, Told, WithRetry, Ask
  <1>3. CASE AuthorityChanged
    <2>1. /\ inbox' \in Seq(Messages) /\ Head(inbox) = inbox[1] /\ 1 \in 1 .. Len(inbox)
          /\ \A k \in 1 .. Len(inbox') : k \in Nat /\ k + 1 # 1 /\ k + 1 \in 1 .. Len(inbox) /\ inbox'[k] = inbox[k + 1]
      <3>1. inbox \in Seq(Messages) /\ inbox # <<>> /\ inbox' = Tail(inbox)
        BY <1>3 DEF AuthorityChanged
      <3> QED BY <3>1, TailFacts
    <2>2. asked' \in {asked, "asked"} /\ (auth'.check <=> asked' # "none")
          /\ (auth'.recheck => IsRunning' /\ auth'.check)
          /\ (asked = "sent" => asked' = "sent")
      BY <1>3 DEF AuthorityChanged, Checked, CanCheck,
         Invalidated, Told, Ask
    <2>3. \A k, m \in 1 .. Len(inbox') : k + 1 = m + 1 => k = m
      BY <2>1
    <2>4. \A k \in 1 .. Len(inbox') : inbox'[k] # "changed" => asked' = "sent"
      BY <2>1, <2>2
    <2>5. \A k, m \in 1 .. Len(inbox') : inbox'[k] # "changed" /\ inbox'[m] # "changed" => k = m
      BY <2>1, <2>3
    <2> QED BY <2>1, <2>2, <2>4, <2>5
  <1>4. CASE CheckAnswered
    <2>1. /\ inbox' \in Seq(Messages) /\ Head(inbox) = inbox[1] /\ 1 \in 1 .. Len(inbox)
          /\ \A k \in 1 .. Len(inbox') : k \in Nat /\ k + 1 # 1 /\ k + 1 \in 1 .. Len(inbox) /\ inbox'[k] = inbox[k + 1]
      <3>1. inbox \in Seq(Messages) /\ inbox # <<>> /\ inbox' = Tail(inbox)
        BY <1>4 DEF CheckAnswered
      <3> QED BY <3>1, TailFacts
    <2>2. Head(inbox) # "changed"
      BY <1>4 DEF CheckAnswered
    <2>3. \A k \in 1 .. Len(inbox') : inbox'[k] = "changed"
      BY <2>1, <2>2
    <2>4. /\ auth'.check <=> asked' # "none"
          /\ auth'.recheck => IsRunning' /\ auth'.check
      BY <1>4 DEF CheckAnswered, Checked, CanCheck, Told,
         Finished, WithRetry
    <2> QED BY <2>1, <2>3, <2>4
  <1>5. CASE RetryAuthorization
    BY <1>5 DEF RetryAuthorization, Checked, CanCheck, Invalidated,
       Told, WithRetry, Ask
  <1>6. CASE StopBackend
    BY <1>6 DEF StopBackend
  <1>7. CASE PolicyChanges
    <2>1. CASE inbox' = inbox
      BY <1>7, <2>1 DEF PolicyChanges
    <2>2. CASE inbox' = Append(inbox, "changed")
      <3>1. /\ inbox' \in Seq(Messages) /\ inbox'[Len(inbox) + 1] = "changed"
            /\ \A k \in 1 .. Len(inbox) : inbox'[k] = inbox[k]
            /\ \A k \in 1 .. Len(inbox') : k \in 1 .. Len(inbox) \/ k = Len(inbox) + 1
        BY <2>2, AppendFacts
      <3> QED BY <1>7, <3>1 DEF PolicyChanges
    <2> QED BY <1>7, <2>1, <2>2 DEF PolicyChanges
  <1>8. CASE Decide
    BY <1>8 DEF Decide
  <1>9. CASE Answer
    <2>1. PICK m \in {"yes", "no", "error"} : inbox' = Append(inbox, m)
      BY <1>9 DEF Answer
    <2>2. /\ inbox' \in Seq(Messages)
          /\ \A k \in 1 .. Len(inbox) : inbox'[k] = inbox[k]
          /\ \A k \in 1 .. Len(inbox') : k \in 1 .. Len(inbox) \/ k = Len(inbox) + 1
      BY <2>1, AppendFacts
    <2>3. \A k \in 1 .. Len(inbox) : inbox[k] = "changed"
      BY <1>9 DEF Answer
    <2> QED BY <1>9, <2>2, <2>3 DEF Answer
  <1>10. CASE \E c \in Calls : Execute(c)
    BY <1>10 DEF Execute
  <1>11. CASE \E c \in Calls : BusReady(c)
    BY <1>11 DEF BusReady
  <1>12. CASE \E c \in Calls : CallReturns(c)
    <2>1. /\ UNCHANGED <<phase, inbox>>
          /\ UNCHANGED <<auth, asked>> \/ (auth' = Invalidated(auth) /\ Ask(auth))
      BY <1>12 DEF CallReturns
    <2>2. (auth'.check <=> asked' # "none") /\ (auth'.recheck => IsRunning /\ auth'.check)
          /\ (asked = "sent" => asked' = "sent")
      BY <1>12, <2>1 DEF CallReturns, Checked, CanCheck,
         Invalidated, Told, Ask, MustEnd
    <2> QED BY <2>1, <2>2
  <1>13. CASE \E c \in Calls : Deadline(c)
    BY <1>13 DEF Deadline
  <1>14. CASE \E c \in Calls : Cancel(c)
    BY <1>14 DEF Cancel
  <1>15. CASE \E c \in Calls : TimePasses(c)
    BY <1>15 DEF TimePasses
  <1>16. CASE UNCHANGED backendVars
    BY <1>16 DEF backendVars
  <1> QED BY <1>1, <1>2, <1>3, <1>4, <1>5, <1>6, <1>7, <1>8, <1>9, <1>10, <1>11, <1>12, <1>13,
     <1>14, <1>15, <1>16 DEF BackendNext, CallStep

\* An answer that a change has overtaken is never believed.
LEMMA CurrentStep ==
  ASSUME BackendInv, [BackendNext]_backendVars
  PROVE  AnswersAreCurrent'
  <1> USE DEF BackendInv, BackendTypeOK, CheckIsTracked, SubscribedFirst,
     AnswersAreCurrent, WordIsComing, IsRunning, Messages
  <1>1. CASE StartBackend
    BY <1>1 DEF StartBackend
  <1>2. CASE AuthorityReady
    BY <1>2 DEF AuthorityReady, Checked, CanCheck,
       Invalidated, Told, WithRetry, Ask
  <1>3. CASE AuthorityChanged
    <2>1. /\ inbox' \in Seq(Messages) /\ Head(inbox) = inbox[1] /\ 1 \in 1 .. Len(inbox)
          /\ \A k \in 1 .. Len(inbox') : k \in Nat /\ k + 1 # 1 /\ k + 1 \in 1 .. Len(inbox) /\ inbox'[k] = inbox[k + 1]
      <3>1. inbox \in Seq(Messages) /\ inbox # <<>> /\ inbox' = Tail(inbox)
        BY <1>3 DEF AuthorityChanged
      <3> QED BY <3>1, TailFacts
    <2>2. ~auth'.told /\ (asked' = "yes" => asked = "yes") /\ UNCHANGED granted
          /\ (auth.check => auth'.recheck) /\ (asked' = "yes" => auth.check)
      BY <1>3 DEF AuthorityChanged, Checked, CanCheck,
         Invalidated, Told, Ask
    <2>3. (\E k \in 1 .. Len(inbox') : inbox'[k] = "yes") => auth.check
      BY <2>1
    <2> QED BY <2>2, <2>3
  <1>4. CASE CheckAnswered
    <2>1. /\ inbox' \in Seq(Messages) /\ Head(inbox) = inbox[1] /\ 1 \in 1 .. Len(inbox)
          /\ \A k \in 1 .. Len(inbox') : k \in Nat /\ k + 1 # 1 /\ k + 1 \in 1 .. Len(inbox) /\ inbox'[k] = inbox[k + 1]
      <3>1. inbox \in Seq(Messages) /\ inbox # <<>> /\ inbox' = Tail(inbox)
        BY <1>4 DEF CheckAnswered
      <3> QED BY <3>1, TailFacts
    <2>2. Head(inbox) # "changed" /\ UNCHANGED <<granted, phase>> /\ asked' # "yes"
      BY <1>4 DEF CheckAnswered
    <2>3. \A k \in 1 .. Len(inbox') : inbox'[k] = "changed"
      BY <2>1, <2>2
    <2>4. ASSUME IsRunning, auth'.told PROVE granted \/ \E k \in 1 .. Len(inbox') : inbox'[k] = "changed"
      <3>1. ~auth.recheck /\ inbox[1] = "yes"
        BY <1>4, <2>1, <2>4 DEF CheckAnswered, Checked, CanCheck,
           Told, Finished, WithRetry
      <3>2. granted \/ \E k \in 1 .. Len(inbox) : inbox[k] = "changed"
        BY <2>1, <2>4, <3>1
      <3>3. ASSUME NEW k \in 1 .. Len(inbox), inbox[k] = "changed"
            PROVE  \E m \in 1 .. Len(inbox') : inbox'[m] = "changed"
        <4>1. k - 1 \in 1 .. Len(inbox') /\ inbox'[k - 1] = inbox[k]
          BY <1>4, <2>1, <3>1, <3>3, TailFacts DEF CheckAnswered
        <4> QED BY <3>3, <4>1
      <3> QED BY <3>2, <3>3
    <2> QED BY <2>2, <2>3, <2>4
  <1>5. CASE RetryAuthorization
    BY <1>5 DEF RetryAuthorization, Checked, CanCheck, Invalidated,
       Told, WithRetry, Ask
  <1>6. CASE StopBackend
    BY <1>6 DEF StopBackend
  <1>7. CASE PolicyChanges
    <2>1. UNCHANGED <<auth, phase, asked>>
      BY <1>7 DEF PolicyChanges
    <2>2. CASE inbox' = Append(inbox, "changed")
      <3>1. Len(inbox) + 1 \in 1 .. Len(inbox') /\ inbox'[Len(inbox) + 1] = "changed"
        BY <2>2, AppendFacts
      <3> QED BY <2>1, <3>1
    <2>3. CASE auth.authority # "ready"
      <3>1. IsRunning => ~auth.told /\ asked = "none" /\ \A k \in 1 .. Len(inbox) : inbox[k] # "yes"
        BY <2>3
      <3> QED BY <1>7, <2>1, <2>3, <3>1 DEF PolicyChanges
    <2> QED BY <1>7, <2>2, <2>3 DEF PolicyChanges
  <1>8. CASE Decide
    BY <1>8 DEF Decide
  <1>9. CASE Answer
    <2>1. PICK m \in {"yes", "no", "error"} : inbox' = Append(inbox, m) /\ (m = "yes" => asked = "yes")
      BY <1>9 DEF Answer
    <2>2. /\ \A k \in 1 .. Len(inbox) : k \in 1 .. Len(inbox') /\ inbox'[k] = inbox[k]
          /\ \A k \in 1 .. Len(inbox') : k \in 1 .. Len(inbox) \/ k = Len(inbox) + 1
          /\ inbox'[Len(inbox) + 1] = m
      BY <2>1, AppendFacts
    <2>3. UNCHANGED <<auth, phase, granted>> /\ asked' = "sent"
      BY <1>9 DEF Answer
    <2>4. WordIsComing => WordIsComing'
      BY <2>2, <2>3
    <2>5. (\E k \in 1 .. Len(inbox') : inbox'[k] = "yes") => asked = "yes" \/ \E k \in 1 .. Len(inbox) : inbox[k] = "yes"
      BY <2>1, <2>2
    <2> QED BY <2>3, <2>4, <2>5
  <1>10. CASE \E c \in Calls : Execute(c)
    BY <1>10 DEF Execute
  <1>11. CASE \E c \in Calls : BusReady(c)
    BY <1>11 DEF BusReady
  <1>12. CASE \E c \in Calls : CallReturns(c)
    BY <1>12 DEF CallReturns, Checked, CanCheck, Invalidated,
       Told, WithRetry, Ask
  <1>13. CASE \E c \in Calls : Deadline(c)
    BY <1>13 DEF Deadline
  <1>14. CASE \E c \in Calls : Cancel(c)
    BY <1>14 DEF Cancel
  <1>15. CASE \E c \in Calls : TimePasses(c)
    BY <1>15 DEF TimePasses
  <1>16. CASE UNCHANGED backendVars
    BY <1>16 DEF backendVars
  <1> QED BY <1>1, <1>2, <1>3, <1>4, <1>5, <1>6, <1>7, <1>8, <1>9, <1>10, <1>11, <1>12, <1>13,
     <1>14, <1>15, <1>16 DEF BackendNext, CallStep

-----------------------------------------------------------------------------
(* Theorems.                                                               *)

\* A backend that was never started satisfies the invariant.
LEMMA BackendInitHolds == BackendInit => BackendInv
  BY DEF BackendInit, BackendInv, BackendTypeOK, AnsweredOnce,
     CheckIsTracked, SubscribedFirst, AnswersAreCurrent,
     IsRunning, NewCall, Results, Messages

\* What the backend knows of its authorization and of its calls hangs together,
\* whatever polkitd, the bus and the callers do and in whatever order.
THEOREM BackendInvariantHolds == BackendSpec => []BackendInv
  <1>1. BackendInv /\ [BackendNext]_backendVars => BackendInv'
    BY TypeStep, CallsStep, CheckStep, SubscribedStep, CurrentStep DEF BackendInv
  <1> QED BY <1>1, BackendInitHolds, PTL DEF BackendSpec

\* The sidebar believes itself authorized only while the policy says so or word of
\* the change is on its way, and a call's callback runs once: an answer that was
\* decided before a change is not believed after it (finish_authorization_check,
\* deliver_result).
THEOREM AnswersStaySound == BackendSpec => []AnswersAreSound
  <1>1. BackendInv => AnswersAreSound
    BY DEF BackendInv, AnswersAreSound, BeliefIsCurrent,
       AnswersAreCurrent, WordIsComing, IsRunning
  <1> QED BY <1>1, BackendInvariantHolds, PTL

\* Once the backend has stopped, or the caller has cancelled, the callback reports a
\* cancellation and nothing else (backend_call_remaining).
THEOREM StopSilencesAnswers == BackendSpec => NoAnswerAfterStop
  <1> DEFINE A == \A c \in Calls :
                    call'[c].callbacks # call[c].callbacks /\ (phase = "stopped" \/ call[c].cancelled)
                      => call'[c].result = "cancelled"
  <1>1. ASSUME BackendInv, NEW c \in Calls, CallStep(c),
               call'[c].callbacks # call[c].callbacks, phase = "stopped" \/ call[c].cancelled
        PROVE  call'[c].result = "cancelled"
    <2> DEFINE x == [call[c] EXCEPT !.transport = FALSE]
    <2>1. /\ call[c] \in CallRecords /\ Answered(call[c])
          /\ x \in CallRecords /\ Answered(x)
          /\ x.callbacks = call[c].callbacks /\ x.st = call[c].st
          /\ x.cancelled = call[c].cancelled
      BY <1>1, ZenonT(30) DEF BackendInv, BackendTypeOK, AnsweredOnce, CallRecords, Answered
    <2>2. ASSUME NEW y \in CallRecords, y.callbacks = call[c].callbacks, NEW r \in Results,
                 call' = [call EXCEPT ![c] = Delivered(y, r)]
          PROVE  call'[c].result = r
      BY <1>1, <2>2 DEF BackendInv, BackendTypeOK, Delivered, CallRecords
    <2>3. ASSUME NEW y \in CallRecords, y.st # "done", y.cancelled = call[c].cancelled
          PROVE  MustEnd(y) = "cancelled"
      BY <1>1, <2>3 DEF MustEnd, IsRunning
    <2>4. "cancelled" \in Results
      BY DEF Results
    <2>5. CASE Execute(c)
      BY <1>1, <2>1, <2>2, <2>4, <2>5 DEF Execute, Set, BackendInv,
         BackendTypeOK
    <2>6. CASE BusReady(c)
      <3>1. x.st = "done" => MustEnd(x) = "done"
        BY DEF MustEnd
      <3> HIDE DEF x
      <3>2. call' = [call EXCEPT ![c] = Delivered(x, "cancelled")]
        BY <2>1, <2>3, <2>6, <3>1 DEF BusReady, Set, x
      <3> QED BY <2>1, <2>2, <2>4, <3>2
    <2>7. CASE CallReturns(c)
      <3>1. MustEnd(x) = "cancelled"
        BY <2>1, <2>3, <2>7 DEF CallReturns
      <3>2. call' = [call EXCEPT ![c] = Delivered(x, "cancelled")]
        BY <2>7, <3>1 DEF CallReturns, Set
      <3> HIDE DEF x
      <3> QED BY <2>1, <2>2, <2>4, <3>2
    <2>8. CASE Deadline(c)
      BY <2>1, <2>2, <2>3, <2>4, <2>8 DEF Deadline, Set
    <2>9. CASE Cancel(c) \/ TimePasses(c)
      BY <1>1, <2>9 DEF Cancel, TimePasses, Set, BackendInv,
         BackendTypeOK
    <2> QED BY <1>1, <2>5, <2>6, <2>7, <2>8, <2>9 DEF CallStep
  <1>2. BackendInv /\ [BackendNext]_backendVars => [A]_backendVars
    <2>1. ASSUME BackendInv, NEW c \in Calls, CallStep(c), NEW d \in Calls, d # c
          PROVE  call'[d] = call[d]
      BY <2>1 DEF CallStep, Execute, BusReady, CallReturns,
         Deadline, Cancel, TimePasses, Set, BackendInv,
         BackendTypeOK
    <2> QED BY <1>1, <2>1, QuietCalls
  <1> QED BY <1>2, BackendInvariantHolds, PTL DEF BackendSpec, NoAnswerAfterStop
=============================================================================
