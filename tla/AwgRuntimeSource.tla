-------------------------- MODULE AwgRuntimeSource --------------------------
(***************************************************************************)
(* The sidebar's cached view of the runtime directory and of the network   *)
(* links (amneziawg/runtime_source.c): a file monitor, a netlink socket, a *)
(* worker thread that scans, and a cache that is fresh as long as nothing  *)
(* has been noticed.                                                       *)
(*                                                                         *)
(* A link event names one profile; which events may be ignored is          *)
(* AwgLinks' subject.  A purpose is 1 when the user sees the refresh and   *)
(* 0 when not.  Only whether the generation of the running scan is still   *)
(* the current one is kept of the generations.  Every action is one        *)
(* callback of the main loop, one call of the controller, one step of the  *)
(* worker, or one change of the world.                                     *)
(***************************************************************************)
EXTENDS Naturals, FiniteSets

CONSTANTS Names,       \* valid profile names
          MaxNames,    \* AWG_RUNTIME_MAX_NAMES
          MaxChanges,  \* bound on the changes of the world and the failing calls
          MaxCalls,    \* bound on the calls of the controller
          MaxFaults    \* bound on failing system calls

ASSUME NamesAssumption == IsFiniteSet(Names)
ASSUME MaxNamesAssumption == MaxNames \in Nat \ {0}
ASSUME BoundsAssumption == MaxChanges \in Nat /\ MaxCalls \in Nat /\ MaxFaults \in Nat

VARIABLES
  src,      \* the fields of the source that are flags, timers and purposes
  mon,      \* the file monitor: its level, what it has to report, whether it died,
            \* whether a directory further down could not be watched
  lnk,      \* the netlink socket: open, and the events in it
  names,    \* the saved profiles
  records,  \* [Names -> state], "none" where there is no record
  filter,   \* names whose link events matter
  scan,     \* the scan in the worker thread or on its way back
  depth,    \* 0: the runtime directory exists, 1: its parent, 2: the ancestor
  late,     \* the depth at the start of the current callback
  marker,   \* profiles with a marker in the runtime directory
  link,     \* profiles whose name a link has
  changes, calls, faults

source == <<src, mon, lnk, names, records, filter, scan>>
world  == <<depth, late, marker, link>>
vars   == <<source, world, changes, calls, faults>>

Levels == 0 .. 2
NoMonitor == [level |-> 3, event |-> {}, dead |-> FALSE, failed |-> FALSE]
NoLink    == [on |-> FALSE, queue |-> {}]
NoScan    == [pc |-> "none", ask |-> {}, seen |-> {}, links |-> {}, complete |-> TRUE,
              found |-> [n \in Names |-> "none"], current |-> FALSE]

Flags ==
  [phase : {"new", "running", "stopped"}, enabled : BOOLEAN, fresh : BOOLEAN,
   pending : BOOLEAN, running : BOOLEAN, queued : BOOLEAN, timer : BOOLEAN,
   retry : BOOLEAN, qp : 0 .. 1, sp : 0 .. 1, rp : 0 .. 1, mutation : BOOLEAN,
   recon : BOOLEAN, shown : BOOLEAN \X BOOLEAN]

Init ==
  /\ src = [phase |-> "new", enabled |-> FALSE, fresh |-> FALSE, pending |-> FALSE,
            running |-> FALSE, queued |-> FALSE, timer |-> FALSE, retry |-> FALSE,
            qp |-> 0, sp |-> 0, rp |-> 0, mutation |-> FALSE, recon |-> FALSE,
            shown |-> <<FALSE, FALSE>>]
  /\ mon = NoMonitor /\ lnk = NoLink /\ names = {} /\ filter = Names
  /\ records = [n \in Names |-> "none"] /\ scan = NoScan
  /\ depth \in Levels /\ late = depth /\ marker = {} /\ link \in SUBSET Names
  /\ changes = 0 /\ calls = 0 /\ faults = 0

-----------------------------------------------------------------------------
(* The source.                                                             *)

Max(a, b) == IF a < b THEN b ELSE a

Running(s) == s.phase = "running"
Active(s)  == Running(s) /\ s.enabled

\* network_sidebar_awg_runtime_source_is_checking and _is_loading.
Checking(s) == Active(s) /\ (s.timer \/ s.running)
Loading(s)  == Checking(s) /\ ((s.running /\ s.sp = 1) \/ (s.pending /\ s.qp = 1))

\* What the controller decides on: runtime_source_changed, rebuild_entries.
View(s) == <<s.fresh, Checking(s)>>

\* notify_changed: the controller rebuilds its rows.
Notify(s, p) == IF p /\ Running(s) THEN [s EXCEPT !.shown = View(s)] ELSE s

AutomaticPurpose(s) == IF s.mutation \/ s.recon THEN 0 ELSE 1

\* queue_scan and invalidate_records; Outdated is the new generation.
QueueScan(s, p) ==
  [s EXCEPT !.recon = p = 0, !.pending = TRUE,
            !.qp = Max(@, IF s.running THEN Max(p, s.sp) ELSE p)]
Invalidate(s, p) == [QueueScan(s, p) EXCEPT !.fresh = FALSE]
Outdated(x) == [x EXCEPT !.current = FALSE]
AfterQueue(x) == IF src.pending THEN x ELSE Outdated(x)

\* Mutant: not while a scan runs.
ScheduleRefresh_Idle(s) == IF Active(s) /\ ~s.running THEN [s EXCEPT !.timer = TRUE] ELSE s

ScheduleRefresh(s) == IF Active(s) THEN [s EXCEPT !.timer = TRUE] ELSE s

\* Mutant: no retry.
ScheduleRetry_Never(s, p) == s

\* schedule_retry.
ScheduleRetry(s, p) ==
  IF Active(s) THEN [s EXCEPT !.rp = Max(@, p), !.retry = TRUE] ELSE s

ClearRetry(s) == [s EXCEPT !.retry = FALSE, !.rp = 0]

Fault(p) ==
  IF p THEN faults < MaxFaults /\ changes + faults < MaxChanges /\ faults' = faults + 1
       ELSE UNCHANGED faults

\* ensure_file_monitor: the first of the three directories that can be watched,
\* unless a monitor watches that one or one before it.  A directory may be
\* created while the function looks for it, or be there and not be watched.
FileMonitors(fails) ==
  {[IF mon.level <= l THEN mon ELSE [NoMonitor EXCEPT !.level = l] EXCEPT !.failed = fails] :
     l \in IF fails THEN late + 1 .. 3 ELSE depth .. late}

\* ensure_link_monitor.
LinkMonitor(fails) ==
  IF lnk.on \/ fails THEN lnk ELSE [on |-> TRUE, queue |-> {}]

\* ensure_monitors.
EnsureMonitors(fileFails, linkFails) ==
  /\ fileFails => late < mon.level
  /\ mon' \in FileMonitors(fileFails)
  /\ lnk' = LinkMonitor(linkFails)
  /\ Fault(fileFails \/ linkFails)
MonitorsChanged == mon'.level # mon.level \/ lnk'.on # lnk.on
MonitorsReady   == mon'.level # 3 /\ lnk'.on

IdentifiesSession(n) == records[n] \notin {"none", "inactive"}

\* start_scan after ensure_monitors: s as it is then, r the records.
StartScan(s) ==
  LET bad == MonitorsChanged \/ ~MonitorsReady
      s1  == IF bad THEN Notify(Invalidate(s, s.qp), s.fresh) ELSE s
  IN [s1 EXCEPT !.pending = FALSE, !.queued = FALSE, !.running = TRUE,
                !.sp = s1.qp, !.qp = 0]

\* Mutant: known sessions are not asked about.
NewScan_Forgets(r) == [NoScan EXCEPT !.pc = "read", !.current = TRUE, !.ask = names]

NewScan(r) ==
  [NoScan EXCEPT !.pc = "read", !.current = TRUE,
                 !.seen = {n \in Names : r[n] \notin {"none", "inactive"}}, !.ask = names]

\* network_sidebar_awg_runtime_source_dup_cached_records and _get_cached.
Cached(n) == IF src.fresh THEN records[n]
             ELSE IF IdentifiesSession(n) THEN "unknown" ELSE "none"

\* Every callback and call sees the world as it is when it starts.
Looks == late' = depth /\ UNCHANGED <<depth, marker, link>>

\* network_sidebar_awg_runtime_source_request_refresh.
RequestRefresh(s, p) ==
  LET t == ScheduleRefresh(Invalidate(ClearRetry(s), p))
  IN IF Active(s)
     THEN Notify(t, s.fresh \/ ~Checking(s) \/ Loading(s) # Loading(t))
     ELSE s

\* scheduled_refresh_cb.
Scheduled ==
  /\ src.timer /\ Looks
  /\ IF src.running \/ ~src.pending
       THEN /\ src' = [src EXCEPT !.queued = @ \/ src.running, !.timer = FALSE]
            /\ UNCHANGED <<mon, lnk, scan, faults>>
       ELSE /\ \E ff, lf \in BOOLEAN : EnsureMonitors(ff, lf)
            /\ src' = [StartScan(src) EXCEPT !.timer = FALSE]
            /\ scan' = NewScan(records)
  /\ UNCHANGED <<names, records, filter, changes, calls>>

\* retry_cb.
Retry ==
  /\ src.retry /\ Looks
  /\ src' = RequestRefresh([src EXCEPT !.retry = FALSE, !.rp = 0], src.rp)
  /\ scan' = AfterQueue(scan)
  /\ UNCHANGED <<mon, lnk, names, records, filter, changes, calls, faults>>

-----------------------------------------------------------------------------
(* The worker thread: scan_runtime.                                        *)

\* network_sidebar_amneziawg_runtime_state_classify.
State(m, l) == IF m THEN (IF l THEN "active" ELSE "recoverable")
               ELSE IF l THEN "conflict" ELSE "inactive"
Truth(n) == State(n \in marker, n \in link)

\* Mutant: no limit.
Candidates_Unlimited(all) == {S \in SUBSET all : scan.seen \subseteq S}

\* The names that may be looked at: known sessions always, others up to the limit.
Candidates(all) == {S \in SUBSET all : scan.seen \subseteq S /\ Cardinality(S) <= MaxNames}

\* Names to look at: known sessions, then profiles, then the directory, up to
\* the limit; and the links.
ScanNames ==
  /\ scan.pc = "read"
  /\ LET all == scan.seen \cup scan.ask \cup marker
     IN \E S \in Candidates(all), fails \in BOOLEAN :
          /\ S = all \/ Cardinality(S) = MaxNames \/ fails
          /\ Fault(fails)
          /\ scan' = [scan EXCEPT !.pc = "markers", !.ask = S, !.links = link,
                                  !.complete = S = all /\ ~fails]
  /\ UNCHANGED <<src, mon, lnk, names, records, filter, world, changes, calls>>

\* The markers of these names; without the links nothing is known of any.
ScanMarkers ==
  /\ scan.pc = "markers"
  /\ \E unread \in {{}, scan.ask} \cup {{n} : n \in scan.ask} :
       /\ Fault(unread # {})
       /\ scan' = [scan EXCEPT !.pc = "done", !.complete = @ /\ unread = {},
            !.found = [n \in Names |->
                IF n \notin scan.ask THEN "none"
                ELSE IF n \in unread THEN "unknown"
                ELSE State(n \in marker, n \in scan.links)]]
  /\ UNCHANGED <<src, mon, lnk, names, records, filter, world, changes, calls>>

\* scan_complete_cb.
ScanComplete ==
  /\ scan.pc = "done" /\ Looks
  /\ IF Active(src) THEN scan' = [scan EXCEPT !.pc = "publish"] /\ UNCHANGED src
     ELSE scan' = NoScan /\ src' = [src EXCEPT !.running = FALSE, !.sp = 0]
  /\ UNCHANGED <<mon, lnk, names, records, filter, changes, calls, faults>>

\* reconcile_scan_records: an incomplete scan says nothing about a known session
\* that it did not see.
Reconciled ==
  [n \in Names |->
     IF scan.complete \/ scan.found[n] # "none" THEN scan.found[n]
     ELSE IF IdentifiesSession(n) THEN "unknown" ELSE "none"]

\* Mutant: a scan is published whatever happened since it started.
Acceptable_Always(s) == MonitorsReady

\* publish_scan_cb: only a scan that nothing has overtaken is published.
Acceptable(s) == MonitorsReady /\ scan.current /\ ~s.pending

\* publish_scan_cb.
PublishActive ==
  /\ scan.pc = "publish" /\ Active(src) /\ Looks
  /\ \E ff, lf \in BOOLEAN : EnsureMonitors(ff, lf)
  /\ LET p   == src.sp
         bad == MonitorsChanged \/ ~MonitorsReady
         s0  == [src EXCEPT !.running = FALSE]
         s1  == IF bad THEN [Invalidate(s0, p) EXCEPT !.queued = @ \/ MonitorsChanged] ELSE s0
         ok  == Acceptable(s1)
         s2  == IF ~ok THEN s1
                ELSE IF scan.complete THEN [ClearRetry(s1) EXCEPT !.fresh = TRUE]
                ELSE ScheduleRetry([s1 EXCEPT !.fresh = TRUE], p)
         s3  == IF MonitorsReady THEN s2 ELSE ScheduleRetry(s2, p)
         s4  == [s3 EXCEPT !.queued = FALSE, !.sp = 0]
         go  == s3.pending /\ s3.queued
     IN /\ records' = IF ok THEN Reconciled ELSE records
        /\ filter' = IF ~ok THEN filter ELSE IF scan.complete THEN scan.ask ELSE Names
        /\ \/ /\ ~go
              /\ scan' = NoScan
              /\ src' = LET s5 == [s4 EXCEPT !.recon = @ /\ Checking(s4)]
                        IN Notify(s5, \/ ok \/ (bad /\ src.fresh)
                                      \/ Checking(s5) # Checking(src) \/ Loading(s5) # Loading(src))
           \/ /\ go
              /\ scan' = NewScan(records)
              /\ src' = LET s5 == [s4 EXCEPT !.pending = FALSE, !.running = TRUE,
                                             !.sp = s4.qp, !.qp = 0]
                        IN Notify(s5, (bad /\ src.fresh) \/ Loading(s5) # Loading(src))
  /\ UNCHANGED <<names, changes, calls>>

\* publish_scan_cb after the source was switched off.
PublishInactive ==
  /\ scan.pc = "publish" /\ ~Active(src) /\ Looks
  /\ scan' = NoScan
  /\ src' = [src EXCEPT !.running = FALSE, !.queued = FALSE, !.sp = 0, !.recon = FALSE]
  /\ UNCHANGED <<mon, lnk, names, records, filter, changes, calls, faults>>

-----------------------------------------------------------------------------
(* Notifications.                                                          *)

\* Mutant: the controller learns of it only with the result.
MonitorRefresh_Silent(s) ==
  LET t == ScheduleRefresh(Invalidate(ClearRetry(s), AutomaticPurpose(s)))
  IN Notify(t, ~Checking(s) /\ ~s.fresh)

\* schedule_monitor_refresh.
MonitorRefresh(s) ==
  LET t == ScheduleRefresh(Invalidate(ClearRetry(s), AutomaticPurpose(s)))
  IN Notify(t, s.fresh \/ ~Checking(s))

\* monitor_changed_cb: "clear" is the appearance of the awaited directory or the
\* end of the watched one.
MonitorChanged ==
  /\ Active(src) /\ Looks
  /\ \E e \in mon.event :
       mon' = IF e = "clear" THEN NoMonitor ELSE [mon EXCEPT !.event = @ \ {e}]
  /\ src' = MonitorRefresh(src)
  /\ scan' = AfterQueue(scan)
  /\ UNCHANGED <<lnk, names, records, filter, changes, calls, faults>>

\* link_monitor_cb: events that matter, or that it did not get to read.
MustRefresh(S) == ~src.fresh \/ S \cap filter # {} \/ S # lnk.queue

\* link_monitor_cb.  The drain is bounded: it may stop before the queue is empty.
LinkEvents ==
  /\ lnk.on /\ lnk.queue # {} /\ "error" \notin lnk.queue /\ Looks
  /\ \E S \in SUBSET lnk.queue \ {{}} :
       /\ lnk' = [lnk EXCEPT !.queue = @ \ S]
       /\ IF MustRefresh(S) /\ Active(src)
            THEN src' = MonitorRefresh(src) /\ scan' = AfterQueue(scan)
            ELSE UNCHANGED <<src, scan>>
  /\ UNCHANGED <<mon, names, records, filter, changes, calls, faults>>

\* link_monitor_cb when the socket fails, as it does when events were lost.
LinkFails ==
  /\ lnk.on /\ "error" \in lnk.queue /\ Active(src) /\ Looks
  /\ lnk' = NoLink
  /\ src' = MonitorRefresh(src)
  /\ scan' = AfterQueue(scan)
  /\ UNCHANGED <<mon, names, records, filter, changes, calls, faults>>

-----------------------------------------------------------------------------
(* The controller.                                                         *)

Call == calls < MaxCalls /\ calls' = calls + 1 /\ Looks

\* network_sidebar_awg_runtime_source_ensure_monitor on s.
EnsureMonitor(s) ==
  LET bad == MonitorsChanged \/ ~MonitorsReady
      p   == AutomaticPurpose(s)
      s1  == IF bad THEN Invalidate(s, p) ELSE s
      s2  == IF MonitorsChanged THEN ScheduleRefresh(s1) ELSE s1
      s3  == IF MonitorsReady THEN s2 ELSE ScheduleRetry(s2, AutomaticPurpose(s2))
  IN Notify(s3, (bad /\ s.fresh) \/ Checking(s) # Checking(s3))

CallEnsureMonitor ==
  /\ Call /\ Active(src)
  /\ \E ff, lf \in BOOLEAN : EnsureMonitors(ff, lf)
  /\ src' = EnsureMonitor(src)
  /\ scan' = IF MonitorsChanged \/ ~MonitorsReady THEN AfterQueue(scan) ELSE scan
  /\ UNCHANGED <<names, records, filter, changes>>

\* network_sidebar_awg_runtime_source_start; the source is not enabled yet.
Start ==
  /\ src.phase = "new" /\ Looks
  /\ src' = [src EXCEPT !.phase = "running"]
  /\ UNCHANGED <<mon, lnk, names, records, filter, scan, changes, calls, faults>>

\* network_sidebar_awg_runtime_source_set_monitor_enabled.
Enable ==
  /\ Call /\ Running(src) /\ ~src.enabled
  /\ \E ff, lf \in BOOLEAN : EnsureMonitors(ff, lf)
  /\ src' = RequestRefresh(EnsureMonitor([src EXCEPT !.enabled = TRUE]), 1)
  /\ scan' = Outdated(scan)
  /\ UNCHANGED <<names, records, filter, changes>>

Disable ==
  /\ Call /\ Active(src)
  /\ mon' = NoMonitor /\ lnk' = NoLink
  /\ src' = Notify([src EXCEPT !.enabled = FALSE, !.timer = FALSE, !.retry = FALSE,
                               !.fresh = FALSE, !.pending = FALSE, !.queued = FALSE,
                               !.qp = 0, !.sp = 0, !.rp = 0, !.mutation = FALSE,
                               !.recon = FALSE], Checking(src))
  /\ scan' = Outdated(scan)
  /\ UNCHANGED <<names, records, filter, changes, faults>>

\* runtime_source_stop_internal.
Stop ==
  /\ Call /\ Running(src)
  /\ mon' = NoMonitor /\ lnk' = NoLink
  /\ src' = [src EXCEPT !.phase = "stopped", !.enabled = FALSE, !.timer = FALSE,
                        !.retry = FALSE, !.fresh = FALSE, !.pending = FALSE, !.queued = FALSE]
  /\ scan' = IF scan.pc = "publish" THEN NoScan ELSE scan
  /\ UNCHANGED <<names, records, filter, changes, faults>>

\* network_sidebar_awg_runtime_source_poll.
Poll(p) ==
  /\ Call /\ Active(src)
  /\ LET busy == src.running \/ src.pending
         t    == [src EXCEPT !.recon = @ /\ p = 0,
                             !.sp = IF src.running THEN Max(@, p) ELSE @,
                             !.qp = IF src.pending THEN Max(@, p) ELSE @]
     IN /\ src' = IF busy THEN Notify(t, Loading(t) # Loading(src))
                  ELSE Notify(ScheduleRefresh(QueueScan(ClearRetry(src), p)), TRUE)
        /\ scan' = IF busy THEN scan ELSE AfterQueue(scan)
  /\ UNCHANGED <<mon, lnk, names, records, filter, changes, faults>>

CallRequestRefresh(p) ==
  /\ Call /\ Active(src)
  /\ src' = RequestRefresh(src, p)
  /\ scan' = AfterQueue(scan)
  /\ UNCHANGED <<mon, lnk, names, records, filter, changes, faults>>

\* network_sidebar_awg_runtime_source_record_delete.
RecordDelete(n) ==
  /\ Call /\ src.phase # "stopped" /\ records[n] # "none"
  /\ records' = [records EXCEPT ![n] = "none"]
  /\ src' = RequestRefresh(src, 0)
  /\ scan' = IF Active(src) THEN AfterQueue(scan) ELSE scan
  /\ UNCHANGED <<mon, lnk, names, filter, changes, faults>>

\* network_sidebar_awg_runtime_source_set_names with normalize_names.
SetNames(S, p) ==
  /\ Call /\ src.phase # "stopped" /\ S # names /\ Cardinality(S) <= MaxNames
  /\ names' = S
  /\ LET t == Invalidate(src, p)
         u == IF Active(src) THEN ScheduleRefresh(ClearRetry(t)) ELSE t
     IN src' = Notify(u, src.fresh \/ Checking(u) # Checking(src) \/ Loading(u) # Loading(src))
  /\ scan' = AfterQueue(scan)
  /\ UNCHANGED <<mon, lnk, records, filter, changes, faults>>

\* network_sidebar_awg_runtime_source_set_mutation_active.
SetMutationActive ==
  /\ Call /\ src.phase # "stopped"
  /\ src' = [src EXCEPT !.mutation = ~@]
  /\ UNCHANGED <<mon, lnk, names, records, filter, scan, changes, faults>>

-----------------------------------------------------------------------------
(* The world (external): helpers write markers and create links, monitors  *)
(* report what happens where they look.                                    *)

Change == changes + faults < MaxChanges /\ changes' = changes + 1
Reported(e, p) == IF p /\ ~mon.dead THEN [mon EXCEPT !.event = @ \cup {e}] ELSE mon

CreateDirectory ==
  /\ Change /\ depth > 0
  /\ depth' = depth - 1
  /\ mon' = Reported("clear", mon.level = depth)
  /\ UNCHANGED <<src, lnk, names, records, filter, scan, late, marker, link, calls, faults>>

RemoveDirectory ==
  /\ Change /\ depth < 2 /\ marker = {}
  /\ depth' = depth + 1 /\ late' = depth + 1
  /\ mon' = [Reported("clear", mon.level \in {depth, depth + 1})
               EXCEPT !.dead = @ \/ mon.level = depth]
  /\ UNCHANGED <<src, lnk, names, records, filter, scan, marker, link, calls, faults>>

MarkerChange(n) ==
  /\ Change /\ depth = 0
  /\ marker' = IF n \in marker THEN marker \ {n} ELSE marker \cup {n}
  /\ mon' = Reported("change", mon.level = 0)
  /\ UNCHANGED <<src, lnk, names, records, filter, scan, depth, late, link, calls, faults>>

LinkChange(n) ==
  /\ Change
  /\ link' = IF n \in link THEN link \ {n} ELSE link \cup {n}
  /\ \E lost \in BOOLEAN :
       /\ Fault(lost /\ lnk.on)
       /\ lnk' = IF lnk.on THEN [lnk EXCEPT !.queue = @ \cup {IF lost THEN "error" ELSE n}]
                 ELSE lnk
  /\ UNCHANGED <<src, mon, names, records, filter, scan, depth, late, marker, calls>>

-----------------------------------------------------------------------------

MainLoop ==
  \/ Scheduled \/ Retry \/ ScanComplete \/ PublishActive \/ PublishInactive
  \/ MonitorChanged \/ LinkEvents \/ LinkFails
Worker == ScanNames \/ ScanMarkers
Controller ==
  \/ Start \/ Enable \/ Disable \/ Stop \/ CallEnsureMonitor \/ SetMutationActive
  \/ \E p \in 0 .. 1 : Poll(p) \/ CallRequestRefresh(p) \/ \E S \in SUBSET Names : SetNames(S, p)
  \/ \E n \in Names : RecordDelete(n)
World ==
  \/ CreateDirectory \/ RemoveDirectory
  \/ \E n \in Names : MarkerChange(n) \/ LinkChange(n)

Next == MainLoop \/ Worker \/ Controller \/ World

Spec == Init /\ [][Next]_vars

\* The main loop dispatches every source that stays ready, and the worker ends.
LiveSpec ==
  /\ Spec /\ WF_vars(Worker) /\ WF_vars(Scheduled) /\ WF_vars(Retry)
  /\ WF_vars(ScanComplete) /\ WF_vars(PublishActive) /\ WF_vars(MonitorChanged)
  /\ WF_vars(LinkEvents) /\ WF_vars(LinkFails)

-----------------------------------------------------------------------------
(* Properties.                                                             *)

Monitors == [level : 0 .. 3, event : SUBSET {"change", "clear"}, dead : BOOLEAN,
             failed : BOOLEAN]
Sockets  == [on : BOOLEAN, queue : SUBSET (Names \cup {"error"})]

TypeOK ==
  /\ src \in Flags
  /\ mon \in Monitors /\ lnk \in Sockets
  /\ names \subseteq Names /\ filter \subseteq Names
  /\ records \in [Names -> {"none", "unknown", "active", "recoverable", "conflict", "inactive"}]
  /\ Cardinality({n \in Names : records[n] # "none"}) <= MaxNames
  /\ scan.pc \in {"none", "read", "markers", "done", "publish"}
  /\ depth \in Levels /\ late \in Levels /\ marker \subseteq Names /\ link \subseteq Names

\* What the cache says of a profile agrees with the runtime directory and the
\* links, or the difference is on its way in a monitor; what a scan could not see
\* is unknown or missing, and if missing another scan is due (publish_scan_cb,
\* ensure_monitors, link_monitor_cb).  Where the directory could not be watched and
\* one above it could, nobody tells.
Due(s) == s.retry \/ s.pending \/ s.running
CacheIsCurrent ==
  \A n \in Names :
    \/ Cached(n) \in {Truth(n), "unknown"}
    \/ Cached(n) = "none" /\ (~src.fresh \/ n \notin names \cup marker \/ Due(src))
    \/ mon.event # {} \/ lnk.queue \cap (filter \cup {"error"}) # {} \/ mon.failed

\* A profile that was seen to have a session is followed until a scan has looked
\* at it again or its deletion is reported, however many other names compete for
\* the cache (scan_runtime, reconcile_scan_records).
SessionIsFollowed ==
  [][\A n \in Names : IdentifiesSession(n) /\ records'[n] = "none" => RecordDelete(n)]_vars

\* A refresh that is due has something that will carry it out: a timer, a retry,
\* or a scan that will start it when it ends (scheduled_refresh_cb,
\* publish_scan_cb).
RefreshIsScheduled ==
  Active(src) /\ src.pending =>
    src.timer \/ src.retry \/ (src.running /\ src.queued)

\* The controller is told when the records become fresh or stop being fresh, and
\* whoever still believes a check to be under way has fresh records in front of
\* him (notify_changed and the comparisons before it).
ControllerIsTold ==
  Active(src) => src.shown[1] = src.fresh /\ (src.shown[2] /\ ~Checking(src) => src.fresh)

\* Once nothing changes and nothing fails any more, the source settles on records
\* that are fresh and true, if it can hold those of all that matter.
Settles ==
  <>[](/\ Active(src)
       /\ Cardinality({n \in Names : n \in names \cup marker \/ IdentifiesSession(n)}) <= MaxNames
       => /\ src.fresh /\ ~Checking(src)
          /\ \A n \in names \cup marker : records[n] = Truth(n))

\* No change is missed: the cache is what a scan found after the last change that was
\* noticed, or a refresh is under way that will look again, and the controller has been
\* told of what the cache holds.
NoChangeIsMissed ==
  /\ TypeOK
  /\ CacheIsCurrent
  /\ RefreshIsScheduled
  /\ ControllerIsTold

-----------------------------------------------------------------------------
(* The inductive invariant.                                                *)

States == {"none", "unknown", "active", "recoverable", "conflict", "inactive"}

Scans == [pc : {"none", "read", "markers", "done", "publish"}, ask : SUBSET Names,
          seen : SUBSET Names, links : SUBSET Names, complete : BOOLEAN,
          found : [Names -> States], current : BOOLEAN]

\* The records are fresh, and a timer is armed, only while the source is active, and
\* then the records are fresh or will be looked for; a controller that was not told of
\* the end of that finds no check under way.
SourceFits ==
  /\ src.enabled => Running(src)
  /\ src.fresh \/ src.timer => Active(src)
  /\ Active(src) => src.fresh \/ src.pending \/ src.running
  /\ src.phase # "stopped" /\ ~Active(src) /\ src.shown[1] => ~src.running

\* A directory that comes or goes where the monitor is, or just above, is reported.
MonitorTells ==
  /\ depth <= late
  /\ mon.dead => "clear" \in mon.event
  /\ mon.level <= late /\ (mon.level # depth \/ mon.failed) => "clear" \in mon.event

\* The monitor is where it should be, and neither it nor the socket has anything to say
\* that concerns every profile.
Watching ==
  /\ ~mon.failed /\ mon.level = depth /\ mon.event = {}
  /\ lnk.on /\ "error" \notin lnk.queue

\* What a scan was asked, and what it answers.
ScanFits ==
  /\ scan \in Scans
  /\ scan.pc # "none" => \A n \in Names : IdentifiesSession(n) => n \in scan.seen
  /\ scan.pc \in {"markers", "done", "publish"} =>
       scan.seen \subseteq scan.ask /\ Cardinality(scan.ask) <= MaxNames
  /\ scan.pc \in {"done", "publish"} =>
       \A n \in Names : scan.found[n] = "none" <=> n \notin scan.ask

\* A scan that something has overtaken is followed by another one.
OutdatedIsPending ==
  Active(src) /\ scan.pc # "none" /\ ~scan.current => src.pending

\* A scan that may be published has seen the links and the markers as they are, unless a
\* link event waits.
Valid == Active(src) /\ scan.pc # "none" /\ scan.current /\ ~src.pending
ScanFollows ==
  Valid /\ Watching =>
    /\ scan.pc = "read" => scan.ask = names
    /\ scan.pc # "read" /\ scan.complete => names \cup marker \subseteq scan.ask
    /\ scan.pc # "read" => \A n \in scan.ask : n \in lnk.queue \/ (n \in scan.links <=> n \in link)
    /\ scan.pc \in {"done", "publish"} =>
         \A n \in scan.ask : scan.found[n] \in {"unknown", State(n \in marker, n \in scan.links)}
    /\ src.fresh => scan.seen \cup scan.ask \subseteq filter

\* Fresh records are watched over, and the filter lets pass what concerns them.
CacheFollows ==
  src.fresh =>
    /\ lnk.on /\ (mon.failed \/ mon.event # {} \/ mon.level = depth)
    /\ Watching =>
         /\ names \cup marker \subseteq filter
         /\ \A n \in Names : records[n] # "none" => n \in filter
         /\ lnk.queue \cap filter = {} =>
              \A n \in Names : \/ records[n] \in {Truth(n), "unknown"}
                               \/ records[n] = "none" /\ (n \notin names \cup marker \/ Due(src))

IndInv ==
  /\ TypeOK
  /\ SourceFits /\ RefreshIsScheduled /\ ControllerIsTold
  /\ MonitorTells
  /\ ScanFits /\ OutdatedIsPending /\ ScanFollows
  /\ CacheFollows
=============================================================================
