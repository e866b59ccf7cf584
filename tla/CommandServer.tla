--------------------------- MODULE CommandServer ---------------------------
(***************************************************************************)
(* The command socket of the sidebar: how a starting sidebar takes the      *)
(* socket path from a dead one (gui/command_server.c), the thread that      *)
(* answers commands, the repair and the closing of the server, and the      *)
(* command line tool that sends one command (cli/main.c, core/ipc.c).       *)
(*                                                                          *)
(* Several sidebars may start at the same time, and one may be killed at    *)
(* any step; a probe, a command or a wait may time out, and a connection    *)
(* may be closed before its line is sent.  Only sidebars change the socket  *)
(* path, and the file system of the runtime directory does not use an inode *)
(* number twice (tmpfs does not).  Names of outputs, the text of commands   *)
(* and the checks of the runtime directory are left out.                    *)
(***************************************************************************)
EXTENDS Integers, Sequences, FiniteSets

CONSTANTS Sidebars, Clients, None,
          Backlog,     \* connections a listening socket holds (listen)
          MaxStarts,   \* servers that are started
          MaxFaults    \* kills, failing calls and unhealthy servers

ASSUME BoundsAssumption == /\ {Backlog, MaxStarts, MaxFaults} \subseteq Nat
                           /\ None \notin Sidebars \cup Clients
                           /\ Sidebars \cap Clients = {}

VARIABLES path,    \* the inode of the socket at the path, or 0
          lock,    \* the sidebar that holds the startup lock, or None
          side,    \* the sidebars
          cli,     \* the runs of the command line tool
          link,    \* the connection of each sidebar (a probe) and client
          ran,     \* what became of each client's command: run, or dropped
                   \* with the sidebar that had it
          used     \* starts, inodes and faults so far

vars == <<path, lock, side, cli, link, ran, used>>

Peers == Sidebars \cup Clients
NoLink == [to |-> None, ino |-> 0, state |-> "none"]

Off == [pc |-> "off", ino |-> 0, seen |-> 0, listening |-> FALSE,
        thread |-> FALSE, queue |-> <<>>, conn |-> None, todo |-> <<>>,
        again |-> FALSE, why |-> "none", rival |-> FALSE]

Init ==
  /\ path = 0 /\ lock = None
  /\ side = [s \in Sidebars |-> Off]
  /\ cli \in [Clients -> [pc : {"idle"}, cmd : {"show", "quit"}, by : {NoLink},
                          failed : {FALSE}, result : {"none"}]]
  /\ link = [p \in Peers |-> NoLink]
  /\ ran = [c \in Clients |-> "no"]
  /\ used = [starts |-> 0, inodes |-> 0, faults |-> 0]

----------------------------------------------------------------------------
(* Connections                                                              *)

\* The sidebar whose listening socket the path names, or None.
Listener ==
  IF \E s \in Sidebars : side[s].listening /\ side[s].ino = path
  THEN CHOOSE s \in Sidebars : side[s].listening /\ side[s].ino = path
  ELSE None

\* Peer p connects through the path: the connection waits to be accepted.
Connects(p, s) ==
  /\ Len(side[s].queue) < Backlog
  /\ link' = [link EXCEPT ![p] = [to |-> s, ino |-> side[s].ino, state |-> "queued"]]

\* The socket of s is closed: those that wait there see the end.
Severed(s, taken) ==
  [p \in Peers |->
     IF link[p].to = s /\ (link[p].state = "queued" \/ (taken /\ link[p].state = "taken"))
     THEN [link[p] EXCEPT !.state = "shut"] ELSE link[p]]

\* The process of s ends, and with it the commands its main loop has left.
Dropped(s) ==
  ran' = [c \in Clients |-> IF \E i \in DOMAIN side[s].todo : side[s].todo[i] = c
                            THEN "dropped" ELSE ran[c]]
Quit(s) == [Off EXCEPT !.why = side[s].why, !.rival = side[s].rival]

Faulty == /\ used.faults < MaxFaults
          /\ used' = [used EXCEPT !.faults = @ + 1]
Fine == UNCHANGED used

----------------------------------------------------------------------------
(* A server starts                                                          *)

Starting(s) == side[s].pc \in {"lock", "look", "probe", "await", "recheck",
                               "unlink", "bind", "listen"}

\* network_sidebar_command_server_new, in a new process or as a repair.
Started(s, rec) ==
  /\ used.starts < MaxStarts
  /\ used' = [used EXCEPT !.starts = @ + 1]
  /\ side' = [t \in Sidebars |->
       IF t = s THEN [rec EXCEPT !.pc = "lock", !.why = "none",
                        !.rival = \E u \in Sidebars \ {s} : side[u].pc # "off"]
       ELSE [side[t] EXCEPT !.rival = @ \/ Starting(t)]]

Launch(s, todo) == side[s].pc = "off" /\ Started(s, [Off EXCEPT !.todo = todo])

Fails(s, why) ==
  /\ side' = [side EXCEPT ![s] = [Quit(s) EXCEPT !.why = why]]
  /\ lock' = IF lock = s THEN None ELSE lock
  /\ link' = [link EXCEPT ![s] = NoLink]
  /\ Dropped(s)

\* Mutant: the path is prepared without the lock.
TakeLock_None(s) ==
  /\ side[s].pc = "lock"
  /\ side' = [side EXCEPT ![s].pc = "look"]
  /\ UNCHANGED <<path, lock, cli, link, ran, used>>

TakeLock(s) ==
  /\ side[s].pc = "lock" /\ lock = None
  /\ lock' = s
  /\ side' = [side EXCEPT ![s].pc = "look"]
  /\ UNCHANGED <<path, cli, link, ran, used>>

LockTimeout(s) ==
  /\ side[s].pc = "lock" /\ lock \notin {None, s}
  /\ Fails(s, "locked")
  /\ UNCHANGED <<path, cli, used>>

\* Mutant: a socket that is there is taken for a running sidebar.
Look_Trusting(s) ==
  /\ side[s].pc = "look"
  /\ IF path = 0 THEN side' = [side EXCEPT ![s].pc = "bind"] /\ UNCHANGED <<lock, link, ran>>
     ELSE Fails(s, "exists")
  /\ UNCHANGED <<path, cli, used>>

\* remove_stale_socket_path: lstat, probe, lstat again, unlink.
Look(s) ==
  /\ side[s].pc = "look"
  /\ side' = [side EXCEPT ![s].pc = IF path = 0 THEN "bind" ELSE "probe",
                          ![s].seen = path]
  /\ UNCHANGED <<path, lock, cli, link, ran, used>>

Probe(s) ==
  /\ side[s].pc = "probe" /\ Fine /\ UNCHANGED <<path, cli>>
  /\ LET t == Listener IN
       \/ /\ t = None
          /\ side' = [side EXCEPT ![s].pc = "recheck"]
          /\ UNCHANGED <<lock, link, ran>>
       \/ /\ t # None /\ Connects(s, t)
          /\ side' = [side EXCEPT ![s].pc = "await",
                                  ![t].queue = Append(@, s)]
          /\ UNCHANGED <<lock, ran>>
       \/ t # None /\ Len(side[t].queue) >= Backlog /\ Fails(s, "busy")

\* The ping is acknowledged, or the connection ends or times out without.
ProbeAnswered(s) ==
  /\ side[s].pc = "await"
  /\ Fails(s, IF link[s].state = "acked" THEN "exists" ELSE "busy")
  /\ UNCHANGED <<path, cli, used>>

Recheck(s) ==
  /\ side[s].pc = "recheck" /\ Fine /\ UNCHANGED <<path, cli>>
  /\ \/ /\ path \in {0, side[s].seen}
        /\ side' = [side EXCEPT ![s].pc = IF path = 0 THEN "bind" ELSE "unlink"]
        /\ UNCHANGED <<lock, link, ran>>
     \/ path \notin {0, side[s].seen} /\ Fails(s, "changed")

Unlink(s) ==
  /\ side[s].pc = "unlink"
  /\ path' = 0
  /\ side' = [side EXCEPT ![s].pc = "bind"]
  /\ UNCHANGED <<lock, cli, link, ran, used>>

Bind(s) ==
  /\ side[s].pc = "bind" /\ UNCHANGED cli
  /\ \/ /\ path = 0
        /\ used' = [used EXCEPT !.inodes = @ + 1]
        /\ path' = used.inodes + 1
        /\ side' = [side EXCEPT ![s].pc = "listen", ![s].ino = used.inodes + 1]
        /\ UNCHANGED <<lock, link, ran>>
     \/ path # 0 /\ Fails(s, "in_use") /\ UNCHANGED path /\ Fine

Listen(s) ==
  /\ side[s].pc = "listen"
  /\ side' = [side EXCEPT ![s].pc = "serve", ![s].listening = TRUE,
                          ![s].thread = TRUE]
  /\ lock' = IF lock = s THEN None ELSE lock
  /\ UNCHANGED <<path, cli, link, ran, used>>

\* A call of the start fails (the lock's file, the probe's socket, unlink, bind,
\* chmod, listen): a path that was bound is removed while the lock is held.
StartFails(s) ==
  /\ Starting(s) /\ side[s].pc # "await" /\ Faulty
  /\ path' = IF path = side[s].ino THEN 0 ELSE path
  /\ Fails(s, "fault")
  /\ UNCHANGED cli

----------------------------------------------------------------------------
(* The thread and the main loop of a running server                         *)

\* The oldest connection is accepted, whether its peer still waits for it, has
\* given it up, or waits for a later one.
Accept(s) ==
  /\ side[s].thread /\ side[s].conn = None /\ side[s].queue # <<>>
  /\ side' = [side EXCEPT ![s].conn = Head(side[s].queue),
                          ![s].queue = Tail(side[s].queue)]
  /\ link' = [link EXCEPT ![Head(side[s].queue)] =
                IF /\ @.to = s /\ @.state = "queued"
                   /\ \A i \in DOMAIN Tail(side[s].queue) :
                        Tail(side[s].queue)[i] # Head(side[s].queue)
                THEN [@ EXCEPT !.state = "taken"] ELSE @]
  /\ UNCHANGED <<path, lock, cli, ran, used>>

\* The peer of the accepted connection still waits for it.
Connected(s) == link[side[s].conn].to = s /\ link[side[s].conn].state = "taken"

\* The line a peer sends on the connection it has: a client's command until that
\* is acknowledged, and pings from then on.
Command(p) == IF p \in Clients /\ cli[p].by = NoLink THEN cli[p].cmd ELSE "ping"

\* The line is not sent yet.  A peer that has gone had sent it.
Unsent(s) ==
  LET p == side[s].conn IN
    Connected(s) /\ p \in Clients /\ cli[p].pc \in {"send", "pinging"}

\* Mutant: a command is acknowledged and not handed to the main loop.
Answer_Only(s) ==
  /\ side[s].conn # None /\ ~Unsent(s)
  /\ side' = [side EXCEPT ![s].conn = None]
  /\ link' = [link EXCEPT ![side[s].conn] =
                IF Connected(s) THEN [@ EXCEPT !.state = "acked"] ELSE @]
  /\ UNCHANGED <<path, lock, cli, ran, used>>

\* The command is read whole: a ping is acknowledged, another command is
\* handed to the main loop and acknowledged, even if its peer has gone.
Answer(s) ==
  /\ side[s].conn # None /\ ~Unsent(s)
  /\ side' = [side EXCEPT ![s].conn = None,
       ![s].todo = IF Command(side[s].conn) # "ping"
                   THEN Append(@, side[s].conn) ELSE @]
  /\ link' = [link EXCEPT ![side[s].conn] =
                IF Connected(s) THEN [@ EXCEPT !.state = "acked"] ELSE @]
  /\ UNCHANGED <<path, lock, cli, ran, used>>

\* No line comes in time: the connection is closed unanswered, and what its
\* peer sends on it comes too late.
ReadTimeout(s) ==
  /\ side[s].conn # None /\ Connected(s) /\ (side[s].conn \in Clients => Unsent(s))
  /\ side' = [side EXCEPT ![s].conn = None]
  /\ link' = [link EXCEPT ![side[s].conn].state = "late"]
  /\ UNCHANGED <<path, lock, cli, ran, used>>

\* The thread ends when it sees the stop flag, which close sets without a lock and
\* before it shuts the socket, or when accept fails: on the socket that is shut,
\* and on its descriptor once that is closed or a new one has its number (no
\* other socket of the process listens).
ThreadEnds(s) ==
  /\ side[s].thread /\ side[s].conn = None
  /\ ~side[s].listening \/ side[s].pc = "shut"
  /\ side' = [side EXCEPT ![s].thread = FALSE]
  /\ UNCHANGED <<path, lock, cli, link, ran, used>>

\* network_sidebar_gui_app_handle_command, from the idle queue.
Handle(s) ==
  /\ side[s].pc = "serve" /\ side[s].todo # <<>>
  /\ LET c == Head(side[s].todo) IN
       /\ side' = [side EXCEPT ![s].todo = Tail(@),
                     ![s].pc = IF cli[c].cmd = "quit" THEN "shut" ELSE @]
       /\ ran' = [ran EXCEPT ![c] = "run"]
  /\ UNCHANGED <<path, lock, cli, link, used>>

\* ensure_command_server finds its server unhealthy and starts another.
Repair(s) ==
  /\ side[s].pc = "serve" /\ Faulty
  /\ used.starts < MaxStarts
  /\ side' = [side EXCEPT ![s].pc = "shut", ![s].again = TRUE]
  /\ UNCHANGED <<path, lock, cli, link, ran>>

----------------------------------------------------------------------------
(* A server closes                                                          *)

\* Mutant: the socket is not shut down: its thread goes on.
Shut_Open(s) ==
  /\ side[s].pc = "shut"
  /\ side' = [side EXCEPT ![s].pc = "join"]
  /\ UNCHANGED <<path, lock, cli, link, ran, used>>

Shut(s) ==
  /\ side[s].pc = "shut"
  /\ side' = [side EXCEPT ![s].pc = "join", ![s].listening = FALSE,
                          ![s].queue = <<>>]
  /\ link' = Severed(s, FALSE)
  /\ UNCHANGED <<path, lock, cli, ran, used>>

Join(s) ==
  /\ side[s].pc = "join" /\ ~side[s].thread
  /\ side' = [side EXCEPT ![s].pc = "relock"]
  /\ UNCHANGED <<path, lock, cli, link, ran, used>>

\* unlink_bound_socket_path: only with the lock, and only its own socket.
Relock(s) ==
  /\ side[s].pc = "relock"
  /\ \/ lock = None /\ lock' = s /\ side' = [side EXCEPT ![s].pc = "clear"]
     \/ /\ lock \notin {None, s} /\ UNCHANGED lock
        /\ side' = [side EXCEPT ![s].pc = "closed"]
  /\ UNCHANGED <<path, cli, link, ran, used>>

\* Mutant: the lock is not released.
Clear_Held(s) ==
  /\ side[s].pc = "clear"
  /\ path' = IF path = side[s].ino THEN 0 ELSE path
  /\ side' = [side EXCEPT ![s].pc = "closed"]
  /\ UNCHANGED <<lock, cli, link, ran, used>>

Clear(s) ==
  /\ side[s].pc = "clear"
  /\ path' = IF path = side[s].ino THEN 0 ELSE path
  /\ lock' = None
  /\ side' = [side EXCEPT ![s].pc = "closed"]
  /\ UNCHANGED <<cli, link, ran, used>>

\* The process ends, or a repair starts the next server.
Closed(s) ==
  /\ side[s].pc = "closed" /\ UNCHANGED <<path, lock, cli, link>>
  /\ \/ /\ ~side[s].again \/ used.starts >= MaxStarts
        /\ side' = [side EXCEPT ![s] = Quit(s)] /\ Dropped(s) /\ Fine
     \/ /\ side[s].again /\ UNCHANGED ran
        /\ Started(s, [Off EXCEPT !.todo = side[s].todo])

Kill(s) ==
  /\ side[s].pc # "off" /\ Faulty
  /\ side' = [side EXCEPT ![s] = Quit(s)]
  /\ lock' = IF lock = s THEN None ELSE lock
  /\ link' = [Severed(s, TRUE) EXCEPT ![s] = NoLink]
  /\ Dropped(s)
  /\ UNCHANGED <<path, cli>>

----------------------------------------------------------------------------
(* The command line tool                                                    *)

Ends(c, result) ==
  cli' = [cli EXCEPT ![c].pc = "done", ![c].result = result]

\* network_sidebar_send_command up to the connection.  Nothing is delivered
\* without a listener, and neither when there is no socket for the connection
\* (a fault) or the backlog stays full for a second: missed is what follows.
Connect(c, sending, missed) ==
  LET t == Listener IN
    \/ /\ t # None /\ Connects(c, t) /\ Fine
       /\ side' = [side EXCEPT ![t].queue = Append(@, c)]
       /\ cli' = [cli EXCEPT ![c].pc = sending]
    \/ /\ t = None /\ Fine
       /\ cli' = [cli EXCEPT ![c].pc = missed]
       /\ UNCHANGED <<side, link>>
    \/ /\ \/ t # None /\ Len(side[t].queue) >= Backlog /\ Fine
          \/ Faulty
       /\ cli' = [cli EXCEPT ![c].pc = missed, ![c].failed = TRUE]
       /\ UNCHANGED <<side, link>>

\* The line is sent.  On a connection that was closed meanwhile nothing is
\* delivered; failed says that it was closed for the line that did not come.
Transmit(c, waiting, missed) ==
  /\ UNCHANGED <<path, lock, side, ran, used>>
  /\ \/ /\ link[c].state \notin {"shut", "late"}
        /\ cli' = [cli EXCEPT ![c].pc = waiting]
        /\ UNCHANGED link
     \/ /\ link[c].state \in {"shut", "late"}
        /\ cli' = [cli EXCEPT ![c].pc = missed, ![c].failed = (link[c].state = "late")]
        /\ link' = [link EXCEPT ![c] = NoLink]

SendCommand(c) ==
  /\ cli[c].pc = "idle"
  /\ Connect(c, "send", "missed")
  /\ UNCHANGED <<path, lock, ran>>

SendLine(c) == cli[c].pc = "send" /\ Transmit(c, "wait", "missed")

\* The reply, the end of the connection, or a second without either.
Reply(c) ==
  /\ cli[c].pc = "wait"
  /\ \/ /\ link[c].state = "acked"
        /\ cli' = [cli EXCEPT ![c].by = link[c],
             ![c].pc = IF cli[c].cmd = "quit" THEN "ping" ELSE "done",
             ![c].result = IF cli[c].cmd = "quit" THEN @ ELSE "ok"]
     \/ link[c].state # "acked" /\ Ends(c, "unacknowledged")
  /\ link' = [link EXCEPT ![c] = NoLink]
  /\ UNCHANGED <<path, lock, side, ran, used>>

\* Nothing was delivered: a startup command starts the sidebar.
Missed(c) ==
  /\ cli[c].pc = "missed" /\ UNCHANGED <<path, lock, link, ran>>
  /\ \/ cli[c].cmd = "quit" /\ Ends(c, "no_instance") /\ UNCHANGED <<side, used>>
     \/ /\ cli[c].cmd = "show" /\ Ends(c, "exec")
        /\ \E s \in Sidebars : Launch(s, <<c>>)

\* finish_quit_command: ping until nothing is delivered.
Ping(c) ==
  /\ cli[c].pc = "ping"
  /\ Connect(c, "pinging", "stopped")
  /\ UNCHANGED <<path, lock, ran>>

PingLine(c) == cli[c].pc = "pinging" /\ Transmit(c, "pinged", "stopped")

\* Mutant: a ping that is not acknowledged ends the wait.
Pinged_Unanswered(c) ==
  /\ cli[c].pc = "pinged"
  /\ cli' = [cli EXCEPT ![c].pc = IF link[c].state = "acked" THEN "ping" ELSE "stopped"]
  /\ link' = [link EXCEPT ![c] = NoLink]
  /\ UNCHANGED <<path, lock, side, ran, used>>

\* A ping that was delivered, answered or not, is repeated until the deadline.
Pinged(c) ==
  /\ cli[c].pc = "pinged"
  /\ \/ cli' = [cli EXCEPT ![c].pc = "ping"]
     \/ Ends(c, "timed_out")
  /\ link' = [link EXCEPT ![c] = NoLink]
  /\ UNCHANGED <<path, lock, side, ran, used>>

Stopped(c) ==
  /\ cli[c].pc = "stopped"
  /\ Ends(c, "ok")
  /\ UNCHANGED <<path, lock, side, link, ran, used>>

----------------------------------------------------------------------------

Session == \E s \in Sidebars : Launch(s, <<>>) /\ UNCHANGED <<path, lock, cli, link, ran>>

Sidebar(s) ==
  \/ TakeLock(s) \/ LockTimeout(s) \/ Look(s) \/ Probe(s) \/ ProbeAnswered(s)
  \/ Recheck(s) \/ Unlink(s) \/ Bind(s) \/ Listen(s)
  \/ Handle(s) \/ Shut(s) \/ Join(s) \/ Relock(s) \/ Clear(s) \/ Closed(s)
Thread(s) == Accept(s) \/ Answer(s) \/ ReadTimeout(s) \/ ThreadEnds(s)
Fault(s) == StartFails(s) \/ Repair(s) \/ Kill(s)
Client(c) ==
  \/ SendCommand(c) \/ SendLine(c) \/ Reply(c) \/ Missed(c)
  \/ Ping(c) \/ PingLine(c) \/ Pinged(c) \/ Stopped(c)

Next ==
  \/ Session
  \/ \E s \in Sidebars : Sidebar(s) \/ Thread(s) \/ Fault(s)
  \/ \E c \in Clients : Client(c)

Spec == Init /\ [][Next]_vars

\* A sidebar's main loop and its thread each go on while they have a step.
Fairness == \A s \in Sidebars : WF_vars(Sidebar(s)) /\ WF_vars(Thread(s))
FairSpec == Spec /\ Fairness

----------------------------------------------------------------------------
(* Properties                                                               *)

TypeOK ==
  /\ path \in 0..MaxStarts
  /\ lock \in Sidebars \cup {None}
  /\ ran \in [Clients -> {"no", "run", "dropped"}]
  /\ \A s \in Sidebars :
       /\ side[s].ino \in 0..MaxStarts
       /\ Len(side[s].queue) <= Backlog /\ side[s].conn \in Peers \cup {None}
       /\ side[s].pc = "serve" => side[s].thread
       /\ side[s].pc = "off" => lock # s

\* A sidebar that serves is the one the path leads to, so no two serve: what
\* another one starting or closing removes is never a socket in use
\* (remove_stale_socket_path, unlink_bound_socket_path).
PathIsOwned ==
  \A s \in Sidebars : side[s].pc = "serve" => path = side[s].ino

\* A sidebar is refused a start only if another one was alive meanwhile: what
\* a killed sidebar leaves behind never keeps the next one out.
RefusedHasRival ==
  \A s \in Sidebars : side[s].why \notin {"none", "fault"} => side[s].rival

\* When --quit reports success, the server that took the command is closed:
\* its sidebar has quit or is about to, or replaces the server before it quits.
\* finish_quit_command takes every ping that is not delivered for this, so the
\* exceptions (failed) are the pings that a listening server did not get: no
\* socket was left for the connection, the backlog stayed full, or the server
\* closed the connection because the line had not come in 0.25 s.  Even then the
\* sidebar comes to run the command (AckedRuns).
QuitIsTrue ==
  \A c \in Clients : LET s == cli[c].by.to IN
    (cli[c].cmd = "quit" /\ cli[c].result = "ok" /\ ~cli[c].failed) =>
      ~(side[s].listening /\ side[s].ino = cli[c].by.ino)

\* A command that was acknowledged is run, --quit among them, or its sidebar ends
\* first (command_server_thread acknowledges what it has queued).
AckedRuns == \A c \in Clients : cli[c].by # NoLink ~> ran[c] # "no"

\* A sidebar that starts, closes or repairs its server gets to serve or ends:
\* neither the lock, nor a probe, nor its thread holds it up for ever.
Settles == \A s \in Sidebars :
  side[s].pc \notin {"off", "serve"} ~> side[s].pc \in {"off", "serve"}

\* The socket at the path belongs to one sidebar: nobody removes another one's socket, a
\* start is refused only for a rival, and --quit reports success only when the server that
\* took it is closed or did not get the ping.
SocketIsExclusive ==
  /\ TypeOK
  /\ PathIsOwned
  /\ RefusedHasRival
  /\ QuitIsTrue

\* An acknowledged command is carried out, and a sidebar that starts or closes comes to
\* the end of it.
CommandsTakeEffect == AckedRuns /\ Settles

----------------------------------------------------------------------------
(* The inductive invariant behind SocketIsExclusive                         *)

Links == [to : Sidebars \cup {None}, ino : Nat,
          state : {"none", "queued", "taken", "shut", "late", "acked"}]

\* The steps of a start before it has a socket of its own, and the steps that
\* hold the startup lock.
UnboundPcs == {"lock", "look", "probe", "await", "recheck", "unlink", "bind"}
LockedPcs  == {"look", "probe", "await", "recheck", "unlink", "bind", "listen", "clear"}
BoundPcs   == {"listen", "serve", "shut", "join", "relock", "clear", "closed"}

SidePcs    == UnboundPcs \cup BoundPcs \cup {"off"}

Whys == {"none", "locked", "exists", "busy", "changed", "in_use", "fault"}

SideRecords == [pc : SidePcs, ino : Nat, seen : Nat, listening : BOOLEAN, thread : BOOLEAN,
                queue : Seq(Peers), conn : Peers \cup {None}, todo : Seq(Clients),
                again : BOOLEAN, why : Whys, rival : BOOLEAN]

ClientPcs == {"idle", "send", "wait", "missed", "ping", "pinging", "pinged", "stopped", "done"}
Outcomes  == {"none", "ok", "unacknowledged", "no_instance", "exec", "timed_out"}

ClientRecords == [pc : ClientPcs, cmd : {"show", "quit"}, by : Links, failed : BOOLEAN,
                  result : Outcomes]

Types ==
  /\ path \in Nat /\ lock \in Sidebars \cup {None}
  /\ side \in [Sidebars -> SideRecords]
  /\ cli \in [Clients -> ClientRecords]
  /\ link \in [Peers -> Links]
  /\ ran \in [Clients -> {"no", "run", "dropped"}]
  /\ used \in [starts : Nat, inodes : Nat, faults : Nat]
  /\ \A s \in Sidebars : Len(side[s].queue) <= Backlog

\* A start makes one socket.
Unbound == {s \in Sidebars : side[s].pc \in UnboundPcs}
OneSocketEach ==
  /\ IsFiniteSet(Unbound)
  /\ used.inodes + Cardinality(Unbound) <= used.starts /\ used.starts <= MaxStarts

LockIsTracked == \A s \in Sidebars : lock = s <=> side[s].pc \in LockedPcs

\* Every socket has an inode of its own.
InodesAreUnique ==
  /\ path <= used.inodes
  /\ \A s \in Sidebars :
       IF side[s].pc \in BoundPcs THEN side[s].ino \in 1 .. used.inodes ELSE side[s].ino = 0
  /\ \A s, t \in Sidebars : s # t /\ side[s].ino = side[t].ino => side[s].ino = 0

\* A socket that listens, or is about to, is the one at the path.
ListenersAreReached ==
  \A s \in Sidebars :
    /\ side[s].listening => side[s].pc \in {"serve", "shut"} /\ path = side[s].ino
    /\ side[s].pc = "serve" => side[s].listening /\ side[s].thread
    /\ side[s].pc = "listen" => path = side[s].ino

\* Only the holder of the lock changes the path, so what it saw there is still there.
PathIsAsSeen ==
  \A s \in Sidebars :
    /\ side[s].pc = "bind" => path = 0
    /\ side[s].pc \in {"probe", "await", "recheck", "unlink"} => path = side[s].seen /\ path # 0
    /\ side[s].pc \in {"recheck", "unlink"} => \A t \in Sidebars : ~side[t].listening

SocketFacts == InodesAreUnique /\ ListenersAreReached /\ PathIsAsSeen

\* Whoever is alive while another one starts is counted as its rival.
RivalFacts ==
  \A s \in Sidebars :
    /\ Starting(s) /\ (\E t \in Sidebars \ {s} : side[t].pc # "off") => side[s].rival
    /\ side[s].pc = "await" => side[s].rival

\* The server a connection led to listened then: once closed it listens no more.
Bygone(l) ==
  /\ l.to \in Sidebars /\ l.ino \in 1 .. used.inodes
  /\ side[l.to].ino = l.ino => side[l.to].pc # "listen"

Listens(l) == side[l.to].listening /\ side[l.to].ino = l.ino

\* While the server that took the command listens, a ping leads to it; a connection is
\* shut only with its server.
QuitFacts ==
  /\ \A p \in Peers : /\ link[p].state # "none" => Bygone(link[p])
                      /\ link[p].state = "shut" => ~Listens(link[p])
  /\ \A c \in Clients :
       /\ cli[c].pc # "done" => cli[c].result = "none"
       /\ cli[c].pc \in {"ping", "pinging", "pinged", "stopped"} =>
            cli[c].cmd = "quit" /\ Bygone(cli[c].by)
       /\ cli[c].cmd = "quit" /\ cli[c].result = "ok" => Bygone(cli[c].by)
       /\ cli[c].pc = "pinging" /\ link[c].state # "none" /\ Listens(cli[c].by) =>
            link[c].to = cli[c].by.to /\ link[c].ino = cli[c].by.ino
       /\ cli[c].pc = "stopped" /\ ~cli[c].failed => ~Listens(cli[c].by)

IndInv ==
  /\ Types
  /\ OneSocketEach
  /\ LockIsTracked
  /\ SocketFacts
  /\ RivalFacts
  /\ RefusedHasRival
  /\ QuitFacts
  /\ QuitIsTrue

============================================================================
