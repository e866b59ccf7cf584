------------------------ MODULE CommandServerProofs ------------------------
(***************************************************************************)
(* Proofs about CommandServer, for every set of sidebars and clients and   *)
(* every bound: a socket belongs to the one sidebar that serves on it, a   *)
(* start is refused only for a rival, and --quit reports no success while  *)
(* the server that took the command listens.                               *)
(***************************************************************************)
EXTENDS CommandServer, FiniteSetTheorems, TLAPS

-----------------------------------------------------------------------------
(* What a step does to the record of the sidebar that takes it.            *)

\* Every step of a sidebar has its name.
LEMMA PcsAre ==
  {"off", "lock", "look", "probe", "await", "recheck", "unlink", "bind", "listen", "serve",
   "shut", "join", "relock", "clear", "closed"} \subseteq SidePcs
  BY DEF SidePcs, UnboundPcs, BoundPcs

\* All but the step that s is at, and what its thread has in hand, stays as it was.
Rest(s) ==
  /\ side'[s].ino = side[s].ino /\ side'[s].seen = side[s].seen
  /\ side'[s].listening = side[s].listening /\ side'[s].thread = side[s].thread
  /\ side'[s].why = side[s].why /\ side'[s].rival = side[s].rival

Same(s) == side'[s].pc = side[s].pc /\ Rest(s)

SidesAreTyped ==
  side \in [Sidebars -> SideRecords] /\ \A t \in Sidebars : Len(side[t].queue) <= Backlog

\* Only the record of s changes.
Turns(s) == SidesAreTyped' /\ \A t \in Sidebars \ {s} : Same(t)

\* The record of one sidebar is replaced by another record.
LEMMA OneSide ==
  ASSUME Types, NEW s \in Sidebars, NEW y \in SideRecords, Len(y.queue) <= Backlog,
         side' = [side EXCEPT ![s] = y]
  PROVE  Turns(s) /\ side'[s] = y
  BY DEF Types, Turns, SidesAreTyped, Same, Rest

\* A sidebar that is not running is a sidebar.
LEMMA OffIsASide ==
  /\ Off \in SideRecords /\ Off.pc = "off" /\ Off.ino = 0 /\ ~Off.listening /\ ~Off.thread
  /\ Off.queue = <<>> /\ Off.todo = <<>>
  <1>1. Off.pc \in SidePcs /\ Off.why \in Whys
    BY PcsAre DEF Off, Whys
  <1> QED BY <1>1 DEF Off, SideRecords

\* A sidebar that has quit keeps nothing but how its last start ended.
LEMMA QuitIsASide ==
  ASSUME Types, NEW s \in Sidebars, NEW w \in Whys
  PROVE  LET y == [Quit(s) EXCEPT !.why = w]
         IN /\ y \in SideRecords /\ y.pc = "off" /\ y.ino = 0 /\ ~y.listening /\ ~y.thread
            /\ y.queue = <<>> /\ y.why = w /\ y.rival = side[s].rival
  <1>1. side[s] \in SideRecords
    BY DEF Types
  <1> DEFINE y == [Off EXCEPT !.why = w, !.rival = side[s].rival]
  <1>2. y = [Quit(s) EXCEPT !.why = w]
    BY OffIsASide DEF Quit, SideRecords
  <1>3. y \in SideRecords
    BY <1>1, OffIsASide DEF SideRecords
  <1>4. /\ y.pc = "off" /\ y.ino = 0 /\ ~y.listening /\ ~y.thread /\ y.queue = <<>>
        /\ y.why = w /\ y.rival = side[s].rival
    BY OffIsASide DEF SideRecords
  <1> QED BY <1>2, <1>3, <1>4

\* The path leads to a sidebar that listens on it, if there is one.
LEMMA ListenerFound ==
  /\ Listener # None => Listener \in Sidebars /\ side[Listener].listening /\ side[Listener].ino = path
  /\ Listener = None => \A s \in Sidebars : ~(side[s].listening /\ side[s].ino = path)
  BY BoundsAssumption DEF Listener

\* The process of s ends: nothing is left of it but how its start ended.
LEMMA EndEffect ==
  ASSUME Types, NEW s \in Sidebars, NEW w \in Whys,
         side' = [side EXCEPT ![s] = [Quit(s) EXCEPT !.why = w]]
  PROVE  /\ Turns(s) /\ side'[s].pc = "off" /\ side'[s].ino = 0 /\ ~side'[s].listening
         /\ side'[s].why = w /\ side'[s].rival = side[s].rival
  <1>1. Len(<<>>) <= Backlog
    BY BoundsAssumption
  <1> DEFINE y == [Quit(s) EXCEPT !.why = w]
  <1>2. /\ y \in SideRecords /\ y.pc = "off" /\ y.ino = 0 /\ ~y.listening /\ y.queue = <<>>
        /\ y.why = w /\ y.rival = side[s].rival
    BY QuitIsASide
  <1> HIDE DEF y
  <1>3. side' = [side EXCEPT ![s] = y]
    BY DEF y
  <1> QED BY <1>1, <1>2, <1>3, OneSide

\* A start that fails, for whatever reason, ends the process.
LEMMA FailsEffect ==
  ASSUME Types, NEW s \in Sidebars, NEW w \in Whys, Fails(s, w)
  PROVE  /\ Turns(s) /\ side'[s].pc = "off" /\ side'[s].ino = 0 /\ ~side'[s].listening
         /\ side'[s].why = w /\ side'[s].rival = side[s].rival
         /\ link' = [link EXCEPT ![s] = NoLink] /\ lock' = (IF lock = s THEN None ELSE lock)
         /\ ran' \in [Clients -> {"no", "run", "dropped"}]
  <1>1. ran' \in [Clients -> {"no", "run", "dropped"}]
    BY DEF Fails, Dropped, Types
  <1> QED BY <1>1, EndEffect DEF Fails

\* The lock is taken.
LEMMA TakeLockEffect ==
  ASSUME Types, NEW s \in Sidebars, TakeLock(s)
  PROVE  /\ Turns(s)
         /\ side[s].pc = "lock" /\ side'[s].pc = "look" /\ Rest(s)
  <1> DEFINE y == [side[s] EXCEPT !.pc = "look"]
  <1>1. side[s] \in SideRecords /\ Len(side[s].queue) <= Backlog
    BY DEF Types
  <1>2. y \in SideRecords
    BY <1>1, PcsAre DEF SideRecords
  <1>3. Len(y.queue) <= Backlog
    BY <1>1 DEF SideRecords
  <1>4. side' = [side EXCEPT ![s] = y]
    BY <1>1 DEF TakeLock, SideRecords
  <1>5. /\ y.ino = side[s].ino /\ y.seen = side[s].seen /\ y.listening = side[s].listening
        /\ y.thread = side[s].thread /\ y.why = side[s].why /\ y.rival = side[s].rival
        /\ y.pc = "look"
    BY <1>1 DEF SideRecords
  <1> HIDE DEF y
  <1>6. Turns(s) /\ side'[s] = y
    BY <1>2, <1>3, <1>4, OneSide
  <1> QED BY <1>1, <1>5, <1>6 DEF TakeLock, Rest, Same

\* What is at the path is seen.
LEMMA LookEffect ==
  ASSUME Types, NEW s \in Sidebars, Look(s)
  PROVE  /\ Turns(s)
         /\ side[s].pc = "look" /\ side'[s].pc = (IF path = 0 THEN "bind" ELSE "probe")
         /\ side'[s].seen = path /\ side'[s].ino = side[s].ino
         /\ side'[s].listening = side[s].listening /\ side'[s].why = side[s].why
         /\ side'[s].rival = side[s].rival /\ side'[s].thread = side[s].thread
  <1> DEFINE y == [side[s] EXCEPT !.pc = IF path = 0 THEN "bind" ELSE "probe",
                            !.seen = path]
  <1>1. side[s] \in SideRecords /\ Len(side[s].queue) <= Backlog
    BY DEF Types
  <1>0. path \in Nat
    BY DEF Types
  <1>2. y \in SideRecords
    BY <1>1, <1>0, PcsAre DEF SideRecords
  <1>3. Len(y.queue) <= Backlog
    BY <1>1, <1>0 DEF SideRecords
  <1>4. side' = [side EXCEPT ![s] = y]
    BY <1>1 DEF Look, SideRecords
  <1>5. /\ y.ino = side[s].ino /\ y.listening = side[s].listening /\ y.thread = side[s].thread
        /\ y.why = side[s].why /\ y.rival = side[s].rival
        /\ y.pc = (IF path = 0 THEN "bind" ELSE "probe")
        /\ y.seen = path
    BY <1>1 DEF SideRecords
  <1> HIDE DEF y
  <1>6. Turns(s) /\ side'[s] = y
    BY <1>2, <1>3, <1>4, OneSide
  <1> QED BY <1>1, <1>0, <1>5, <1>6 DEF Look, Rest, Same

\* The socket that a dead sidebar left is removed.
LEMMA UnlinkEffect ==
  ASSUME Types, NEW s \in Sidebars, Unlink(s)
  PROVE  /\ Turns(s)
         /\ side[s].pc = "unlink" /\ side'[s].pc = "bind" /\ Rest(s)
  <1> DEFINE y == [side[s] EXCEPT !.pc = "bind"]
  <1>1. side[s] \in SideRecords /\ Len(side[s].queue) <= Backlog
    BY DEF Types
  <1>2. y \in SideRecords
    BY <1>1, PcsAre DEF SideRecords
  <1>3. Len(y.queue) <= Backlog
    BY <1>1 DEF SideRecords
  <1>4. side' = [side EXCEPT ![s] = y]
    BY <1>1 DEF Unlink, SideRecords
  <1>5. /\ y.ino = side[s].ino /\ y.seen = side[s].seen /\ y.listening = side[s].listening
        /\ y.thread = side[s].thread /\ y.why = side[s].why /\ y.rival = side[s].rival
        /\ y.pc = "bind"
    BY <1>1 DEF SideRecords
  <1> HIDE DEF y
  <1>6. Turns(s) /\ side'[s] = y
    BY <1>2, <1>3, <1>4, OneSide
  <1> QED BY <1>1, <1>5, <1>6 DEF Unlink, Rest, Same

\* The socket listens, and its thread runs.
LEMMA ListenEffect ==
  ASSUME Types, NEW s \in Sidebars, Listen(s)
  PROVE  /\ Turns(s)
         /\ side[s].pc = "listen" /\ side'[s].pc = "serve" /\ side'[s].listening
         /\ side'[s].thread /\ side'[s].ino = side[s].ino
         /\ side'[s].why = side[s].why /\ side'[s].rival = side[s].rival
  <1> DEFINE y == [side[s] EXCEPT !.pc = "serve", !.listening = TRUE, !.thread = TRUE]
  <1>1. side[s] \in SideRecords /\ Len(side[s].queue) <= Backlog
    BY DEF Types
  <1>2. y \in SideRecords
    BY <1>1, PcsAre DEF SideRecords
  <1>3. Len(y.queue) <= Backlog
    BY <1>1 DEF SideRecords
  <1>4. side' = [side EXCEPT ![s] = y]
    BY <1>1 DEF Listen, SideRecords
  <1>5. /\ y.ino = side[s].ino /\ y.seen = side[s].seen /\ y.why = side[s].why
        /\ y.rival = side[s].rival
        /\ y.pc = "serve"
        /\ y.listening = TRUE
        /\ y.thread = TRUE
    BY <1>1 DEF SideRecords
  <1> HIDE DEF y
  <1>6. Turns(s) /\ side'[s] = y
    BY <1>2, <1>3, <1>4, OneSide
  <1> QED BY <1>1, <1>5, <1>6 DEF Listen, Rest, Same

\* The main loop runs a command: --quit closes the server.
LEMMA HandleEffect ==
  ASSUME Types, NEW s \in Sidebars, Handle(s)
  PROVE  /\ Turns(s)
         /\ side[s].pc = "serve" /\ side'[s].pc \in {"serve", "shut"} /\ Rest(s)
  <1> DEFINE q == Tail(side[s].todo)
             p == IF cli[Head(side[s].todo)].cmd = "quit" THEN "shut" ELSE side[s].pc
             y == [side[s] EXCEPT !.todo = q,
                            !.pc = p]
  <1>1. side[s] \in SideRecords /\ Len(side[s].queue) <= Backlog
    BY DEF Types
  <1>0. /\ q \in Seq(Clients)
        /\ p \in SidePcs
    BY <1>1, PcsAre DEF Handle, SideRecords
  <1>2. y \in SideRecords
    <2> HIDE DEF p, q
    <2> QED BY <1>1, <1>0 DEF SideRecords
  <1>3. Len(y.queue) <= Backlog
    BY <1>1, <1>0 DEF SideRecords
  <1>4. side' = [side EXCEPT ![s] = y]
    BY <1>1 DEF Handle, SideRecords
  <1>5. /\ y.ino = side[s].ino /\ y.seen = side[s].seen /\ y.listening = side[s].listening
        /\ y.thread = side[s].thread /\ y.why = side[s].why /\ y.rival = side[s].rival
        /\ y.pc = p
    BY <1>1 DEF SideRecords
  <1> HIDE DEF y
  <1>6. Turns(s) /\ side'[s] = y
    BY <1>2, <1>3, <1>4, OneSide
  <1> QED BY <1>1, <1>0, <1>5, <1>6 DEF Handle, Rest, Same

\* The socket is closed.
LEMMA ShutEffect ==
  ASSUME Types, NEW s \in Sidebars, Shut(s)
  PROVE  /\ Turns(s)
         /\ side[s].pc = "shut" /\ side'[s].pc = "join" /\ ~side'[s].listening
         /\ side'[s].ino = side[s].ino
         /\ side'[s].why = side[s].why /\ side'[s].rival = side[s].rival
  <1> DEFINE q == <<>>
             y == [side[s] EXCEPT !.pc = "join", !.listening = FALSE, !.queue = q]
  <1>1. side[s] \in SideRecords /\ Len(side[s].queue) <= Backlog
    BY DEF Types
  <1>0. q \in Seq(Peers) /\ Len(q) <= Backlog
    BY BoundsAssumption
  <1>2. y \in SideRecords
    <2> HIDE DEF q
    <2> QED BY <1>1, <1>0, PcsAre DEF SideRecords
  <1>3. Len(y.queue) <= Backlog
    BY <1>1, <1>0 DEF SideRecords
  <1>4. side' = [side EXCEPT ![s] = y]
    BY <1>1 DEF Shut, SideRecords
  <1>5. /\ y.ino = side[s].ino /\ y.seen = side[s].seen /\ y.thread = side[s].thread
        /\ y.why = side[s].why /\ y.rival = side[s].rival
        /\ y.pc = "join"
        /\ y.listening = FALSE
    BY <1>1 DEF SideRecords
  <1> HIDE DEF y
  <1>6. Turns(s) /\ side'[s] = y
    BY <1>2, <1>3, <1>4, OneSide
  <1> QED BY <1>1, <1>0, <1>5, <1>6 DEF Shut, Rest, Same

\* The thread has ended.
LEMMA JoinEffect ==
  ASSUME Types, NEW s \in Sidebars, Join(s)
  PROVE  /\ Turns(s)
         /\ side[s].pc = "join" /\ side'[s].pc = "relock" /\ Rest(s)
  <1> DEFINE y == [side[s] EXCEPT !.pc = "relock"]
  <1>1. side[s] \in SideRecords /\ Len(side[s].queue) <= Backlog
    BY DEF Types
  <1>2. y \in SideRecords
    BY <1>1, PcsAre DEF SideRecords
  <1>3. Len(y.queue) <= Backlog
    BY <1>1 DEF SideRecords
  <1>4. side' = [side EXCEPT ![s] = y]
    BY <1>1 DEF Join, SideRecords
  <1>5. /\ y.ino = side[s].ino /\ y.seen = side[s].seen /\ y.listening = side[s].listening
        /\ y.thread = side[s].thread /\ y.why = side[s].why /\ y.rival = side[s].rival
        /\ y.pc = "relock"
    BY <1>1 DEF SideRecords
  <1> HIDE DEF y
  <1>6. Turns(s) /\ side'[s] = y
    BY <1>2, <1>3, <1>4, OneSide
  <1> QED BY <1>1, <1>5, <1>6 DEF Join, Rest, Same

\* The lock is taken to remove the socket, or it is held and the socket stays.
LEMMA RelockEffect ==
  ASSUME Types, NEW s \in Sidebars, Relock(s)
  PROVE  /\ Turns(s)
         /\ side[s].pc = "relock" /\ Rest(s)
         /\ \/ lock = None /\ lock' = s /\ side'[s].pc = "clear"
            \/ lock \notin {None, s} /\ lock' = lock /\ side'[s].pc = "closed"
  <1> DEFINE y == [side[s] EXCEPT !.pc = IF lock = None THEN "clear" ELSE "closed"]
  <1>1. side[s] \in SideRecords /\ Len(side[s].queue) <= Backlog
    BY DEF Types
  <1>2. y \in SideRecords
    BY <1>1, PcsAre DEF SideRecords
  <1>3. Len(y.queue) <= Backlog
    BY <1>1 DEF SideRecords
  <1>4. side' = [side EXCEPT ![s] = y]
    BY <1>1 DEF Relock, SideRecords
  <1>5. /\ y.ino = side[s].ino /\ y.seen = side[s].seen /\ y.listening = side[s].listening
        /\ y.thread = side[s].thread /\ y.why = side[s].why /\ y.rival = side[s].rival
        /\ y.pc = (IF lock = None THEN "clear" ELSE "closed")
    BY <1>1 DEF SideRecords
  <1> HIDE DEF y
  <1>6. Turns(s) /\ side'[s] = y
    BY <1>2, <1>3, <1>4, OneSide
  <1> QED BY <1>1, <1>5, <1>6 DEF Relock, Rest, Same

\* The socket is removed if it is its own.
LEMMA ClearEffect ==
  ASSUME Types, NEW s \in Sidebars, Clear(s)
  PROVE  /\ Turns(s)
         /\ side[s].pc = "clear" /\ side'[s].pc = "closed" /\ Rest(s)
  <1> DEFINE y == [side[s] EXCEPT !.pc = "closed"]
  <1>1. side[s] \in SideRecords /\ Len(side[s].queue) <= Backlog
    BY DEF Types
  <1>2. y \in SideRecords
    BY <1>1, PcsAre DEF SideRecords
  <1>3. Len(y.queue) <= Backlog
    BY <1>1 DEF SideRecords
  <1>4. side' = [side EXCEPT ![s] = y]
    BY <1>1 DEF Clear, SideRecords
  <1>5. /\ y.ino = side[s].ino /\ y.seen = side[s].seen /\ y.listening = side[s].listening
        /\ y.thread = side[s].thread /\ y.why = side[s].why /\ y.rival = side[s].rival
        /\ y.pc = "closed"
    BY <1>1 DEF SideRecords
  <1> HIDE DEF y
  <1>6. Turns(s) /\ side'[s] = y
    BY <1>2, <1>3, <1>4, OneSide
  <1> QED BY <1>1, <1>5, <1>6 DEF Clear, Rest, Same

\* A connection is accepted.
LEMMA AcceptEffect ==
  ASSUME Types, NEW s \in Sidebars, Accept(s)
  PROVE  /\ Turns(s)
         /\ Same(s)
         /\ side[s].queue # <<>> /\ Head(side[s].queue) \in Peers
  <1> DEFINE y == [side[s] EXCEPT !.conn = Head(side[s].queue), !.queue = Tail(side[s].queue)]
  <1>1. side[s] \in SideRecords /\ Len(side[s].queue) <= Backlog
    BY DEF Types
  <1>0. /\ Head(side[s].queue) \in Peers /\ Tail(side[s].queue) \in Seq(Peers)
        /\ Len(Tail(side[s].queue)) <= Backlog
    BY <1>1, BoundsAssumption DEF Accept, SideRecords
  <1>2. y \in SideRecords
    BY <1>1, <1>0, PcsAre DEF SideRecords
  <1>3. Len(y.queue) <= Backlog
    BY <1>1, <1>0 DEF SideRecords
  <1>4. side' = [side EXCEPT ![s] = y]
    BY <1>1 DEF Accept, SideRecords
  <1>5. /\ y.pc = side[s].pc /\ y.ino = side[s].ino /\ y.seen = side[s].seen
        /\ y.listening = side[s].listening /\ y.thread = side[s].thread /\ y.why = side[s].why
        /\ y.rival = side[s].rival
    BY <1>1 DEF SideRecords
  <1> HIDE DEF y
  <1>6. Turns(s) /\ side'[s] = y
    BY <1>2, <1>3, <1>4, OneSide
  <1> QED BY <1>1, <1>0, <1>5, <1>6 DEF Accept, Rest, Same

\* A command is read and handed to the main loop.
LEMMA AnswerEffect ==
  ASSUME Types, NEW s \in Sidebars, Answer(s)
  PROVE  /\ Turns(s)
         /\ Same(s)
         /\ side[s].conn \in Peers
  <1> DEFINE y == [side[s] EXCEPT !.conn = None,
                            !.todo = IF Command(side[s].conn) # "ping"
                                     THEN Append(side[s].todo, side[s].conn)
                                     ELSE side[s].todo]
  <1>1. side[s] \in SideRecords /\ Len(side[s].queue) <= Backlog
    BY DEF Types
  <1>0. /\ side[s].conn \in Peers
        /\ Command(side[s].conn) # "ping" => Append(side[s].todo, side[s].conn) \in Seq(Clients)
    BY <1>1 DEF Answer, Command, SideRecords
  <1>2. y \in SideRecords
    BY <1>1, <1>0, PcsAre DEF SideRecords
  <1>3. Len(y.queue) <= Backlog
    BY <1>1, <1>0 DEF SideRecords
  <1>4. side' = [side EXCEPT ![s] = y]
    BY <1>1 DEF Answer, SideRecords
  <1>5. /\ y.pc = side[s].pc /\ y.ino = side[s].ino /\ y.seen = side[s].seen
        /\ y.listening = side[s].listening /\ y.thread = side[s].thread /\ y.why = side[s].why
        /\ y.rival = side[s].rival
    BY <1>1 DEF SideRecords
  <1> HIDE DEF y
  <1>6. Turns(s) /\ side'[s] = y
    BY <1>2, <1>3, <1>4, OneSide
  <1> QED BY <1>1, <1>0, <1>5, <1>6 DEF Answer, Rest, Same

\* A connection is closed unanswered.
LEMMA ReadTimeoutEffect ==
  ASSUME Types, NEW s \in Sidebars, ReadTimeout(s)
  PROVE  /\ Turns(s)
         /\ Same(s)
         /\ side[s].conn \in Peers
  <1> DEFINE y == [side[s] EXCEPT !.conn = None]
  <1>1. side[s] \in SideRecords /\ Len(side[s].queue) <= Backlog
    BY DEF Types
  <1>0. side[s].conn \in Peers
    BY <1>1 DEF ReadTimeout, SideRecords
  <1>2. y \in SideRecords
    BY <1>1, <1>0, PcsAre DEF SideRecords
  <1>3. Len(y.queue) <= Backlog
    BY <1>1, <1>0 DEF SideRecords
  <1>4. side' = [side EXCEPT ![s] = y]
    BY <1>1 DEF ReadTimeout, SideRecords
  <1>5. /\ y.pc = side[s].pc /\ y.ino = side[s].ino /\ y.seen = side[s].seen
        /\ y.listening = side[s].listening /\ y.thread = side[s].thread /\ y.why = side[s].why
        /\ y.rival = side[s].rival
    BY <1>1 DEF SideRecords
  <1> HIDE DEF y
  <1>6. Turns(s) /\ side'[s] = y
    BY <1>2, <1>3, <1>4, OneSide
  <1> QED BY <1>1, <1>0, <1>5, <1>6 DEF ReadTimeout, Rest, Same

\* The thread of a closed socket ends.
LEMMA ThreadEndsEffect ==
  ASSUME Types, NEW s \in Sidebars, ThreadEnds(s)
  PROVE  /\ Turns(s)
         /\ side'[s].pc = side[s].pc /\ side'[s].ino = side[s].ino /\ side'[s].seen = side[s].seen
         /\ ~side[s].listening \/ side[s].pc = "shut"
         /\ side'[s].listening = side[s].listening
         /\ side'[s].why = side[s].why /\ side'[s].rival = side[s].rival
  <1> DEFINE y == [side[s] EXCEPT !.thread = FALSE]
  <1>1. side[s] \in SideRecords /\ Len(side[s].queue) <= Backlog
    BY DEF Types
  <1>2. y \in SideRecords
    BY <1>1, PcsAre DEF SideRecords
  <1>3. Len(y.queue) <= Backlog
    BY <1>1 DEF SideRecords
  <1>4. side' = [side EXCEPT ![s] = y]
    BY <1>1 DEF ThreadEnds, SideRecords
  <1>5. /\ y.pc = side[s].pc /\ y.ino = side[s].ino /\ y.seen = side[s].seen
        /\ y.listening = side[s].listening /\ y.why = side[s].why /\ y.rival = side[s].rival
        /\ y.thread = FALSE
    BY <1>1 DEF SideRecords
  <1> HIDE DEF y
  <1>6. Turns(s) /\ side'[s] = y
    BY <1>2, <1>3, <1>4, OneSide
  <1> QED BY <1>1, <1>5, <1>6 DEF ThreadEnds, Rest, Same

\* A server that is not healthy is closed to start another.
LEMMA RepairEffect ==
  ASSUME Types, NEW s \in Sidebars, Repair(s)
  PROVE  /\ Turns(s)
         /\ side[s].pc = "serve" /\ side'[s].pc = "shut" /\ Rest(s)
  <1> DEFINE y == [side[s] EXCEPT !.pc = "shut", !.again = TRUE]
  <1>1. side[s] \in SideRecords /\ Len(side[s].queue) <= Backlog
    BY DEF Types
  <1>2. y \in SideRecords
    BY <1>1, PcsAre DEF SideRecords
  <1>3. Len(y.queue) <= Backlog
    BY <1>1 DEF SideRecords
  <1>4. side' = [side EXCEPT ![s] = y]
    BY <1>1 DEF Repair, SideRecords
  <1>5. /\ y.ino = side[s].ino /\ y.seen = side[s].seen /\ y.listening = side[s].listening
        /\ y.thread = side[s].thread /\ y.why = side[s].why /\ y.rival = side[s].rival
        /\ y.pc = "shut"
    BY <1>1 DEF SideRecords
  <1> HIDE DEF y
  <1>6. Turns(s) /\ side'[s] = y
    BY <1>2, <1>3, <1>4, OneSide
  <1> QED BY <1>1, <1>5, <1>6 DEF Repair, Rest, Same

\* A start by s: it waits for the lock; whoever is starting has a rival in it.
LEMMA StartedEffect ==
  ASSUME Types, NEW s \in Sidebars, NEW todo \in Seq(Clients),
         Started(s, [Off EXCEPT !.todo = todo])
  PROVE  /\ SidesAreTyped'
         /\ side'[s].pc = "lock" /\ side'[s].ino = 0 /\ ~side'[s].listening
         /\ side'[s].why = "none"
         /\ side'[s].rival = \E u \in Sidebars \ {s} : side[u].pc # "off"
         /\ \A t \in Sidebars \ {s} :
              /\ side'[t].pc = side[t].pc /\ side'[t].ino = side[t].ino
              /\ side'[t].seen = side[t].seen /\ side'[t].listening = side[t].listening
              /\ side'[t].thread = side[t].thread /\ side'[t].why = side[t].why
              /\ side'[t].rival = (side[t].rival \/ Starting(t))
         /\ used.starts < MaxStarts /\ used' = [used EXCEPT !.starts = @ + 1]
  <1> DEFINE r == \E u \in Sidebars \ {s} : side[u].pc # "off"
             new == [Off EXCEPT !.todo = todo, !.pc = "lock", !.why = "none", !.rival = r]
             upd(t) == [side[t] EXCEPT !.rival = side[t].rival \/ Starting(t)]
  <1>1. /\ side' = [t \in Sidebars |-> IF t = s THEN new ELSE upd(t)]
        /\ used.starts < MaxStarts /\ used' = [used EXCEPT !.starts = @ + 1]
    BY OffIsASide DEF Started, SideRecords
  <1>2. r \in BOOLEAN /\ "none" \in Whys /\ Len(<<>>) <= Backlog
    BY BoundsAssumption DEF Whys
  <1>3. /\ new \in SideRecords /\ new.pc = "lock" /\ new.ino = 0 /\ ~new.listening
        /\ new.why = "none" /\ new.rival = r /\ new.queue = <<>>
    <2> HIDE DEF r
    <2> QED BY <1>2, OffIsASide, PcsAre DEF SideRecords
  <1>4. ASSUME NEW t \in Sidebars
        PROVE  /\ upd(t) \in SideRecords /\ Len(upd(t).queue) <= Backlog
               /\ upd(t).pc = side[t].pc /\ upd(t).ino = side[t].ino
               /\ upd(t).seen = side[t].seen /\ upd(t).listening = side[t].listening
               /\ upd(t).thread = side[t].thread /\ upd(t).why = side[t].why
               /\ upd(t).rival = (side[t].rival \/ Starting(t))
    <2> DEFINE b == side[t].rival \/ Starting(t)
    <2>1. side[t] \in SideRecords /\ Len(side[t].queue) <= Backlog /\ b \in BOOLEAN
      BY DEF Types
    <2> HIDE DEF b
    <2>2. [side[t] EXCEPT !.rival = b] \in SideRecords
      BY <2>1 DEF SideRecords
    <2>3. /\ Len([side[t] EXCEPT !.rival = b].queue) <= Backlog
          /\ [side[t] EXCEPT !.rival = b].pc = side[t].pc
          /\ [side[t] EXCEPT !.rival = b].ino = side[t].ino
          /\ [side[t] EXCEPT !.rival = b].seen = side[t].seen
          /\ [side[t] EXCEPT !.rival = b].listening = side[t].listening
          /\ [side[t] EXCEPT !.rival = b].thread = side[t].thread
          /\ [side[t] EXCEPT !.rival = b].why = side[t].why
          /\ [side[t] EXCEPT !.rival = b].rival = b
      BY <2>1 DEF SideRecords
    <2> QED BY <2>2, <2>3 DEF b
  <1> HIDE DEF new, upd
  <1>5. side'[s] = new /\ \A t \in Sidebars \ {s} : side'[t] = upd(t)
    BY <1>1
  <1>6. SidesAreTyped'
    BY <1>1, <1>2, <1>3, <1>4 DEF SidesAreTyped
  <1> QED BY <1>1, <1>3, <1>4, <1>5, <1>6 DEF r

\* A connection waits at the socket of t.
LEMMA SendEffect ==
  ASSUME Types, NEW t \in Sidebars, NEW p \in Peers, Len(side[t].queue) < Backlog,
         side' = [side EXCEPT ![t].queue = Append(@, p)]
  PROVE  SidesAreTyped' /\ \A u \in Sidebars : Same(u)
  <1> DEFINE q == Append(side[t].queue, p)
             y == [side[t] EXCEPT !.queue = q]
  <1>1. side[t] \in SideRecords
    BY DEF Types
  <1>2. q \in Seq(Peers) /\ Len(q) <= Backlog
    BY <1>1, BoundsAssumption DEF SideRecords
  <1>3. side' = [side EXCEPT ![t] = y]
    BY DEF y
  <1> HIDE DEF q
  <1>4. y \in SideRecords /\ Len(y.queue) <= Backlog
    BY <1>1, <1>2 DEF SideRecords
  <1>5. /\ y.pc = side[t].pc /\ y.ino = side[t].ino /\ y.seen = side[t].seen
        /\ y.listening = side[t].listening /\ y.thread = side[t].thread
        /\ y.why = side[t].why /\ y.rival = side[t].rival
    BY <1>1 DEF SideRecords
  <1> HIDE DEF y
  <1>6. Turns(t) /\ side'[t] = y
    BY <1>3, <1>4, OneSide
  <1> QED BY <1>5, <1>6 DEF Turns, Same, Rest

\* A probe finds nobody, waits for an answer, or gives the start up.
LEMMA ProbeEffect ==
  ASSUME Types, NEW s \in Sidebars, Probe(s), ~side[s].listening
  PROVE  /\ side[s].pc = "probe" /\ UNCHANGED <<path, cli, used>>
         /\ \/ /\ Listener = None /\ Turns(s) /\ side'[s].pc = "recheck" /\ Rest(s)
               /\ UNCHANGED <<lock, link, ran>>
            \/ /\ Listener # None /\ SidesAreTyped' /\ \A u \in Sidebars \ {s} : Same(u)
               /\ side'[s].pc = "await" /\ Rest(s)
               /\ link' = [link EXCEPT ![s] = [to |-> Listener, ino |-> side[Listener].ino,
                                               state |-> "queued"]]
               /\ UNCHANGED <<lock, ran>>
            \/ Listener # None /\ Fails(s, "busy")
  <1>1. side[s].pc = "probe" /\ UNCHANGED <<path, cli, used>> /\ side[s] \in SideRecords
        /\ Len(side[s].queue) <= Backlog
    BY DEF Probe, Fine, Types
  <1>2. CASE Listener = None /\ side' = [side EXCEPT ![s].pc = "recheck"] /\ UNCHANGED <<lock, link, ran>>
    <2> DEFINE y == [side[s] EXCEPT !.pc = "recheck"]
    <2>1. y \in SideRecords /\ Len(y.queue) <= Backlog
      BY <1>1, PcsAre DEF SideRecords
    <2>2. /\ y.pc = "recheck" /\ y.ino = side[s].ino /\ y.seen = side[s].seen
          /\ y.listening = side[s].listening /\ y.thread = side[s].thread
          /\ y.why = side[s].why /\ y.rival = side[s].rival
      BY <1>1 DEF SideRecords
    <2>3. side' = [side EXCEPT ![s] = y]
      BY <1>2
    <2> HIDE DEF y
    <2>4. Turns(s) /\ side'[s] = y
      BY <2>1, <2>3, OneSide
    <2> QED BY <1>1, <1>2, <2>2, <2>4 DEF Rest
  <1>3. CASE /\ Listener # None /\ Connects(s, Listener)
             /\ side' = [side EXCEPT ![s].pc = "await", ![Listener].queue = Append(@, s)]
             /\ UNCHANGED <<lock, ran>>
    <2> DEFINE t == Listener
               y == [side[s] EXCEPT !.pc = "await"]
               q == Append(side[t].queue, s)
               z == [side[t] EXCEPT !.queue = q]
    <2>1. t \in Sidebars /\ t # s /\ side[t] \in SideRecords
      BY <1>3, ListenerFound DEF Types
    <2>2. side' = [side EXCEPT ![s] = y, ![t] = z]
      BY <1>3, <2>1 DEF Types
    <2>3. q \in Seq(Peers) /\ Len(q) <= Backlog
      BY <1>3, <2>1, BoundsAssumption DEF Connects, SideRecords, Peers
    <2>4. y \in SideRecords /\ Len(y.queue) <= Backlog
      BY <1>1, PcsAre DEF SideRecords
    <2> HIDE DEF q
    <2>5. z \in SideRecords /\ Len(z.queue) <= Backlog
      BY <2>1, <2>3 DEF SideRecords
    <2>6. /\ y.pc = "await" /\ y.ino = side[s].ino /\ y.seen = side[s].seen
          /\ y.listening = side[s].listening /\ y.thread = side[s].thread
          /\ y.why = side[s].why /\ y.rival = side[s].rival
      BY <1>1 DEF SideRecords
    <2>7. /\ z.pc = side[t].pc /\ z.ino = side[t].ino /\ z.seen = side[t].seen
          /\ z.listening = side[t].listening /\ z.thread = side[t].thread
          /\ z.why = side[t].why /\ z.rival = side[t].rival
      BY <2>1 DEF SideRecords
    <2> HIDE DEF y, z, t
    <2>8. /\ side'[s] = y /\ side'[t] = z
          /\ \A u \in Sidebars \ {s, t} : side'[u] = side[u]
          /\ side' \in [Sidebars -> SideRecords]
      BY <2>1, <2>2, <2>4, <2>5 DEF Types
    <2>9. \A u \in Sidebars : Len(side'[u].queue) <= Backlog
      BY <2>4, <2>5, <2>8 DEF Types
    <2>10. \A u \in Sidebars \ {s} : Same(u)
      BY <2>7, <2>8 DEF Same, Rest
    <2> QED BY <1>1, <1>3, <2>6, <2>8, <2>9, <2>10 DEF SidesAreTyped, Rest, Connects, t
  <1>4. CASE Listener # None /\ Fails(s, "busy")
    BY <1>1, <1>4
  <1> QED BY <1>2, <1>3, <1>4 DEF Probe

\* What was seen is to be removed, or the start is given up.
LEMMA RecheckEffect ==
  ASSUME Types, NEW s \in Sidebars, Recheck(s)
  PROVE  /\ side[s].pc = "recheck" /\ UNCHANGED <<path, cli, used>>
         /\ \/ /\ Turns(s) /\ side'[s].pc = (IF path = 0 THEN "bind" ELSE "unlink") /\ Rest(s)
               /\ UNCHANGED <<lock, link, ran>>
            \/ path \notin {0, side[s].seen} /\ Fails(s, "changed")
  <1> DEFINE p == IF path = 0 THEN "bind" ELSE "unlink"
             y == [side[s] EXCEPT !.pc = p]
  <1>1. /\ side[s] \in SideRecords /\ Len(side[s].queue) <= Backlog /\ p \in SidePcs
        /\ side[s].pc = "recheck" /\ UNCHANGED <<path, cli, used>>
    BY PcsAre DEF Types, Recheck, Fine
  <1>2. CASE side' = [side EXCEPT ![s].pc = p] /\ UNCHANGED <<lock, link, ran>>
    <2>1. side' = [side EXCEPT ![s] = y]
      BY <1>2
    <2> HIDE DEF p
    <2>2. y \in SideRecords /\ Len(y.queue) <= Backlog
      BY <1>1 DEF SideRecords
    <2>3. /\ y.pc = p /\ y.ino = side[s].ino /\ y.seen = side[s].seen
          /\ y.listening = side[s].listening /\ y.thread = side[s].thread
          /\ y.why = side[s].why /\ y.rival = side[s].rival
      BY <1>1 DEF SideRecords
    <2> HIDE DEF y
    <2>4. Turns(s) /\ side'[s] = y
      BY <2>1, <2>2, OneSide
    <2> QED BY <1>1, <1>2, <2>3, <2>4 DEF Rest, p
  <1> QED BY <1>1, <1>2 DEF Recheck

\* A socket of its own is bound to the free path.
LEMMA BindEffect ==
  ASSUME Types, NEW s \in Sidebars, Bind(s)
  PROVE  /\ side[s].pc = "bind" /\ UNCHANGED cli
         /\ \/ /\ Turns(s) /\ path = 0 /\ side'[s].pc = "listen"
               /\ path' = used.inodes + 1 /\ side'[s].ino = used.inodes + 1
               /\ used' = [used EXCEPT !.inodes = @ + 1]
               /\ side'[s].listening = side[s].listening
               /\ side'[s].why = side[s].why /\ side'[s].rival = side[s].rival
               /\ UNCHANGED <<lock, link, ran>>
            \/ path # 0 /\ Fails(s, "in_use") /\ UNCHANGED <<path, used>>
  <1> DEFINE i == used.inodes + 1
             y == [side[s] EXCEPT !.pc = "listen", !.ino = i]
  <1>1. /\ side[s] \in SideRecords /\ Len(side[s].queue) <= Backlog /\ i \in Nat
        /\ side[s].pc = "bind" /\ UNCHANGED cli
    BY DEF Types, Bind
  <1>2. CASE path = 0
    <2>1. side' = [side EXCEPT ![s] = y]
      BY <1>2 DEF Bind
    <2> HIDE DEF i
    <2>2. y \in SideRecords /\ Len(y.queue) <= Backlog
      BY <1>1, PcsAre DEF SideRecords
    <2>3. /\ y.pc = "listen" /\ y.ino = i /\ y.listening = side[s].listening
          /\ y.why = side[s].why /\ y.rival = side[s].rival
      BY <1>1 DEF SideRecords
    <2> HIDE DEF y
    <2>4. Turns(s) /\ side'[s] = y
      BY <2>1, <2>2, OneSide
    <2> QED BY <1>1, <1>2, <2>3, <2>4 DEF Bind, i
  <1>3. CASE path # 0
    BY <1>1, <1>3 DEF Bind, Fine
  <1> QED BY <1>2, <1>3

\* A killed process leaves the path, its socket is closed.
LEMMA KillEffect ==
  ASSUME Types, NEW s \in Sidebars, Kill(s)
  PROVE  /\ Turns(s) /\ side'[s].pc = "off" /\ side'[s].ino = 0 /\ ~side'[s].listening
         /\ side'[s].why = side[s].why /\ side'[s].rival = side[s].rival
         /\ link' = [Severed(s, TRUE) EXCEPT ![s] = NoLink]
         /\ lock' = (IF lock = s THEN None ELSE lock)
         /\ ran' \in [Clients -> {"no", "run", "dropped"}]
         /\ used' = [used EXCEPT !.faults = @ + 1] /\ UNCHANGED <<path, cli>>
  <1>1. side[s].why \in Whys /\ Quit(s) = [Quit(s) EXCEPT !.why = side[s].why]
    BY OffIsASide DEF Types, SideRecords, Quit
  <1>2. side' = [side EXCEPT ![s] = [Quit(s) EXCEPT !.why = side[s].why]]
    BY <1>1 DEF Kill
  <1>3. ran' \in [Clients -> {"no", "run", "dropped"}]
    BY DEF Kill, Dropped, Types
  <1> QED BY <1>1, <1>2, <1>3, EndEffect DEF Kill, Faulty

\* A closed server ends its process, or is replaced.
LEMMA ClosedEffect ==
  ASSUME Types, NEW s \in Sidebars, Closed(s)
  PROVE  /\ side[s].pc = "closed" /\ UNCHANGED <<path, lock, cli, link>>
         /\ ran' \in [Clients -> {"no", "run", "dropped"}]
         /\ \/ /\ Turns(s) /\ side'[s].pc = "off" /\ side'[s].ino = 0 /\ ~side'[s].listening
               /\ side'[s].why = side[s].why /\ side'[s].rival = side[s].rival
               /\ UNCHANGED used
            \/ Started(s, [Off EXCEPT !.todo = side[s].todo]) /\ side[s].todo \in Seq(Clients)
  <1>1. side[s].why \in Whys /\ Quit(s) = [Quit(s) EXCEPT !.why = side[s].why]
    BY OffIsASide DEF Types, SideRecords, Quit
  <1>2. ran' \in [Clients -> {"no", "run", "dropped"}]
    BY DEF Closed, Dropped, Types
  <1>3. CASE side' = [side EXCEPT ![s] = Quit(s)] /\ Fine
    <2>1. side' = [side EXCEPT ![s] = [Quit(s) EXCEPT !.why = side[s].why]]
      BY <1>1, <1>3
    <2> QED BY <1>1, <1>2, <1>3, <2>1, EndEffect DEF Closed, Fine
  <1>4. CASE Started(s, [Off EXCEPT !.todo = side[s].todo])
    BY <1>2, <1>4 DEF Closed, Types, SideRecords
  <1> QED BY <1>3, <1>4 DEF Closed

-----------------------------------------------------------------------------
(* The steps, as far as the sockets, the lock and the rivals are concerned. *)

Counts == used'.starts = used.starts /\ used'.inodes = used.inodes
Stands == UNCHANGED <<path, lock>> /\ Counts
Others(s) == \A t \in Sidebars \ {s} : Same(t)
Steps(s, from, to) == side[s].pc = from /\ side'[s].pc = to /\ Rest(s) /\ Others(s)

\* The process of s is gone, or its start has ended as why says.
Gone(s, why) ==
  /\ side'[s].pc = "off" /\ side'[s].ino = 0 /\ ~side'[s].listening
  /\ side'[s].why = why /\ side'[s].rival = side[s].rival /\ Others(s)
  /\ lock' = (IF lock = s THEN None ELSE lock) /\ Counts

\* Connections and commands come and go.
AtRest == (\A t \in Sidebars : Same(t)) /\ Stands

\* A server of s starts: it counts those that live, and those that are starting count it.
StartMove(s) ==
  /\ side[s].pc \in {"off", "closed"} /\ UNCHANGED <<path, lock>>
  /\ side'[s].pc = "lock" /\ side'[s].ino = 0 /\ ~side'[s].listening
  /\ side'[s].why = "none" /\ side'[s].rival = \E u \in Sidebars \ {s} : side[u].pc # "off"
  /\ \A t \in Sidebars \ {s} :
       /\ side'[t].pc = side[t].pc /\ side'[t].ino = side[t].ino
       /\ side'[t].seen = side[t].seen /\ side'[t].listening = side[t].listening
       /\ side'[t].thread = side[t].thread /\ side'[t].why = side[t].why
       /\ side'[t].rival = (side[t].rival \/ Starting(t))
  /\ used.starts < MaxStarts /\ used'.starts = used.starts + 1 /\ used'.inodes = used.inodes

LockMove(s) ==
  Steps(s, "lock", "look") /\ lock = None /\ lock' = s /\ UNCHANGED path /\ Counts

LookMove(s) ==
  /\ side[s].pc = "look" /\ side'[s].pc = (IF path = 0 THEN "bind" ELSE "probe")
  /\ side'[s].seen = path /\ side'[s].ino = side[s].ino /\ side'[s].thread = side[s].thread
  /\ side'[s].listening = side[s].listening /\ side'[s].why = side[s].why
  /\ side'[s].rival = side[s].rival /\ Others(s) /\ Stands

\* Nobody listens at the path, or the sidebar that does is asked.
FreeMove(s) == Steps(s, "probe", "recheck") /\ Listener = None /\ Stands
AskMove(s)  == Steps(s, "probe", "await") /\ Listener # None /\ Stands

\* A start is refused: the lock is taken, a sidebar answers or is busy, or the path changed.
RefusedMove(s) ==
  /\ \E why \in Whys : Gone(s, why)
  /\ \/ side[s].pc = "lock" /\ lock \notin {None, s}
     \/ side[s].pc = "probe" /\ Listener # None
     \/ side[s].pc = "await"
     \/ side[s].pc = "recheck" /\ path \notin {0, side[s].seen}
     \/ side[s].pc = "bind" /\ path # 0
  /\ UNCHANGED path

RecheckMove(s) == Steps(s, "recheck", IF path = 0 THEN "bind" ELSE "unlink") /\ Stands
UnlinkMove(s)  == Steps(s, "unlink", "bind") /\ path' = 0 /\ UNCHANGED lock /\ Counts

BindMove(s) ==
  /\ side[s].pc = "bind" /\ path = 0 /\ side'[s].pc = "listen"
  /\ path' = used.inodes + 1 /\ side'[s].ino = used.inodes + 1
  /\ used'.inodes = used.inodes + 1 /\ used'.starts = used.starts
  /\ side'[s].listening = side[s].listening /\ side'[s].why = side[s].why
  /\ side'[s].rival = side[s].rival /\ Others(s) /\ UNCHANGED lock

ListenMove(s) ==
  /\ side[s].pc = "listen" /\ side'[s].pc = "serve" /\ side'[s].listening /\ side'[s].thread
  /\ side'[s].ino = side[s].ino /\ side'[s].why = side[s].why
  /\ side'[s].rival = side[s].rival /\ Others(s)
  /\ lock' = (IF lock = s THEN None ELSE lock) /\ UNCHANGED path /\ Counts

\* A start fails for a reason of its own.
FaultMove(s) ==
  /\ side[s].pc \in {"lock", "look", "probe", "recheck", "unlink", "bind", "listen"}
  /\ Gone(s, "fault")
  /\ path' = IF path = side[s].ino THEN 0 ELSE path

\* The thread of a server ends, or its main loop is done with it.
ThreadMove(s) ==
  /\ side'[s].pc = side[s].pc /\ side'[s].ino = side[s].ino /\ side'[s].seen = side[s].seen
  /\ ~side[s].listening \/ side[s].pc = "shut"
  /\ side'[s].listening = side[s].listening /\ side'[s].why = side[s].why
  /\ side'[s].rival = side[s].rival /\ Others(s) /\ Stands
CloseMove(s) == Steps(s, "serve", "shut") /\ Stands

ShutMove(s) ==
  /\ side[s].pc = "shut" /\ side'[s].pc = "join" /\ ~side'[s].listening
  /\ side'[s].ino = side[s].ino /\ side'[s].why = side[s].why
  /\ side'[s].rival = side[s].rival /\ Others(s) /\ Stands

JoinMove(s) == Steps(s, "join", "relock") /\ Stands
RelockMove(s) ==
  /\ \/ Steps(s, "relock", "clear") /\ lock = None /\ lock' = s
     \/ Steps(s, "relock", "closed") /\ lock \notin {None, s} /\ lock' = lock
  /\ UNCHANGED path /\ Counts
ClearMove(s) ==
  /\ Steps(s, "clear", "closed") /\ lock' = None /\ Counts
  /\ path' = IF path = side[s].ino THEN 0 ELSE path

\* The process ends, of its own or by a kill.
ExitMove(s) == side[s].pc # "off" /\ Gone(s, side[s].why) /\ UNCHANGED path

SidebarMove(s) ==
  \/ StartMove(s) \/ LockMove(s) \/ LookMove(s) \/ FreeMove(s) \/ AskMove(s)
  \/ RefusedMove(s) \/ RecheckMove(s) \/ UnlinkMove(s) \/ BindMove(s) \/ ListenMove(s)
  \/ FaultMove(s) \/ ThreadMove(s) \/ CloseMove(s) \/ ShutMove(s) \/ JoinMove(s)
  \/ RelockMove(s) \/ ClearMove(s) \/ ExitMove(s)

Move == AtRest \/ \E s \in Sidebars : SidebarMove(s)

\* Each start, in a new process or as a repair, is such a start.
LEMMA StartsEffect ==
  ASSUME Types, NEW s \in Sidebars, NEW todo \in Seq(Clients), UNCHANGED <<path, lock>>,
         side[s].pc \in {"off", "closed"}, Started(s, [Off EXCEPT !.todo = todo])
  PROVE  StartMove(s) /\ SidesAreTyped'
  <1>1. used' = [used EXCEPT !.starts = @ + 1] =>
          used'.starts = used.starts + 1 /\ used'.inodes = used.inodes
    BY DEF Types
  <1> QED BY <1>1, StartedEffect DEF StartMove

\* A start that fails ends the process.
LEMMA FailsIsGone ==
  ASSUME Types, NEW s \in Sidebars, NEW w \in Whys, Fails(s, w), Counts
  PROVE  Gone(s, w) /\ SidesAreTyped'
  BY FailsEffect DEF Gone, Others, Turns

\* Every step is one of those, and leaves every sidebar a sidebar with no queue longer than
\* its socket allows.
LEMMA StepIsMove ==
  ASSUME IndInv, [Next]_vars
  PROVE  SidesAreTyped' /\ Move
  <1> USE DEF IndInv, Types, Peers
  <1>1. CASE \E s \in Sidebars : Launch(s, <<>>) /\ UNCHANGED <<path, lock, cli, link, ran>>
    <2>1. PICK s \in Sidebars : Launch(s, <<>>)
      BY <1>1
    <2>2. <<>> \in Seq(Clients) /\ UNCHANGED <<path, lock>>
      BY <1>1
    <2>3. side[s].pc = "off" /\ Started(s, [Off EXCEPT !.todo = <<>>])
      BY <2>1 DEF Launch
    <2>4. StartMove(s) /\ SidesAreTyped'
      BY <2>2, <2>3, StartsEffect
    <2> QED BY <2>4 DEF Move, SidebarMove
  <1>2. CASE \E s \in Sidebars : TakeLock(s)
    <2>1. PICK s \in Sidebars : TakeLock(s)
      BY <1>2
    <2>2. lock = None /\ lock' = s /\ UNCHANGED <<path, cli, link, used>>
      BY <2>1 DEF TakeLock
    <2>9. LockMove(s) /\ SidesAreTyped'
      BY <2>1, <2>2, TakeLockEffect DEF LockMove, Steps, Others, Stands, Counts, Turns
    <2> QED BY <2>9 DEF Move, SidebarMove
  <1>3. CASE \E s \in Sidebars : LockTimeout(s)
    <2>1. PICK s \in Sidebars : LockTimeout(s)
      BY <1>3
    <2>2. side[s].pc = "lock" /\ lock \notin {None, s} /\ Fails(s, "locked")
                /\ UNCHANGED <<path, cli, used>>
      BY <2>1 DEF LockTimeout
    <2>3. {"locked", "exists", "busy", "changed", "in_use", "fault"} \subseteq Whys
      BY DEF Whys
    <2>4. RefusedMove(s) /\ SidesAreTyped'
      BY <2>2, <2>3, FailsIsGone DEF RefusedMove, Counts
    <2> QED BY <2>4 DEF Move, SidebarMove
  <1>4. CASE \E s \in Sidebars : Look(s)
    <2>1. PICK s \in Sidebars : Look(s)
      BY <1>4
    <2>2. UNCHANGED <<path, lock, cli, link, used>>
      BY <2>1 DEF Look
    <2>9. LookMove(s) /\ SidesAreTyped'
      BY <2>1, <2>2, LookEffect DEF LookMove, Others, Stands, Counts, Turns
    <2> QED BY <2>9 DEF Move, SidebarMove
  <1>5. CASE \E s \in Sidebars : Probe(s)
    <2>1. PICK s \in Sidebars : Probe(s)
      BY <1>5
    <2>2. side[s].pc = "probe" /\ ~side[s].listening
      BY <2>1 DEF Probe, SocketFacts, ListenersAreReached
    <2>3. UNCHANGED <<path, used>> /\ "busy" \in Whys
      BY <2>1, <2>2, ProbeEffect DEF Whys
    <2>4. CASE Listener = None
      <3>1. FreeMove(s) /\ SidesAreTyped'
        BY <2>1, <2>2, <2>4, ProbeEffect DEF FreeMove, Steps, Others, Stands, Counts, Turns
      <3> QED BY <3>1 DEF Move, SidebarMove
    <2>5. CASE Listener # None /\ Fails(s, "busy")
      <3>1. RefusedMove(s) /\ SidesAreTyped'
        BY <2>2, <2>3, <2>5, FailsIsGone DEF RefusedMove, Counts
      <3> QED BY <3>1 DEF Move, SidebarMove
    <2>6. CASE Listener # None /\ ~Fails(s, "busy")
      <3>1. AskMove(s) /\ SidesAreTyped'
        BY <2>1, <2>2, <2>6, ProbeEffect DEF AskMove, Steps, Others, Stands, Counts
      <3> QED BY <3>1 DEF Move, SidebarMove
    <2> QED BY <2>4, <2>5, <2>6
  <1>6. CASE \E s \in Sidebars : ProbeAnswered(s)
    <2>1. PICK s \in Sidebars : ProbeAnswered(s)
      BY <1>6
    <2>2. side[s].pc = "await" /\ (Fails(s, "exists") \/ Fails(s, "busy"))
                /\ UNCHANGED <<path, cli, used>>
      BY <2>1 DEF ProbeAnswered
    <2>3. {"locked", "exists", "busy", "changed", "in_use", "fault"} \subseteq Whys
      BY DEF Whys
    <2>4. RefusedMove(s) /\ SidesAreTyped'
      BY <2>2, <2>3, FailsIsGone DEF RefusedMove, Counts
    <2> QED BY <2>4 DEF Move, SidebarMove
  <1>7. CASE \E s \in Sidebars : Recheck(s)
    <2>1. PICK s \in Sidebars : Recheck(s)
      BY <1>7
    <2>2. side[s].pc = "recheck" /\ UNCHANGED <<path, used>> /\ "changed" \in Whys
      BY <2>1, RecheckEffect DEF Whys
    <2>3. CASE path \notin {0, side[s].seen} /\ Fails(s, "changed")
      <3>1. RefusedMove(s) /\ SidesAreTyped'
        BY <2>2, <2>3, FailsIsGone DEF RefusedMove, Counts
      <3> QED BY <3>1 DEF Move, SidebarMove
    <2>4. CASE ~(path \notin {0, side[s].seen} /\ Fails(s, "changed"))
      <3>1. RecheckMove(s) /\ SidesAreTyped'
        BY <2>1, <2>4, RecheckEffect DEF RecheckMove, Steps, Others, Stands, Counts, Turns
      <3> QED BY <3>1 DEF Move, SidebarMove
    <2> QED BY <2>3, <2>4
  <1>8. CASE \E s \in Sidebars : Unlink(s)
    <2>1. PICK s \in Sidebars : Unlink(s)
      BY <1>8
    <2>2. path' = 0 /\ UNCHANGED <<lock, cli, link, used>>
      BY <2>1 DEF Unlink
    <2>9. UnlinkMove(s) /\ SidesAreTyped'
      BY <2>1, <2>2, UnlinkEffect DEF UnlinkMove, Steps, Others, Stands, Counts, Turns
    <2> QED BY <2>9 DEF Move, SidebarMove
  <1>9. CASE \E s \in Sidebars : Bind(s)
    <2>1. PICK s \in Sidebars : Bind(s)
      BY <1>9
    <2>2. side[s].pc = "bind" /\ "in_use" \in Whys
      BY <2>1, BindEffect DEF Whys
    <2>3. CASE path # 0 /\ Fails(s, "in_use") /\ UNCHANGED <<path, used>>
      <3>1. RefusedMove(s) /\ SidesAreTyped'
        BY <2>2, <2>3, FailsIsGone DEF RefusedMove, Counts
      <3> QED BY <3>1 DEF Move, SidebarMove
    <2>4. CASE path = 0
      <3>1. BindMove(s) /\ SidesAreTyped'
        BY <2>1, <2>4, BindEffect DEF BindMove, Others, Turns
      <3> QED BY <3>1 DEF Move, SidebarMove
    <2> QED BY <2>1, <2>3, <2>4, BindEffect
  <1>10. CASE \E s \in Sidebars : Listen(s)
    <2>1. PICK s \in Sidebars : Listen(s)
      BY <1>10
    <2>2. lock' = (IF lock = s THEN None ELSE lock) /\ UNCHANGED <<path, cli, link, used>>
      BY <2>1 DEF Listen
    <2>9. ListenMove(s) /\ SidesAreTyped'
      BY <2>1, <2>2, ListenEffect DEF ListenMove, Others, Stands, Counts, Turns
    <2> QED BY <2>9 DEF Move, SidebarMove
  <1>11. CASE \E s \in Sidebars : Handle(s)
    <2>1. PICK s \in Sidebars : Handle(s)
      BY <1>11
    <2>2. UNCHANGED <<path, lock, cli, link, used>>
      BY <2>1 DEF Handle
    <2>3. CASE side'[s].pc = "serve"
      <3>1. AtRest /\ SidesAreTyped'
        BY <2>1, <2>2, <2>3, HandleEffect DEF AtRest, Stands, Counts, Turns, Same
      <3> QED BY <3>1 DEF Move
    <2>4. CASE side'[s].pc = "shut"
      <3>1. CloseMove(s) /\ SidesAreTyped'
        BY <2>1, <2>2, <2>4, HandleEffect
          DEF CloseMove, Steps, Others, Stands, Counts, Turns
      <3> QED BY <3>1 DEF Move, SidebarMove
    <2> QED BY <2>1, <2>3, <2>4, HandleEffect
  <1>12. CASE \E s \in Sidebars : Shut(s)
    <2>1. PICK s \in Sidebars : Shut(s)
      BY <1>12
    <2>2. link' = Severed(s, FALSE) /\ UNCHANGED <<path, lock, cli, used>>
      BY <2>1 DEF Shut
    <2>9. ShutMove(s) /\ SidesAreTyped'
      BY <2>1, <2>2, ShutEffect DEF ShutMove, Others, Stands, Counts, Turns
    <2> QED BY <2>9 DEF Move, SidebarMove
  <1>13. CASE \E s \in Sidebars : Join(s)
    <2>1. PICK s \in Sidebars : Join(s)
      BY <1>13
    <2>2. UNCHANGED <<path, lock, cli, link, used>>
      BY <2>1 DEF Join
    <2>9. JoinMove(s) /\ SidesAreTyped'
      BY <2>1, <2>2, JoinEffect DEF JoinMove, Steps, Others, Stands, Counts, Turns
    <2> QED BY <2>9 DEF Move, SidebarMove
  <1>14. CASE \E s \in Sidebars : Relock(s)
    <2>1. PICK s \in Sidebars : Relock(s)
      BY <1>14
    <2>2. UNCHANGED <<path, cli, link, used>>
      BY <2>1 DEF Relock
    <2>9. RelockMove(s) /\ SidesAreTyped'
      BY <2>1, <2>2, RelockEffect DEF RelockMove, Steps, Others, Stands, Counts, Turns
    <2> QED BY <2>9 DEF Move, SidebarMove
  <1>15. CASE \E s \in Sidebars : Clear(s)
    <2>1. PICK s \in Sidebars : Clear(s)
      BY <1>15
    <2>2. path' = (IF path = side[s].ino THEN 0 ELSE path) /\ lock' = None
                /\ UNCHANGED <<cli, link, used>>
      BY <2>1 DEF Clear
    <2>9. ClearMove(s) /\ SidesAreTyped'
      BY <2>1, <2>2, ClearEffect DEF ClearMove, Steps, Others, Stands, Counts, Turns
    <2> QED BY <2>9 DEF Move, SidebarMove
  <1>16. CASE \E s \in Sidebars : Closed(s)
    <2>1. PICK s \in Sidebars : Closed(s)
      BY <1>16
    <2>2. side[s].pc = "closed" /\ UNCHANGED <<path, lock>> /\ lock # s
      BY <2>1, ClosedEffect DEF LockIsTracked, LockedPcs
    <2>3. \/ StartMove(s) /\ SidesAreTyped'
          \/ ExitMove(s) /\ SidesAreTyped'
      BY <2>1, <2>2, ClosedEffect, StartsEffect DEF ExitMove, Gone, Others, Counts, Turns
    <2> QED BY <2>3 DEF Move, SidebarMove
  <1>17. CASE \E s \in Sidebars : Accept(s)
    <2>1. PICK s \in Sidebars : Accept(s)
      BY <1>17
    <2>2. UNCHANGED <<path, lock, cli, used>>
      BY <2>1 DEF Accept
    <2>3. AtRest /\ SidesAreTyped'
      BY <2>1, <2>2, AcceptEffect DEF AtRest, Stands, Counts, Turns
    <2> QED BY <2>3 DEF Move
  <1>18. CASE \E s \in Sidebars : Answer(s)
    <2>1. PICK s \in Sidebars : Answer(s)
      BY <1>18
    <2>2. UNCHANGED <<path, lock, cli, used>>
      BY <2>1 DEF Answer
    <2>3. AtRest /\ SidesAreTyped'
      BY <2>1, <2>2, AnswerEffect DEF AtRest, Stands, Counts, Turns
    <2> QED BY <2>3 DEF Move
  <1>19. CASE \E s \in Sidebars : ThreadEnds(s)
    <2>1. PICK s \in Sidebars : ThreadEnds(s)
      BY <1>19
    <2>2. UNCHANGED <<path, lock, cli, link, used>>
      BY <2>1 DEF ThreadEnds
    <2>9. ThreadMove(s) /\ SidesAreTyped'
      BY <2>1, <2>2, ThreadEndsEffect DEF ThreadMove, Others, Stands, Counts, Turns
    <2> QED BY <2>9 DEF Move, SidebarMove
  <1>20. CASE \E s \in Sidebars : StartFails(s)
    <2>1. PICK s \in Sidebars : StartFails(s)
      BY <1>20
    <2>2. /\ side[s].pc \in {"lock", "look", "probe", "recheck", "unlink", "bind", "listen"}
          /\ path' = (IF path = side[s].ino THEN 0 ELSE path)
          /\ used'.starts = used.starts /\ used'.inodes = used.inodes
          /\ Fails(s, "fault") /\ UNCHANGED cli
      BY <2>1 DEF StartFails, Starting, Faulty
    <2>3. {"locked", "exists", "busy", "changed", "in_use", "fault"} \subseteq Whys
      BY DEF Whys
    <2>4. FaultMove(s) /\ SidesAreTyped'
      BY <2>2, <2>3, FailsIsGone DEF FaultMove, Counts
    <2> QED BY <2>4 DEF Move, SidebarMove
  <1>21. CASE \E s \in Sidebars : ReadTimeout(s)
    <2>1. PICK s \in Sidebars : ReadTimeout(s)
      BY <1>21
    <2>2. UNCHANGED <<path, lock, cli, used>>
      BY <2>1 DEF ReadTimeout
    <2>3. AtRest /\ SidesAreTyped'
      BY <2>1, <2>2, ReadTimeoutEffect DEF AtRest, Stands, Counts, Turns
    <2> QED BY <2>3 DEF Move
  <1>22. CASE \E s \in Sidebars : Repair(s)
    <2>1. PICK s \in Sidebars : Repair(s)
      BY <1>22
    <2>2. used'.starts = used.starts /\ used'.inodes = used.inodes
                /\ UNCHANGED <<path, lock, cli, link>>
      BY <2>1 DEF Repair, Faulty
    <2>9. CloseMove(s) /\ SidesAreTyped'
      BY <2>1, <2>2, RepairEffect DEF CloseMove, Steps, Others, Stands, Counts, Turns
    <2> QED BY <2>9 DEF Move, SidebarMove
  <1>23. CASE \E s \in Sidebars : Kill(s)
    <2>1. PICK s \in Sidebars : Kill(s)
      BY <1>23
    <2>2. side[s].pc # "off"
      BY <2>1 DEF Kill
    <2>3. used' = [used EXCEPT !.faults = @ + 1] => Counts
      BY DEF Counts
    <2>4. ExitMove(s) /\ SidesAreTyped'
      BY <2>1, <2>2, <2>3, KillEffect DEF ExitMove, Gone, Others, Turns
    <2> QED BY <2>4 DEF Move, SidebarMove
  <1>24. CASE \E c \in Clients : SendCommand(c)
    <2>1. PICK c \in Clients : SendCommand(c)
      BY <1>24
    <2>2. UNCHANGED <<path, lock>> /\ Counts /\ c \in Peers
      BY <2>1 DEF SendCommand, Connect, Fine, Faulty, Counts, Peers
    <2>3. \/ UNCHANGED side
          \/ /\ Listener # None /\ Len(side[Listener].queue) < Backlog
             /\ side' = [side EXCEPT ![Listener].queue = Append(@, c)]
      BY <2>1 DEF SendCommand, Connect, Connects
    <2>4. (\A u \in Sidebars : Same(u)) /\ SidesAreTyped'
      BY <2>2, <2>3, SendEffect, ListenerFound DEF Same, Rest, SidesAreTyped
    <2> QED BY <2>2, <2>4 DEF Move, AtRest, Stands
  <1>25. CASE \E c \in Clients : Reply(c)
    BY <1>25 DEF Reply, Move, AtRest, Stands, Counts, Same, Rest, SidesAreTyped
  <1>26. CASE \E c \in Clients : Missed(c)
    <2>1. PICK c \in Clients : Missed(c)
      BY <1>26
    <2>2. UNCHANGED <<path, lock>>
      BY <2>1 DEF Missed
    <2>3. CASE UNCHANGED <<side, used>>
      <3>1. AtRest /\ SidesAreTyped'
        BY <2>2, <2>3 DEF AtRest, Same, Rest, Stands, Counts, SidesAreTyped
      <3> QED BY <3>1 DEF Move
    <2>4. ASSUME NEW s \in Sidebars, side[s].pc = "off",
                 Started(s, [Off EXCEPT !.todo = <<c>>])
          PROVE  SidesAreTyped' /\ Move
      <3> DEFINE todo == <<c>>
      <3>1. todo \in Seq(Clients) /\ Started(s, [Off EXCEPT !.todo = todo])
        BY <2>4
      <3> HIDE DEF todo
      <3>2. StartMove(s) /\ SidesAreTyped'
        BY <2>2, <2>4, <3>1, StartsEffect
      <3> QED BY <3>2 DEF Move, SidebarMove
    <2>5. \/ UNCHANGED <<side, used>>
          \/ \E s \in Sidebars : /\ side[s].pc = "off"
                                /\ Started(s, [Off EXCEPT !.todo = <<c>>])
      BY <2>1 DEF Missed, Launch
    <2> QED BY <2>3, <2>4, <2>5
  <1>27. CASE \E c \in Clients : Ping(c)
    <2>1. PICK c \in Clients : Ping(c)
      BY <1>27
    <2>2. UNCHANGED <<path, lock>> /\ Counts /\ c \in Peers
      BY <2>1 DEF Ping, Connect, Fine, Faulty, Counts, Peers
    <2>3. \/ UNCHANGED side
          \/ /\ Listener # None /\ Len(side[Listener].queue) < Backlog
             /\ side' = [side EXCEPT ![Listener].queue = Append(@, c)]
      BY <2>1 DEF Ping, Connect, Connects
    <2>4. (\A u \in Sidebars : Same(u)) /\ SidesAreTyped'
      BY <2>2, <2>3, SendEffect, ListenerFound DEF Same, Rest, SidesAreTyped
    <2> QED BY <2>2, <2>4 DEF Move, AtRest, Stands
  <1>28. CASE \E c \in Clients : Pinged(c)
    BY <1>28 DEF Pinged, Move, AtRest, Stands, Counts, Same, Rest, SidesAreTyped
  <1>29. CASE \E c \in Clients : Stopped(c)
    BY <1>29 DEF Stopped, Move, AtRest, Stands, Counts, Same, Rest, SidesAreTyped
  <1>31. CASE \E c \in Clients : SendLine(c) \/ PingLine(c)
    BY <1>31 DEF SendLine, PingLine, Transmit, Move, AtRest, Stands, Counts, Same, Rest,
                 SidesAreTyped
  <1>30. CASE UNCHANGED vars
    BY <1>30 DEF vars, Move, AtRest, Stands, Counts, Same, Rest, SidesAreTyped
  <1> QED BY <1>1, <1>2, <1>3, <1>4, <1>5, <1>6, <1>7, <1>8, <1>9, <1>10, <1>11,
             <1>12, <1>13, <1>14, <1>15, <1>16, <1>17, <1>18, <1>19, <1>20, <1>21,
             <1>22, <1>23, <1>24, <1>25, <1>26, <1>27, <1>28, <1>29, <1>30, <1>31
               DEF Next, Session, Sidebar, Thread, Fault, Client

\* The path, the lock, the commands and the counters stay of their types.
LEMMA VarsStep ==
  ASSUME IndInv, [Next]_vars
  PROVE  /\ path' \in Nat /\ lock' \in Sidebars \cup {None}
         /\ ran' \in [Clients -> {"no", "run", "dropped"}]
         /\ used' \in [starts : Nat, inodes : Nat, faults : Nat]
  <1> USE DEF IndInv, Types
  <1>1. CASE \E s \in Sidebars : Launch(s, <<>>) /\ UNCHANGED <<path, lock, cli, link, ran>>
    <2>1. used' = [used EXCEPT !.starts = @ + 1] /\ UNCHANGED <<path, lock, ran>>
      BY <1>1 DEF Launch, Started
    <2> QED BY <2>1
  <1>2. CASE \E s \in Sidebars : TakeLock(s)
    BY <1>2 DEF TakeLock
  <1>3. CASE \E s \in Sidebars : LockTimeout(s)
    BY <1>3 DEF LockTimeout, Fails, Dropped, Fine, Faulty
  <1>4. CASE \E s \in Sidebars : Look(s)
    BY <1>4 DEF Look
  <1>5. CASE \E s \in Sidebars : Probe(s)
    BY <1>5 DEF Probe, Fails, Dropped, Fine, Connects
  <1>6. CASE \E s \in Sidebars : ProbeAnswered(s)
    BY <1>6 DEF ProbeAnswered, Fails, Dropped, Fine, Faulty
  <1>7. CASE \E s \in Sidebars : Recheck(s)
    BY <1>7 DEF Recheck, Fails, Dropped, Fine, Faulty
  <1>8. CASE \E s \in Sidebars : Unlink(s)
    BY <1>8 DEF Unlink
  <1>9. CASE \E s \in Sidebars : Bind(s)
    BY <1>9 DEF Bind, Fails, Dropped, Fine, Faulty
  <1>10. CASE \E s \in Sidebars : Listen(s)
    BY <1>10 DEF Listen
  <1>11. CASE \E s \in Sidebars : Handle(s)
    BY <1>11 DEF Handle
  <1>12. CASE \E s \in Sidebars : Shut(s)
    BY <1>12 DEF Shut
  <1>13. CASE \E s \in Sidebars : Join(s)
    BY <1>13 DEF Join
  <1>14. CASE \E s \in Sidebars : Relock(s)
    BY <1>14 DEF Relock
  <1>15. CASE \E s \in Sidebars : Clear(s)
    BY <1>15 DEF Clear
  <1>16. CASE \E s \in Sidebars : Closed(s)
    <2>1. (UNCHANGED used \/ used' = [used EXCEPT !.starts = @ + 1]) /\ UNCHANGED <<path, lock>>
      BY <1>16 DEF Closed, Started, Fine
    <2>2. ran' \in [Clients -> {"no", "run", "dropped"}]
      BY <1>16, ClosedEffect
    <2> QED BY <2>1, <2>2
  <1>17. CASE \E s \in Sidebars : Accept(s)
    BY <1>17 DEF Accept
  <1>18. CASE \E s \in Sidebars : Answer(s)
    BY <1>18 DEF Answer
  <1>19. CASE \E s \in Sidebars : ThreadEnds(s)
    BY <1>19 DEF ThreadEnds
  <1>20. CASE \E s \in Sidebars : StartFails(s)
    BY <1>20 DEF StartFails, Fails, Dropped, Fine, Faulty
  <1>21. CASE \E s \in Sidebars : ReadTimeout(s)
    BY <1>21 DEF ReadTimeout, Faulty
  <1>22. CASE \E s \in Sidebars : Repair(s)
    BY <1>22 DEF Repair, Faulty
  <1>23. CASE \E s \in Sidebars : Kill(s)
    BY <1>23 DEF Kill, Faulty, Dropped
  <1>24. CASE \E c \in Clients : SendCommand(c)
    BY <1>24 DEF SendCommand, Connect, Connects, Fine, Faulty
  <1>25. CASE \E c \in Clients : Reply(c)
    BY <1>25 DEF Reply, Ends
  <1>26. CASE \E c \in Clients : Missed(c)
    <2>1. (UNCHANGED used \/ used' = [used EXCEPT !.starts = @ + 1]) /\ UNCHANGED <<path, lock, ran>>
      BY <1>26 DEF Missed, Launch, Started
    <2> QED BY <2>1
  <1>27. CASE \E c \in Clients : Ping(c)
    BY <1>27 DEF Ping, Connect, Connects, Fine, Faulty
  <1>28. CASE \E c \in Clients : Pinged(c)
    BY <1>28 DEF Pinged, Ends
  <1>29. CASE \E c \in Clients : Stopped(c)
    BY <1>29 DEF Stopped, Ends
  <1>31. CASE \E c \in Clients : SendLine(c) \/ PingLine(c)
    BY <1>31 DEF SendLine, PingLine, Transmit
  <1>30. CASE UNCHANGED vars
    BY <1>30 DEF vars
  <1> QED BY <1>1, <1>2, <1>3, <1>4, <1>5, <1>6, <1>7, <1>8, <1>9, <1>10, <1>11,
             <1>12, <1>13, <1>14, <1>15, <1>16, <1>17, <1>18, <1>19, <1>20, <1>21,
             <1>22, <1>23, <1>24, <1>25, <1>26, <1>27, <1>28, <1>29, <1>30, <1>31
               DEF Next, Session, Sidebar, Thread, Fault, Client

\* A step leaves every run of the command line tool one.
LEMMA ClientsStep ==
  ASSUME IndInv, [Next]_vars
  PROVE  cli' \in [Clients -> ClientRecords]
  <1> USE DEF IndInv, Types
  <1>1. CASE \E s \in Sidebars : Launch(s, <<>>) /\ UNCHANGED <<path, lock, cli, link, ran>>
    BY <1>1
  <1>2. CASE \E s \in Sidebars : TakeLock(s)
    BY <1>2 DEF TakeLock
  <1>3. CASE \E s \in Sidebars : LockTimeout(s)
    BY <1>3 DEF LockTimeout, Fails, Dropped, Fine, Faulty
  <1>4. CASE \E s \in Sidebars : Look(s)
    BY <1>4 DEF Look
  <1>5. CASE \E s \in Sidebars : Probe(s)
    BY <1>5 DEF Probe, Fails, Dropped, Fine, Connects
  <1>6. CASE \E s \in Sidebars : ProbeAnswered(s)
    BY <1>6 DEF ProbeAnswered, Fails, Dropped, Fine, Faulty
  <1>7. CASE \E s \in Sidebars : Recheck(s)
    BY <1>7 DEF Recheck, Fails, Dropped, Fine, Faulty
  <1>8. CASE \E s \in Sidebars : Unlink(s)
    BY <1>8 DEF Unlink
  <1>9. CASE \E s \in Sidebars : Bind(s)
    BY <1>9 DEF Bind, Fails, Dropped, Fine, Faulty
  <1>10. CASE \E s \in Sidebars : Listen(s)
    BY <1>10 DEF Listen
  <1>11. CASE \E s \in Sidebars : Handle(s)
    BY <1>11 DEF Handle
  <1>12. CASE \E s \in Sidebars : Shut(s)
    BY <1>12 DEF Shut
  <1>13. CASE \E s \in Sidebars : Join(s)
    BY <1>13 DEF Join
  <1>14. CASE \E s \in Sidebars : Relock(s)
    BY <1>14 DEF Relock
  <1>15. CASE \E s \in Sidebars : Clear(s)
    BY <1>15 DEF Clear
  <1>16. CASE \E s \in Sidebars : Closed(s)
    BY <1>16 DEF Closed, Fine, Dropped, Started
  <1>17. CASE \E s \in Sidebars : Accept(s)
    BY <1>17 DEF Accept
  <1>18. CASE \E s \in Sidebars : Answer(s)
    BY <1>18 DEF Answer
  <1>19. CASE \E s \in Sidebars : ThreadEnds(s)
    BY <1>19 DEF ThreadEnds
  <1>20. CASE \E s \in Sidebars : StartFails(s)
    BY <1>20 DEF StartFails, Fails, Dropped, Fine, Faulty
  <1>21. CASE \E s \in Sidebars : ReadTimeout(s)
    BY <1>21 DEF ReadTimeout, Faulty
  <1>22. CASE \E s \in Sidebars : Repair(s)
    BY <1>22 DEF Repair, Faulty
  <1>23. CASE \E s \in Sidebars : Kill(s)
    BY <1>23 DEF Kill, Faulty, Dropped
  <1>24. CASE \E c \in Clients : SendCommand(c)
    <2>1. PICK c \in Clients : SendCommand(c)
      BY <1>24
    <2>2. "send" \in ClientPcs /\ "missed" \in ClientPcs
      BY DEF ClientPcs
    <2>3. \/ cli' = [cli EXCEPT ![c] = [cli[c] EXCEPT !.pc = "send"]]
          \/ cli' = [cli EXCEPT ![c] = [cli[c] EXCEPT !.pc = "missed"]]
          \/ cli' = [cli EXCEPT ![c] = [cli[c] EXCEPT !.pc = "missed", !.failed = TRUE]]
      BY <2>1 DEF SendCommand, Connect
    <2> DEFINE y1 == [cli[c] EXCEPT !.pc = "send"]
               y2 == [cli[c] EXCEPT !.pc = "missed"]
               y3 == [cli[c] EXCEPT !.pc = "missed", !.failed = TRUE]
    <2>4. cli[c] \in ClientRecords
      OBVIOUS
    <2>5. y1 \in ClientRecords
      BY <2>2, <2>4 DEF ClientRecords
    <2>6. y2 \in ClientRecords
      BY <2>2, <2>4 DEF ClientRecords
    <2>7. y3 \in ClientRecords
      BY <2>2, <2>4 DEF ClientRecords
    <2>8. cli' \in {[cli EXCEPT ![c] = y] : y \in {y1, y2, y3}}
      BY <2>3
    <2> HIDE DEF y1, y2, y3
    <2> QED BY <2>5, <2>6, <2>7, <2>8
  <1>25. CASE \E c \in Clients : Reply(c)
    <2>1. PICK c \in Clients : Reply(c)
      BY <1>25
    <2> DEFINE p == IF cli[c].cmd = "quit" THEN "ping" ELSE "done"
               r == IF cli[c].cmd = "quit" THEN cli[c].result ELSE "ok"
    <2>2. /\ p \in ClientPcs /\ r \in Outcomes /\ link[c] \in Links
          /\ "done" \in ClientPcs /\ "unacknowledged" \in Outcomes
      BY DEF ClientPcs, Outcomes, ClientRecords, Peers
    <2>3. \/ cli' = [cli EXCEPT ![c] = [cli[c] EXCEPT !.by = link[c], !.pc = p, !.result = r]]
          \/ cli' = [cli EXCEPT ![c] = [cli[c] EXCEPT !.pc = "done", !.result = "unacknowledged"]]
      BY <2>1 DEF Reply, Ends
    <2> HIDE DEF p, r
    <2> DEFINE y1 == [cli[c] EXCEPT !.by = link[c], !.pc = p, !.result = r]
               y2 == [cli[c] EXCEPT !.pc = "done", !.result = "unacknowledged"]
    <2>4. cli[c] \in ClientRecords
      OBVIOUS
    <2>5. y1 \in ClientRecords
      BY <2>2, <2>4 DEF ClientRecords
    <2>6. y2 \in ClientRecords
      BY <2>2, <2>4 DEF ClientRecords
    <2>8. cli' \in {[cli EXCEPT ![c] = y] : y \in {y1, y2}}
      BY <2>3
    <2> HIDE DEF y1, y2
    <2> QED BY <2>5, <2>6, <2>8
  <1>26. CASE \E c \in Clients : Missed(c)
    <2>1. PICK c \in Clients : Missed(c)
      BY <1>26
    <2>2. "done" \in ClientPcs /\ "ping" \in ClientPcs /\ {"no_instance", "exec"} \subseteq Outcomes
      BY DEF ClientPcs, Outcomes
    <2> DEFINE y1 == [cli[c] EXCEPT !.pc = "done", !.result = "no_instance"]
               y2 == [cli[c] EXCEPT !.pc = "done", !.result = "exec"]
               y3 == [cli[c] EXCEPT !.pc = "ping"]
    <2>3. cli' \in {[cli EXCEPT ![c] = y] : y \in {y1, y2, y3}}
      BY <2>1 DEF Missed, Ends
    <2>4. cli[c] \in ClientRecords
      OBVIOUS
    <2>5. y1 \in ClientRecords
      BY <2>2, <2>4 DEF ClientRecords
    <2>6. y2 \in ClientRecords
      BY <2>2, <2>4 DEF ClientRecords
    <2>7. y3 \in ClientRecords
      BY <2>2, <2>4 DEF ClientRecords
    <2> HIDE DEF y1, y2, y3
    <2> QED BY <2>5, <2>6, <2>7, <2>3
  <1>27. CASE \E c \in Clients : Ping(c)
    <2>1. PICK c \in Clients : Ping(c)
      BY <1>27
    <2>2. "pinging" \in ClientPcs /\ "stopped" \in ClientPcs
      BY DEF ClientPcs
    <2>3. \/ cli' = [cli EXCEPT ![c] = [cli[c] EXCEPT !.pc = "pinging"]]
          \/ cli' = [cli EXCEPT ![c] = [cli[c] EXCEPT !.pc = "stopped"]]
          \/ cli' = [cli EXCEPT ![c] = [cli[c] EXCEPT !.pc = "stopped", !.failed = TRUE]]
      BY <2>1 DEF Ping, Connect
    <2> DEFINE y1 == [cli[c] EXCEPT !.pc = "pinging"]
               y2 == [cli[c] EXCEPT !.pc = "stopped"]
               y3 == [cli[c] EXCEPT !.pc = "stopped", !.failed = TRUE]
    <2>4. cli[c] \in ClientRecords
      OBVIOUS
    <2>5. y1 \in ClientRecords
      BY <2>2, <2>4 DEF ClientRecords
    <2>6. y2 \in ClientRecords
      BY <2>2, <2>4 DEF ClientRecords
    <2>7. y3 \in ClientRecords
      BY <2>2, <2>4 DEF ClientRecords
    <2>8. cli' \in {[cli EXCEPT ![c] = y] : y \in {y1, y2, y3}}
      BY <2>3
    <2> HIDE DEF y1, y2, y3
    <2> QED BY <2>5, <2>6, <2>7, <2>8
  <1>28. CASE \E c \in Clients : Pinged(c)
    <2>1. PICK c \in Clients : Pinged(c)
      BY <1>28
    <2>2. "done" \in ClientPcs /\ "ping" \in ClientPcs /\ {"timed_out"} \subseteq Outcomes
      BY DEF ClientPcs, Outcomes
    <2> DEFINE y1 == [cli[c] EXCEPT !.pc = "done", !.result = "timed_out"]
               y2 == [cli[c] EXCEPT !.pc = "ping"]
    <2>3. cli' \in {[cli EXCEPT ![c] = y] : y \in {y1, y2}}
      BY <2>1 DEF Pinged, Ends
    <2>4. cli[c] \in ClientRecords
      OBVIOUS
    <2>5. y1 \in ClientRecords
      BY <2>2, <2>4 DEF ClientRecords
    <2>6. y2 \in ClientRecords
      BY <2>2, <2>4 DEF ClientRecords
    <2> HIDE DEF y1, y2
    <2> QED BY <2>5, <2>6, <2>3
  <1>29. CASE \E c \in Clients : Stopped(c)
    <2>1. PICK c \in Clients : Stopped(c)
      BY <1>29
    <2>2. "done" \in ClientPcs /\ "ping" \in ClientPcs /\ {"ok"} \subseteq Outcomes
      BY DEF ClientPcs, Outcomes
    <2> DEFINE y1 == [cli[c] EXCEPT !.pc = "done", !.result = "ok"]
               y2 == [cli[c] EXCEPT !.pc = "ping"]
    <2>3. cli' \in {[cli EXCEPT ![c] = y] : y \in {y1, y2}}
      BY <2>1 DEF Stopped, Ends
    <2>4. cli[c] \in ClientRecords
      OBVIOUS
    <2>5. y1 \in ClientRecords
      BY <2>2, <2>4 DEF ClientRecords
    <2>6. y2 \in ClientRecords
      BY <2>2, <2>4 DEF ClientRecords
    <2> HIDE DEF y1, y2
    <2> QED BY <2>5, <2>6, <2>3
  <1>31. CASE \E c \in Clients : SendLine(c) \/ PingLine(c)
    <2>1. PICK c \in Clients : SendLine(c) \/ PingLine(c)
      BY <1>31
    <2>2. {"wait", "missed", "pinged", "stopped"} \subseteq ClientPcs
      BY DEF ClientPcs
    <2>3. PICK p \in ClientPcs, f \in BOOLEAN :
            cli' \in {[cli EXCEPT ![c].pc = p], [cli EXCEPT ![c].pc = p, ![c].failed = f]}
      BY <2>1, <2>2 DEF SendLine, PingLine, Transmit
    <2> DEFINE y1 == [cli[c] EXCEPT !.pc = p]
               y2 == [cli[c] EXCEPT !.pc = p, !.failed = f]
    <2>4. cli[c] \in ClientRecords
      OBVIOUS
    <2>5. y1 \in ClientRecords /\ y2 \in ClientRecords
      BY <2>4 DEF ClientRecords
    <2>6. cli' \in {[cli EXCEPT ![c] = y] : y \in {y1, y2}}
      BY <2>3
    <2> HIDE DEF y1, y2
    <2> QED BY <2>5, <2>6
  <1>30. CASE UNCHANGED vars
    BY <1>30 DEF vars
  <1> QED BY <1>1, <1>2, <1>3, <1>4, <1>5, <1>6, <1>7, <1>8, <1>9, <1>10, <1>11,
             <1>12, <1>13, <1>14, <1>15, <1>16, <1>17, <1>18, <1>19, <1>20, <1>21,
             <1>22, <1>23, <1>24, <1>25, <1>26, <1>27, <1>28, <1>29, <1>30, <1>31
               DEF Next, Session, Sidebar, Thread, Fault, Client

\* The record of one connection is replaced by another record.
LEMMA LinkMoves ==
  ASSUME NEW l \in Links, NEW st \in {"none", "queued", "taken", "shut", "late", "acked"}
  PROVE  /\ [l EXCEPT !.state = st] \in Links
         /\ [l EXCEPT !.state = st].to = l.to /\ [l EXCEPT !.state = st].ino = l.ino
         /\ [l EXCEPT !.state = st].state = st
  BY DEF Links

\* No connection is one.
LEMMA NoLinkIsALink == NoLink \in Links /\ NoLink.state = "none"
  BY DEF NoLink, Links

\* A step leaves every connection one.
LEMMA LinksStep ==
  ASSUME IndInv, [Next]_vars
  PROVE  link' \in [Peers -> Links]
  <1> USE DEF IndInv, Types
  <1>1. CASE \E s \in Sidebars : Launch(s, <<>>) /\ UNCHANGED <<path, lock, cli, link, ran>>
    BY <1>1
  <1>2. CASE \E s \in Sidebars : TakeLock(s)
    BY <1>2 DEF TakeLock
  <1>3. CASE \E s \in Sidebars : LockTimeout(s)
    BY <1>3, NoLinkIsALink DEF LockTimeout, Fails, Dropped, Fine, Faulty
  <1>4. CASE \E s \in Sidebars : Look(s)
    BY <1>4 DEF Look
  <1>5. CASE \E s \in Sidebars : Probe(s)
    <2>1. PICK s \in Sidebars : Probe(s)
      BY <1>5
    <2>2. Listener # None => [to |-> Listener, ino |-> side[Listener].ino, state |-> "queued"] \in Links
      BY ListenerFound DEF Links, SideRecords
    <2>3. \/ UNCHANGED link \/ link' = [link EXCEPT ![s] = NoLink]
          \/ /\ Listener # None
             /\ link' = [link EXCEPT ![s] = [to |-> Listener, ino |-> side[Listener].ino,
                                             state |-> "queued"]]
      BY <2>1 DEF Probe, Connects, Fails
    <2> QED BY <2>2, <2>3, NoLinkIsALink DEF Peers
  <1>6. CASE \E s \in Sidebars : ProbeAnswered(s)
    BY <1>6, NoLinkIsALink DEF ProbeAnswered, Fails, Dropped, Fine, Faulty
  <1>7. CASE \E s \in Sidebars : Recheck(s)
    BY <1>7, NoLinkIsALink DEF Recheck, Fails, Dropped, Fine, Faulty
  <1>8. CASE \E s \in Sidebars : Unlink(s)
    BY <1>8 DEF Unlink
  <1>9. CASE \E s \in Sidebars : Bind(s)
    BY <1>9, NoLinkIsALink DEF Bind, Fails, Dropped, Fine, Faulty
  <1>10. CASE \E s \in Sidebars : Listen(s)
    BY <1>10 DEF Listen
  <1>11. CASE \E s \in Sidebars : Handle(s)
    BY <1>11 DEF Handle
  <1>12. CASE \E s \in Sidebars : Shut(s)
    <2>1. PICK s \in Sidebars : Shut(s)
      BY <1>12
    <2>2. Severed(s, FALSE) \in [Peers -> Links]
      BY LinkMoves DEF Severed
    <2> QED BY <2>1, <2>2 DEF Shut
  <1>13. CASE \E s \in Sidebars : Join(s)
    BY <1>13 DEF Join
  <1>14. CASE \E s \in Sidebars : Relock(s)
    BY <1>14 DEF Relock
  <1>15. CASE \E s \in Sidebars : Clear(s)
    BY <1>15 DEF Clear
  <1>16. CASE \E s \in Sidebars : Closed(s)
    BY <1>16 DEF Closed, Fine, Dropped, Started
  <1>17. CASE \E s \in Sidebars : Accept(s)
    <2>1. PICK s \in Sidebars : Accept(s)
      BY <1>17
    <2> DEFINE p == Head(side[s].queue)
    <2>2. p \in Peers /\ link' \in {link, [link EXCEPT ![p] = [link[p] EXCEPT !.state = "taken"]]}
      BY <2>1, AcceptEffect DEF Accept, Connected
    <2> DEFINE l == [link[p] EXCEPT !.state = "taken"]
    <2> HIDE DEF p
    <2>3. l \in Links
      BY <2>2, LinkMoves
    <2>4. link' \in {link, [link EXCEPT ![p] = l]}
      BY <2>2
    <2> HIDE DEF l
    <2> QED BY <2>2, <2>3, <2>4
  <1>18. CASE \E s \in Sidebars : Answer(s)
    <2>1. PICK s \in Sidebars : Answer(s)
      BY <1>18
    <2> DEFINE p == side[s].conn
    <2>2. p \in Peers /\ link' \in {link, [link EXCEPT ![p] = [link[p] EXCEPT !.state = "acked"]]}
      BY <2>1, AnswerEffect DEF Answer, Connected
    <2> DEFINE l == [link[p] EXCEPT !.state = "acked"]
    <2> HIDE DEF p
    <2>3. l \in Links
      BY <2>2, LinkMoves
    <2>4. link' \in {link, [link EXCEPT ![p] = l]}
      BY <2>2
    <2> HIDE DEF l
    <2> QED BY <2>2, <2>3, <2>4
  <1>19. CASE \E s \in Sidebars : ThreadEnds(s)
    BY <1>19 DEF ThreadEnds
  <1>20. CASE \E s \in Sidebars : StartFails(s)
    BY <1>20, NoLinkIsALink DEF StartFails, Fails, Dropped, Fine, Faulty
  <1>21. CASE \E s \in Sidebars : ReadTimeout(s)
    <2>1. PICK s \in Sidebars : ReadTimeout(s)
      BY <1>21
    <2> DEFINE p == side[s].conn
    <2>2. p \in Peers /\ link' \in {link, [link EXCEPT ![p] = [link[p] EXCEPT !.state = "late"]]}
      BY <2>1, ReadTimeoutEffect DEF ReadTimeout, Connected
    <2> DEFINE l == [link[p] EXCEPT !.state = "late"]
    <2> HIDE DEF p
    <2>3. l \in Links
      BY <2>2, LinkMoves
    <2>4. link' \in {link, [link EXCEPT ![p] = l]}
      BY <2>2
    <2> HIDE DEF l
    <2> QED BY <2>2, <2>3, <2>4
  <1>22. CASE \E s \in Sidebars : Repair(s)
    BY <1>22 DEF Repair, Faulty
  <1>23. CASE \E s \in Sidebars : Kill(s)
    <2>1. PICK s \in Sidebars : Kill(s)
      BY <1>23
    <2>2. Severed(s, TRUE) \in [Peers -> Links]
      BY LinkMoves DEF Severed
    <2> QED BY <2>1, <2>2, NoLinkIsALink DEF Kill
  <1>24. CASE \E c \in Clients : SendCommand(c)
    <2>1. PICK c \in Clients : SendCommand(c)
      BY <1>24
    <2>2. Listener # None => [to |-> Listener, ino |-> side[Listener].ino, state |-> "queued"] \in Links
      BY ListenerFound DEF Links, SideRecords
    <2>3. \/ UNCHANGED link
          \/ /\ Listener # None
             /\ link' = [link EXCEPT ![c] = [to |-> Listener, ino |-> side[Listener].ino,
                                             state |-> "queued"]]
      BY <2>1 DEF SendCommand, Connect, Connects
    <2> QED BY <2>2, <2>3 DEF Peers
  <1>25. CASE \E c \in Clients : Reply(c)
    BY <1>25, NoLinkIsALink DEF Reply
  <1>26. CASE \E c \in Clients : Missed(c)
    BY <1>26 DEF Missed, Ends, Launch, Started
  <1>27. CASE \E c \in Clients : Ping(c)
    <2>1. PICK c \in Clients : Ping(c)
      BY <1>27
    <2>2. Listener # None => [to |-> Listener, ino |-> side[Listener].ino, state |-> "queued"] \in Links
      BY ListenerFound DEF Links, SideRecords
    <2>3. \/ UNCHANGED link
          \/ /\ Listener # None
             /\ link' = [link EXCEPT ![c] = [to |-> Listener, ino |-> side[Listener].ino,
                                             state |-> "queued"]]
      BY <2>1 DEF Ping, Connect, Connects
    <2> QED BY <2>2, <2>3 DEF Peers
  <1>28. CASE \E c \in Clients : Pinged(c)
    BY <1>28, NoLinkIsALink DEF Pinged
  <1>29. CASE \E c \in Clients : Stopped(c)
    BY <1>29 DEF Stopped, Ends
  <1>31. CASE \E c \in Clients : SendLine(c) \/ PingLine(c)
    BY <1>31, NoLinkIsALink DEF SendLine, PingLine, Transmit
  <1>30. CASE UNCHANGED vars
    BY <1>30 DEF vars
  <1> QED BY <1>1, <1>2, <1>3, <1>4, <1>5, <1>6, <1>7, <1>8, <1>9, <1>10, <1>11,
             <1>12, <1>13, <1>14, <1>15, <1>16, <1>17, <1>18, <1>19, <1>20, <1>21,
             <1>22, <1>23, <1>24, <1>25, <1>26, <1>27, <1>28, <1>29, <1>30, <1>31
               DEF Next, Session, Sidebar, Thread, Fault, Client

\* The counters and their bound are numbers.
LEMMA CountsAreNumbers ==
  ASSUME Types, OneSocketEach
  PROVE  /\ used.starts \in Nat /\ used.inodes \in Nat /\ MaxStarts \in Nat
         /\ Cardinality(Unbound) \in Nat
  BY FS_CardinalityType, BoundsAssumption DEF Types, OneSocketEach

\* No more sidebars are about to make a socket.
LEMMA NoMoreUnbound ==
  ASSUME Types, OneSocketEach, Unbound' \subseteq Unbound,
         used'.starts = used.starts, used'.inodes = used.inodes
  PROVE  OneSocketEach'
  <1>1. IsFiniteSet(Unbound') /\ Cardinality(Unbound') <= Cardinality(Unbound)
    BY FS_Subset DEF OneSocketEach
  <1>2. Cardinality(Unbound') \in Nat
    BY <1>1, FS_CardinalityType
  <1> QED BY <1>1, <1>2, CountsAreNumbers DEF OneSocketEach

\* A sidebar that makes its socket has one less to make.
LEMMA OneLessUnbound ==
  ASSUME Types, OneSocketEach, NEW s \in Unbound, Unbound' \subseteq Unbound \ {s},
         used'.starts = used.starts, used'.inodes = used.inodes + 1
  PROVE  OneSocketEach'
  <1>1. IsFiniteSet(Unbound \ {s}) /\ Cardinality(Unbound \ {s}) = Cardinality(Unbound) - 1
    BY FS_RemoveElement DEF OneSocketEach
  <1>2. IsFiniteSet(Unbound') /\ Cardinality(Unbound') <= Cardinality(Unbound \ {s})
    BY <1>1, FS_Subset
  <1>3. Cardinality(Unbound') \in Nat
    BY <1>2, FS_CardinalityType
  <1> QED BY <1>1, <1>2, <1>3, CountsAreNumbers DEF OneSocketEach

\* A sidebar that starts has one more to make.
LEMMA OneMoreUnbound ==
  ASSUME Types, OneSocketEach, NEW s \in Sidebars, Unbound' \subseteq Unbound \cup {s},
         used.starts < MaxStarts, used'.starts = used.starts + 1, used'.inodes = used.inodes
  PROVE  OneSocketEach'
  <1>1. /\ IsFiniteSet(Unbound \cup {s})
        /\ \/ Cardinality(Unbound \cup {s}) = Cardinality(Unbound)
           \/ Cardinality(Unbound \cup {s}) = Cardinality(Unbound) + 1
    BY FS_AddElement DEF OneSocketEach
  <1>2. IsFiniteSet(Unbound') /\ Cardinality(Unbound') <= Cardinality(Unbound \cup {s})
    BY <1>1, FS_Subset
  <1>3. Cardinality(Unbound') \in Nat /\ Cardinality(Unbound \cup {s}) \in Nat
    BY <1>1, <1>2, FS_CardinalityType
  <1> QED BY <1>1, <1>2, <1>3, CountsAreNumbers DEF OneSocketEach

\* A sidebar makes at most one socket each time it starts.
LEMMA OneSocketStep ==
  ASSUME IndInv, Move
  PROVE  OneSocketEach'
  <1> USE DEF IndInv, Types
  <1>1. CASE AtRest
    BY <1>1, NoMoreUnbound DEF AtRest, Same, Rest, Stands, Counts, Unbound, UnboundPcs
  <1>2. ASSUME NEW s \in Sidebars, SidebarMove(s)
        PROVE  OneSocketEach'
    <2>1. CASE StartMove(s)
      BY <2>1, OneMoreUnbound DEF StartMove, Counts, Unbound, UnboundPcs
    <2>2. CASE LockMove(s)
      BY <2>2, NoMoreUnbound
         DEF LockMove, Steps, Counts, Others, Same, Rest, Counts, Unbound, UnboundPcs
    <2>3. CASE LookMove(s)
      BY <2>3, NoMoreUnbound
         DEF LookMove, Stands, Counts, Others, Same, Rest, Counts, Unbound, UnboundPcs
    <2>4. CASE FreeMove(s)
      BY <2>4, NoMoreUnbound
         DEF FreeMove, Steps, Stands, Counts, Others, Same, Rest, Counts, Unbound,
             UnboundPcs
    <2>5. CASE AskMove(s)
      BY <2>5, NoMoreUnbound
         DEF AskMove, Steps, Stands, Counts, Others, Same, Rest, Counts, Unbound,
             UnboundPcs
    <2>6. CASE RefusedMove(s)
      BY <2>6, NoMoreUnbound
         DEF RefusedMove, Gone, Counts, Others, Same, Rest, Counts, Unbound, UnboundPcs
    <2>7. CASE RecheckMove(s)
      BY <2>7, NoMoreUnbound
         DEF RecheckMove, Steps, Stands, Counts, Others, Same, Rest, Counts, Unbound,
             UnboundPcs
    <2>8. CASE UnlinkMove(s)
      BY <2>8, NoMoreUnbound
         DEF UnlinkMove, Steps, Counts, Others, Same, Rest, Counts, Unbound, UnboundPcs
    <2>9. CASE BindMove(s)
      BY <2>9, OneLessUnbound DEF BindMove, Others, Same, Rest, Counts, Unbound, UnboundPcs
    <2>10. CASE ListenMove(s)
      BY <2>10, NoMoreUnbound
         DEF ListenMove, Counts, Others, Same, Rest, Counts, Unbound, UnboundPcs
    <2>11. CASE FaultMove(s)
      BY <2>11, NoMoreUnbound
         DEF FaultMove, Gone, Counts, Others, Same, Rest, Counts, Unbound, UnboundPcs
    <2>12. CASE ThreadMove(s)
      BY <2>12, NoMoreUnbound
         DEF ThreadMove, Stands, Counts, Others, Same, Rest, Counts, Unbound, UnboundPcs
    <2>13. CASE CloseMove(s)
      BY <2>13, NoMoreUnbound
         DEF CloseMove, Steps, Stands, Counts, Others, Same, Rest, Counts, Unbound,
             UnboundPcs
    <2>14. CASE ShutMove(s)
      BY <2>14, NoMoreUnbound
         DEF ShutMove, Stands, Counts, Others, Same, Rest, Counts, Unbound, UnboundPcs
    <2>15. CASE JoinMove(s)
      BY <2>15, NoMoreUnbound
         DEF JoinMove, Steps, Stands, Counts, Others, Same, Rest, Counts, Unbound,
             UnboundPcs
    <2>16. CASE RelockMove(s)
      BY <2>16, NoMoreUnbound
         DEF RelockMove, Steps, Counts, Others, Same, Rest, Counts, Unbound, UnboundPcs
    <2>17. CASE ClearMove(s)
      BY <2>17, NoMoreUnbound
         DEF ClearMove, Steps, Counts, Others, Same, Rest, Counts, Unbound, UnboundPcs
    <2>18. CASE ExitMove(s)
      BY <2>18, NoMoreUnbound
         DEF ExitMove, Gone, Counts, Others, Same, Rest, Counts, Unbound, UnboundPcs
    <2> QED BY <1>2, <2>1, <2>2, <2>3, <2>4, <2>5, <2>6, <2>7, <2>8, <2>9,
               <2>10, <2>11, <2>12, <2>13, <2>14, <2>15, <2>16, <2>17, <2>18 DEF SidebarMove
  <1> QED BY <1>1, <1>2 DEF Move

\* Whoever is at a step that needs the lock has it, and nobody else.
LEMMA LockStep ==
  ASSUME IndInv, Move
  PROVE  LockIsTracked'
  <1> USE BoundsAssumption DEF IndInv, Types, LockIsTracked
  <1>1. CASE AtRest
    BY <1>1 DEF AtRest, Same, Rest, Stands, LockedPcs
  <1>2. ASSUME NEW s \in Sidebars, SidebarMove(s)
        PROVE  LockIsTracked'
    <2>1. CASE StartMove(s)
      BY <2>1 DEF StartMove, LockedPcs
    <2>2. CASE LockMove(s)
      BY <2>2 DEF LockMove, Steps, Counts, Others, Same, Rest, LockedPcs
    <2>3. CASE LookMove(s)
      BY <2>3 DEF LookMove, Stands, Counts, Others, Same, Rest, LockedPcs
    <2>4. CASE FreeMove(s)
      BY <2>4 DEF FreeMove, Steps, Stands, Counts, Others, Same, Rest, LockedPcs
    <2>5. CASE AskMove(s)
      BY <2>5 DEF AskMove, Steps, Stands, Counts, Others, Same, Rest, LockedPcs
    <2>6. CASE RefusedMove(s)
      BY <2>6 DEF RefusedMove, Gone, Counts, Others, Same, Rest, LockedPcs
    <2>7. CASE RecheckMove(s)
      BY <2>7 DEF RecheckMove, Steps, Stands, Counts, Others, Same, Rest, LockedPcs
    <2>8. CASE UnlinkMove(s)
      BY <2>8 DEF UnlinkMove, Steps, Counts, Others, Same, Rest, LockedPcs
    <2>9. CASE BindMove(s)
      BY <2>9 DEF BindMove, Others, Same, Rest, LockedPcs
    <2>10. CASE ListenMove(s)
      BY <2>10 DEF ListenMove, Counts, Others, Same, Rest, LockedPcs
    <2>11. CASE FaultMove(s)
      BY <2>11 DEF FaultMove, Gone, Counts, Others, Same, Rest, LockedPcs
    <2>12. CASE ThreadMove(s)
      BY <2>12 DEF ThreadMove, Stands, Counts, Others, Same, Rest, LockedPcs
    <2>13. CASE CloseMove(s)
      BY <2>13 DEF CloseMove, Steps, Stands, Counts, Others, Same, Rest, LockedPcs
    <2>14. CASE ShutMove(s)
      BY <2>14 DEF ShutMove, Stands, Counts, Others, Same, Rest, LockedPcs
    <2>15. CASE JoinMove(s)
      BY <2>15 DEF JoinMove, Steps, Stands, Counts, Others, Same, Rest, LockedPcs
    <2>16. CASE RelockMove(s)
      BY <2>16 DEF RelockMove, Steps, Counts, Others, Same, Rest, LockedPcs
    <2>17. CASE ClearMove(s)
      BY <2>17 DEF ClearMove, Steps, Counts, Others, Same, Rest, LockedPcs
    <2>18. CASE ExitMove(s)
      BY <2>18 DEF ExitMove, Gone, Counts, Others, Same, Rest, LockedPcs
    <2> QED BY <1>2, <2>1, <2>2, <2>3, <2>4, <2>5, <2>6, <2>7, <2>8, <2>9,
               <2>10, <2>11, <2>12, <2>13, <2>14, <2>15, <2>16, <2>17, <2>18 DEF SidebarMove
  <1> QED BY <1>1, <1>2 DEF Move

\* A new socket has a new inode, and no other step gives a sidebar another one.
LEMMA InodesStep ==
  ASSUME IndInv, Move
  PROVE  InodesAreUnique'
  <1> USE DEF IndInv, Types, SocketFacts, InodesAreUnique
  <1>1. CASE AtRest
    BY <1>1 DEF AtRest, Same, Rest, Stands, Counts, BoundPcs
  <1>2. ASSUME NEW s \in Sidebars, SidebarMove(s)
        PROVE  InodesAreUnique'
    <2>1. CASE StartMove(s)
      BY <2>1 DEF StartMove, Counts, BoundPcs
    <2>2. CASE LockMove(s)
      BY <2>2 DEF LockMove, Steps, Counts, Others, Same, Rest, Counts, BoundPcs
    <2>3. CASE LookMove(s)
      BY <2>3 DEF LookMove, Stands, Counts, Others, Same, Rest, Counts, BoundPcs
    <2>4. CASE FreeMove(s)
      BY <2>4 DEF FreeMove, Steps, Stands, Counts, Others, Same, Rest, Counts, BoundPcs
    <2>5. CASE AskMove(s)
      BY <2>5 DEF AskMove, Steps, Stands, Counts, Others, Same, Rest, Counts, BoundPcs
    <2>6. CASE RefusedMove(s)
      BY <2>6 DEF RefusedMove, Gone, Counts, Others, Same, Rest, Counts, BoundPcs
    <2>7. CASE RecheckMove(s)
      BY <2>7, SMTT(30) DEF RecheckMove, Steps, Stands, Counts, Others, Same, Rest, Counts, BoundPcs
    <2>8. CASE UnlinkMove(s)
      BY <2>8 DEF UnlinkMove, Steps, Counts, Others, Same, Rest, Counts, BoundPcs
    <2>9. CASE BindMove(s)
      BY <2>9, SMTT(30) DEF BindMove, Others, Same, Rest, Counts, BoundPcs
    <2>10. CASE ListenMove(s)
      BY <2>10 DEF ListenMove, Counts, Others, Same, Rest, Counts, BoundPcs
    <2>11. CASE FaultMove(s)
      BY <2>11 DEF FaultMove, Gone, Counts, Others, Same, Rest, Counts, BoundPcs
    <2>12. CASE ThreadMove(s)
      BY <2>12 DEF ThreadMove, Stands, Counts, Others, Same, Rest, Counts, BoundPcs
    <2>13. CASE CloseMove(s)
      BY <2>13 DEF CloseMove, Steps, Stands, Counts, Others, Same, Rest, Counts, BoundPcs
    <2>14. CASE ShutMove(s)
      BY <2>14 DEF ShutMove, Stands, Counts, Others, Same, Rest, Counts, BoundPcs
    <2>15. CASE JoinMove(s)
      BY <2>15 DEF JoinMove, Steps, Stands, Counts, Others, Same, Rest, Counts, BoundPcs
    <2>16. CASE RelockMove(s)
      BY <2>16 DEF RelockMove, Steps, Counts, Others, Same, Rest, Counts, BoundPcs
    <2>17. CASE ClearMove(s)
      BY <2>17 DEF ClearMove, Steps, Counts, Others, Same, Rest, Counts, BoundPcs
    <2>18. CASE ExitMove(s)
      BY <2>18 DEF ExitMove, Gone, Counts, Others, Same, Rest, Counts, BoundPcs
    <2> QED BY <1>2, <2>1, <2>2, <2>3, <2>4, <2>5, <2>6, <2>7, <2>8, <2>9,
               <2>10, <2>11, <2>12, <2>13, <2>14, <2>15, <2>16, <2>17, <2>18 DEF SidebarMove
  <1> QED BY <1>1, <1>2 DEF Move

\* No step takes a listening socket away from the path, or lets another one listen.
LEMMA ListenersStep ==
  ASSUME IndInv, Move
  PROVE  ListenersAreReached'
  <1> USE BoundsAssumption DEF IndInv, Types, LockIsTracked, SocketFacts, InodesAreUnique,
                               ListenersAreReached, PathIsAsSeen
  <1>1. CASE AtRest
    BY <1>1 DEF AtRest, Same, Rest, Stands, LockedPcs, BoundPcs
  <1>2. ASSUME NEW s \in Sidebars, SidebarMove(s)
        PROVE  ListenersAreReached'
    <2>1. CASE StartMove(s)
      BY <2>1 DEF StartMove, LockedPcs, BoundPcs
    <2>2. CASE LockMove(s)
      BY <2>2 DEF LockMove, Steps, Counts, Others, Same, Rest, LockedPcs, BoundPcs
    <2>3. CASE LookMove(s)
      BY <2>3 DEF LookMove, Stands, Counts, Others, Same, Rest, LockedPcs, BoundPcs
    <2>4. CASE FreeMove(s)
      BY <2>4 DEF FreeMove, Steps, Stands, Counts, Others, Same, Rest, LockedPcs, BoundPcs
    <2>5. CASE AskMove(s)
      BY <2>5 DEF AskMove, Steps, Stands, Counts, Others, Same, Rest, LockedPcs, BoundPcs
    <2>6. CASE RefusedMove(s)
      BY <2>6 DEF RefusedMove, Gone, Counts, Others, Same, Rest, LockedPcs, BoundPcs
    <2>7. CASE RecheckMove(s)
      BY <2>7
         DEF RecheckMove, Steps, Stands, Counts, Others, Same, Rest, LockedPcs, BoundPcs
    <2>8. CASE UnlinkMove(s)
      BY <2>8 DEF UnlinkMove, Steps, Counts, Others, Same, Rest, LockedPcs, BoundPcs
    <2>9. CASE BindMove(s)
      BY <2>9 DEF BindMove, Others, Same, Rest, LockedPcs, BoundPcs
    <2>10. CASE ListenMove(s)
      BY <2>10 DEF ListenMove, Counts, Others, Same, Rest, LockedPcs, BoundPcs
    <2>11. CASE FaultMove(s)
      BY <2>11 DEF FaultMove, Gone, Counts, Others, Same, Rest, LockedPcs, BoundPcs
    <2>12. CASE ThreadMove(s)
      BY <2>12 DEF ThreadMove, Stands, Counts, Others, Same, Rest, LockedPcs, BoundPcs
    <2>13. CASE CloseMove(s)
      BY <2>13 DEF CloseMove, Steps, Stands, Counts, Others, Same, Rest, LockedPcs, BoundPcs
    <2>14. CASE ShutMove(s)
      BY <2>14 DEF ShutMove, Stands, Counts, Others, Same, Rest, LockedPcs, BoundPcs
    <2>15. CASE JoinMove(s)
      BY <2>15 DEF JoinMove, Steps, Stands, Counts, Others, Same, Rest, LockedPcs, BoundPcs
    <2>16. CASE RelockMove(s)
      BY <2>16 DEF RelockMove, Steps, Counts, Others, Same, Rest, LockedPcs, BoundPcs
    <2>17. CASE ClearMove(s)
      BY <2>17 DEF ClearMove, Steps, Counts, Others, Same, Rest, LockedPcs, BoundPcs
    <2>18. CASE ExitMove(s)
      BY <2>18 DEF ExitMove, Gone, Counts, Others, Same, Rest, LockedPcs, BoundPcs
    <2> QED BY <1>2, <2>1, <2>2, <2>3, <2>4, <2>5, <2>6, <2>7, <2>8, <2>9,
               <2>10, <2>11, <2>12, <2>13, <2>14, <2>15, <2>16, <2>17, <2>18 DEF SidebarMove
  <1> QED BY <1>1, <1>2 DEF Move

\* Nobody else changes the path under the sidebar that holds the lock.
LEMMA SeenStep ==
  ASSUME IndInv, Move
  PROVE  PathIsAsSeen'
  <1> USE BoundsAssumption DEF IndInv, Types, LockIsTracked, SocketFacts, InodesAreUnique,
                               ListenersAreReached, PathIsAsSeen
  <1>1. CASE AtRest
    BY <1>1, SMTT(30) DEF AtRest, Same, Rest, Stands, LockedPcs, BoundPcs
  <1>2. ASSUME NEW s \in Sidebars, SidebarMove(s)
        PROVE  PathIsAsSeen'
    <2>1. CASE StartMove(s)
      BY <2>1 DEF StartMove, LockedPcs, BoundPcs
    <2>2. CASE LockMove(s)
      BY <2>2 DEF LockMove, Steps, Counts, Others, Same, Rest, LockedPcs, BoundPcs
    <2>3. CASE LookMove(s)
      BY <2>3 DEF LookMove, Stands, Counts, Others, Same, Rest, LockedPcs, BoundPcs
    <2>4. CASE FreeMove(s)
      BY <2>4, ListenerFound
         DEF FreeMove, Steps, Stands, Counts, Others, Same, Rest, LockedPcs, BoundPcs
    <2>5. CASE AskMove(s)
      BY <2>5, ListenerFound
         DEF AskMove, Steps, Stands, Counts, Others, Same, Rest, LockedPcs, BoundPcs
    <2>6. CASE RefusedMove(s)
      BY <2>6, ListenerFound
         DEF RefusedMove, Gone, Counts, Others, Same, Rest, LockedPcs, BoundPcs
    <2>7. CASE RecheckMove(s)
      BY <2>7
         DEF RecheckMove, Steps, Stands, Counts, Others, Same, Rest, LockedPcs, BoundPcs
    <2>8. CASE UnlinkMove(s)
      BY <2>8 DEF UnlinkMove, Steps, Counts, Others, Same, Rest, LockedPcs, BoundPcs
    <2>9. CASE BindMove(s)
      BY <2>9 DEF BindMove, Others, Same, Rest, LockedPcs, BoundPcs
    <2>10. CASE ListenMove(s)
      BY <2>10 DEF ListenMove, Counts, Others, Same, Rest, LockedPcs, BoundPcs
    <2>11. CASE FaultMove(s)
      BY <2>11, SMTT(30) DEF FaultMove, Gone, Counts, Others, Same, Rest, LockedPcs, BoundPcs
    <2>12. CASE ThreadMove(s)
      BY <2>12 DEF ThreadMove, Stands, Counts, Others, Same, Rest, LockedPcs, BoundPcs
    <2>13. CASE CloseMove(s)
      BY <2>13 DEF CloseMove, Steps, Stands, Counts, Others, Same, Rest, LockedPcs, BoundPcs
    <2>14. CASE ShutMove(s)
      BY <2>14 DEF ShutMove, Stands, Counts, Others, Same, Rest, LockedPcs, BoundPcs
    <2>15. CASE JoinMove(s)
      BY <2>15 DEF JoinMove, Steps, Stands, Counts, Others, Same, Rest, LockedPcs, BoundPcs
    <2>16. CASE RelockMove(s)
      BY <2>16 DEF RelockMove, Steps, Counts, Others, Same, Rest, LockedPcs, BoundPcs
    <2>17. CASE ClearMove(s)
      BY <2>17 DEF ClearMove, Steps, Counts, Others, Same, Rest, LockedPcs, BoundPcs
    <2>18. CASE ExitMove(s)
      BY <2>18 DEF ExitMove, Gone, Counts, Others, Same, Rest, LockedPcs, BoundPcs
    <2> QED BY <1>2, <2>1, <2>2, <2>3, <2>4, <2>5, <2>6, <2>7, <2>8, <2>9,
               <2>10, <2>11, <2>12, <2>13, <2>14, <2>15, <2>16, <2>17, <2>18 DEF SidebarMove
  <1> QED BY <1>1, <1>2 DEF Move

\* A start keeps count: the new sidebar counts those that live, and those that are
\* starting count the new one.
LEMMA StartIsCounted ==
  ASSUME Types, RivalFacts, NEW s \in Sidebars, StartMove(s)
  PROVE  RivalFacts'
  <1> SUFFICES ASSUME NEW t \in Sidebars
               PROVE  /\ Starting(t)' /\ (\E u \in Sidebars \ {t} : side'[u].pc # "off")
                           => side'[t].rival
                      /\ side'[t].pc = "await" => side'[t].rival
    BY DEF RivalFacts
  <1>1. CASE t = s
    <2>1. \A u \in Sidebars \ {s} : side'[u].pc = side[u].pc
      BY DEF StartMove
    <2>2. side'[s].rival = (\E u \in Sidebars \ {s} : side[u].pc # "off") /\ side'[s].pc = "lock"
      BY DEF StartMove
    <2> QED BY <1>1, <2>1, <2>2
  <1>2. CASE t # s
    <2>1. side'[t].rival = (side[t].rival \/ Starting(t)) /\ side'[t].pc = side[t].pc
      BY <1>2 DEF StartMove
    <2>2. Starting(t)' = Starting(t) /\ (side[t].pc = "await" => Starting(t))
      BY <2>1 DEF Starting
    <2> QED BY <2>1, <2>2
  <1> QED BY <1>1, <1>2


\* A sidebar that starts counts every other one that lives meanwhile, the one it asks too.
LEMMA RivalStep ==
  ASSUME IndInv, Move
  PROVE  RivalFacts'
  <1> USE BoundsAssumption DEF IndInv, Types, LockIsTracked, SocketFacts, RivalFacts,
                               RefusedHasRival, ListenersAreReached
  <1>1. CASE AtRest
    BY <1>1 DEF AtRest, Same, Rest, Stands, Starting
  <1>2. ASSUME NEW s \in Sidebars, SidebarMove(s)
        PROVE  RivalFacts'
    <2>1. CASE StartMove(s)
      BY <2>1, StartIsCounted
    <2>2. CASE LockMove(s)
      BY <2>2 DEF LockMove, Steps, Counts, Others, Same, Rest, Starting
    <2>3. CASE LookMove(s)
      BY <2>3 DEF LookMove, Stands, Counts, Others, Same, Rest, Starting
    <2>4. CASE FreeMove(s)
      BY <2>4 DEF FreeMove, Steps, Stands, Counts, Others, Same, Rest, Starting
    <2>5. CASE AskMove(s)
      BY <2>5, ListenerFound
         DEF AskMove, Steps, Stands, Counts, Others, Same, Rest, Starting
    <2>6. CASE RefusedMove(s)
      BY <2>6 DEF RefusedMove, Gone, Counts, Others, Same, Rest, Starting
    <2>7. CASE RecheckMove(s)
      BY <2>7 DEF RecheckMove, Steps, Stands, Counts, Others, Same, Rest, Starting
    <2>8. CASE UnlinkMove(s)
      BY <2>8 DEF UnlinkMove, Steps, Counts, Others, Same, Rest, Starting
    <2>9. CASE BindMove(s)
      BY <2>9 DEF BindMove, Others, Same, Rest, Starting
    <2>10. CASE ListenMove(s)
      BY <2>10 DEF ListenMove, Counts, Others, Same, Rest, Starting
    <2>11. CASE FaultMove(s)
      BY <2>11 DEF FaultMove, Gone, Counts, Others, Same, Rest, Starting
    <2>12. CASE ThreadMove(s)
      BY <2>12 DEF ThreadMove, Stands, Counts, Others, Same, Rest, Starting
    <2>13. CASE CloseMove(s)
      BY <2>13 DEF CloseMove, Steps, Stands, Counts, Others, Same, Rest, Starting
    <2>14. CASE ShutMove(s)
      BY <2>14 DEF ShutMove, Stands, Counts, Others, Same, Rest, Starting
    <2>15. CASE JoinMove(s)
      BY <2>15 DEF JoinMove, Steps, Stands, Counts, Others, Same, Rest, Starting
    <2>16. CASE RelockMove(s)
      BY <2>16 DEF RelockMove, Steps, Counts, Others, Same, Rest, Starting
    <2>17. CASE ClearMove(s)
      BY <2>17 DEF ClearMove, Steps, Counts, Others, Same, Rest, Starting
    <2>18. CASE ExitMove(s)
      BY <2>18 DEF ExitMove, Gone, Counts, Others, Same, Rest, Starting
    <2> QED BY <1>2, <2>1, <2>2, <2>3, <2>4, <2>5, <2>6, <2>7, <2>8, <2>9,
               <2>10, <2>11, <2>12, <2>13, <2>14, <2>15, <2>16, <2>17, <2>18 DEF SidebarMove
  <1> QED BY <1>1, <1>2 DEF Move

\* A start that is refused has met a rival: the holder of the lock, the sidebar that answers,
\* or the one whose queue is full; the path never changes under it.
LEMMA RefusalStep ==
  ASSUME IndInv, Move
  PROVE  RefusedHasRival'
  <1> USE BoundsAssumption DEF IndInv, Types, LockIsTracked, SocketFacts, RivalFacts,
                               RefusedHasRival, ListenersAreReached, PathIsAsSeen,
                               LockedPcs
  <1>1. CASE AtRest
    BY <1>1 DEF AtRest, Same, Rest, Stands, Starting
  <1>2. ASSUME NEW s \in Sidebars, SidebarMove(s)
        PROVE  RefusedHasRival'
    <2>1. CASE StartMove(s)
      BY <2>1 DEF StartMove, Starting
    <2>2. CASE LockMove(s)
      BY <2>2 DEF LockMove, Steps, Counts, Others, Same, Rest, Starting
    <2>3. CASE LookMove(s)
      BY <2>3 DEF LookMove, Stands, Counts, Others, Same, Rest, Starting
    <2>4. CASE FreeMove(s)
      BY <2>4 DEF FreeMove, Steps, Stands, Counts, Others, Same, Rest, Starting
    <2>5. CASE AskMove(s)
      BY <2>5 DEF AskMove, Steps, Stands, Counts, Others, Same, Rest, Starting
    <2>6. CASE RefusedMove(s)
      BY <2>6, ListenerFound DEF RefusedMove, Gone, Counts, Others, Same, Rest, Starting
    <2>7. CASE RecheckMove(s)
      BY <2>7 DEF RecheckMove, Steps, Stands, Counts, Others, Same, Rest, Starting
    <2>8. CASE UnlinkMove(s)
      BY <2>8 DEF UnlinkMove, Steps, Counts, Others, Same, Rest, Starting
    <2>9. CASE BindMove(s)
      BY <2>9 DEF BindMove, Others, Same, Rest, Starting
    <2>10. CASE ListenMove(s)
      BY <2>10 DEF ListenMove, Counts, Others, Same, Rest, Starting
    <2>11. CASE FaultMove(s)
      BY <2>11 DEF FaultMove, Gone, Counts, Others, Same, Rest, Starting
    <2>12. CASE ThreadMove(s)
      BY <2>12 DEF ThreadMove, Stands, Counts, Others, Same, Rest, Starting
    <2>13. CASE CloseMove(s)
      BY <2>13 DEF CloseMove, Steps, Stands, Counts, Others, Same, Rest, Starting
    <2>14. CASE ShutMove(s)
      BY <2>14 DEF ShutMove, Stands, Counts, Others, Same, Rest, Starting
    <2>15. CASE JoinMove(s)
      BY <2>15 DEF JoinMove, Steps, Stands, Counts, Others, Same, Rest, Starting
    <2>16. CASE RelockMove(s)
      BY <2>16 DEF RelockMove, Steps, Counts, Others, Same, Rest, Starting
    <2>17. CASE ClearMove(s)
      BY <2>17 DEF ClearMove, Steps, Counts, Others, Same, Rest, Starting
    <2>18. CASE ExitMove(s)
      BY <2>18 DEF ExitMove, Gone, Counts, Others, Same, Rest, Starting
    <2> QED BY <1>2, <2>1, <2>2, <2>3, <2>4, <2>5, <2>6, <2>7, <2>8, <2>9,
               <2>10, <2>11, <2>12, <2>13, <2>14, <2>15, <2>16, <2>17, <2>18 DEF SidebarMove
  <1> QED BY <1>1, <1>2 DEF Move

\* Connections to one socket are alike.
LEMMA SameMark ==
  ASSUME NEW l, NEW m, l.to = m.to, l.ino = m.ino
  PROVE  (Bygone(l) <=> Bygone(m)) /\ (Listens(l) <=> Listens(m))
  BY DEF Bygone, Listens

\* No step makes a socket listen that has listened: a listening socket is new, or listened
\* before, or was about to.
NoSecondLife ==
  /\ used'.inodes >= used.inodes
  /\ \A t \in Sidebars :
       \/ side'[t].ino = 0
       \/ side'[t].ino > used.inodes
       \/ /\ side'[t].ino = side[t].ino
          /\ side'[t].pc = "listen" => side[t].pc = "listen"
          /\ side'[t].listening => side[t].listening \/ side[t].pc = "listen"

\* Every step keeps to that: only bind gives a sidebar an inode, and it is a new one.
LEMMA NoSecondLifeStep ==
  ASSUME IndInv, Move
  PROVE  NoSecondLife
  <1> USE DEF IndInv, Types
  <1>1. CASE AtRest
    BY <1>1 DEF AtRest, Same, Rest, Stands, Counts, NoSecondLife
  <1>2. ASSUME NEW s \in Sidebars, SidebarMove(s)
        PROVE  NoSecondLife
    <2>1. CASE StartMove(s)
      BY <2>1 DEF StartMove, Counts, NoSecondLife
    <2>2. CASE LockMove(s)
      BY <2>2 DEF LockMove, Steps, Counts, Others, Same, Rest, Counts, NoSecondLife
    <2>3. CASE LookMove(s)
      BY <2>3 DEF LookMove, Stands, Counts, Others, Same, Rest, Counts, NoSecondLife
    <2>4. CASE FreeMove(s)
      BY <2>4 DEF FreeMove, Steps, Stands, Counts, Others, Same, Rest, Counts, NoSecondLife
    <2>5. CASE AskMove(s)
      BY <2>5 DEF AskMove, Steps, Stands, Counts, Others, Same, Rest, Counts, NoSecondLife
    <2>6. CASE RefusedMove(s)
      BY <2>6 DEF RefusedMove, Gone, Counts, Others, Same, Rest, Counts, NoSecondLife
    <2>7. CASE RecheckMove(s)
      BY <2>7
         DEF RecheckMove, Steps, Stands, Counts, Others, Same, Rest, Counts, NoSecondLife
    <2>8. CASE UnlinkMove(s)
      BY <2>8 DEF UnlinkMove, Steps, Counts, Others, Same, Rest, Counts, NoSecondLife
    <2>9. CASE BindMove(s)
      BY <2>9 DEF BindMove, Others, Same, Rest, Counts, NoSecondLife
    <2>10. CASE ListenMove(s)
      BY <2>10 DEF ListenMove, Counts, Others, Same, Rest, Counts, NoSecondLife
    <2>11. CASE FaultMove(s)
      BY <2>11 DEF FaultMove, Gone, Counts, Others, Same, Rest, Counts, NoSecondLife
    <2>12. CASE ThreadMove(s)
      BY <2>12 DEF ThreadMove, Stands, Counts, Others, Same, Rest, Counts, NoSecondLife
    <2>13. CASE CloseMove(s)
      BY <2>13
         DEF CloseMove, Steps, Stands, Counts, Others, Same, Rest, Counts, NoSecondLife
    <2>14. CASE ShutMove(s)
      BY <2>14 DEF ShutMove, Stands, Counts, Others, Same, Rest, Counts, NoSecondLife
    <2>15. CASE JoinMove(s)
      BY <2>15 DEF JoinMove, Steps, Stands, Counts, Others, Same, Rest, Counts, NoSecondLife
    <2>16. CASE RelockMove(s)
      BY <2>16 DEF RelockMove, Steps, Counts, Others, Same, Rest, Counts, NoSecondLife
    <2>17. CASE ClearMove(s)
      BY <2>17 DEF ClearMove, Steps, Counts, Others, Same, Rest, Counts, NoSecondLife
    <2>18. CASE ExitMove(s)
      BY <2>18 DEF ExitMove, Gone, Counts, Others, Same, Rest, Counts, NoSecondLife
    <2> QED BY <1>2, <2>1, <2>2, <2>3, <2>4, <2>5, <2>6, <2>7, <2>8, <2>9,
               <2>10, <2>11, <2>12, <2>13, <2>14, <2>15, <2>16, <2>17, <2>18 DEF SidebarMove
  <1> QED BY <1>1, <1>2 DEF Move

\* A socket that was listening once is never set to listen again.
LEMMA MarksStep ==
  ASSUME IndInv, [Next]_vars, NEW l, Bygone(l)
  PROVE  Bygone(l)' /\ (~Listens(l) => ~Listens(l)')
  <1> USE DEF IndInv, Types
  <1>1. NoSecondLife
    BY StepIsMove, NoSecondLifeStep
  <1>2. /\ used.inodes \in Nat /\ used'.inodes \in Nat
        /\ l.to \in Sidebars /\ l.ino \in 1 .. used.inodes
    BY VarsStep DEF Bygone
  <1> QED BY <1>1, <1>2 DEF NoSecondLife, Bygone, Listens

\* A connection leads where it led, or is a new one to the socket that listens at the path;
\* it is shut only when that does not listen any more.
LEMMA ConnectionsStep ==
  ASSUME IndInv, [Next]_vars
  PROVE  \A p \in Peers : link'[p].state # "none" =>
           \/ /\ link[p].state # "none"
              /\ link'[p].to = link[p].to /\ link'[p].ino = link[p].ino
              /\ link'[p].state = "shut" =>
                   link[p].state = "shut" \/ ~side'[link'[p].to].listening
           \/ /\ Listener # None
              /\ link'[p].to = Listener /\ link'[p].ino = side[Listener].ino
              /\ link'[p].state # "shut"
  <1> USE DEF IndInv, Types
  <1>1. CASE \E s \in Sidebars : Launch(s, <<>>) /\ UNCHANGED <<path, lock, cli, link, ran>>
    BY <1>1
  <1>2. CASE \E s \in Sidebars : TakeLock(s)
    BY <1>2 DEF TakeLock
  <1>3. CASE \E s \in Sidebars : LockTimeout(s)
    BY <1>3, NoLinkIsALink DEF LockTimeout, Fails, Dropped, Fine, Faulty
  <1>4. CASE \E s \in Sidebars : Look(s)
    BY <1>4 DEF Look
  <1>5. CASE \E s \in Sidebars : Probe(s)
    <2>1. PICK s \in Sidebars : Probe(s)
      BY <1>5
    <2>2. \/ UNCHANGED link \/ link' = [link EXCEPT ![s] = NoLink]
          \/ /\ Listener # None
             /\ link' = [link EXCEPT ![s] = [to |-> Listener, ino |-> side[Listener].ino,
                                             state |-> "queued"]]
      BY <2>1 DEF Probe, Connects, Fails
    <2> QED BY <2>2, NoLinkIsALink DEF Peers
  <1>6. CASE \E s \in Sidebars : ProbeAnswered(s)
    BY <1>6, NoLinkIsALink DEF ProbeAnswered, Fails, Dropped, Fine, Faulty
  <1>7. CASE \E s \in Sidebars : Recheck(s)
    BY <1>7, NoLinkIsALink DEF Recheck, Fails, Dropped, Fine, Faulty
  <1>8. CASE \E s \in Sidebars : Unlink(s)
    BY <1>8 DEF Unlink
  <1>9. CASE \E s \in Sidebars : Bind(s)
    BY <1>9, NoLinkIsALink DEF Bind, Fails, Dropped, Fine, Faulty
  <1>10. CASE \E s \in Sidebars : Listen(s)
    BY <1>10 DEF Listen
  <1>11. CASE \E s \in Sidebars : Handle(s)
    BY <1>11 DEF Handle
  <1>12. CASE \E s \in Sidebars : Shut(s)
    <2>1. PICK s \in Sidebars : Shut(s)
      BY <1>12
    <2>2. \A p \in Peers : LET m == Severed(s, FALSE)[p]
                            IN /\ m.to = link[p].to /\ m.ino = link[p].ino
                               /\ m.state # "none" => link[p].state # "none"
                               /\ m.state = "shut" => link[p].state = "shut" \/ m.to = s
      BY DEF Severed, Links
    <2>3. Severed(s, FALSE) \in [Peers -> Links]
      BY LinkMoves DEF Severed
    <2>4. ~side'[s].listening /\ link' = Severed(s, FALSE)
      BY <2>1, ShutEffect DEF Shut
    <2> QED BY <2>2, <2>4
  <1>13. CASE \E s \in Sidebars : Join(s)
    BY <1>13 DEF Join
  <1>14. CASE \E s \in Sidebars : Relock(s)
    BY <1>14 DEF Relock
  <1>15. CASE \E s \in Sidebars : Clear(s)
    BY <1>15 DEF Clear
  <1>16. CASE \E s \in Sidebars : Closed(s)
    BY <1>16 DEF Closed, Fine, Dropped, Started
  <1>17. CASE \E s \in Sidebars : Accept(s)
    <2>1. PICK s \in Sidebars : Accept(s)
      BY <1>17
    <2> DEFINE p == Head(side[s].queue)
    <2>2. /\ p \in Peers
          /\ \/ link' = link
             \/ /\ link[p].state # "none"
                /\ link' = [link EXCEPT ![p] = [link[p] EXCEPT !.state = "taken"]]
      BY <2>1, AcceptEffect DEF Accept, Connected
    <2> DEFINE l == [link[p] EXCEPT !.state = "taken"]
    <2> HIDE DEF p
    <2>3. l.to = link[p].to /\ l.ino = link[p].ino /\ l.state # "shut"
      BY <2>2, LinkMoves
    <2>4. \/ link' = link
          \/ link[p].state # "none" /\ link' = [link EXCEPT ![p] = l]
      BY <2>2
    <2> HIDE DEF l
    <2> QED BY <2>2, <2>3, <2>4
  <1>18. CASE \E s \in Sidebars : Answer(s)
    <2>1. PICK s \in Sidebars : Answer(s)
      BY <1>18
    <2> DEFINE p == side[s].conn
    <2>2. /\ p \in Peers
          /\ \/ link' = link
             \/ /\ link[p].state # "none"
                /\ link' = [link EXCEPT ![p] = [link[p] EXCEPT !.state = "acked"]]
      BY <2>1, AnswerEffect DEF Answer, Connected
    <2> DEFINE l == [link[p] EXCEPT !.state = "acked"]
    <2> HIDE DEF p
    <2>3. l.to = link[p].to /\ l.ino = link[p].ino /\ l.state # "shut"
      BY <2>2, LinkMoves
    <2>4. \/ link' = link
          \/ link[p].state # "none" /\ link' = [link EXCEPT ![p] = l]
      BY <2>2
    <2> HIDE DEF l
    <2> QED BY <2>2, <2>3, <2>4
  <1>19. CASE \E s \in Sidebars : ThreadEnds(s)
    BY <1>19 DEF ThreadEnds
  <1>20. CASE \E s \in Sidebars : StartFails(s)
    BY <1>20, NoLinkIsALink DEF StartFails, Fails, Dropped, Fine, Faulty
  <1>21. CASE \E s \in Sidebars : ReadTimeout(s)
    <2>1. PICK s \in Sidebars : ReadTimeout(s)
      BY <1>21
    <2> DEFINE p == side[s].conn
    <2>2. /\ p \in Peers
          /\ \/ link' = link
             \/ /\ link[p].state # "none"
                /\ link' = [link EXCEPT ![p] = [link[p] EXCEPT !.state = "late"]]
      BY <2>1, ReadTimeoutEffect DEF ReadTimeout, Connected
    <2> DEFINE l == [link[p] EXCEPT !.state = "late"]
    <2> HIDE DEF p
    <2>3. l.to = link[p].to /\ l.ino = link[p].ino /\ l.state # "shut"
      BY <2>2, LinkMoves
    <2>4. \/ link' = link
          \/ link[p].state # "none" /\ link' = [link EXCEPT ![p] = l]
      BY <2>2
    <2> HIDE DEF l
    <2> QED BY <2>2, <2>3, <2>4
  <1>22. CASE \E s \in Sidebars : Repair(s)
    BY <1>22 DEF Repair, Faulty
  <1>23. CASE \E s \in Sidebars : Kill(s)
    <2>1. PICK s \in Sidebars : Kill(s)
      BY <1>23
    <2>2. \A p \in Peers : LET m == Severed(s, TRUE)[p]
                            IN /\ m.to = link[p].to /\ m.ino = link[p].ino
                               /\ m.state # "none" => link[p].state # "none"
                               /\ m.state = "shut" => link[p].state = "shut" \/ m.to = s
      BY DEF Severed, Links
    <2>3. Severed(s, TRUE) \in [Peers -> Links]
      BY LinkMoves DEF Severed
    <2>4. link' = [Severed(s, TRUE) EXCEPT ![s] = NoLink] /\ ~side'[s].listening
      BY <2>1, KillEffect
    <2> QED BY <2>2, <2>3, <2>4, NoLinkIsALink
  <1>24. CASE \E c \in Clients : SendCommand(c)
    <2>1. PICK c \in Clients : SendCommand(c)
      BY <1>24
    <2>2. \/ UNCHANGED link
          \/ /\ Listener # None
             /\ link' = [link EXCEPT ![c] = [to |-> Listener, ino |-> side[Listener].ino,
                                             state |-> "queued"]]
      BY <2>1 DEF SendCommand, Connect, Connects
    <2> QED BY <2>2 DEF Peers
  <1>25. CASE \E c \in Clients : Reply(c)
    BY <1>25, NoLinkIsALink DEF Reply
  <1>26. CASE \E c \in Clients : Missed(c)
    BY <1>26 DEF Missed, Ends, Launch, Started
  <1>27. CASE \E c \in Clients : Ping(c)
    <2>1. PICK c \in Clients : Ping(c)
      BY <1>27
    <2>2. \/ UNCHANGED link
          \/ /\ Listener # None
             /\ link' = [link EXCEPT ![c] = [to |-> Listener, ino |-> side[Listener].ino,
                                             state |-> "queued"]]
      BY <2>1 DEF Ping, Connect, Connects
    <2> QED BY <2>2 DEF Peers
  <1>28. CASE \E c \in Clients : Pinged(c)
    BY <1>28, NoLinkIsALink DEF Pinged
  <1>29. CASE \E c \in Clients : Stopped(c)
    BY <1>29 DEF Stopped, Ends
  <1>31. CASE \E c \in Clients : SendLine(c) \/ PingLine(c)
    BY <1>31, NoLinkIsALink DEF SendLine, PingLine, Transmit
  <1>30. CASE UNCHANGED vars
    BY <1>30 DEF vars, vars
  <1> QED BY <1>1, <1>2, <1>3, <1>4, <1>5, <1>6, <1>7, <1>8, <1>9, <1>10, <1>11,
             <1>12, <1>13, <1>14, <1>15, <1>16, <1>17, <1>18, <1>19, <1>20, <1>21,
             <1>22, <1>23, <1>24, <1>25, <1>26, <1>27, <1>28, <1>29, <1>30, <1>31
               DEF Next, Session, Sidebar, Thread, Fault, Client

\* Wherever a connection leads, the server there has listened.
LEMMA LinksAreBygone ==
  ASSUME IndInv, [Next]_vars
  PROVE  (\A p \in Peers : link[p].state # "none" => Bygone(link[p]))'
  <1> USE DEF IndInv, Types
  <1> SUFFICES ASSUME NEW p \in Peers, NEW l, l = link'[p], l.state # "none"
               PROVE  Bygone(l)'
    BY DEF Bygone
  <1>1. CASE link[p].state # "none" /\ l.to = link[p].to /\ l.ino = link[p].ino
    <2>1. Bygone(link[p])
      BY <1>1 DEF QuitFacts
    <2> QED BY <1>1, <2>1, SameMark, MarksStep
  <1>2. CASE Listener # None /\ l.to = Listener /\ l.ino = side[Listener].ino
    <2>1. /\ Listener \in Sidebars /\ side[Listener].listening
          /\ side[Listener].pc \in {"serve", "shut"}
          /\ side[Listener].ino \in 1 .. used.inodes
      BY <1>2, ListenerFound DEF SocketFacts, InodesAreUnique, ListenersAreReached, BoundPcs
    <2>2. Bygone(l)
      BY <1>2, <2>1 DEF Bygone
    <2> QED BY <2>2, MarksStep
  <1> QED BY <1>1, <1>2, ConnectionsStep

\* A connection is shut only when the server it led to listens no more.
LEMMA ShutStep ==
  ASSUME IndInv, [Next]_vars
  PROVE  (\A p \in Peers : link[p].state = "shut" => ~Listens(link[p]))'
  <1> USE DEF IndInv, Types
  <1> SUFFICES ASSUME NEW p \in Peers, NEW l, l = link'[p], l.state = "shut"
               PROVE  ~Listens(l)'
    BY DEF Listens
  <1>1. /\ link[p].state # "none" /\ l.to = link[p].to /\ l.ino = link[p].ino
        /\ link[p].state = "shut" \/ ~side'[l.to].listening
    BY ConnectionsStep
  <1>2. CASE link[p].state = "shut"
    <2>1. Bygone(link[p]) /\ ~Listens(link[p])
      BY <1>2, <1>1 DEF QuitFacts
    <2> QED BY <1>1, <2>1, SameMark, MarksStep
  <1>3. CASE ~side'[l.to].listening
    BY <1>3 DEF Listens
  <1> QED BY <1>1, <1>2, <1>3

\* What one step may do to a run of the command line tool.
ClientMove(c) ==
  /\ cli'[c].cmd = cli[c].cmd
  /\ \/ cli'[c] = cli[c]
     \/ /\ cli[c].pc \in {"idle", "send"} /\ cli'[c].pc \in {"send", "wait", "missed"}
        /\ cli'[c].result = cli[c].result
     \/ /\ cli[c].pc = "wait" /\ cli[c].cmd = "quit" /\ link[c].state # "none"
        /\ cli'[c].pc = "ping" /\ cli'[c].by = link[c] /\ cli'[c].result = cli[c].result
     \/ /\ cli'[c].pc = "done"
        /\ cli[c].cmd = "quit" => cli'[c].result \notin {"none", "ok"}
     \/ /\ cli[c].pc = "ping" /\ cli'[c].pc \in {"pinging", "stopped"}
        /\ cli'[c].by = cli[c].by /\ cli'[c].result = cli[c].result
        /\ cli'[c].pc = "pinging" =>
             Listener # None /\ link'[c].to = Listener /\ link'[c].ino = side[Listener].ino
        /\ cli'[c].pc = "stopped" => cli'[c].failed \/ Listener = None
     \/ /\ cli[c].pc = "pinging" /\ cli'[c].pc \in {"pinged", "stopped"}
        /\ cli'[c].by = cli[c].by /\ cli'[c].result = cli[c].result
        /\ cli'[c].pc = "stopped" => cli'[c].failed \/ link[c].state = "shut"
     \/ /\ cli[c].pc = "pinged" /\ cli'[c].pc = "ping"
        /\ cli'[c].by = cli[c].by /\ cli'[c].result = cli[c].result
     \/ /\ cli[c].pc = "stopped" /\ cli'[c].pc = "done"
        /\ cli'[c].by = cli[c].by /\ cli'[c].failed = cli[c].failed

\* Each step of a run of the tool is one of those.
LEMMA ClientsMove ==
  ASSUME IndInv, [Next]_vars
  PROVE  \A c \in Clients : ClientMove(c)
  <1> USE DEF IndInv, Types, QuitFacts, ClientMove
  <1>1. CASE \E s \in Sidebars : Launch(s, <<>>) /\ UNCHANGED <<path, lock, cli, link, ran>>
    BY <1>1
  <1>2. CASE \E s \in Sidebars : TakeLock(s)
    BY <1>2 DEF TakeLock
  <1>3. CASE \E s \in Sidebars : LockTimeout(s)
    BY <1>3 DEF LockTimeout, Fails, Dropped, Fine, Faulty
  <1>4. CASE \E s \in Sidebars : Look(s)
    BY <1>4 DEF Look
  <1>5. CASE \E s \in Sidebars : Probe(s)
    BY <1>5 DEF Probe, Fails, Dropped, Fine, Connects
  <1>6. CASE \E s \in Sidebars : ProbeAnswered(s)
    BY <1>6 DEF ProbeAnswered, Fails, Dropped, Fine, Faulty
  <1>7. CASE \E s \in Sidebars : Recheck(s)
    BY <1>7 DEF Recheck, Fails, Dropped, Fine, Faulty
  <1>8. CASE \E s \in Sidebars : Unlink(s)
    BY <1>8 DEF Unlink
  <1>9. CASE \E s \in Sidebars : Bind(s)
    BY <1>9 DEF Bind, Fails, Dropped, Fine, Faulty
  <1>10. CASE \E s \in Sidebars : Listen(s)
    BY <1>10 DEF Listen
  <1>11. CASE \E s \in Sidebars : Handle(s)
    BY <1>11 DEF Handle
  <1>12. CASE \E s \in Sidebars : Shut(s)
    BY <1>12 DEF Shut
  <1>13. CASE \E s \in Sidebars : Join(s)
    BY <1>13 DEF Join
  <1>14. CASE \E s \in Sidebars : Relock(s)
    BY <1>14 DEF Relock
  <1>15. CASE \E s \in Sidebars : Clear(s)
    BY <1>15 DEF Clear
  <1>16. CASE \E s \in Sidebars : Closed(s)
    BY <1>16 DEF Closed, Fine, Dropped, Started
  <1>17. CASE \E s \in Sidebars : Accept(s)
    BY <1>17 DEF Accept
  <1>18. CASE \E s \in Sidebars : Answer(s)
    BY <1>18 DEF Answer
  <1>19. CASE \E s \in Sidebars : ThreadEnds(s)
    BY <1>19 DEF ThreadEnds
  <1>20. CASE \E s \in Sidebars : StartFails(s)
    BY <1>20 DEF StartFails, Fails, Dropped, Fine, Faulty
  <1>21. CASE \E s \in Sidebars : ReadTimeout(s)
    BY <1>21 DEF ReadTimeout, Faulty
  <1>22. CASE \E s \in Sidebars : Repair(s)
    BY <1>22 DEF Repair, Faulty
  <1>23. CASE \E s \in Sidebars : Kill(s)
    BY <1>23 DEF Kill, Faulty, Dropped
  <1>24. CASE \E c \in Clients : SendCommand(c)
    BY <1>24 DEF SendCommand, Connect, Connects, ClientRecords
  <1>25. CASE \E c \in Clients : Reply(c)
    BY <1>25 DEF Reply, Ends, ClientRecords
  <1>26. CASE \E c \in Clients : Missed(c)
    <2>1. PICK c \in Clients : Missed(c)
      BY <1>26
    <2>2. cli[c] \in ClientRecords
      OBVIOUS
    <2>3. \/ cli[c].cmd = "quit" /\ cli' = [cli EXCEPT ![c].pc = "done", ![c].result = "no_instance"]
          \/ cli[c].cmd = "show" /\ cli' = [cli EXCEPT ![c].pc = "done", ![c].result = "exec"]
      BY <2>1 DEF Missed, Ends
    <2> QED BY <2>2, <2>3 DEF ClientRecords
  <1>27. CASE \E c \in Clients : Ping(c)
    <2>1. PICK c \in Clients : Ping(c)
      BY <1>27
    <2>2. cli[c] \in ClientRecords
      OBVIOUS
    <2>3. \/ /\ Listener # None /\ cli' = [cli EXCEPT ![c].pc = "pinging"]
             /\ link' = [link EXCEPT ![c] = [to |-> Listener, ino |-> side[Listener].ino,
                                            state |-> "queued"]]
          \/ Listener = None /\ cli' = [cli EXCEPT ![c].pc = "stopped"]
          \/ cli' = [cli EXCEPT ![c].pc = "stopped", ![c].failed = TRUE]
      BY <2>1 DEF Ping, Connect, Connects
    <2>4. cli[c].pc = "ping" /\ \A d \in Clients : d # c => cli'[d] = cli[d]
      BY <2>1, <2>3 DEF Ping
    <2>5. c \in DOMAIN link
      BY DEF Peers
    <2>6. ClientMove(c)
      BY <2>2, <2>3, <2>4, <2>5 DEF ClientRecords
    <2> QED BY <2>4, <2>6
  <1>28. CASE \E c \in Clients : Pinged(c)
    BY <1>28 DEF Pinged, Ends, ClientRecords
  <1>29. CASE \E c \in Clients : Stopped(c)
    BY <1>29 DEF Stopped, Ends, ClientRecords
  <1>31. CASE \E c \in Clients : SendLine(c) \/ PingLine(c)
    BY <1>31 DEF SendLine, PingLine, Transmit, ClientRecords
  <1>30. CASE UNCHANGED vars
    BY <1>30 DEF vars, vars
  <1> QED BY <1>1, <1>2, <1>3, <1>4, <1>5, <1>6, <1>7, <1>8, <1>9, <1>10, <1>11,
             <1>12, <1>13, <1>14, <1>15, <1>16, <1>17, <1>18, <1>19, <1>20, <1>21,
             <1>22, <1>23, <1>24, <1>25, <1>26, <1>27, <1>28, <1>29, <1>30, <1>31
               DEF Next, Session, Sidebar, Thread, Fault, Client

\* When --quit has seen that nothing listens any more, the server that took the command
\* does not, and never will again.
LEMMA QuitStep ==
  ASSUME IndInv, [Next]_vars
  PROVE  QuitFacts' /\ QuitIsTrue'
  <1> USE DEF IndInv, Types
  <1>1. (\A p \in Peers : link[p].state # "none" => Bygone(link[p]))'
    BY LinksAreBygone
  <1>2. (\A p \in Peers : link[p].state = "shut" => ~Listens(link[p]))'
    BY ShutStep
  <1> SUFFICES ASSUME NEW c \in Clients, NEW l, l = cli'[c].by
               PROVE  /\ cli'[c].pc # "done" => cli'[c].result = "none"
                      /\ cli'[c].pc \in {"ping", "pinging", "pinged", "stopped"} =>
                           cli'[c].cmd = "quit" /\ Bygone(l)'
                      /\ cli'[c].cmd = "quit" /\ cli'[c].result = "ok" => Bygone(l)'
                      /\ cli'[c].pc = "pinging" /\ link'[c].state # "none" /\ Listens(l)' =>
                           link'[c].to = l.to /\ link'[c].ino = l.ino
                      /\ cli'[c].pc = "stopped" /\ ~cli'[c].failed => ~Listens(l)'
                      /\ cli'[c].cmd = "quit" /\ cli'[c].result = "ok" /\ ~cli'[c].failed =>
                           ~Listens(l)'
    BY <1>1, <1>2, SMTT(30) DEF QuitFacts, QuitIsTrue, Listens, Bygone
  <1>3. ClientMove(c)
    BY ClientsMove
  <1>4. Bygone(l) => Bygone(l)' /\ (~Listens(l) => ~Listens(l)')
    BY MarksStep
  <1> DEFINE b == cli[c].by
             m == link[c]
             n == link'[c]
  <1>5. /\ cli[c].pc # "done" => cli[c].result = "none"
        /\ cli[c].pc \in {"ping", "pinging", "pinged", "stopped"} =>
             cli[c].cmd = "quit" /\ Bygone(b)
        /\ cli[c].cmd = "quit" /\ cli[c].result = "ok" => Bygone(b)
        /\ cli[c].pc = "pinging" /\ m.state # "none" /\ Listens(b) =>
             m.to = b.to /\ m.ino = b.ino
        /\ cli[c].pc = "stopped" /\ ~cli[c].failed => ~Listens(b)
        /\ cli[c].cmd = "quit" /\ cli[c].result = "ok" /\ ~cli[c].failed => ~Listens(b)
        /\ m.state # "none" => Bygone(m)
        /\ m.state = "shut" => ~Listens(m)
    BY DEF QuitFacts, QuitIsTrue, Listens, Peers
  <1>6. Bygone(l) /\ Listens(l) => l.to = Listener /\ l.ino = side[Listener].ino
    BY ListenerFound DEF Bygone, Listens, SocketFacts, InodesAreUnique, ListenersAreReached
  <1>7. Listener = None /\ Bygone(l) => ~Listens(l)
    BY ListenerFound DEF Bygone, Listens, SocketFacts, ListenersAreReached
  <1>8. n.state # "none" => \/ m.state # "none" /\ n.to = m.to /\ n.ino = m.ino
                            \/ Listener # None /\ n.to = Listener /\ n.ino = side[Listener].ino
    BY ConnectionsStep DEF Peers
  <1>9. b.to = m.to /\ b.ino = m.ino => (Listens(b) <=> Listens(m))
    BY SameMark
  <1> HIDE DEF IndInv, Types, b, m, n
  <1> QED BY <1>3, <1>4, <1>5, <1>6, <1>7, <1>8, <1>9 DEF ClientMove, b, m, n

-----------------------------------------------------------------------------
(* The theorems.                                                           *)

\* At first no sidebar runs, nothing is connected and the path is free.
LEMMA InitHolds == Init => IndInv
  <1> SUFFICES ASSUME Init PROVE IndInv
    OBVIOUS
  <1> USE BoundsAssumption DEF Init
  <1>1. Types
    <2>1. side \in [Sidebars -> SideRecords] /\ \A s \in Sidebars : Len(side[s].queue) <= Backlog
      BY OffIsASide
    <2>2. link \in [Peers -> Links] /\ cli \in [Clients -> ClientRecords]
      BY NoLinkIsALink DEF ClientRecords, ClientPcs, Outcomes
    <2> QED BY <2>1, <2>2 DEF Types
  <1>2. OneSocketEach
    <2>1. Unbound = {}
      BY OffIsASide DEF Unbound, UnboundPcs
    <2> QED BY <2>1, FS_EmptySet DEF OneSocketEach
  <1>3. LockIsTracked
    BY OffIsASide DEF LockIsTracked, LockedPcs
  <1>4. SocketFacts
    BY OffIsASide
      DEF SocketFacts, InodesAreUnique, ListenersAreReached, PathIsAsSeen, BoundPcs
  <1>5. RivalFacts /\ RefusedHasRival
    <2>1. Off.why = "none"
      BY DEF Off
    <2> QED BY <2>1, OffIsASide DEF RivalFacts, RefusedHasRival, Starting
  <1>6. QuitFacts /\ QuitIsTrue
    BY NoLinkIsALink DEF QuitFacts, QuitIsTrue
  <1> QED BY <1>1, <1>2, <1>3, <1>4, <1>5, <1>6 DEF IndInv

\* Every state the sidebars and the tool reach is as the invariant says
\* (gui/command_server.c, cli/main.c).
THEOREM InvariantHolds == Spec => []IndInv
  <1>1. IndInv /\ [Next]_vars => IndInv'
    <2> SUFFICES ASSUME IndInv, [Next]_vars PROVE IndInv'
      OBVIOUS
    <2>0. Move
      BY StepIsMove
    <2>1. Types'
      BY StepIsMove, VarsStep, ClientsStep, LinksStep DEF Types, SidesAreTyped
    <2>2. SocketFacts'
      BY <2>0, InodesStep, ListenersStep, SeenStep DEF SocketFacts
    <2> QED BY <2>0, <2>1, <2>2, OneSocketStep, LockStep, RivalStep, RefusalStep, QuitStep
      DEF IndInv
  <1> QED BY <1>1, InitHolds, PTL DEF Spec

\* The socket at the path belongs to the sidebar that serves on it: what another one that
\* starts or closes removes is never in use (remove_stale_socket_path,
\* unlink_bound_socket_path); a start is refused only for a rival; and --quit reports
\* success only when the server that took the command listens no more
\* (finish_quit_command).
THEOREM SocketStaysExclusive == Spec => []SocketIsExclusive
  <1>1. IndInv => SocketIsExclusive
    <2> SUFFICES ASSUME IndInv PROVE SocketIsExclusive
      OBVIOUS
    <2> USE DEF IndInv
    <2>1. /\ used.inodes \in Nat /\ used.starts \in Nat /\ MaxStarts \in Nat
          /\ Cardinality(Unbound) \in Nat
      BY CountsAreNumbers DEF Types
    <2>2. used.inodes <= MaxStarts
      BY <2>1 DEF OneSocketEach
    <2>3. path \in 0 .. MaxStarts
      BY <2>1, <2>2 DEF Types, SocketFacts, InodesAreUnique
    <2>4. ASSUME NEW s \in Sidebars
          PROVE  /\ side[s].ino \in 0 .. MaxStarts
                 /\ Len(side[s].queue) <= Backlog /\ side[s].conn \in Peers \cup {None}
                 /\ side[s].pc = "serve" => side[s].thread
                 /\ side[s].pc = "off" => lock # s
      <3>1. side[s].ino \in 0 .. MaxStarts
        BY <2>1, <2>2 DEF SocketFacts, InodesAreUnique
      <3>2. side[s].conn \in Peers \cup {None} /\ Len(side[s].queue) <= Backlog
        BY DEF Types, SideRecords
      <3>3. side[s].pc = "off" => lock # s
        BY DEF LockIsTracked, LockedPcs
      <3> QED BY <3>1, <3>2, <3>3 DEF SocketFacts, ListenersAreReached
    <2>5. TypeOK
      BY <2>3, <2>4 DEF TypeOK, Types
    <2>6. PathIsOwned
      BY DEF PathIsOwned, SocketFacts, ListenersAreReached
    <2> QED BY <2>5, <2>6 DEF SocketIsExclusive
  <1> QED BY <1>1, InvariantHolds, PTL
=============================================================================
