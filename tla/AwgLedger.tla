----------------------------- MODULE AwgLedger ------------------------------
(***************************************************************************)
(* What the privileged helper promises to the rest of the program, with    *)
(* every detail of journals, DNS and firewalls left out: a book of the     *)
(* sessions it answers for.  A session is entered before it may have an    *)
(* effect, one at a time and only for a saved profile; it is struck off    *)
(* only when it has none; and a profile with a session is not deleted.     *)
(***************************************************************************)
CONSTANT Names

VARIABLES sessions,  \* names the helper answers for
          live,      \* names with any effect on the network
          saved      \* saved profiles

ledger == <<sessions, live, saved>>

Init == sessions = {} /\ live = {} /\ saved \subseteq Names

Open(n) ==
  /\ sessions = {} /\ n \in saved /\ n \notin live
  /\ sessions' = {n}
  /\ UNCHANGED <<live, saved>>

\* The network changes, by the helper or behind its back.
Change(n) ==
  /\ n \in sessions
  /\ live' \in {live \cup {n}, live \ {n}}
  /\ UNCHANGED <<sessions, saved>>

Close(n) ==
  /\ n \in sessions /\ n \notin live
  /\ sessions' = sessions \ {n}
  /\ UNCHANGED <<live, saved>>

DeleteProfile(n) ==
  /\ n \in saved /\ n \notin sessions /\ n \notin live
  /\ saved' = saved \ {n}
  /\ UNCHANGED <<sessions, live>>

Next == \E n \in Names : Open(n) \/ Change(n) \/ Close(n) \/ DeleteProfile(n)

Spec == Init /\ [][Next]_ledger

=============================================================================
