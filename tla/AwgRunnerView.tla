--------------------------- MODULE AwgRunnerView ---------------------------
(***************************************************************************)
(* What the service relies on of its runner (amneziawg_helper_runner.h):   *)
(* one run at a time, one result per run, no helper process beside the     *)
(* run's, and is_busy as long as a process or a sentinel has to be reaped. *)
(* AwgService contains a runner with these steps; AwgRunner implements it. *)
(***************************************************************************)
VARIABLES on,        \* a run exists
          sent,      \* its result was delivered
          process,   \* a helper process exists
          children   \* something is left to reap

view == <<on, sent, process, children>>

Init == on = FALSE /\ sent = FALSE /\ process = FALSE /\ children = FALSE

\* Nothing of an earlier run is left when a helper starts.
Start ==
  /\ ~on /\ ~process /\ ~children
  /\ on' = TRUE /\ sent' = FALSE /\ process' = TRUE /\ children' = FALSE

\* An inventory that is preempted, or late, is answered before it has ended.
Publish ==
  /\ on /\ ~sent
  /\ sent' = TRUE
  /\ UNCHANGED <<on, process, children>>

\* The process of the run is reaped by the run itself.
Reap ==
  /\ on /\ process /\ ~children
  /\ process' = FALSE
  /\ UNCHANGED <<on, sent, children>>

\* A run that gives its process up leaves it to be reaped.
Detach ==
  /\ on /\ process
  /\ children' = TRUE
  /\ UNCHANGED <<on, sent, process>>

Finish ==
  /\ on /\ (process => children)
  /\ on' = FALSE /\ sent' = FALSE
  /\ children' \in {children, TRUE}
  /\ UNCHANGED process

ReapLeftovers ==
  /\ children
  /\ children' = FALSE /\ process' = FALSE
  /\ UNCHANGED <<on, sent>>

Next == Start \/ Publish \/ Reap \/ Detach \/ Finish \/ ReapLeftovers

Spec == Init /\ [][Next]_view
=============================================================================
