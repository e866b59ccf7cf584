----------------------------- MODULE AwgJournal -----------------------------
(***************************************************************************)
(* The runtime journal ("marker") that the privileged helper keeps for     *)
(* every session under /run/nm-sidebar/amneziawg: its fields, the          *)
(* consistency rule that both the serializer and the parser enforce, and   *)
(* the classification the sidebar derives from a journal and an            *)
(* observation of the network links.                                       *)
(*                                                                         *)
(* The link token is not a field here: a link "owned" by a name carries    *)
(* the token of that name's journal (see AwgTunnel).  The interface index  *)
(* is kept as known / not known.                                           *)
(***************************************************************************)

CONSTANT Scopes  \* firewall namespaces: nft, iptables-legacy, iptables-nft, ...

States == {"activating", "active", "cleanup_required", "cleanup_unconfirmed",
           "cleanup_complete", "firewall_pending"}

Backends == {"none", "resolved", "resolvconf"}

DnsStates == {"absent", "applied", "unknown"}

Journals == [state    : States,
             ifindex  : BOOLEAN,     \* TRUE: the index of the link is recorded
             backend  : Backends,
             was      : BOOLEAN,     \* was_active
             dns      : DnsStates,
             scope    : SUBSET Scopes]

\* No file for this name in the runtime directory.
NoMarker == [state |-> "missing"]

(***************************************************************************)
(* runtime_marker_fields_are_valid: a journal that breaks the rule is not  *)
(* written by the serializer and is not accepted by the parser.            *)
(***************************************************************************)
FieldsAreValid(j) ==
  /\ j.backend = "none" => j.dns = "absent"
  /\ j.state = "activating" => ~j.was
  /\ j.state = "active" =>
       /\ j.ifindex
       /\ j.was
       /\ j.backend # "none" => j.dns = "applied"
  /\ j.state \in {"cleanup_complete", "firewall_pending"} =>
       /\ ~j.was
       /\ j.dns = "absent"

\* What a netlink dump shows for a name and the token of its journal.
Observations == {"absent", "conflict", "present"}

(***************************************************************************)
(* network_sidebar_amneziawg_runtime_state_classify, for an observation    *)
(* that succeeded.                                                         *)
(***************************************************************************)
ClassifyMarker(m, seen) ==
  IF m.state = "cleanup_unconfirmed" \/ (m.backend = "resolved" /\ m.dns = "unknown")
  THEN "manual_intervention"
  ELSE CASE seen = "conflict" -> "conflict"
         [] seen = "absent" ->
              CASE m.state = "firewall_pending" -> "firewall_pending"
                [] m.state = "cleanup_complete" -> "recovery_required"
                [] OTHER -> "manual_intervention"
         [] seen = "present" ->
              CASE m.state \in {"cleanup_complete", "firewall_pending"} -> "conflict"
                [] m.state = "active" -> "active"
                [] OTHER -> "recovery_required"

Classify(m, seen) ==
  IF m = NoMarker
  THEN IF seen = "absent" THEN "inactive" ELSE "conflict"
  ELSE ClassifyMarker(m, seen)

IsRecoverable(c) == c \in {"recovery_required", "firewall_pending"}

=============================================================================
