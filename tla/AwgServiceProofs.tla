-------------------------- MODULE AwgServiceProofs --------------------------
(***************************************************************************)
(* Proofs about the two halves of the service process.  The first part is  *)
(* about AwgService, for every set of requests and senders and every limit *)
(* on pending authorizations; the second about AwgRunner, for every set of *)
(* process groups and every limit of the supervisor.                       *)
(***************************************************************************)
EXTENDS AwgService, AwgRunner, TLAPS, FiniteSetTheorems

-----------------------------------------------------------------------------
(* The part of the invariant that is about the requests alone.             *)

CallsTyped ==
  /\ req \in [Requests -> Calls \cup {Unused}]
  /\ reply \in [Requests -> Replies]
  /\ slots \in [Senders -> SUBSET Kinds]
  /\ count \in 0 .. MaxPending
  /\ active \in OrNone /\ pending \in OrNone

CallsHold == CallsTyped /\ CountIsTrue /\ SlotsAreTrue /\ OwnersAreTrue

\* A request object is allocated or it is free: an allocated one has a stage, a
\* kind, a sender and a generation.
LEMMA CallsAreRecords ==
  ASSUME CallsTyped, NEW r \in Requests
  PROVE  /\ Live(r) => /\ req[r].stage \in {"auth", "policy", "waiting", "active"}
                       /\ req[r].kind \in Kinds /\ req[r].from \in Senders
                       /\ req[r].gen \in 0 .. MaxGeneration
                       /\ req[r] \in Calls
         /\ ~Live(r) => req[r] = Unused /\ req[r].stage = "free"
         /\ Authorizing(r) => Live(r)
  BY DEF CallsTyped, Live, Authorizing, Calls, Unused

\* A call that is written to a request object is not mistaken for a free one.
LEMMA CallsAreUsed == \A c \in Calls : c # Unused
  BY DEF Calls, Unused

\* While a request is being authorized the count is not zero.
LEMMA AuthorizingCounts ==
  ASSUME CallsTyped, CountIsTrue, NEW r \in Requests, Authorizing(r)
  PROVE  count > 0
  <1> DEFINE S == {q \in Requests : Authorizing(q)}
  <1>1. IsFiniteSet(S) /\ count = Cardinality(S) /\ S # {}
    BY DEF CountIsTrue
  <1>2. count # 0
    BY <1>1, FS_EmptySet
  <1> QED BY <1>2, BoundsAssumption DEF CallsTyped

\* request_free keeps the books: the request leaves its slot, its place among
\* the pending authorizations and its owner.
LEMMA FreeStep ==
  ASSUME CallsHold, NEW r \in Requests, Live(r), RequestFree(r),
         reply' \in [Requests -> Replies],
         \A q \in Requests \ {r} : reply'[q] = reply[q]
  PROVE  CallsHold'
  <1>1. /\ CallsTyped /\ CountIsTrue /\ SlotsAreTrue /\ OwnersAreTrue
        /\ MaxPending \in Nat /\ NoRequest \notin Requests
    BY BoundsAssumption, RequestsAssumption DEF CallsHold
  <1> DEFINE S == {q \in Requests : Authorizing(q)}
  <1>2. /\ req' \in [Requests -> Calls \cup {Unused}]
        /\ req'[r] = Unused
        /\ \A q \in Requests \ {r} : req'[q] = req[q]
    BY <1>1 DEF RequestFree, CallsTyped
  <1>3. Unused.stage = "free"
    BY DEF Unused
  <1>4. S' = S \ {r}
    BY <1>2, <1>3 DEF Authorizing
  <1>5. CountIsTrue' /\ count' \in 0 .. MaxPending
    <2>1. IsFiniteSet(S') /\ Cardinality(S') = IF r \in S THEN count - 1 ELSE count
      BY <1>1, <1>4, FS_RemoveElement DEF CountIsTrue
    <2>2. r \in S => count > 0
      BY <1>1, AuthorizingCounts
    <2> QED BY <1>1, <2>1, <2>2 DEF CountIsTrue, RequestFree, CallsTyped
  <1>6. CallsTyped'
    BY <1>1, <1>2, <1>5 DEF RequestFree, CallsTyped, OrNone
  <1>7. \A q \in Requests : Live(q)' <=> q # r /\ Live(q)
    BY <1>2 DEF Live
  <1>8. SlotsAreTrue'
    <2>1. /\ req[r].from \in Senders
          /\ \A s \in Senders : slots'[s] = IF s = req[r].from THEN slots[s] \ {req[r].kind}
                                            ELSE slots[s]
      BY <1>1, CallsAreRecords DEF RequestFree, CallsTyped
    <2>2. ASSUME NEW s \in Senders, NEW k \in Kinds
          PROVE  k \in slots'[s] <=>
                   \E q \in Requests : Live(q)' /\ req'[q].from = s /\ req'[q].kind = k
      <3>1. k \in slots'[s] <=> k \in slots[s] /\ ~(s = req[r].from /\ k = req[r].kind)
        BY <2>1
      <3> QED BY <1>1, <1>2, <1>7, <3>1 DEF SlotsAreTrue
    <2>3. ASSUME NEW p \in Requests, NEW q \in Requests, Live(p)', Live(q)',
                 req'[p].from = req'[q].from, req'[p].kind = req'[q].kind
          PROVE  p = q
      BY <1>1, <1>2, <1>7, <2>3 DEF SlotsAreTrue
    <2> QED BY <2>2, <2>3 DEF SlotsAreTrue
  <1>9. OwnersAreTrue'
    BY <1>1, <1>2, <1>7 DEF OwnersAreTrue, RequestFree, CallsTyped, OrNone
  <1> QED BY <1>5, <1>6, <1>8, <1>9 DEF CallsHold

\* cancel_pending_authorizations leaves no action waiting and keeps the books:
\* what it frees is the waiting action and, when asked to, one request whose
\* callback is running.
LEMMA CancelStep ==
  ASSUME CallsHold, NEW freed \in SUBSET Requests, CancelPendingAuthorizations(freed),
         freed = {} \/ \E r \in Requests : Authorizing(r) /\ freed = {r}
  PROVE  /\ CallsHold'
         /\ pending' = NoRequest
         /\ \A r \in Requests : Live(r)' => Live(r) /\ req'[r] = req[r]
         /\ \A r \in Requests : Live(r)' => req[r].stage # "waiting"
         /\ \A r \in Requests : Live(r) /\ ~Live(r)' => reply'[r] # "none"
         /\ \A r \in Requests : reply[r] # "none" => reply'[r] = reply[r]
         /\ \A r \in Requests : req[r].stage = "active" => reply'[r] = reply[r] /\ Live(r)'
  <1>1. /\ CallsTyped /\ CountIsTrue /\ SlotsAreTrue /\ OwnersAreTrue
        /\ MaxPending \in Nat /\ NoRequest \notin Requests
    BY BoundsAssumption, RequestsAssumption DEF CallsHold
  <1> DEFINE waiting == IF Waiting THEN {pending} ELSE {}
             told    == waiting \cup {r \in Requests : Authorizing(r)}
             gone    == waiting \cup freed
             S       == {r \in Requests : Authorizing(r)}
  <1>2. /\ \A r \in Requests : reply'[r] = IF r \in told /\ reply[r] = "none"
                                           THEN "refused" ELSE reply[r]
        /\ reply' \in [Requests -> Replies]
    BY <1>1 DEF CancelPendingAuthorizations, CallsTyped, Replies
  <1>3. /\ \A r \in Requests : req'[r] = IF r \in gone THEN Unused ELSE req[r]
        /\ req' \in [Requests -> Calls \cup {Unused}]
    BY <1>1 DEF CancelPendingAuthorizations, CallsTyped
  <1>4. /\ pending' = NoRequest /\ active' = active
        /\ count' = count - Cardinality(freed)
        /\ slots' = [s \in Senders |->
                       slots[s] \ {req[r].kind : r \in {g \in gone : req[g].from = s}}]
    BY DEF CancelPendingAuthorizations
  <1>5. /\ gone \in SUBSET Requests
        /\ \A r \in gone : Live(r) /\ req[r].stage # "active"
        /\ \A r \in waiting : req[r].stage = "waiting"
        /\ gone \in SUBSET told
    <2>1. waiting \in SUBSET Requests /\ \A r \in waiting : Live(r) /\ req[r].stage = "waiting"
      BY <1>1, CallsAreRecords DEF Waiting, CallsTyped, OrNone, OwnersAreTrue, Authorizing
    <2>2. \A r \in freed : Live(r) /\ req[r].stage # "active" /\ r \in S
      BY <1>1, CallsAreRecords DEF Authorizing
    <2> QED BY <2>1, <2>2
  <1>6. Unused.stage = "free"
    BY DEF Unused
  <1>7. \A r \in Requests : Live(r)' <=> r \notin gone /\ Live(r)
    BY <1>3 DEF Live
  <1>8. S' = S \ freed
    BY <1>3, <1>5, <1>6 DEF Authorizing
  <1>9. CountIsTrue' /\ count' \in 0 .. MaxPending
    <2>1. CASE freed = {}
      BY <1>1, <1>4, <1>8, <2>1, FS_EmptySet DEF CountIsTrue, CallsTyped
    <2>2. CASE \E r \in Requests : Authorizing(r) /\ freed = {r}
      <3>1. PICK r \in S : freed = {r}
        BY <2>2
      <3>2. /\ IsFiniteSet(S \ {r}) /\ Cardinality(S \ {r}) = count - 1
            /\ Cardinality(freed) = 1 /\ S' = S \ {r}
        BY <1>1, <1>8, <3>1, FS_RemoveElement, FS_Singleton DEF CountIsTrue
      <3>3. count > 0
        BY <1>1, <3>1, AuthorizingCounts
      <3>4. IsFiniteSet(S') /\ Cardinality(S') = count'
        BY <1>4, <3>2
      <3> QED BY <1>1, <1>4, <3>2, <3>3, <3>4 DEF CountIsTrue, CallsTyped
    <2> QED BY <2>1, <2>2
  <1>10. CallsTyped'
    BY <1>1, <1>2, <1>3, <1>4, <1>9 DEF CallsTyped, OrNone
  <1>11. SlotsAreTrue'
    <2>1. ASSUME NEW s \in Senders, NEW k \in Kinds
          PROVE  k \in slots'[s] <=>
                   \E q \in Requests : Live(q)' /\ req'[q].from = s /\ req'[q].kind = k
      <3>1. k \in slots'[s] <=> /\ k \in slots[s]
                                /\ ~\E g \in gone : req[g].from = s /\ req[g].kind = k
        BY <1>4
      <3> QED BY <1>1, <1>3, <1>5, <1>7, <3>1 DEF SlotsAreTrue
    <2>2. ASSUME NEW p \in Requests, NEW q \in Requests, Live(p)', Live(q)',
                 req'[p].from = req'[q].from, req'[p].kind = req'[q].kind
          PROVE  p = q
      BY <1>1, <1>3, <1>7, <2>2 DEF SlotsAreTrue
    <2> QED BY <2>1, <2>2 DEF SlotsAreTrue
  <1>12. OwnersAreTrue'
    <2>1. active' # NoRequest => Live(active)' /\ req'[active'].stage = "active"
      BY <1>1, <1>3, <1>4, <1>5, <1>7 DEF OwnersAreTrue, CallsTyped, OrNone, Live
    <2>2. ASSUME NEW r \in Requests, Live(r)'
          PROVE  /\ req'[r].stage = "active" => active' = r
                 /\ req'[r].stage = "waiting" => pending' = r
                 /\ reply'[r] = "none" /\ req'[r].kind = "action" => r \in {active', pending'}
      <3>1. Live(r) /\ req'[r] = req[r] /\ r \notin gone
        BY <1>3, <1>7, <2>2
      <3>2. req[r].stage # "waiting"
        BY <1>1, <3>1 DEF OwnersAreTrue, Waiting, Authorizing
      <3>3. reply'[r] = "none" => r \notin told /\ reply[r] = "none"
        BY <1>2
      <3>4. r \notin told => r # pending
        BY <1>1 DEF Waiting
      <3> QED BY <1>1, <1>4, <3>1, <3>2, <3>3, <3>4 DEF OwnersAreTrue
    <2> QED BY <1>4, <2>1, <2>2 DEF OwnersAreTrue
  <1>13. CallsHold'
    BY <1>9, <1>10, <1>11, <1>12 DEF CallsHold
  <1>14. ASSUME NEW r \in Requests, Live(r)'
         PROVE  Live(r) /\ req'[r] = req[r] /\ req[r].stage # "waiting"
    BY <1>1, <1>3, <1>7, <1>14 DEF OwnersAreTrue, Waiting, Authorizing
  <1>15. ASSUME NEW r \in Requests, Live(r), ~Live(r)'
         PROVE  reply'[r] # "none"
    BY <1>2, <1>5, <1>7, <1>15
  <1>16. ASSUME NEW r \in Requests, req[r].stage = "active"
         PROVE  reply'[r] = reply[r] /\ Live(r)'
    BY <1>1, <1>2, <1>5, <1>6, <1>7, <1>16 DEF Authorizing, Live
  <1>17. ASSUME NEW r \in Requests, reply[r] # "none"
         PROVE  reply'[r] = reply[r]
    BY <1>2, <1>17
  <1> QED BY <1>4, <1>13, <1>14, <1>15, <1>16, <1>17

\* begin_authorization keeps the books: the request gets a slot nobody has.
LEMMA AdmitStep ==
  ASSUME CallsHold, NEW s \in Senders, NEW r \in Requests, NEW kind \in Kinds,
         CanAdmit(s, kind), kind = "action" => pending = NoRequest,
         generation \in 0 .. MaxGeneration,
         BeginAuthorization(s, r, kind)
  PROVE  CallsHold'
  <1>1. /\ CallsTyped /\ CountIsTrue /\ SlotsAreTrue /\ OwnersAreTrue
        /\ MaxPending \in Nat /\ NoRequest \notin Requests
    BY BoundsAssumption, RequestsAssumption DEF CallsHold
  <1> DEFINE S == {q \in Requests : Authorizing(q)}
             c == [stage |-> "auth", kind |-> kind, from |-> s, gen |-> generation]
  <1>2. /\ c \in Calls /\ c # Unused
        /\ c.stage = "auth" /\ c.kind = kind /\ c.from = s
    BY CallsAreUsed DEF Calls
  <1>3. /\ req' \in [Requests -> Calls \cup {Unused}]
        /\ req'[r] = c
        /\ \A q \in Requests \ {r} : req'[q] = req[q]
        /\ reply' \in [Requests -> Replies]
        /\ reply'[r] = "none"
        /\ \A q \in Requests \ {r} : reply'[q] = reply[q]
        /\ req[r] = Unused
    BY <1>1, <1>2 DEF BeginAuthorization, CallsTyped, Replies, Live
  <1> HIDE DEF c
  <1>4. Unused.stage = "free"
    BY DEF Unused
  <1>5. S' = S \cup {r} /\ r \notin S
    BY <1>2, <1>3, <1>4 DEF Authorizing
  <1>6. CountIsTrue' /\ count' \in 0 .. MaxPending
    <2>1. IsFiniteSet(S') /\ Cardinality(S') = count + 1
      BY <1>1, <1>5, FS_AddElement DEF CountIsTrue
    <2> QED BY <1>1, <2>1 DEF CountIsTrue, BeginAuthorization, CanAdmit, CallsTyped
  <1>7. CallsTyped'
    BY <1>1, <1>3, <1>6 DEF CallsTyped, BeginAuthorization, OrNone, Kinds
  <1>8. \A q \in Requests : Live(q)' <=> q = r \/ Live(q)
    BY <1>2, <1>3 DEF Live
  <1>9. SlotsAreTrue'
    <2>1. ASSUME NEW t \in Senders, NEW k \in Kinds
          PROVE  k \in slots'[t] <=>
                   \E q \in Requests : Live(q)' /\ req'[q].from = t /\ req'[q].kind = k
      <3>1. k \in slots'[t] <=> k \in slots[t] \/ (t = s /\ k = kind)
        BY <1>1 DEF BeginAuthorization, CallsTyped
      <3> QED BY <1>1, <1>2, <1>3, <1>8, <3>1 DEF SlotsAreTrue, Live
    <2>2. ASSUME NEW p \in Requests, NEW q \in Requests, Live(p)', Live(q)',
                 req'[p].from = req'[q].from, req'[p].kind = req'[q].kind
          PROVE  p = q
      <3>1. ~\E x \in Requests : Live(x) /\ req[x].from = s /\ req[x].kind = kind
        BY <1>1 DEF SlotsAreTrue, CanAdmit
      <3> QED BY <1>1, <1>2, <1>3, <1>8, <2>2, <3>1 DEF SlotsAreTrue
    <2> QED BY <2>1, <2>2 DEF SlotsAreTrue
  <1>10. OwnersAreTrue'
    BY <1>1, <1>2, <1>3, <1>8
    DEF OwnersAreTrue, BeginAuthorization, CallsTyped, OrNone, Live, Kinds
  <1> QED BY <1>6, <1>7, <1>9, <1>10 DEF CallsHold

\* A live request that moves on keeps its slot; it leaves the pending
\* authorizations when its callback is done, and its owner must be right.
LEMMA MoveStep ==
  ASSUME CallsHold, NEW r \in Requests, Live(r),
         NEW stage \in {"policy", "waiting", "active"},
         req' = [req EXCEPT ![r].stage = stage], UNCHANGED slots,
         reply' \in [Requests -> Replies],
         \A q \in Requests : reply[q] # "none" => reply'[q] # "none",
         count' = IF Authorizing(r) /\ stage # "policy" THEN count - 1 ELSE count,
         ~Authorizing(r) => stage # "policy",
         active' \in OrNone, pending' \in OrNone,
         \/ active' = active /\ r # active /\ stage # "active"
         \/ active' = r /\ active = NoRequest /\ stage = "active",
         \/ pending' = pending /\ (pending \in Requests => reply'[pending] = reply[pending])
                               /\ (stage = "active" => pending # r)
         \/ pending' = NoRequest /\ pending = r /\ stage = "active",
         stage = "waiting" => pending' = r
  PROVE  CallsHold'
  <1>1. /\ CallsTyped /\ CountIsTrue /\ SlotsAreTrue /\ OwnersAreTrue
        /\ MaxPending \in Nat /\ NoRequest \notin Requests
    BY BoundsAssumption, RequestsAssumption DEF CallsHold
  <1> DEFINE S == {q \in Requests : Authorizing(q)}
  <1>2. /\ req[r] \in Calls /\ [req[r] EXCEPT !.stage = stage] \in Calls
        /\ [req[r] EXCEPT !.stage = stage].stage = stage
        /\ [req[r] EXCEPT !.stage = stage].kind = req[r].kind
        /\ [req[r] EXCEPT !.stage = stage].from = req[r].from
    BY <1>1, CallsAreRecords DEF Calls
  <1>3. /\ req' \in [Requests -> Calls \cup {Unused}]
        /\ req'[r].stage = stage /\ req'[r].kind = req[r].kind /\ req'[r].from = req[r].from
        /\ req'[r] # Unused
        /\ \A q \in Requests \ {r} : req'[q] = req[q]
    BY <1>1, <1>2, CallsAreUsed DEF CallsTyped
  <1>4. S' = IF stage = "policy" THEN S ELSE S \ {r}
    BY <1>3 DEF Authorizing
  <1>5. CountIsTrue' /\ count' \in 0 .. MaxPending
    <2>1. IsFiniteSet(S') /\ Cardinality(S') = IF r \in S /\ stage # "policy"
                                               THEN count - 1 ELSE count
      BY <1>1, <1>4, FS_RemoveElement, ZenonT(30) DEF CountIsTrue
    <2>2. r \in S => count > 0
      BY <1>1, AuthorizingCounts
    <2> QED BY <1>1, <2>1, <2>2 DEF CountIsTrue, CallsTyped
  <1>6. CallsTyped'
    BY <1>1, <1>3, <1>5 DEF CallsTyped
  <1>7. \A q \in Requests : Live(q)' <=> Live(q)
    BY <1>3 DEF Live
  <1>8. SlotsAreTrue'
    BY <1>1, <1>3, <1>7 DEF SlotsAreTrue
  <1>9. OwnersAreTrue'
    BY <1>1, <1>3, <1>7 DEF OwnersAreTrue, CallsTyped, OrNone
  <1> QED BY <1>5, <1>6, <1>8, <1>9 DEF CallsHold

\* A step that touches no request and answers none of the actions keeps the books.
LEMMA AnswerStep ==
  ASSUME CallsHold, UNCHANGED <<req, slots, count, active>>,
         reply' \in [Requests -> Replies],
         \A q \in Requests : reply[q] # "none" => reply'[q] # "none",
         \/ pending' = pending /\ (pending \in Requests => reply'[pending] = reply[pending])
         \/ pending' = NoRequest /\ pending \in Requests
                                 /\ reply'[pending] # "none" /\ Authorizing(pending)
  PROVE  CallsHold'
  <1>1. /\ CallsTyped /\ CountIsTrue /\ SlotsAreTrue /\ OwnersAreTrue
        /\ NoRequest \notin Requests
    BY RequestsAssumption DEF CallsHold
  <1>2. \A q \in Requests : Live(q)' <=> Live(q)
    BY DEF Live
  <1>3. CountIsTrue' /\ SlotsAreTrue' /\ CallsTyped'
    BY <1>1, <1>2 DEF CountIsTrue, Authorizing, SlotsAreTrue, CallsTyped, OrNone
  <1>4. OwnersAreTrue'
    BY <1>1, <1>2 DEF OwnersAreTrue, Authorizing, CallsTyped, OrNone
  <1> QED BY <1>3, <1>4 DEF CallsHold

-----------------------------------------------------------------------------
(* The steps of the service.                                               *)

\* Without pending work every request is free: each live one is counted or owned.
LEMMA QuietCalls ==
  ASSUME CallsHold, ~PendingWork, NEW r \in Requests
  PROVE  ~Live(r)
  <1>1. CallsTyped /\ CountIsTrue /\ OwnersAreTrue
    BY DEF CallsHold
  <1>2. active = NoRequest /\ pending = NoRequest /\ count = 0
    BY DEF PendingWork
  <1>3. ~Authorizing(r)
    BY <1>1, <1>2, AuthorizingCounts
  <1> QED BY <1>1, <1>2, <1>3, RequestsAssumption, CallsAreRecords
          DEF OwnersAreTrue, Authorizing

\* The same, after a step.
LEMMA QuietCallsNext ==
  (CallsHold /\ ~PendingWork => \A r \in Requests : ~Live(r))'
  <1>1. CallsHold /\ ~PendingWork => \A r \in Requests : ~Live(r)
    BY QuietCalls
  <1> QED BY <1>1, PTL

\* A callback that recomputes the idle state leaves the loop only with nothing
\* to do: every request has gone, and the runner and the policy check with it.
LEMMA IdleStep ==
  ASSUME CallsHold', UpdateIdle, loop = "running",
         stopping' \in BOOLEAN, validating' \in BOOLEAN
  PROVE  /\ idle' \in BOOLEAN /\ loop' \in {"running", "quit"}
         /\ QuitLeavesNothing'
         /\ loop' = "quit" => pending' = NoRequest /\ active' = NoRequest
  <1>1. idle' \in BOOLEAN /\ loop' \in {"running", "quit"}
    BY DEF UpdateIdle
  <1>2. ASSUME loop' = "quit"
        PROVE  ~PendingWork'
    BY <1>2 DEF UpdateIdle
  <1>3. ~PendingWork' => \A r \in Requests : ~Live(r)'
    BY QuietCallsNext
  <1>4. QuitLeavesNothing'
    BY <1>2, <1>3 DEF QuitLeavesNothing, PendingWork, Busy
  <1> QED BY <1>1, <1>2, <1>4 DEF PendingWork

\* The requests alone, read off the invariant.
LEMMA CallsFromInvariant == IndInv => CallsHold
  BY DEF IndInv, TypeOK, CallsHold, CallsTyped

\* A step that leaves the requests alone keeps the books.
LEMMA CallsStay == CallsHold /\ UNCHANGED calls => CallsHold'
  BY DEF CallsHold, CallsTyped, CountIsTrue, SlotsAreTrue, OwnersAreTrue, calls,
         Live, Authorizing

\* cancel_pending_authorizations alone, as the policy's callbacks call it.
LEMMA CancelAllStep == CallsHold /\ CancelPendingAuthorizations({}) => CallsHold'
  BY CancelStep

\* pending_action names a live request.
LEMMA PendingIsLive ==
  ASSUME CallsHold, pending # NoRequest
  PROVE  pending \in Requests /\ Live(pending)
  BY DEF CallsHold, CallsTyped, OrNone, OwnersAreTrue

\* active_request names a live request.
LEMMA ActiveIsLive ==
  ASSUME CallsHold, active # NoRequest
  PROVE  active \in Requests /\ Live(active)
  BY DEF CallsHold, CallsTyped, OrNone, OwnersAreTrue

\* Every callback keeps the books of begin_authorization, finish_authorization
\* and request_free.
LEMMA CallsStep ==
  ASSUME IndInv, [Next]_vars
  PROVE  CallsHold'
  <1>0. CallsHold /\ CallsTyped /\ CountIsTrue /\ SlotsAreTrue /\ OwnersAreTrue
    BY CallsFromInvariant DEF CallsHold
  <1>a. ASSUME NEW r \in Requests, NEW a \in Replies, Answer(r, a)
        PROVE  /\ reply' \in [Requests -> Replies]
               /\ \A q \in Requests \ {r} : reply'[q] = reply[q]
               /\ \A q \in Requests : reply[q] # "none" => reply'[q] # "none"
               /\ a # "none" => reply'[r] # "none"
    BY <1>0, <1>a DEF Answer, CallsTyped
  <1>b. ASSUME active # NoRequest, PublishResult
        PROVE  /\ reply' \in [Requests -> Replies]
               /\ \A q \in Requests \ {active} : reply'[q] = reply[q]
               /\ \A q \in Requests : reply[q] # "none" => reply'[q] # "none"
    BY <1>0, <1>b, ActiveIsLive DEF PublishResult, CallsTyped, Replies
  <1>c. run # NoRequest => active = run
    BY DEF IndInv, RunHasItsCaller
  <1>1. CASE PolicyStep
    <2>1. CASE UNCHANGED calls
      BY <1>0, <2>1, CallsStay
    <2>2. CASE CancelPendingAuthorizations({})
      BY <1>0, <2>2, CancelAllStep
    <2> QED BY <1>1, <2>1, <2>2
            DEF PolicyStep, AuthorityReady, ServicePolicyChecked, PolicyValidationTimeout,
                AuthorizationChanged, BusAcquired, Shutdown, IdleTimeout, PolicyStopped,
                PolicyFails, FailUnsafePolicy, calls
  <1>2. ASSUME NEW r \in Requests, NEW s \in Senders,
               HandleExecute(s, r) \/ HandleListProfiles(s, r)
        PROVE  CallsHold'
    <2>1. generation \in 0 .. MaxGeneration
      BY DEF IndInv, TypeOK
    <2> QED BY <1>0, <1>2, <2>1, AdmitStep DEF HandleExecute, HandleListProfiles, Kinds
  <1>3. ASSUME NEW r \in Requests, RejectAuthorization(r), Live(r)
        PROVE  CallsHold'
    BY <1>0, <1>3, <1>a, FreeStep DEF RejectAuthorization, Replies
  <1>4. ASSUME NEW r \in Requests, AuthorizationChecked(r)
        PROVE  CallsHold'
    <2>1. Live(r) /\ Authorizing(r)
      BY <1>0, <1>4, CallsAreRecords DEF AuthorizationChecked, Authorizing
    <2>2. r # active /\ active \in OrNone /\ pending \in OrNone /\ reply \in [Requests -> Replies]
      BY <1>0, <1>4, RequestsAssumption DEF AuthorizationChecked, OwnersAreTrue, CallsTyped
    <2>3. CASE UNCHANGED <<reply, slots, count, active, pending>>
               /\ req' = [req EXCEPT ![r].stage = "policy"]
      BY <1>0, <2>1, <2>2, <2>3, MoveStep
    <2> QED BY <1>3, <1>4, <2>1, <2>3 DEF AuthorizationChecked
  <1>5. ASSUME NEW r \in Requests, RequestPolicyChecked(r)
        PROVE  CallsHold'
    <2>1. Live(r) /\ Authorizing(r) /\ req[r].stage = "policy"
      BY <1>0, <1>5, CallsAreRecords DEF RequestPolicyChecked, Authorizing
    <2>2. /\ r # active /\ active \in OrNone /\ pending \in OrNone
          /\ reply \in [Requests -> Replies] /\ r # NoRequest
      BY <1>0, <2>1, RequestsAssumption DEF OwnersAreTrue, CallsTyped
    <2>3. CASE FailUnsafePolicy({r})
      BY <1>0, <2>1, <2>3, CancelStep DEF FailUnsafePolicy
    <2>4. CASE pending = r /\ ContinueAction(r) /\ reply[r] = "none"
      <3>1. req[r].kind = "action"
        BY <1>0, <2>2, <2>4 DEF OwnersAreTrue
      <3>2. /\ reply' \in [Requests -> Replies] /\ reply'[r] = reply[r]
            /\ \A q \in Requests : reply[q] # "none" => reply'[q] # "none"
        BY <2>2, <2>4, <3>1 DEF ContinueAction, Replies
      <3> QED BY <1>0, <2>1, <2>2, <2>4, <3>2, MoveStep DEF ContinueAction
    <2>5. CASE pending # r /\ ContinueInventory(r) /\ ~CannotContinue(r)
      <3>1. active = NoRequest
        BY <2>5 DEF CannotContinue
      <3> QED BY <1>0, <2>1, <2>2, <2>5, <3>1, MoveStep DEF ContinueInventory, OrNone
    <2> QED BY <1>3, <1>5, <2>1, <2>3, <2>4, <2>5
            DEF RequestPolicyChecked, AuthorizationIsCurrent
  <1>6. ASSUME NEW r \in Requests, AuthorizationTimeout(r)
        PROVE  CallsHold'
    <2>1. Answer(r, "refused") /\ Authorizing(r)
      BY <1>6 DEF AuthorizationTimeout
    <2>2. /\ reply' \in [Requests -> Replies] /\ reply'[r] # "none"
          /\ \A q \in Requests \ {r} : reply'[q] = reply[q]
          /\ \A q \in Requests : reply[q] # "none" => reply'[q] # "none"
      BY <1>a, <2>1 DEF Replies
    <2> QED BY <1>0, <1>6, <2>1, <2>2, AnswerStep DEF AuthorizationTimeout
  <1>7. CASE GiveUpPendingAction /\ pending # NoRequest
    BY <1>0, <1>7, <1>a, PendingIsLive, FreeStep DEF GiveUpPendingAction, Replies
  <1>8. CASE ProgressPendingAction
    <2>1. pending # NoRequest /\ ~Authorizing(pending)
      BY <1>8 DEF IndInv, ControlIsTrue, ProgressPendingAction, Waiting
    <2>2. CASE UNCHANGED calls
      BY <1>0, <2>2, CallsStay
    <2>3. CASE /\ active = NoRequest /\ req' = [req EXCEPT ![pending].stage = "active"]
               /\ active' = pending /\ pending' = NoRequest
               /\ UNCHANGED <<reply, slots, count>>
      <3>1. /\ pending \in Requests /\ Live(pending)
            /\ reply \in [Requests -> Replies] /\ NoRequest \in OrNone /\ pending \in OrNone
        BY <1>0, <2>1, PendingIsLive DEF CallsTyped, OrNone
      <3> QED BY <1>0, <2>1, <2>3, <3>1, MoveStep
    <2> QED BY <1>7, <1>8, <2>1, <2>2, <2>3 DEF ProgressPendingAction
  <1>9. CASE PreemptTimeout
    BY <1>7, <1>9 DEF PreemptTimeout, Waiting
  <1>10. CASE StartHelper
    <2>1. active # NoRequest
      BY <1>10 DEF IndInv, ControlIsTrue, StartHelper
    <2>2. CASE UNCHANGED calls
      BY <1>0, <2>2, CallsStay
    <2>3. CASE /\ RequestFree(active)
               /\ Answer(active, IF broken \/ Busy THEN "refused" ELSE "result")
      <3>1. PICK a \in Replies : Answer(active, a)
        BY <2>3 DEF Replies
      <3> QED BY <1>0, <1>a, <2>1, <2>3, <3>1, ActiveIsLive, FreeStep
    <2> QED BY <1>10, <2>2, <2>3 DEF StartHelper
  <1>11. CASE FinishRun
    <2>1. active # NoRequest
      BY <1>11, <1>c DEF FinishRun
    <2> QED BY <1>0, <1>11, <1>b, <2>1, ActiveIsLive, FreeStep DEF FinishRun
  <1>12. CASE PublishAtHardDeadline
    <2>1. active # NoRequest
      BY <1>12, <1>c DEF PublishAtHardDeadline
    <2>2. pending # active
      BY <1>0, <2>1 DEF OwnersAreTrue
    <2>3. pending \in Requests => reply'[pending] = reply[pending]
      BY <1>12, <1>b, <2>1, <2>2 DEF PublishAtHardDeadline
    <2> QED BY <1>0, <1>12, <1>b, <2>1, <2>3, AnswerStep
            DEF PublishAtHardDeadline, CallsTyped, OrNone
  <1>13. CASE RunnerFails
    <2>1. CASE UNCHANGED calls
      BY <1>0, <2>1, CallsStay
    <2> QED BY <1>0, <1>13, <2>1, CancelAllStep DEF RunnerFails, FailUnsafePolicy
  <1>14. CASE DetachStalledHelper \/ ChildrenDie \/ ReapChildren \/ Exited \/ UNCHANGED vars
    <2>1. UNCHANGED calls
      BY <1>14 DEF DetachStalledHelper, ChildrenDie, ReapChildren, Exited, vars
    <2> QED BY <1>0, <2>1, CallsStay
  <1> QED BY <1>1, <1>2, <1>4, <1>5, <1>6, <1>8, <1>9, <1>10, <1>11, <1>12, <1>13, <1>14
          DEF Next, CallStep, RunnerStep

\* No callback leaves the range of a field of the service.
LEMMA TypeStep ==
  ASSUME IndInv, [Next]_vars
  PROVE  TypeOK'
  <1>1. CallsTyped'
    BY CallsStep DEF CallsHold
  <1>2. UpdateIdle => idle' \in BOOLEAN /\ loop' \in {"running", "quit"}
    BY DEF UpdateIdle, IndInv, TypeOK
  <1>3. CallProgress => pc' \in {"loop", "progress", "start"}
    BY DEF CallProgress
  <1>4. /\ active \in OrNone
        /\ authority \in BOOLEAN /\ validating \in BOOLEAN /\ ready \in BOOLEAN
        /\ generation \in 0 .. MaxGeneration /\ checked \in 0 .. MaxGeneration
        /\ bus \in {"none", "requested", "exported"}
        /\ idle \in BOOLEAN /\ stopping \in BOOLEAN /\ failed \in BOOLEAN
        /\ loop \in {"running", "quit"}
        /\ run \in OrNone /\ sent \in BOOLEAN /\ children \in BOOLEAN /\ broken \in BOOLEAN
        /\ pc \in {"loop", "progress", "start"}
        /\ MaxGeneration \in Nat /\ NoRequest \in OrNone
    BY BoundsAssumption DEF IndInv, TypeOK, OrNone
  <1> DEFINE Rest ==
        /\ authority \in BOOLEAN /\ validating \in BOOLEAN /\ ready \in BOOLEAN
        /\ generation \in 0 .. MaxGeneration /\ checked \in 0 .. MaxGeneration
        /\ bus \in {"none", "requested", "exported"}
        /\ idle \in BOOLEAN /\ stopping \in BOOLEAN /\ failed \in BOOLEAN
        /\ loop \in {"running", "quit"}
        /\ run \in OrNone /\ sent \in BOOLEAN /\ children \in BOOLEAN /\ broken \in BOOLEAN
        /\ pc \in {"loop", "progress", "start"}
  <1>5. ASSUME PolicyStep PROVE Rest'
    <2> USE <1>2, <1>4 DEF policy, runner, process, calls
    <2>a. ASSUME PolicyStopped \/ PolicyFails, UNCHANGED <<runner, pc>>
          PROVE  Rest'
      BY <2>a, ZenonT(30) DEF PolicyStopped, PolicyFails, FailUnsafePolicy
    <2>1. ASSUME AuthorityReady PROVE Rest'
      BY <2>1, <2>a DEF AuthorityReady
    <2>2. ASSUME ServicePolicyChecked PROVE Rest'
      BY <2>2, <2>a DEF ServicePolicyChecked
    <2>3. CASE PolicyValidationTimeout
      BY <2>3 DEF PolicyValidationTimeout, FailUnsafePolicy
    <2>4. ASSUME AuthorizationChanged PROVE Rest'
      <3>1. UpdateIdle /\ UNCHANGED <<runner, pc>>
        BY <2>4 DEF AuthorizationChanged
      <3>2. CASE failed' = TRUE /\ stopping' = TRUE /\ UNCHANGED policy
        BY <3>1, <3>2
      <3>3. CASE /\ generation < MaxGeneration /\ generation' = generation + 1
                 /\ ready' = FALSE /\ validating' = TRUE
                 /\ checked' = IF validating THEN checked ELSE generation + 1
                 /\ UNCHANGED <<authority, bus, stopping, failed>>
        <4>1. generation' \in 0 .. MaxGeneration /\ checked' \in 0 .. MaxGeneration
          BY <3>3
        <4> QED BY <3>1, <3>3, <4>1
      <3> QED BY <2>4, <3>2, <3>3 DEF AuthorizationChanged, FailUnsafePolicy
    <2>5. CASE BusAcquired
      BY <2>5 DEF BusAcquired
    <2>b. CASE Shutdown
      BY <2>b, ZenonT(30) DEF Shutdown
    <2>6. CASE IdleTimeout
      BY <2>6, ZenonT(30) DEF IdleTimeout
    <2> QED BY <1>5, <2>1, <2>2, <2>3, <2>4, <2>5, <2>b, <2>6 DEF PolicyStep
  <1>6. ASSUME CallStep PROVE Rest'
    <2> USE <1>2, <1>3, <1>4 DEF policy, runner, process, calls
    <2>1. ASSUME NEW r \in Requests, NEW s \in Senders,
                 HandleExecute(s, r) \/ HandleListProfiles(s, r)
          PROVE  Rest'
      BY <2>1, ZenonT(30) DEF HandleExecute, HandleListProfiles, BeginAuthorization
    <2>a. ASSUME NEW r \in Requests, RejectAuthorization(r)
          PROVE  Rest'
      BY <2>a DEF RejectAuthorization
    <2>2. ASSUME NEW r \in Requests, AuthorizationChecked(r)
          PROVE  Rest'
      BY <2>2, <2>a DEF AuthorizationChecked
    <2>3. ASSUME NEW r \in Requests, RequestPolicyChecked(r)
          PROVE  Rest'
      <3>1. CASE failed' = TRUE /\ stopping' = TRUE /\ UNCHANGED <<policy, runner, pc>>
                 /\ UpdateIdle
        BY <3>1
      <3>2. CASE ContinueAction(r)
        BY <3>2 DEF ContinueAction
      <3>3. CASE ContinueInventory(r)
        BY <3>3 DEF ContinueInventory
      <3> QED BY <2>3, <2>a, <3>1, <3>2, <3>3 DEF RequestPolicyChecked, FailUnsafePolicy
    <2>4. ASSUME NEW r \in Requests, AuthorizationTimeout(r)
          PROVE  Rest'
      BY <2>4 DEF AuthorizationTimeout
    <2> QED BY <1>6, <2>1, <2>2, <2>3, <2>4 DEF CallStep
  <1>7. ASSUME RunnerStep PROVE Rest'
    <2> USE <1>2, <1>3, <1>4 DEF policy, runner, process, calls
    <2>1. CASE ProgressPendingAction
      BY <2>1 DEF ProgressPendingAction, GiveUpPendingAction
    <2>2. CASE PreemptTimeout
      BY <2>2 DEF PreemptTimeout, GiveUpPendingAction
    <2>3. ASSUME StartHelper PROVE Rest'
      <3>1. CASE run' = active /\ sent' = FALSE /\ UNCHANGED <<calls, process>>
        BY <2>3, <3>1 DEF StartHelper
      <3>2. CASE UNCHANGED <<run, sent, stopping, failed>> /\ UpdateIdle
        BY <2>3, <3>2 DEF StartHelper
      <3> QED BY <2>3, <3>1, <3>2 DEF StartHelper
    <2>4. ASSUME FinishRun PROVE Rest'
      <3>1. /\ UpdateIdle /\ CallProgress /\ UNCHANGED <<broken, policy, stopping, failed>>
            /\ sent' = TRUE /\ run' = NoRequest /\ children' \in BOOLEAN
        BY <2>4 DEF FinishRun, PublishResult
      <3> QED BY <3>1
    <2>5. CASE ReapChildren
      BY <2>5 DEF ReapChildren
    <2>8. CASE DetachStalledHelper
      BY <2>8 DEF DetachStalledHelper
    <2>9. ASSUME ChildrenDie PROVE Rest'
      <3>1. /\ authority' = authority /\ validating' = validating /\ ready' = ready
            /\ generation' = generation /\ checked' = checked /\ bus' = bus
            /\ idle' = idle /\ stopping' = stopping /\ failed' = failed /\ loop' = loop
            /\ run' = run /\ sent' = sent /\ broken' = broken /\ pc' = pc
        BY <2>9 DEF ChildrenDie
      <3>2. children' \in BOOLEAN
        BY <2>9 DEF ChildrenDie
      <3> QED BY <3>1, <3>2
    <2>6. CASE PublishAtHardDeadline
      BY <2>6 DEF PublishAtHardDeadline, PublishResult
    <2>7. CASE RunnerFails
      BY <2>7 DEF RunnerFails, FailUnsafePolicy
    <2> QED BY <1>7, <2>1, <2>2, <2>3, <2>4, <2>5, <2>6, <2>7, <2>8, <2>9 DEF RunnerStep
  <1>8. ASSUME Exited \/ UNCHANGED vars PROVE Rest'
    BY <1>4, <1>8 DEF Exited, vars, policy, runner, process
  <1>9. Rest'
    BY <1>5, <1>6, <1>7, <1>8 DEF Next
  <1> QED BY <1>1, <1>9 DEF TypeOK, CallsTyped

-----------------------------------------------------------------------------
(* The service and the runner.                                             *)

ServiceHolds ==
  ControlIsTrue /\ GrantIsCurrent /\ HandoffIsAccepted /\ RunHasItsCaller /\ QuitLeavesNothing

\* While the loop runs, a callback that ends in service_update_idle_state or does not
\* touch the loop leaves it only when nothing is left, with no action to progress.
LEMMA LoopStep ==
  ASSUME CallsHold', TypeOK', loop = "running", UpdateIdle \/ UNCHANGED loop,
         pc' = "loop" \/ CallProgress
  PROVE  /\ QuitLeavesNothing'
         /\ loop' = "quit" => pc' = "loop"
         /\ pc' \in {"loop", "progress"}
         /\ pc' = "progress" => Waiting'
  <1>1. UpdateIdle => QuitLeavesNothing' /\ (loop' = "quit" => pending' = NoRequest)
    BY IdleStep DEF TypeOK
  <1>2. UNCHANGED loop => loop' # "quit"
    OBVIOUS
  <1>3. pending' = NoRequest => ~Waiting'
    BY DEF Waiting
  <1>4. /\ pc' \in {"loop", "progress"}
        /\ pc' = "progress" => Waiting'
    BY DEF CallProgress
  <1> QED BY <1>1, <1>2, <1>3, <1>4 DEF QuitLeavesNothing

\* A callback that leaves the requests and the grants alone.
LEMMA QuietStep ==
  ASSUME IndInv, CallsHold', TypeOK', loop = "running", pc = "loop",
         UNCHANGED calls, UNCHANGED <<run, sent, broken, stopping, failed, generation>>,
         ready => ready',
         UpdateIdle \/ UNCHANGED loop, pc' = "loop" \/ CallProgress
  PROVE  ServiceHolds'
  <1>1. /\ QuitLeavesNothing' /\ (loop' = "quit" => pc' = "loop")
        /\ pc' \in {"loop", "progress"} /\ (pc' = "progress" => Waiting')
    BY LoopStep
  <1>2. ControlIsTrue' /\ HandoffIsAccepted'
    BY <1>1 DEF ControlIsTrue, HandoffIsAccepted, IndInv
  <1>3. GrantIsCurrent' /\ RunHasItsCaller'
    BY <1>1 DEF GrantIsCurrent, RunHasItsCaller, IndInv, Live, calls
  <1> QED BY <1>1, <1>2, <1>3 DEF ServiceHolds

\* A callback that cancels the pending authorizations leaves no grant behind.
LEMMA CancelServiceStep ==
  ASSUME IndInv, CallsHold', TypeOK', loop = "running", pc = "loop",
         NEW freed \in SUBSET Requests, CancelPendingAuthorizations(freed),
         freed = {} \/ \E r \in Requests : Authorizing(r) /\ freed = {r},
         UNCHANGED <<run, sent>>, failed' \/ broken' => stopping',
         UpdateIdle \/ UNCHANGED loop, pc' = "loop" \/ CallProgress
  PROVE  ServiceHolds'
  <1>1. /\ QuitLeavesNothing' /\ (loop' = "quit" => pc' = "loop")
        /\ pc' \in {"loop", "progress"} /\ (pc' = "progress" => Waiting')
    BY LoopStep
  <1>2. /\ CallsHold' /\ pending' = NoRequest /\ active' = active
        /\ \A r \in Requests : Live(r)' => req'[r] = req[r] /\ req[r].stage # "waiting"
        /\ \A r \in Requests : req[r].stage = "active" => reply'[r] = reply[r] /\ Live(r)'
    BY CancelStep, CallsFromInvariant DEF CancelPendingAuthorizations
  <1>3. pc' = "loop"
    BY <1>1, <1>2 DEF Waiting
  <1>4. ControlIsTrue' /\ HandoffIsAccepted'
    BY <1>1, <1>3 DEF ControlIsTrue, HandoffIsAccepted
  <1>5. GrantIsCurrent'
    BY <1>2, <1>3 DEF GrantIsCurrent
  <1>6. RunHasItsCaller'
    BY <1>2 DEF RunHasItsCaller, IndInv, OwnersAreTrue, TypeOK, OrNone
  <1> QED BY <1>1, <1>4, <1>5, <1>6 DEF ServiceHolds

\* Freeing a request takes a grant away and gives none; the request of a run is freed
\* only with the run.
LEMMA FreeServiceStep ==
  ASSUME IndInv, CallsHold', TypeOK', loop = "running",
         NEW r \in Requests, Live(r), RequestFree(r),
         \A q \in Requests \ {r} : reply'[q] = reply[q],
         \/ r # active /\ pc # "start" /\ UNCHANGED <<run, sent>>
         \/ r = active /\ run' = NoRequest,
         UNCHANGED <<policy, broken, stopping, failed>>,
         UpdateIdle \/ UNCHANGED loop, pc' = "loop" \/ CallProgress
  PROVE  ServiceHolds'
  <1>1. /\ QuitLeavesNothing' /\ (loop' = "quit" => pc' = "loop")
        /\ pc' \in {"loop", "progress"} /\ (pc' = "progress" => Waiting')
    BY LoopStep
  <1>2. /\ \A q \in Requests \ {r} : req'[q] = req[q]
        /\ req'[r] = Unused
        /\ active' = IF active = r THEN NoRequest ELSE active
    BY DEF RequestFree, IndInv, TypeOK
  <1>3. ControlIsTrue' /\ HandoffIsAccepted'
    BY <1>1 DEF ControlIsTrue, HandoffIsAccepted, IndInv
  <1>4. GrantIsCurrent'
    BY <1>1, <1>2 DEF GrantIsCurrent, IndInv, Live, policy
  <1>5. RunHasItsCaller'
    BY <1>1, <1>2, RequestsAssumption
    DEF RunHasItsCaller, IndInv, Live, TypeOK, OrNone, OwnersAreTrue
  <1> QED BY <1>1, <1>3, <1>4, <1>5 DEF ServiceHolds

\* Every callback keeps the service and the runner in agreement.
LEMMA ServiceStep ==
  ASSUME IndInv, [Next]_vars
  PROVE  ServiceHolds'
  <1>0. CallsHold' /\ TypeOK' /\ CallsHold
    BY CallsStep, TypeStep, CallsFromInvariant
  <1> USE <1>0
  <1>1. Callback => loop = "running" /\ pc = "loop"
    BY DEF Callback
  <1>2. pc # "loop" => loop = "running"
    BY DEF IndInv, ControlIsTrue, TypeOK
  <1>3. stopping' \in BOOLEAN /\ (failed \/ broken => stopping)
    BY DEF TypeOK, IndInv, ControlIsTrue
  <1>4. run # NoRequest => active = run
    BY DEF IndInv, RunHasItsCaller
  <1>5. CASE PolicyStep
    <2> USE <1>1, <1>3 DEF policy, runner, process
    <2>a. ASSUME Callback, UNCHANGED <<runner, pc, generation>>, ready => ready',
                 PolicyStopped \/ PolicyFails
          PROVE  ServiceHolds'
      <3>1. CASE PolicyStopped
        BY <2>a, <3>1, QuietStep DEF PolicyStopped
      <3>2. CASE PolicyFails
        BY <2>a, <3>2, CancelServiceStep DEF PolicyFails, FailUnsafePolicy
      <3> QED BY <2>a, <3>1, <3>2
    <2>b. PolicyStopped \/ PolicyFails => UNCHANGED generation /\ UNCHANGED ready
      BY DEF PolicyStopped, PolicyFails
    <2>1. CASE AuthorityReady
      <3>1. CASE /\ authority' = TRUE /\ checked' = generation
                 /\ UNCHANGED <<calls, validating, ready, generation, bus, process>>
        BY <2>1, <3>1, QuietStep DEF AuthorityReady
      <3> QED BY <2>1, <2>a, <2>b, <3>1 DEF AuthorityReady
    <2>2. CASE ServicePolicyChecked
      <3>1. CASE UNCHANGED <<calls, authority, validating, ready, generation, bus, process>>
        BY <2>2, <3>1, QuietStep DEF ServicePolicyChecked
      <3>2. CASE /\ ready' = TRUE /\ UpdateIdle
                 /\ UNCHANGED <<calls, authority, generation, checked, stopping, failed>>
        BY <2>2, <3>2, QuietStep DEF ServicePolicyChecked
      <3> QED BY <2>2, <2>a, <2>b, <3>1, <3>2 DEF ServicePolicyChecked
    <2>3. CASE PolicyValidationTimeout
      BY <2>3, CancelServiceStep DEF PolicyValidationTimeout, FailUnsafePolicy
    <2>4. CASE AuthorizationChanged
      <3>1. CancelPendingAuthorizations({}) /\ UpdateIdle /\ UNCHANGED <<runner, pc>>
            /\ Callback /\ (UNCHANGED <<stopping, failed>> \/ stopping')
        BY <2>4 DEF AuthorizationChanged, FailUnsafePolicy
      <3> QED BY <3>1, CancelServiceStep
    <2>5. CASE BusAcquired
      <3>1. CASE UNCHANGED <<calls, stopping, failed>>
        BY <2>5, <3>1, QuietStep DEF BusAcquired
      <3>2. CASE stopping' = TRUE /\ CancelPendingAuthorizations({})
        BY <2>5, <3>2, CancelServiceStep DEF BusAcquired
      <3> QED BY <2>5, <3>1, <3>2 DEF BusAcquired
    <2>6. CASE Shutdown
      BY <2>6, CancelServiceStep DEF Shutdown
    <2>7. CASE IdleTimeout
      <3>1. UNCHANGED <<calls, policy, runner, stopping, failed, pc>> /\ pc = "loop"
            /\ loop' = IF PendingWork THEN loop ELSE "quit"
        BY <2>7 DEF IdleTimeout
      <3>2. UNCHANGED <<calls, run, sent, broken, stopping, failed, generation, pc, ready,
                        children, validating, PendingWork>>
        BY <3>1 DEF calls, PendingWork, Busy
      <3>3. ControlIsTrue' /\ GrantIsCurrent' /\ HandoffIsAccepted' /\ RunHasItsCaller'
        BY <3>1, <3>2 DEF IndInv, ControlIsTrue, GrantIsCurrent, HandoffIsAccepted,
                          RunHasItsCaller, calls, Live, Waiting, Authorizing
      <3>4. QuitLeavesNothing'
        <4>1. CASE PendingWork
          BY <3>1, <4>1, <2>7 DEF IdleTimeout, QuitLeavesNothing
        <4>2. CASE ~PendingWork
          BY <3>2, <4>2, QuietCallsNext DEF QuitLeavesNothing, PendingWork, Busy
        <4> QED BY <4>1, <4>2
      <3> QED BY <3>3, <3>4 DEF ServiceHolds
    <2> QED BY <1>5, <2>1, <2>2, <2>3, <2>4, <2>5, <2>6, <2>7 DEF PolicyStep
  <1>6. ASSUME NEW r \in Requests, RejectAuthorization(r), Authorizing(r), Callback
        PROVE  ServiceHolds'
    <2>1. Live(r) /\ r # active
      BY <1>6, CallsAreRecords, RequestsAssumption DEF CallsHold, OwnersAreTrue, Authorizing
    <2>2. \A q \in Requests \ {r} : reply'[q] = reply[q]
      BY <1>6 DEF RejectAuthorization, Answer, IndInv, TypeOK
    <2> QED BY <1>1, <1>6, <2>1, <2>2, FreeServiceStep DEF RejectAuthorization, runner, policy
  <1>7. ASSUME NEW r \in Requests, NEW s \in Senders,
               HandleExecute(s, r) \/ HandleListProfiles(s, r)
        PROVE  ServiceHolds'
    <2>1. PICK kind \in Kinds : BeginAuthorization(s, r, kind)
      BY <1>7 DEF HandleExecute, HandleListProfiles, Kinds
    <2>2. /\ ~Live(r) /\ loop = "running" /\ pc = "loop"
          /\ req'[r].stage = "auth" /\ \A q \in Requests \ {r} : req'[q] = req[q]
          /\ \A q \in Requests \ {r} : reply'[q] = reply[q]
          /\ UNCHANGED <<active, ready, generation, run, sent, children, broken,
                         stopping, failed, loop, pc>>
      BY <1>1, <1>7, <2>1 DEF BeginAuthorization, HandleExecute, HandleListProfiles, policy,
                              runner, IndInv, TypeOK
    <2>3. ControlIsTrue' /\ HandoffIsAccepted' /\ QuitLeavesNothing'
      BY <2>2 DEF ControlIsTrue, HandoffIsAccepted, QuitLeavesNothing, IndInv
    <2>4. GrantIsCurrent' /\ RunHasItsCaller'
      BY <2>2 DEF GrantIsCurrent, RunHasItsCaller, IndInv, Live, TypeOK, OrNone
    <2> QED BY <2>3, <2>4 DEF ServiceHolds
  <1>8. ASSUME NEW r \in Requests, AuthorizationChecked(r)
        PROVE  ServiceHolds'
    <2>1. CASE RejectAuthorization(r)
      BY <1>6, <1>8, <2>1 DEF AuthorizationChecked, Authorizing
    <2>2. CASE /\ req' = [req EXCEPT ![r].stage = "policy"]
               /\ UNCHANGED <<reply, slots, count, active, pending, policy, runner, process, pc>>
      <3>1. /\ loop = "running" /\ pc = "loop" /\ req[r].stage = "auth"
            /\ UNCHANGED <<reply, active, ready, generation, run, sent, children, broken,
                           stopping, failed, loop, pc>>
        BY <1>1, <1>8, <2>2 DEF AuthorizationChecked, policy, runner, process
      <3>2. /\ \A q \in Requests \ {r} : req'[q] = req[q]
            /\ req'[r].stage = "policy"
        BY <2>2, <3>1, CallsAreRecords DEF IndInv, TypeOK, CallsHold, Calls, Unused, Live
      <3>3. ControlIsTrue' /\ HandoffIsAccepted' /\ QuitLeavesNothing'
        BY <3>1 DEF ControlIsTrue, HandoffIsAccepted, QuitLeavesNothing, IndInv
      <3>4. run # r
        BY <1>4, <3>1, RequestsAssumption DEF IndInv, OwnersAreTrue
      <3>5. GrantIsCurrent' /\ RunHasItsCaller'
        BY <3>1, <3>2, <3>4
        DEF GrantIsCurrent, RunHasItsCaller, IndInv, Live, TypeOK, OrNone
      <3> QED BY <3>3, <3>5 DEF ServiceHolds
    <2> QED BY <1>8, <2>1, <2>2 DEF AuthorizationChecked
  <1>9. ASSUME NEW r \in Requests, RequestPolicyChecked(r)
        PROVE  ServiceHolds'
    <2>1. /\ Authorizing(r) /\ Callback /\ loop = "running" /\ pc = "loop"
          /\ req[r].stage = "policy" /\ r # active /\ r # NoRequest
      BY <1>1, <1>9, RequestsAssumption
      DEF RequestPolicyChecked, Authorizing, IndInv, OwnersAreTrue
    <2>2. CASE FailUnsafePolicy({r}) /\ UNCHANGED <<policy, runner, pc>> /\ UpdateIdle
      BY <2>1, <2>2, CancelServiceStep DEF FailUnsafePolicy, runner
    <2>3. CASE AuthorizationIsCurrent(r) /\ pending = r /\ ContinueAction(r)
      <3>1. /\ UNCHANGED <<active, pending, ready, generation, run, children, broken,
                           stopping, failed, loop>>
            /\ pc' = "progress" /\ sent' = (sent \/ active # NoRequest)
            /\ \A q \in Requests \ {r} : req'[q] = req[q]
            /\ req'[r] = [req[r] EXCEPT !.stage = "waiting"]
        BY <2>3 DEF ContinueAction, policy, process, IndInv, TypeOK
      <3>2. req'[r].stage = "waiting" /\ req'[r].gen = req[r].gen
        BY <2>1, <3>1, CallsAreRecords DEF Calls, CallsHold
      <3>3. ControlIsTrue' /\ HandoffIsAccepted' /\ QuitLeavesNothing'
        BY <2>1, <2>3, <3>1, <3>2 DEF ControlIsTrue, HandoffIsAccepted, QuitLeavesNothing, IndInv,
                                 Waiting, Authorizing
      <3>4. GrantIsCurrent'
        BY <2>3, <3>1, <3>2 DEF GrantIsCurrent, IndInv, Live, AuthorizationIsCurrent
      <3>5. RunHasItsCaller'
        <4>1. CASE run = NoRequest
          BY <2>1, <3>1, <4>1 DEF RunHasItsCaller, IndInv
        <4>2. CASE run # NoRequest
          <5>1. /\ active = run /\ run \in Requests /\ Live(run) /\ run # r
                /\ req[run].stage = "active" /\ (sent <=> reply[run] # "none")
            BY <2>1, <4>2 DEF RunHasItsCaller, IndInv, TypeOK, OrNone, OwnersAreTrue
          <5>2. reply'[run] # "none"
            BY <2>3, <4>2, <5>1 DEF ContinueAction, Authorizing
          <5>3. Live(run)' /\ sent'
            BY <3>1, <4>2, <5>1 DEF Live
          <5> QED BY <3>1, <5>1, <5>2, <5>3 DEF RunHasItsCaller
        <4> QED BY <4>1, <4>2
      <3> QED BY <3>3, <3>4, <3>5 DEF ServiceHolds
    <2>4. CASE /\ AuthorizationIsCurrent(r) /\ ~CannotContinue(r)
               /\ pending # r /\ ContinueInventory(r)
      <3>1. /\ UNCHANGED <<reply, pending, ready, generation, run, sent, children, broken,
                           stopping, failed, loop>>
            /\ pc' = "start" /\ active' = r
            /\ \A q \in Requests \ {r} : req'[q] = req[q]
            /\ req'[r] = [req[r] EXCEPT !.stage = "active"]
        BY <2>4 DEF ContinueInventory, policy, runner, process, IndInv, TypeOK
      <3>2. req'[r].stage = "active" /\ req'[r].gen = req[r].gen
        BY <2>1, <3>1, CallsAreRecords DEF Calls, CallsHold
      <3>3. run = NoRequest /\ ~children /\ ~broken /\ ~stopping /\ reply[r] = "none"
        BY <1>3, <2>4 DEF CannotContinue, Busy, AuthorizationIsCurrent
      <3>4. ControlIsTrue' /\ HandoffIsAccepted' /\ QuitLeavesNothing' /\ RunHasItsCaller'
        BY <1>3, <2>1, <3>1, <3>3 DEF ControlIsTrue, HandoffIsAccepted, QuitLeavesNothing, RunHasItsCaller
      <3>5. GrantIsCurrent'
        BY <2>4, <3>1, <3>2 DEF GrantIsCurrent, IndInv, Live, AuthorizationIsCurrent
      <3> QED BY <3>4, <3>5 DEF ServiceHolds
    <2> QED BY <1>6, <1>9, <2>1, <2>2, <2>3, <2>4 DEF RequestPolicyChecked
  <1>10. ASSUME NEW r \in Requests, AuthorizationTimeout(r)
         PROVE  ServiceHolds'
    <2>1. /\ loop = "running" /\ pc = "loop" /\ Authorizing(r)
          /\ UNCHANGED <<req, active, ready, generation, run, sent, children, broken,
                         stopping, failed, loop>>
          /\ \A q \in Requests \ {r} : reply'[q] = reply[q]
          /\ CallProgress
      BY <1>1, <1>10 DEF AuthorizationTimeout, policy, runner, process, Answer, IndInv, TypeOK
    <2>2. QuitLeavesNothing' /\ pc' \in {"loop", "progress"} /\ (pc' = "progress" => Waiting')
      BY <2>1, LoopStep
    <2>3. run # r
      BY <1>4, <2>1, RequestsAssumption DEF IndInv, OwnersAreTrue, Authorizing
    <2>4. ControlIsTrue' /\ HandoffIsAccepted' /\ GrantIsCurrent' /\ RunHasItsCaller'
      BY <2>1, <2>2, <2>3 DEF ControlIsTrue, HandoffIsAccepted, GrantIsCurrent,
                              RunHasItsCaller, IndInv, Live, TypeOK, OrNone
    <2> QED BY <2>2, <2>4 DEF ServiceHolds
  <1>11. ASSUME GiveUpPendingAction, Waiting, loop = "running", pc # "start", pc' = "loop"
         PROVE  ServiceHolds'
    <2>1. pending \in Requests /\ Live(pending) /\ pending # active
      BY <1>11, PendingIsLive DEF Waiting, IndInv, OwnersAreTrue
    <2>2. \A q \in Requests \ {pending} : reply'[q] = reply[q]
      BY <1>11 DEF GiveUpPendingAction, Answer, IndInv, TypeOK
    <2> QED BY <1>11, <2>1, <2>2, FreeServiceStep DEF GiveUpPendingAction, runner
  <1>12. CASE ProgressPendingAction
    <2>1. loop = "running" /\ pc = "progress" /\ Waiting
      BY <1>2, <1>12 DEF ProgressPendingAction, IndInv, ControlIsTrue
    <2>2. CASE GiveUpPendingAction /\ pc' = "loop"
      BY <1>11, <2>1, <2>2
    <2>3. CASE UNCHANGED <<calls, process, policy, runner>> /\ pc' = "loop"
      <3>1. UNCHANGED <<req, reply, active, pending, ready, generation, run, sent, children,
                        broken, stopping, failed, loop>>
        BY <2>3 DEF calls, process, policy, runner
      <3>2. ControlIsTrue' /\ HandoffIsAccepted' /\ QuitLeavesNothing'
        BY <2>1, <2>3, <3>1 DEF ControlIsTrue, HandoffIsAccepted, QuitLeavesNothing, IndInv
      <3>3. GrantIsCurrent' /\ RunHasItsCaller'
        BY <2>1, <2>3, <3>1 DEF GrantIsCurrent, RunHasItsCaller, IndInv, Live
      <3> QED BY <3>2, <3>3 DEF ServiceHolds
    <2>4. CASE /\ ~stopping /\ active = NoRequest /\ ~Busy
               /\ req' = [req EXCEPT ![pending].stage = "active"]
               /\ active' = pending /\ pending' = NoRequest /\ pc' = "start"
               /\ UNCHANGED <<reply, slots, count, policy, runner, process>>
      <3>1. /\ pending \in Requests /\ Live(pending) /\ req[pending].stage = "waiting"
            /\ reply[pending] = "none" /\ pending # NoRequest
        BY <2>1, PendingIsLive, CallsAreRecords
        DEF Waiting, Authorizing, IndInv, OwnersAreTrue, CallsHold
      <3>2. /\ UNCHANGED <<reply, ready, generation, run, sent, children, broken, stopping,
                           failed, loop>>
            /\ \A q \in Requests \ {pending} : req'[q] = req[q]
            /\ req'[pending] = [req[pending] EXCEPT !.stage = "active"]
        BY <2>4, <3>1 DEF policy, runner, process, IndInv, TypeOK
      <3>3. req'[pending].stage = "active" /\ req'[pending].gen = req[pending].gen
        BY <3>1, <3>2, CallsAreRecords DEF Calls, CallsHold
      <3>4. run = NoRequest /\ ~children /\ ~broken
        BY <1>3, <2>4 DEF Busy
      <3>5. ControlIsTrue' /\ HandoffIsAccepted' /\ QuitLeavesNothing' /\ RunHasItsCaller'
        BY <1>3, <2>1, <2>4, <3>1, <3>2, <3>4
        DEF ControlIsTrue, HandoffIsAccepted, QuitLeavesNothing, RunHasItsCaller
      <3>6. GrantIsCurrent'
        BY <2>4, <3>1, <3>2, <3>3 DEF GrantIsCurrent, IndInv, Live
      <3> QED BY <3>5, <3>6 DEF ServiceHolds
    <2> QED BY <1>12, <2>2, <2>3, <2>4 DEF ProgressPendingAction
  <1>13. CASE PreemptTimeout
    BY <1>1, <1>11, <1>13 DEF PreemptTimeout
  <1>14. CASE StartHelper
    <2>1. /\ loop = "running" /\ pc = "start" /\ run = NoRequest /\ ~children /\ ~broken
          /\ active # NoRequest /\ reply[active] = "none"
          /\ active \in Requests /\ Live(active) /\ CallProgress
      BY <1>2, <1>14, ActiveIsLive DEF StartHelper, IndInv, ControlIsTrue, HandoffIsAccepted
    <2>2. CASE run' = active /\ sent' = FALSE /\ UNCHANGED <<calls, process>>
      <3>1. UNCHANGED <<req, reply, active, pending, ready, generation, children, broken,
                        stopping, failed, loop>>
        BY <1>14, <2>2 DEF StartHelper, calls, process, policy
      <3>2. QuitLeavesNothing' /\ pc' \in {"loop", "progress"} /\ (pc' = "progress" => Waiting')
        BY <2>1, <3>1, LoopStep
      <3>3. ControlIsTrue' /\ HandoffIsAccepted' /\ GrantIsCurrent'
        BY <2>1, <3>1, <3>2 DEF ControlIsTrue, HandoffIsAccepted, GrantIsCurrent, IndInv, Live
      <3>4. RunHasItsCaller'
        BY <2>1, <2>2, <3>1 DEF RunHasItsCaller, Live
      <3> QED BY <3>2, <3>3, <3>4 DEF ServiceHolds
    <2>3. CASE /\ Answer(active, IF broken \/ Busy THEN "refused" ELSE "result")
               /\ RequestFree(active)
               /\ UNCHANGED <<run, sent, stopping, failed>> /\ UpdateIdle
      <3>1. \A q \in Requests \ {active} : reply'[q] = reply[q]
        BY <2>3 DEF Answer, IndInv, TypeOK
      <3> QED BY <1>14, <2>1, <2>3, <3>1, FreeServiceStep DEF StartHelper
    <2> QED BY <1>14, <2>2, <2>3 DEF StartHelper
  <1>15. CASE FinishRun
    <2>1. /\ active # NoRequest /\ active \in Requests /\ Live(active) /\ loop = "running"
      BY <1>1, <1>4, <1>15, ActiveIsLive DEF FinishRun
    <2>2. \A q \in Requests \ {active} : reply'[q] = reply[q]
      BY <1>15 DEF FinishRun, PublishResult, IndInv, TypeOK
    <2> QED BY <1>15, <2>1, <2>2, FreeServiceStep DEF FinishRun
  <1>16. CASE PublishAtHardDeadline
    <2>1. /\ run # NoRequest /\ active = run /\ run \in Requests /\ pc = "loop" /\ loop = "running"
          /\ sent' /\ reply'[run] # "none"
          /\ UNCHANGED <<req, active, pending, ready, generation, run, children, broken,
                         stopping, failed, loop, pc>>
      BY <1>1, <1>4, <1>16 DEF PublishAtHardDeadline, PublishResult, policy, process, IndInv,
                               TypeOK, OrNone
    <2>2. /\ ControlIsTrue' /\ HandoffIsAccepted' /\ GrantIsCurrent' /\ RunHasItsCaller'
          /\ QuitLeavesNothing'
      BY <2>1 DEF ControlIsTrue, HandoffIsAccepted, GrantIsCurrent, RunHasItsCaller,
                  QuitLeavesNothing, IndInv, Live
    <2> QED BY <2>2 DEF ServiceHolds
  <1>17. CASE RunnerFails
    <2>1. /\ loop = "running" /\ pc = "loop" /\ UNCHANGED <<run, sent, children, policy>>
          /\ UpdateIdle /\ CallProgress
      BY <1>1, <1>17 DEF RunnerFails
    <2>2. CASE failed /\ UNCHANGED <<calls, stopping, failed>>
      <3>1. /\ QuitLeavesNothing' /\ (loop' = "quit" => pc' = "loop")
            /\ pc' \in {"loop", "progress"} /\ (pc' = "progress" => Waiting')
        BY <2>1, LoopStep
      <3>2. ControlIsTrue' /\ HandoffIsAccepted'
        BY <1>3, <2>2, <3>1 DEF ControlIsTrue, HandoffIsAccepted
      <3>3. GrantIsCurrent' /\ RunHasItsCaller'
        BY <2>1, <2>2, <3>1 DEF GrantIsCurrent, RunHasItsCaller, IndInv, Live, calls, policy
      <3> QED BY <3>1, <3>2, <3>3 DEF ServiceHolds
    <2>3. CASE FailUnsafePolicy({})
      BY <2>1, <2>3, CancelServiceStep DEF FailUnsafePolicy
    <2> QED BY <1>17, <2>2, <2>3 DEF RunnerFails
  <1>18. CASE DetachStalledHelper \/ ChildrenDie
    <2>1. /\ loop = "running" /\ pc = "loop"
          /\ UNCHANGED <<calls, run, sent, broken, stopping, failed, generation, ready, loop, pc>>
      BY <1>1, <1>18 DEF DetachStalledHelper, ChildrenDie, process, policy
    <2> QED BY <2>1, QuietStep
  <1>19. CASE ReapChildren
    BY <1>1, <1>19, QuietStep DEF ReapChildren, runner, policy
  <1>20. CASE Exited \/ UNCHANGED vars
    <2>1. UNCHANGED <<req, reply, active, pending, ready, generation, validating, run, sent,
                      children, broken, stopping, failed, loop, pc>>
      BY <1>20 DEF Exited, vars, calls, policy, runner, process
    <2>2. ControlIsTrue' /\ GrantIsCurrent'
      BY <2>1 DEF IndInv, ControlIsTrue, GrantIsCurrent, Live, Waiting, Authorizing
    <2>3. HandoffIsAccepted' /\ RunHasItsCaller' /\ QuitLeavesNothing'
      BY <2>1 DEF IndInv, HandoffIsAccepted, RunHasItsCaller, QuitLeavesNothing, Live
    <2> QED BY <2>2, <2>3 DEF ServiceHolds
  <1> QED BY <1>5, <1>7, <1>8, <1>9, <1>10, <1>12, <1>13, <1>14, <1>15, <1>16, <1>17, <1>18,
             <1>19, <1>20 DEF Next, CallStep, RunnerStep

-----------------------------------------------------------------------------
(* The theorems.                                                           *)

\* The service starts with no request, no helper and its loop running.
LEMMA InitHolds == Init => IndInv
  <1> SUFFICES ASSUME Init PROVE IndInv
    OBVIOUS
  <1> USE BoundsAssumption, RequestsAssumption
  <1>1. TypeOK
    <2>1. /\ req \in [Requests -> Calls \cup {Unused}]
          /\ reply \in [Requests -> Replies]
          /\ slots \in [Senders -> SUBSET Kinds]
      BY DEF Init, Replies
    <2>2. /\ count \in 0 .. MaxPending
          /\ generation \in 0 .. MaxGeneration /\ checked \in 0 .. MaxGeneration
      BY DEF Init
    <2> QED BY <2>1, <2>2 DEF Init, TypeOK, OrNone
  <1>2. \A r \in Requests : ~Live(r) /\ ~Authorizing(r)
    BY DEF Init, Live, Authorizing, Unused
  <1>3. CountIsTrue
    <2>1. {r \in Requests : Authorizing(r)} = {}
      BY <1>2
    <2>2. count = 0 /\ IsFiniteSet({}) /\ Cardinality({}) = 0
      BY FS_EmptySet DEF Init
    <2> QED BY <2>1, <2>2 DEF CountIsTrue
  <1>4. SlotsAreTrue /\ OwnersAreTrue /\ GrantIsCurrent
    BY <1>2 DEF SlotsAreTrue, OwnersAreTrue, GrantIsCurrent, Init
  <1>5. ControlIsTrue /\ HandoffIsAccepted /\ RunHasItsCaller /\ QuitLeavesNothing
    BY DEF ControlIsTrue, HandoffIsAccepted, RunHasItsCaller, QuitLeavesNothing, Init
  <1> QED BY <1>1, <1>3, <1>4, <1>5 DEF IndInv

\* Every callback of the main loop preserves the invariant.
THEOREM InvariantHolds == Spec => []IndInv
  <1>1. IndInv /\ [Next]_vars => IndInv'
    BY CallsStep, TypeStep, ServiceStep DEF CallsHold, ServiceHolds, IndInv
  <1> QED BY <1>1, InitHolds, PTL DEF Spec

\* A grant does not outlive a change of the policy or of the sessions
\* (authorization_changed_cb, continue_authorized_request, start_helper).
THEOREM GrantsAreCurrent == Spec => []GrantIsCurrent
  <1>1. IndInv => GrantIsCurrent
    BY DEF IndInv
  <1> QED BY <1>1, InvariantHolds, PTL

\* The service and the runner agree on who runs: start_helper finds the runner ready, and
\* helper_runner_changed_cb finds the request of the run.
THEOREM RunsStayOwned == Spec => []RunsAreOwned
  <1>1. IndInv => RunsAreOwned
    BY DEF IndInv, RunsAreOwned
  <1> QED BY <1>1, InvariantHolds, PTL

\* The main loop ends with every call answered and freed, no policy check and no helper
\* or child left (service_update_idle_state, idle_timeout_cb).
THEOREM QuittingLeavesNothing == Spec => []QuitLeavesNothing
  <1>1. IndInv => QuitLeavesNothing
    BY DEF IndInv
  <1> QED BY <1>1, InvariantHolds, PTL

\* Pending authorizations, slots and owners agree with the requests that exist.
THEOREM BooksAreTrue == Spec => []Bookkeeping
  <1>1. IndInv => Bookkeeping
    <2> SUFFICES ASSUME IndInv PROVE Bookkeeping
      OBVIOUS
    <2> USE CallsFromInvariant DEF CallsHold
    <2>1. count = Cardinality({r \in Requests : Live(r) /\ Authorizing(r)})
      <3>1. {r \in Requests : Live(r) /\ Authorizing(r)} = {r \in Requests : Authorizing(r)}
        BY CallsAreRecords
      <3> QED BY <3>1 DEF CountIsTrue
    <2>2. ASSUME NEW s \in Senders, NEW k \in Kinds
          PROVE  Cardinality({r \in Requests : Live(r) /\ req[r].from = s /\ req[r].kind = k})
                   = IF k \in slots[s] THEN 1 ELSE 0
      <3> DEFINE Mine == {r \in Requests : Live(r) /\ req[r].from = s /\ req[r].kind = k}
      <3>1. CASE k \in slots[s]
        <4>1. PICK r \in Requests : Live(r) /\ req[r].from = s /\ req[r].kind = k
          BY <3>1 DEF SlotsAreTrue
        <4>2. Mine = {r}
          BY <4>1 DEF SlotsAreTrue
        <4> QED BY <3>1, <4>2, FS_Singleton
      <3>2. CASE k \notin slots[s]
        <4>1. Mine = {}
          BY <3>2 DEF SlotsAreTrue
        <4> QED BY <3>2, <4>1, FS_EmptySet
      <3> QED BY <3>1, <3>2
    <2>3. ASSUME NEW r \in Requests, Live(r)
          PROVE  /\ (req[r].stage = "active") <=> (active = r)
                 /\ (req[r].stage = "waiting") => (pending = r)
                 /\ reply[r] = "none" /\ req[r].kind = "action" => r \in {active, pending}
      BY <2>3, RequestsAssumption DEF OwnersAreTrue
    <2> QED BY <2>1, <2>2, <2>3 DEF Bookkeeping
  <1> QED BY <1>1, InvariantHolds, PTL

\* What one callback may do to an answer: a request that goes was answered, and an answer
\* that was sent stays while the request lives.
LEMMA AnswersStay ==
  ASSUME IndInv, [Next]_vars, NEW r \in Requests, Live(r)
  PROVE  /\ req'[r] = Unused => reply'[r] # "none"
         /\ reply[r] # "none" => reply'[r] = reply[r]
  <1>0. CallsHold /\ CallsTyped /\ OwnersAreTrue
    BY CallsFromInvariant DEF CallsHold
  <1>1. req[r] # Unused /\ (run # NoRequest => active = run /\ (sent <=> reply[run] # "none"))
    BY DEF Live, IndInv, RunHasItsCaller
  <1>2. ASSUME NEW q \in Requests, Answer(q, "refused") \/ Answer(q, "result"), RequestFree(q)
        PROVE  /\ req'[r] = Unused => reply'[r] # "none"
               /\ reply[r] # "none" => reply'[r] = reply[r]
    BY <1>0, <1>1, <1>2 DEF Answer, RequestFree, CallsTyped
  <1>3. ASSUME NEW freed \in SUBSET Requests, CancelPendingAuthorizations(freed),
               freed = {} \/ \E q \in Requests : Authorizing(q) /\ freed = {q}
        PROVE  /\ req'[r] = Unused => reply'[r] # "none"
               /\ reply[r] # "none" => reply'[r] = reply[r]
    BY <1>0, <1>3, CancelStep DEF Live
  <1>4. CASE UNCHANGED <<req, reply>>
    BY <1>1, <1>4
  <1>5. CASE PolicyStep
    BY <1>3, <1>4, <1>5
    DEF PolicyStep, AuthorityReady, ServicePolicyChecked, PolicyValidationTimeout,
        AuthorizationChanged, BusAcquired, Shutdown, IdleTimeout, PolicyStopped,
        PolicyFails, FailUnsafePolicy, calls
  <1>6. CASE CallStep
    <2>1. PICK q \in Requests :
            \/ \E s \in Senders : HandleExecute(s, q) \/ HandleListProfiles(s, q)
            \/ AuthorizationChecked(q) \/ RequestPolicyChecked(q) \/ AuthorizationTimeout(q)
      BY <1>6 DEF CallStep
    <2>2. CASE \E s \in Senders, k \in Kinds : BeginAuthorization(s, q, k)
      BY <1>0, <1>1, <2>2 DEF BeginAuthorization, Live, CallsTyped
    <2>3. CASE RejectAuthorization(q)
      BY <1>2, <2>3 DEF RejectAuthorization
    <2>4. CASE AuthorizationChecked(q)
      <3>1. CASE UNCHANGED reply /\ req' = [req EXCEPT ![q].stage = "policy"]
                   /\ req[q].stage = "auth"
        <4>1. q = r => req'[r].stage = "policy"
          BY <1>0, <3>1, CallsAreRecords DEF CallsTyped, Calls
        <4> QED BY <1>0, <1>1, <3>1, <4>1 DEF CallsTyped, Unused
      <3> QED BY <2>3, <2>4, <3>1 DEF AuthorizationChecked
    <2>5. CASE RequestPolicyChecked(q)
      <3>1. Authorizing(q) /\ req[q].stage = "policy"
        BY <2>5 DEF RequestPolicyChecked, Authorizing
      <3>2. CASE FailUnsafePolicy({q})
        BY <1>3, <3>1, <3>2 DEF FailUnsafePolicy
      <3>3. CASE ContinueAction(q) \/ ContinueInventory(q)
        <4>1. q = r => req'[r].stage \in {"waiting", "active"}
          BY <1>0, <3>3, CallsAreRecords
          DEF ContinueAction, ContinueInventory, CallsTyped, Calls
        <4>2. q # r => req'[r] = req[r]
          BY <1>0, <3>3 DEF ContinueAction, ContinueInventory, CallsTyped
        <4>3. reply[r] # "none" => reply'[r] = reply[r]
          BY <3>3 DEF ContinueAction, ContinueInventory
        <4> QED BY <1>1, <4>1, <4>2, <4>3 DEF Unused
      <3> QED BY <2>3, <2>5, <3>2, <3>3 DEF RequestPolicyChecked
    <2>6. CASE AuthorizationTimeout(q)
      BY <1>0, <1>1, <2>6 DEF AuthorizationTimeout, Answer, CallsTyped
    <2> QED BY <2>1, <2>2, <2>4, <2>5, <2>6 DEF HandleExecute, HandleListProfiles, Kinds
  <1>7. CASE RunnerStep
    <2>1. CASE GiveUpPendingAction /\ Waiting
      <3>1. pending \in Requests
        BY <1>0, <2>1, PendingIsLive DEF Waiting
      <3> QED BY <1>2, <2>1, <3>1 DEF GiveUpPendingAction
    <2>2. CASE ProgressPendingAction
      <3>1. Waiting
        BY <2>2 DEF ProgressPendingAction, IndInv, ControlIsTrue
      <3>2. CASE req' = [req EXCEPT ![pending].stage = "active"] /\ UNCHANGED reply
        <4>1. pending = r => req'[r].stage = "active"
          BY <1>0, <1>1, <3>2, CallsAreRecords DEF CallsTyped, Calls
        <4> QED BY <1>0, <1>1, <3>2, <4>1 DEF CallsTyped, Unused
      <3> QED BY <1>4, <2>1, <2>2, <3>1, <3>2 DEF ProgressPendingAction, calls
    <2>3. CASE PreemptTimeout
      BY <2>1, <2>3 DEF PreemptTimeout
    <2>4. CASE StartHelper
      <3>1. active \in Requests
        BY <1>0, <2>4, ActiveIsLive DEF StartHelper, IndInv, ControlIsTrue
      <3> QED BY <1>2, <1>4, <2>4, <3>1 DEF StartHelper, calls
    <2>5. CASE FinishRun
      <3>1. active = run /\ active \in Requests
        BY <1>0, <1>1, <2>5, ActiveIsLive DEF FinishRun
      <3> QED BY <1>0, <1>1, <2>5, <3>1 DEF FinishRun, PublishResult, RequestFree, CallsTyped
    <2>6. CASE PublishAtHardDeadline
      BY <1>0, <1>1, <2>6 DEF PublishAtHardDeadline, PublishResult, CallsTyped
    <2>7. CASE RunnerFails
      BY <1>3, <1>4, <2>7 DEF RunnerFails, FailUnsafePolicy, calls
    <2>8. CASE DetachStalledHelper \/ ChildrenDie \/ ReapChildren
      BY <1>4, <2>8 DEF DetachStalledHelper, ChildrenDie, ReapChildren, calls
    <2> QED BY <1>7, <2>2, <2>3, <2>4, <2>5, <2>6, <2>7, <2>8 DEF RunnerStep
  <1>8. CASE Exited \/ UNCHANGED vars
    BY <1>4, <1>8 DEF Exited, vars, calls
  <1> QED BY <1>5, <1>6, <1>7, <1>8 DEF Next

\* No request object is freed before its caller was answered (request_free after
\* request_return), and reply_sent makes the first answer the only one.
THEOREM NoCallIsDropped == Spec => NoSilentDrop
  <1>1. IndInv /\ [Next]_vars =>
          [\A r \in Requests : Live(r) =>
             /\ req'[r] = Unused => reply'[r] # "none"
             /\ reply[r] # "none" => reply'[r] = reply[r]]_vars
    BY AnswersStay
  <1> QED BY <1>1, InvariantHolds, PTL DEF Spec, NoSilentDrop

-----------------------------------------------------------------------------
(* The runner: AwgRunner.                                                  *)
(*                                                                         *)
(* RunnerInv has one conjunct per idea, and each action a lemma that it    *)
(* keeps them all: one step per conjunct, in the order of RunnerInv.  What *)
(* an action does is established first where its definition leaves it to   *)
(* cases; the steps then only use that.                                    *)

\* Signals are all that reaches the helper in a step of the service.
OnlySignals ==
  /\ h' \in Helpers
  /\ h'.pc = h.pc /\ h'.ret = h.ret /\ h'.cur = h.cur /\ h'.target = h.target
  /\ h'.active = h.active /\ h'.retained = h.retained /\ h'.cleanup = h.cleanup
  /\ h'.committed = h.committed /\ h'.open = h.open /\ h'.last = h.last /\ h'.status = h.status
  /\ h.level = 2 => h'.level = 2
  /\ hp = "running" /\ h.pc = "cas" => h'.level = h.level

\* The run goes on as it was, at most stopped in the step.
RunGoesOn ==
  /\ job' \in Runs
  /\ job'.op = job.op /\ job'.on = job.on /\ job'.reaped = job.reaped /\ job'.status = job.status
  /\ job.stop # "none" => job'.stop = job.stop
  /\ job.io => job'.io
  /\ job.result # "none" => job'.result # "none"

RunIsLeft ==
  RunGoesOn /\ job'.exited = job.exited /\ job'.clean = job.clean /\ job'.int = job.int /\ job'.kill = job.kill

\* A helper that goes on after a program is one still (AfterProgram).
LEMMA AfterProgramType ==
  ASSUME NEW x \in Helpers, NEW k \in BOOLEAN
  PROVE  AfterProgram(x, k) \in Helpers
  <1>1. PICK p \in {"exit", "work"}, c \in BOOLEAN, s \in Statuses :
          AfterProgram(x, k) = [x EXCEPT !.pc = p, !.cur = None, !.cleanup = c, !.status = s]
    BY DEF AfterProgram, Helpers, Statuses
  <1> QED BY <1>1, ZenonT(30) DEF Helpers, OrNoGroup, Statuses

\* A helper that keeps the group of its program is one still (retain_group).
LEMMA RetainType ==
  ASSUME NEW x \in Helpers, NEW r \in OrNoGroup, NEW b \in BOOLEAN
  PROVE  [x EXCEPT !.pc = "work", !.cur = None, !.retained = r,
                   !.rsent = b, !.active = None, !.asent = FALSE] \in Helpers
  BY DEF Helpers, OrNoGroup

\* What is left of a dead helper (the exit status of amneziawg_helper.c's main).
LEMMA RemainsType ==
  ASSUME h \in Helpers, NEW s \in Statuses
  PROVE  /\ Remains(s) \in Helpers
         /\ Remains(s).open = FALSE /\ Remains(s).status = s /\ Remains(s).committed = h.committed
  <1>1. NewHelper \in Helpers
    BY DEF NewHelper, Helpers, OrNoGroup, Statuses
  <1>2. PICK c \in OrNoGroup : Remains(s) = [NewHelper EXCEPT !.open = FALSE, !.status = s,
                                                         !.committed = h.committed, !.cur = c]
    BY DEF Remains, Helpers, OrNoGroup
  <1>3. h.committed \in BOOLEAN
    BY DEF Helpers
  <1> HIDE DEF NewHelper
  <1> QED BY <1>1, <1>2, <1>3 DEF Helpers

\* What spawn_helper starts with.
LEMMA NewTypes ==
  ASSUME NEW op \in {"up", "list", "other"}
  PROVE  /\ NewRun(op) \in Runs /\ [NewRun(op) EXCEPT !.io = TRUE, !.stop = "io"] \in Runs
         /\ NewSupervisor(op) \in Supervisors
         /\ NewHelper \in Helpers
         /\ \A l \in 0 .. 1 : [NewHelper EXCEPT !.level = l] \in Helpers
  <1>1. NewRun(op) \in Runs
    BY DEF NewRun, Runs, Reasons, Statuses
  <1>2. [NewRun(op) EXCEPT !.io = TRUE, !.stop = "io"] \in Runs
    BY <1>1 DEF NewRun, Runs, Reasons, Statuses
  <1>3. NewSupervisor(op) \in Supervisors
    BY DEF NewSupervisor, Supervisors, OrNoGroup
  <1>4. NewHelper \in Helpers
    BY DEF NewHelper, Helpers, OrNoGroup, Statuses
  <1>5. ASSUME NEW l \in 0 .. 1 PROVE [NewHelper EXCEPT !.level = l] \in Helpers
    <2> HIDE DEF NewHelper
    <2> QED BY <1>4 DEF Helpers
  <1> QED BY <1>1, <1>2, <1>3, <1>4, <1>5

\* A status is set that is none of the run's own only when there is none (effective_status).
LEMMA EffectiveStatusType ==
  ASSUME NEW r \in Runs
  PROVE  /\ EffectiveStatus(r) \in Statuses
         /\ r.status # "none" \/ r.stop # "none" => EffectiveStatus(r) # "none"
         /\ EffectiveStatus(r) = "success" => r.status = "success" /\ r.stop = "none" /\ ~r.io
  BY DEF EffectiveStatus, Runs, Statuses, Reasons

\* Publishing changes the result of a run only, and only the first time (publish_result).
LEMMA PublishedDoes ==
  ASSUME NEW r \in Runs, NEW d \in BOOLEAN
  PROVE  /\ Published(r, d) \in Runs
         /\ \E s \in Statuses :
              /\ Published(r, d) = [r EXCEPT !.result = s]
              /\ r.result # "none" => s = r.result
              /\ r.status # "none" \/ r.stop # "none" => s # "none"
              /\ r.result = "none" /\ s = "success" => r.status = "success" /\ r.stop = "none" /\ ~r.io
  <1> DEFINE e == EffectiveStatus(r)
             s == IF r.result # "none" THEN r.result
                  ELSE IF r.op = "list" /\ e = "success" /\ ~d THEN "setup" ELSE e
  <1>1. e \in Statuses /\ (r.status # "none" \/ r.stop # "none" => e # "none")
        /\ (e = "success" => r.status = "success" /\ r.stop = "none" /\ ~r.io)
    BY EffectiveStatusType
  <1>2. Published(r, d) = [r EXCEPT !.result = s]
    BY DEF Published, Runs
  <1> HIDE DEF e
  <1>3. s \in Statuses
    BY <1>1 DEF Runs, Statuses
  <1>4. (r.result # "none" => s = r.result) /\ (r.status # "none" \/ r.stop # "none" => s # "none")
        /\ (r.result = "none" /\ s = "success" => r.status = "success" /\ r.stop = "none" /\ ~r.io)
    BY <1>1
  <1> HIDE DEF s
  <1>5. [r EXCEPT !.result = s] \in Runs
    BY <1>3 DEF Runs
  <1> QED BY <1>2, <1>3, <1>4, <1>5

\* A signal raises the level of the helper and does nothing else, and nothing between the
\* checks of a commit and its compare-and-swap (termination_signal_handler, begin_stop).
LEMMA SignalsDo ==
  ASSUME h \in Helpers, h' \in {h, Signalled, StopSignal}
  PROVE  OnlySignals
  <1>1. CASE h' = h
    BY <1>1 DEF OnlySignals
  <1>2. CASE h' = [h EXCEPT !.level = @ + 1] /\ h.level < 2 /\ (hp = "running" => h.pc # "cas")
    <2>1. h' = [h EXCEPT !.level = h.level + 1] /\ h.level + 1 \in 0 .. 2
      BY <1>2 DEF Helpers
    <2>2. h' \in Helpers
      BY <2>1 DEF Helpers
    <2> QED BY <1>2, <2>1, <2>2 DEF OnlySignals, Helpers
  <1> QED BY <1>1, <1>2 DEF Signalled, StopSignal

\* What it means that a poll of the supervisor failed (poll_supervisor, fail_helper_io).
LEMMA PollFailedDoes ==
  ASSUME RunnerTypeOK, PollFailed
  PROVE  /\ RunIsLeft /\ job'.result = job.result /\ job'.stop # "none" /\ OnlySignals
         /\ at' = AfterPoll
  <1>1. OnlySignals
    BY SignalsDo DEF PollFailed, RunnerTypeOK
  <1>2. job \in Runs
    BY DEF RunnerTypeOK
  <1>3. CASE job.stop = "none"
    <2>1. job' = [[job EXCEPT !.io = TRUE] EXCEPT !.stop = "io"]
      BY <1>2, <1>3 DEF PollFailed, FailIo, StopRun, Runs
    <2> QED BY <1>1, <1>2, <1>3, <2>1 DEF PollFailed, RunIsLeft, RunGoesOn, Runs, Reasons
  <1>4. CASE job.stop # "none"
    BY <1>1, <1>2, <1>4 DEF PollFailed, RunIsLeft, RunGoesOn
  <1> QED BY <1>3, <1>4

\* What handle_message makes of a request: it is turned down, or one of five things happens.
TurnedDown(s) ==
  s.owned = sup.owned /\ s.pend = sup.pend /\ s.dead = sup.dead /\ s.retired = sup.retired
Registered(s) ==
  /\ msg.type = "REGISTER" /\ ~sup.cleanup /\ sup.pend = None /\ msg.group \notin sup.owned
  /\ Held(msg.group)
  /\ s.owned = sup.owned \cup {msg.group} /\ s.pend = sup.pend /\ s.dead = sup.dead
  /\ s.retired = sup.retired
UnregisteredBy(s) ==
  /\ msg.type = "UNREGISTER" /\ msg.group \in sup.owned /\ ~Alive(msg.group)
  /\ s.owned = sup.owned \ {msg.group} /\ s.dead = sup.dead \ {msg.group}
  /\ s.pend \in {sup.pend, None} /\ s.retired = sup.retired \cup {msg.group}
  /\ s.pend # msg.group
Announced(s) ==
  /\ msg.type \in {"TERMINATING", "WITHDRAW"}
  /\ s.owned = sup.owned /\ s.dead = sup.dead /\ s.retired = sup.retired
  /\ s.pend \in {sup.pend, None}
ReleasedBy(s) ==
  /\ msg.type = "RELEASE" /\ ~sup.cleanup /\ sup.pend = None /\ sup.allow
  /\ sup.owned = {msg.group} /\ Alive(msg.group)
  /\ s.owned = sup.owned /\ s.dead = sup.dead /\ s.retired = sup.retired /\ s.pend = msg.group
SameMode(s) ==
  s.allow = sup.allow /\ s.cleanup = sup.cleanup

\* handle_message grants a request only as its cases say.
LEMMA GrantedDoes ==
  ASSUME RunnerTypeOK, msg # None, NEW scan \in Scan(msg.group), NEW made \in BOOLEAN,
         MessageStatus(msg, scan, made /\ Held(msg.group)) = "ok"
  PROVE  /\ Granted(msg) \in Supervisors /\ SameMode(Granted(msg))
         /\ Granted(msg).closed = sup.closed /\ Granted(msg).failed = sup.failed
         /\ \/ Registered(Granted(msg)) \/ UnregisteredBy(Granted(msg))
            \/ Announced(Granted(msg)) \/ ReleasedBy(Granted(msg))
  <1>0. sup \in Supervisors /\ msg \in SupervisionRequests /\ msg.group \in Groups
        /\ msg.type \in {"REGISTER", "UNREGISTER", "TERMINATING", "RELEASE", "WITHDRAW"}
    BY DEF RunnerTypeOK, SupervisionRequests
  <1>1. CASE msg.type = "REGISTER"
    <2>1. Granted(msg) = [sup EXCEPT !.owned = @ \cup {msg.group}]
      BY <1>1 DEF Granted
    <2>2. ~sup.cleanup /\ sup.pend = None /\ msg.group \notin sup.owned /\ Held(msg.group)
      BY <1>1 DEF MessageStatus
    <2> QED BY <1>0, <1>1, <2>1, <2>2 DEF Supervisors, SameMode, Registered
  <1>2. CASE msg.type = "UNREGISTER"
    <2> DEFINE u == IF sup.pend = msg.group THEN None ELSE sup.pend
    <2>1. Granted(msg) = [sup EXCEPT !.owned = @ \ {msg.group}, !.pend = u, !.term = @ \ {msg.group},
                                     !.dead = @ \ {msg.group}, !.retired = @ \cup {msg.group}]
      BY <1>2 DEF Granted
    <2>2. msg.group \in sup.owned /\ ~Alive(msg.group)
      BY <1>2 DEF MessageStatus, Scan
    <2>3. u \in OrNoGroup /\ u \in {sup.pend, None} /\ u # msg.group
      BY <1>0, GroupsAssumption DEF Supervisors, OrNoGroup
    <2> HIDE DEF u
    <2>4. /\ Granted(msg).owned = sup.owned \ {msg.group} /\ Granted(msg).dead = sup.dead \ {msg.group}
          /\ Granted(msg).retired = sup.retired \cup {msg.group} /\ Granted(msg).pend = u
          /\ Granted(msg).allow = sup.allow /\ Granted(msg).cleanup = sup.cleanup
          /\ Granted(msg).closed = sup.closed /\ Granted(msg).failed = sup.failed
      BY <1>0, <2>1 DEF Supervisors
    <2>5. Granted(msg) \in Supervisors
      <3> DEFINE o == sup.owned \ {msg.group}
                 t == sup.term \ {msg.group}
                 d == sup.dead \ {msg.group}
                 r == sup.retired \cup {msg.group}
      <3>1. o \in SUBSET Groups /\ t \in SUBSET Groups /\ d \in SUBSET Groups /\ r \in SUBSET Groups
        BY <1>0 DEF Supervisors
      <3>2. Granted(msg) = [sup EXCEPT !.owned = o, !.pend = u, !.term = t, !.dead = d, !.retired = r]
        BY <1>0, <2>1 DEF Supervisors
      <3> HIDE DEF o, t, d, r
      <3> QED BY <1>0, <2>3, <3>1, <3>2 DEF Supervisors
    <2> QED BY <1>2, <2>2, <2>3, <2>4, <2>5 DEF SameMode, UnregisteredBy
  <1>3. CASE msg.type = "TERMINATING"
    <2> DEFINE u == IF sup.pend = msg.group THEN None ELSE sup.pend
    <2>1. Granted(msg) = [sup EXCEPT !.term = @ \cup {msg.group}, !.pend = u]
      BY <1>3 DEF Granted
    <2>3. u \in OrNoGroup /\ u \in {sup.pend, None}
      BY <1>0 DEF Supervisors, OrNoGroup
    <2> HIDE DEF u
    <2>4. /\ Granted(msg).owned = sup.owned /\ Granted(msg).dead = sup.dead
          /\ Granted(msg).retired = sup.retired /\ Granted(msg).pend = u
          /\ Granted(msg).allow = sup.allow /\ Granted(msg).cleanup = sup.cleanup
          /\ Granted(msg).closed = sup.closed /\ Granted(msg).failed = sup.failed
      BY <1>0, <2>1 DEF Supervisors
    <2>5. Granted(msg) \in Supervisors
      <3>1. PICK t \in SUBSET Groups : Granted(msg) = [sup EXCEPT !.term = t, !.pend = u]
        BY <1>0, <2>1 DEF Supervisors
      <3> QED BY <1>0, <2>3, <3>1 DEF Supervisors
    <2> QED BY <1>3, <2>3, <2>4, <2>5 DEF SameMode, Announced
  <1>4. CASE msg.type = "RELEASE"
    <2>1. Granted(msg) = [sup EXCEPT !.pend = msg.group]
      BY <1>4 DEF Granted
    <2>2. ~sup.cleanup /\ sup.pend = None /\ sup.allow /\ sup.owned = {msg.group} /\ Alive(msg.group)
      BY <1>4 DEF MessageStatus, ReleaseStatus, Scan
    <2> QED BY <1>0, <1>4, <2>1, <2>2 DEF Supervisors, SameMode, ReleasedBy, OrNoGroup
  <1>5. CASE msg.type = "WITHDRAW"
    <2>1. Granted(msg) = [sup EXCEPT !.pend = None]
      BY <1>5 DEF Granted
    <2> QED BY <1>0, <1>5, <2>1 DEF Supervisors, SameMode, Announced, OrNoGroup
  <1> QED BY <1>0, <1>1, <1>2, <1>3, <1>4, <1>5

\* One request is read and answered, and the run goes on or is stopped.
LEMMA HandleMessageDoes ==
  ASSUME RunnerTypeOK, HandleMessage
  PROVE  /\ sup' \in Supervisors /\ SameMode(sup') /\ (sup'.failed => sup'.closed)
         /\ RunIsLeft /\ job'.result = job.result /\ OnlySignals
         /\ at' = at \/ (at' = AfterPoll /\ sup'.closed)
         /\ \E s \in {"ok", "cancelled", "refused"} :
              /\ ack' = IF h.open THEN s ELSE ack
              /\ IF s = "ok"
                   THEN /\ sentinel' = SentinelAfter(msg)
                        /\ \/ Registered(sup') \/ UnregisteredBy(sup') \/ Announced(sup') \/ ReleasedBy(sup')
                   ELSE TurnedDown(sup') /\ sentinel' = sentinel
  <1>0. sup \in Supervisors /\ msg \in SupervisionRequests /\ ~sup.failed /\ ~sup.closed /\ msg # None
    BY DEF RunnerTypeOK, HandleMessage
  <1>1. PICK scan \in Scan(msg.group), made \in BOOLEAN, open \in Ends :
          /\ FaultIf(scan = "failed" \/ (~made /\ Held(msg.group)))
          /\ LET status == MessageStatus(msg, scan, made /\ Held(msg.group))
                 next   == IF status = "ok" THEN Granted(msg) ELSE sup
                 fine   == status # "refused" /\ open
             IN /\ sup' = IF fine THEN next ELSE [next EXCEPT !.failed = TRUE, !.closed = TRUE]
                /\ sentinel' = IF status = "ok" THEN SentinelAfter(msg) ELSE sentinel
                /\ ack' = IF h.open THEN status ELSE ack
                /\ IF fine THEN UNCHANGED <<job, h, at>> ELSE PollFailed
    BY Zenon DEF HandleMessage
  <1> DEFINE st == MessageStatus(msg, scan, made /\ Held(msg.group))
             next == IF st = "ok" THEN Granted(msg) ELSE sup
             fine == st # "refused" /\ open
  <1>2. st \in {"ok", "cancelled", "refused"}
    BY <1>0 DEF MessageStatus, ReleaseStatus, SupervisionRequests
  <1>3. st = "ok" => /\ Granted(msg) \in Supervisors /\ SameMode(Granted(msg))
                     /\ Granted(msg).closed = sup.closed /\ Granted(msg).failed = sup.failed
                     /\ \/ Registered(Granted(msg)) \/ UnregisteredBy(Granted(msg))
                        \/ Announced(Granted(msg)) \/ ReleasedBy(Granted(msg))
    BY <1>0, GrantedDoes
  <1>4. /\ sup' = IF fine THEN next ELSE [next EXCEPT !.failed = TRUE, !.closed = TRUE]
        /\ sentinel' = IF st = "ok" THEN SentinelAfter(msg) ELSE sentinel
        /\ ack' = IF h.open THEN st ELSE ack
        /\ IF fine THEN UNCHANGED <<job, h, at>> ELSE PollFailed
    BY <1>1
  <1> HIDE DEF st, fine
  <1>5. /\ next \in Supervisors /\ SameMode(next) /\ ~next.closed /\ ~next.failed
        /\ IF st = "ok"
            THEN Registered(next) \/ UnregisteredBy(next) \/ Announced(next) \/ ReleasedBy(next)
            ELSE TurnedDown(next)
    BY <1>0, <1>3 DEF SameMode, TurnedDown
  <1> HIDE DEF next
  <1>6. /\ sup' \in Supervisors /\ (sup'.failed => sup'.closed) /\ (~fine => sup'.closed)
        /\ sup'.owned = next.owned /\ sup'.pend = next.pend /\ sup'.dead = next.dead
        /\ sup'.retired = next.retired /\ sup'.allow = next.allow /\ sup'.cleanup = next.cleanup
    BY <1>4, <1>5 DEF Supervisors
  <1>7. /\ SameMode(sup')
        /\ IF st = "ok"
            THEN Registered(sup') \/ UnregisteredBy(sup') \/ Announced(sup') \/ ReleasedBy(sup')
            ELSE TurnedDown(sup')
    BY <1>5, <1>6 DEF SameMode, Registered, UnregisteredBy, Announced, ReleasedBy, TurnedDown
  <1>8. /\ RunIsLeft /\ job'.result = job.result /\ OnlySignals
        /\ at' = at \/ (at' = AfterPoll /\ sup'.closed)
    <2>1. CASE fine
      BY <1>4, <2>1, SignalsDo DEF RunnerTypeOK, RunIsLeft, RunGoesOn
    <2>2. CASE ~fine
      BY <1>4, <1>6, <2>2, PollFailedDoes
    <2> QED BY <2>1, <2>2
  <1> QED BY <1>2, <1>4, <1>6, <1>7, <1>8

\* A failure of the pipes stops the run, if nothing stopped it before (fail_helper_io).
LEMMA AfterPipesDoes ==
  ASSUME job \in Runs, NEW io \in BOOLEAN
  PROVE  LET r == AfterPipes(io) IN
         /\ r \in Runs /\ r.op = job.op /\ r.on = job.on /\ r.reaped = job.reaped /\ r.status = job.status
         /\ (job.stop # "none" => r.stop = job.stop) /\ (job.io => r.io) /\ r.result = job.result
         /\ r.clean = job.clean /\ r.int = job.int /\ r.kill = job.kill
  <1>1. CASE PipeFails(io)
    <2>1. AfterPipes(io) = [[job EXCEPT !.io = TRUE] EXCEPT !.stop = "io"] /\ job.stop = "none"
      BY <1>1 DEF AfterPipes, PipeFails, FailIo, StopRun, Runs
    <2> QED BY <2>1 DEF Runs, Reasons
  <1>2. CASE ~PipeFails(io)
    BY <1>2 DEF AfterPipes
  <1> QED BY <1>1, <1>2

\* No signal, no effect (network_sidebar_awg_supervisor_signal_groups).
LEMMA NothingIsKilled ==
  ASSUME RunnerTypeOK, KillGroups({})
  PROVE  UNCHANGED <<prog, killed, sentinel, lost, stray>>
  BY DEF RunnerTypeOK, KillGroups

\* The cleanup deadline stops the run, and so does a channel that stays closed; whatever
\* stopped it before stands (begin_stop).
LEMMA StoppedDoes ==
  ASSUME job \in Runs, NEW over \in BOOLEAN
  PROVE  LET r == Stopped(over) IN
         /\ r \in Runs /\ r.op = job.op /\ r.on = job.on /\ r.reaped = job.reaped /\ r.status = job.status
         /\ r.exited = job.exited /\ (TimesOut => r.stop # "none")
         /\ (job.stop # "none" => r.stop = job.stop) /\ (job.io => r.io) /\ r.result = job.result
         /\ r.clean = job.clean /\ r.int = job.int /\ r.kill = job.kill
  <1>1. CASE TimesOut
    <2>1. Stopped(over) = [job EXCEPT !.stop = "timeout"] /\ job.stop = "none"
      BY <1>1 DEF Stopped, TimesOut, StopRun, Runs
    <2> QED BY <2>1 DEF Runs, Reasons
  <1>2. CASE ~TimesOut /\ StaysClosed(over)
    <2>1. Stopped(over) = [[job EXCEPT !.io = TRUE] EXCEPT !.stop = "io"] /\ job.stop = "none"
      BY <1>2 DEF Stopped, StaysClosed, FailIo, StopRun, Runs
    <2> QED BY <1>2, <2>1 DEF Runs, Reasons
  <1>3. CASE ~TimesOut /\ ~StaysClosed(over)
    BY <1>3 DEF Stopped
  <1> QED BY <1>1, <1>2, <1>3

\* SIGINT and SIGKILL leave their marks on the run and nothing else (helper_poll_cb).
LEMMA EscalatedDoes ==
  ASSUME job \in Runs, NEW over \in BOOLEAN
  PROVE  LET r == Escalated(over) IN
         /\ r \in Runs /\ r.op = job.op /\ r.on = job.on /\ r.reaped = job.reaped /\ r.status = job.status
         /\ r.exited = job.exited /\ (TimesOut => r.stop # "none")
         /\ (job.stop # "none" => r.stop = job.stop) /\ (job.io => r.io) /\ r.result = job.result
         /\ IF Escalates(over)
              THEN r.int /\ (r.kill <=> Kills(over)) /\ (r.clean <=> sup.owned = {})
              ELSE r.clean = job.clean /\ r.int = job.int /\ r.kill = job.kill
  <1> DEFINE r == Stopped(over)
             k == Kills(over)
             c == sup.owned = {}
  <1>1. /\ r \in Runs /\ r.op = job.op /\ r.on = job.on /\ r.reaped = job.reaped /\ r.status = job.status
        /\ r.exited = job.exited /\ (TimesOut => r.stop # "none")
        /\ (job.stop # "none" => r.stop = job.stop) /\ (job.io => r.io) /\ r.result = job.result
        /\ r.clean = job.clean /\ r.int = job.int /\ r.kill = job.kill
    BY StoppedDoes
  <1>2. k \in BOOLEAN /\ c \in BOOLEAN
    BY DEF Kills, Escalates
  <1>3. Escalated(over) = IF Escalates(over) THEN [r EXCEPT !.int = TRUE, !.kill = k, !.clean = c] ELSE r
    BY DEF Escalated
  <1>4. (k <=> Kills(over)) /\ (c <=> sup.owned = {})
    OBVIOUS
  <1> HIDE DEF r, k, c
  <1>5. CASE Escalates(over)
    <2> DEFINE q == [r EXCEPT !.int = TRUE, !.kill = k, !.clean = c]
    <2>1. /\ q \in Runs /\ q.op = r.op /\ q.on = r.on /\ q.reaped = r.reaped /\ q.status = r.status
          /\ q.exited = r.exited /\ q.stop = r.stop /\ q.io = r.io /\ q.result = r.result
          /\ q.int /\ q.kill = k /\ q.clean = c
      BY <1>1, <1>2, ZenonT(30) DEF Runs
    <2> HIDE DEF q
    <2>2. Escalated(over) = q
      BY <1>3, <1>5 DEF q
    <2> QED BY <1>1, <1>4, <1>5, <2>1, <2>2
  <1>6. CASE ~Escalates(over)
    BY <1>1, <1>3, <1>6
  <1> QED BY <1>5, <1>6

\* A request to stop gives the run a reason to end, and makes no success
\* (network_sidebar_awg_helper_runner_stop).
LEMMA StopDoes ==
  ASSUME RunnerTypeOK, NEW reason \in {"shutdown", "preempted"}, Stop(reason)
  PROVE  /\ RunIsLeft /\ job'.stop # "none" /\ (job'.result = "success" => job.result = "success")
         /\ OnlySignals /\ at = "loop" /\ job.on /\ Fault
         /\ UNCHANGED <<sup, at, tracked, reaps, backends, hp, channel, system, runs, clock>>
  <1>1. /\ RunIsLeft /\ job'.stop # "none"
        /\ (job'.result = "success" => job.result = "success")
    <2> DEFINE r == StopRun(job, reason)
    <2>1. r = [job EXCEPT !.stop = IF job.stop = "none" THEN reason ELSE job.stop] /\ job \in Runs
      BY DEF StopRun, RunnerTypeOK, Runs
    <2>2. /\ r \in Runs /\ r.stop # "none" /\ (job.stop # "none" => r.stop = job.stop)
          /\ r.op = job.op /\ r.on = job.on /\ r.reaped = job.reaped /\ r.status = job.status /\ r.io = job.io
          /\ r.result = job.result /\ r.exited = job.exited /\ r.clean = job.clean /\ r.int = job.int
          /\ r.kill = job.kill
      BY <2>1 DEF Runs, Reasons
    <2> HIDE DEF r
    <2>3. job' = r \/ job' = Published(r, TRUE)
      BY DEF Stop, r
    <2>4. PICK s \in Statuses : /\ Published(r, TRUE) = [r EXCEPT !.result = s] /\ s # "none"
                               /\ (s = "success" => r.result = "success")
      BY <2>2, PublishedDoes
    <2>5. CASE job' = r
      BY <2>2, <2>5 DEF RunIsLeft, RunGoesOn
    <2>6. CASE job' = [r EXCEPT !.result = s]
      BY <2>2, <2>4, <2>6 DEF RunIsLeft, RunGoesOn, Runs
    <2> QED BY <2>3, <2>4, <2>5, <2>6
  <1>2. OnlySignals
    BY SignalsDo DEF Stop, RunnerTypeOK
  <1>3. /\ at = "loop" /\ job.on /\ Fault
        /\ UNCHANGED <<sup, at, tracked, reaps, backends, hp, channel, system, runs, clock>>
    BY DEF Stop
  <1> QED BY <1>1, <1>2, <1>3

\* The first half of a poll notices the exit of the helper, sends signals and forbids a
\* release, and changes nothing else of the supervisor (helper_poll_cb).
LEMMA ObserveDoes ==
  ASSUME RunnerTypeOK, Observe
  PROVE  /\ at = "loop" /\ job.on /\ at' = "poll"
         /\ clock' = (IF clock \in 3 .. LastPoll - 1 THEN clock + 1 ELSE clock)
         /\ UNCHANGED <<tracked, reaps, backends, hp, channel, system, runs>>
         /\ RunGoesOn /\ job'.clean = job.clean /\ job'.int = job.int /\ job'.kill = job.kill
         /\ job'.result = job.result /\ (job'.exited <=> hp = "zombie" /\ ~job.reaped)
         /\ OnlySignals
         /\ sup' \in Supervisors /\ sup'.owned = sup.owned /\ sup'.pend = sup.pend /\ sup'.dead = sup.dead
         /\ sup'.retired = sup.retired /\ (sup'.allow => sup.allow) /\ sup'.cleanup = sup.cleanup
         /\ sup'.closed = sup.closed /\ sup'.failed = sup.failed
         /\ faults' \in 0 .. MaxFaults /\ clock' \in 0 .. LastPoll
  <1>0. /\ at = "loop" /\ job.on /\ at' = "poll"
        /\ clock' = (IF clock \in 3 .. LastPoll - 1 THEN clock + 1 ELSE clock)
        /\ UNCHANGED <<tracked, reaps, backends, hp, channel, system, runs>>
    BY DEF Observe
  <1>1. PICK io \in BOOLEAN :
          /\ job' = [AfterPipes(io) EXCEPT !.exited = HelperExited, !.forward = @ \/ ForwardIsLate(AfterPipes(io))]
          /\ FaultIf(PipeFails(io))
          /\ sup' = IF ForwardIsLate(AfterPipes(io)) THEN [sup EXCEPT !.allow = FALSE, !.cancelled = TRUE] ELSE sup
          /\ h' = IF PipeFails(io) THEN StopSignal ELSE IF ForwardIsLate(AfterPipes(io)) THEN Signalled ELSE h
    BY Zenon DEF Observe
  <1>2. job \in Runs /\ h \in Helpers /\ sup \in Supervisors
    BY DEF RunnerTypeOK
  <1> DEFINE r == AfterPipes(io)
             l == ForwardIsLate(r)
             e == HelperExited
  <1>3. /\ r \in Runs /\ r.op = job.op /\ r.on = job.on /\ r.reaped = job.reaped /\ r.status = job.status
        /\ (job.stop # "none" => r.stop = job.stop) /\ (job.io => r.io) /\ r.result = job.result
        /\ r.clean = job.clean /\ r.int = job.int /\ r.kill = job.kill
    BY <1>2, AfterPipesDoes
  <1>4. e \in BOOLEAN /\ l \in BOOLEAN /\ (e <=> hp = "zombie" /\ ~job.reaped)
    BY DEF HelperExited, ForwardIsLate
  <1> HIDE DEF r, l, e
  <1>5. job' = [r EXCEPT !.exited = e, !.forward = r.forward \/ l]
    BY <1>1, <1>3 DEF r, l, e, Runs
  <1>6. /\ RunGoesOn /\ job'.clean = job.clean /\ job'.int = job.int /\ job'.kill = job.kill
        /\ job'.result = job.result /\ (job'.exited <=> hp = "zombie" /\ ~job.reaped)
    <2> DEFINE f == r.forward \/ l
    <2>1. f \in BOOLEAN
      BY <1>4
    <2>2. job' = [r EXCEPT !.exited = e, !.forward = f]
      BY <1>5
    <2> HIDE DEF f
    <2>3. /\ job' \in Runs /\ job'.exited = e
          /\ job'.op = r.op /\ job'.on = r.on /\ job'.reaped = r.reaped /\ job'.status = r.status
          /\ job'.stop = r.stop /\ job'.io = r.io /\ job'.result = r.result
          /\ job'.clean = r.clean /\ job'.int = r.int /\ job'.kill = r.kill
      BY <1>3, <1>4, <2>1, <2>2 DEF Runs
    <2> QED BY <1>3, <1>4, <2>3 DEF RunGoesOn
  <1>7. OnlySignals
    <2>1. h' \in {h, Signalled, StopSignal}
      BY <1>1
    <2> QED BY <1>2, <2>1, SignalsDo
  <1>8. /\ sup' \in Supervisors /\ sup'.owned = sup.owned /\ sup'.pend = sup.pend /\ sup'.dead = sup.dead
        /\ sup'.retired = sup.retired /\ (sup'.allow => sup.allow) /\ sup'.cleanup = sup.cleanup
        /\ sup'.closed = sup.closed /\ sup'.failed = sup.failed
    BY <1>1, <1>2 DEF Supervisors
  <1>9. faults' \in 0 .. MaxFaults /\ clock' \in 0 .. LastPoll
    BY <1>0, <1>1, MaxGroupsAssumption DEF FaultIf, Fault, RunnerTypeOK, LastPoll
  <1> QED BY <1>0, <1>6, <1>7, <1>8, <1>9

\* The second half of a poll: what a deadline, a closed channel and the end of a grace do
\* to the run, the helper and the groups (helper_poll_cb).
LEMMA EnforceDoes ==
  ASSUME RunnerTypeOK, Enforce
  PROVE  /\ at = "stop" /\ ~job.reaped /\ ~(clock >= 3 /\ Detachable)
         /\ at' = (IF job.exited THEN "repoll" ELSE "loop")
         /\ UNCHANGED <<tracked, reaps, backends, channel, faults, runs, clock>>
         /\ RunGoesOn /\ (job'.result = "success" => job.result = "success")
         /\ job'.exited = job.exited /\ (TimesOut => job'.stop # "none")
         /\ (job.op = "list" /\ clock >= 3 /\ ~job.exited => job'.result # "none")
         /\ OnlySignals
         /\ \E over \in BOOLEAN :
              /\ IF Escalates(over)
                  THEN job'.int /\ (job'.kill <=> Kills(over)) /\ (job'.clean <=> sup.owned = {})
                  ELSE job'.clean = job.clean /\ job'.int = job.int /\ job'.kill = job.kill
              /\ hp' = (IF Kills(over) /\ hp = "running" THEN "dying" ELSE hp)
              /\ sup' = IF Escalates(over)
                        THEN [sup EXCEPT !.cleanup = TRUE, !.dead = IF Kills(over) THEN sup.owned ELSE @]
                        ELSE sup
              /\ KillGroups(IF Kills(over) THEN sup.owned \ sup.dead ELSE {})
  <1>0. PICK over \in BOOLEAN, decoded \in BOOLEAN :
          /\ job' = IF job.op = "list" /\ clock >= 3 /\ ~job.exited
                    THEN Published(Escalated(over), decoded) ELSE Escalated(over)
          /\ h' = IF StaysClosed(over) \/ (TimesOut /\ ~(job.forward /\ job.op = "list")) THEN StopSignal
                  ELSE IF Escalates(over) /\ ~job.int THEN Signalled ELSE h
          /\ hp' = IF Kills(over) /\ hp = "running" THEN "dying" ELSE hp
          /\ sup' = IF Escalates(over)
                    THEN [sup EXCEPT !.cleanup = TRUE, !.dead = IF Kills(over) THEN sup.owned ELSE @]
                    ELSE sup
          /\ KillGroups(IF Kills(over) THEN sup.owned \ sup.dead ELSE {})
    BY Zenon DEF Enforce
  <1>1. /\ at = "stop" /\ ~job.reaped /\ ~(clock >= 3 /\ Detachable)
        /\ at' = (IF job.exited THEN "repoll" ELSE "loop")
        /\ UNCHANGED <<tracked, reaps, backends, channel, faults, runs, clock>>
    BY DEF Enforce
  <1>2. job \in Runs /\ h \in Helpers /\ sup \in Supervisors /\ clock \in 0 .. LastPoll
    BY DEF RunnerTypeOK
  <1>3. /\ RunGoesOn /\ (job'.result = "success" => job.result = "success") /\ job'.exited = job.exited /\ (TimesOut => job'.stop # "none")
        /\ (job.op = "list" /\ clock >= 3 /\ ~job.exited => job'.result # "none")
        /\ IF Escalates(over)
            THEN job'.int /\ (job'.kill <=> Kills(over)) /\ (job'.clean <=> sup.owned = {})
            ELSE job'.clean = job.clean /\ job'.int = job.int /\ job'.kill = job.kill
    <2> DEFINE r == Escalated(over)
    <2>1. /\ r \in Runs /\ r.op = job.op /\ r.on = job.on /\ r.reaped = job.reaped /\ r.status = job.status
          /\ r.exited = job.exited /\ (TimesOut => r.stop # "none")
          /\ (job.stop # "none" => r.stop = job.stop) /\ (job.io => r.io) /\ r.result = job.result
          /\ IF Escalates(over)
              THEN r.int /\ (r.kill <=> Kills(over)) /\ (r.clean <=> sup.owned = {})
              ELSE r.clean = job.clean /\ r.int = job.int /\ r.kill = job.kill
      BY <1>2, EscalatedDoes
    <2> HIDE DEF r
    <2>2. PICK s \in Statuses : /\ Published(r, decoded) = [r EXCEPT !.result = s]
                               /\ (r.result # "none" => s = r.result)
                               /\ (r.stop # "none" => s # "none")
                               /\ (r.result = "none" /\ s = "success" => r.stop = "none")
      BY <2>1, PublishedDoes
    <2>3. job.op = "list" /\ clock >= 3 /\ ~job.exited => r.stop # "none"
      BY <1>2, <2>1 DEF TimesOut, LastPoll
    <2>4. CASE job.op = "list" /\ clock >= 3 /\ ~job.exited
      <3>1. job' = [r EXCEPT !.result = s] /\ s # "none"
        BY <1>0, <2>2, <2>3, <2>4 DEF r
      <3>2. /\ job' \in Runs /\ job'.op = r.op /\ job'.on = r.on /\ job'.reaped = r.reaped
            /\ job'.status = r.status /\ job'.stop = r.stop /\ job'.io = r.io /\ job'.result = s
            /\ job'.exited = r.exited /\ job'.clean = r.clean /\ job'.int = r.int /\ job'.kill = r.kill
        BY <2>1, <3>1 DEF Runs
      <3> QED BY <2>1, <2>2, <2>3, <2>4, <3>1, <3>2 DEF RunGoesOn
    <2>5. CASE ~(job.op = "list" /\ clock >= 3 /\ ~job.exited)
      <3>1. job' = r
        BY <1>0, <2>5 DEF r
      <3> QED BY <2>1, <2>5, <3>1 DEF RunGoesOn
    <2> QED BY <2>4, <2>5
  <1>4. OnlySignals
    <2>1. h' \in {h, Signalled, StopSignal}
      BY <1>0
    <2> QED BY <1>2, <2>1, SignalsDo
  <1> QED BY <1>0, <1>1, <1>3, <1>4

\* A gated child whose group the service is asked to own (awg_subprocess_run): its number was
\* free, and nothing else is asked at the moment.
LEMMA ForkKeeps ==
  ASSUME RunnerInv, NEW g \in Groups, Fork(g)
  PROVE  RunnerInv'
  <1> USE GroupsAssumption, SupervisionAssumption DEF RunnerInv, Fork, Send, Held, Running, service, helper, channel, system
  <1>1. RunnerTypeOK'
    <2>1. h' \in Helpers
      BY DEF RunnerTypeOK, Helpers, OrNoGroup, Statuses
    <2>2. msg' \in SupervisionRequests \cup {None} /\ ack' \in {"none", "ok", "cancelled", "refused"}
      BY DEF RunnerTypeOK, Helpers, HelperHolds, OwnedAreKept, Where, Handling, SupervisionRequests, OrNoGroup
    <2>3. /\ prog' \in [Groups -> {"none", "gated", "running", "left", "dead"}]
          /\ sentinel' \in [Groups -> {"none", "alive", "zombie"}]
          /\ killed' \subseteq Groups /\ lost' \subseteq Groups /\ stray' \in BOOLEAN
      BY DEF RunnerTypeOK, HelperHolds, Where, Handling, Held, OrNoGroup
    <2> QED
      BY <2>1, <2>2, <2>3, MaxGroupsAssumption DEF RunnerTypeOK, FaultIf, Fault
  <1>2. RunIsBooked'
    BY DEF RunnerTypeOK, Helpers, RunIsBooked, HelperHears
  <1>3. OwnedAreKept'
    BY DEF RunnerTypeOK, Helpers, Supervisors, OwnedAreKept, HelperHolds, GroupsAreKnown, RunIsBooked, Where, Handling, Alive
  <1>4. GroupsAreKnown'
    BY DEF RunnerTypeOK, Helpers, Supervisors, OwnedAreKept, HelperHolds, GroupsAreKnown, Where, Handling, Alive
  <1>5. HelperHolds'
    BY DEF RunnerTypeOK, Helpers, HelperHolds, HelperHears, Where, Handling, GroupsAreKnown, OwnedAreKept, RunIsBooked, Alive
  <1>6. HelperHears'
    BY DEF RunnerTypeOK, Helpers, HelperHolds, HelperHears, Where, Handling, Exchanging
  <1>7. RequestsAreSound'
    BY DEF RunnerTypeOK, Helpers, RequestsAreSound, HelperHolds, HelperHears, RunIsBooked, Where, Handling, Exchanging, GroupsAreKnown, OwnedAreKept
  <1>8. CommitIsClean'
    BY DEF RunnerTypeOK, Helpers, CommitIsClean, HelperHolds, HelperHears, RunIsBooked, Where, Handling, Alive, GroupsAreKnown, OwnedAreKept
  <1>9. SuccessIsUnspoilt'
    BY DEF SuccessIsUnspoilt
  <1>10. EndIsNear'
    BY DEF EndIsNear, Settled, Stopping
  <1>11. NoStraySignal'
    BY DEF NoStraySignal
  <1> QED BY <1>1, <1>2, <1>3, <1>4, <1>5, <1>6, <1>7, <1>8, <1>9, <1>10, <1>11

\* The gate opens only for a group the service owns by now (register_group).
LEMMA RegisterKeeps ==
  ASSUME RunnerInv, Register
  PROVE  RunnerInv'
  <1> USE GroupsAssumption, SupervisionAssumption DEF RunnerInv, Register, Acknowledged, CloseUnless, FaultIf, Fault, Running, service, helper, channel, system
  <1>1. RunnerTypeOK'
    <2>1. h' \in Helpers
      <3>1. PICK a \in OrNoGroup, o \in BOOLEAN, p \in {"wait", "term"}, k \in BOOLEAN :
             h' = [h EXCEPT !.active = a, !.asent = FALSE, !.open = o, !.pc = p, !.ok = k]
        BY DEF RunnerTypeOK, Helpers, OrNoGroup, Acknowledged, CloseUnless, TerminationRequested
      <3> QED BY <3>1, ZenonT(30) DEF RunnerTypeOK, Helpers, OrNoGroup, Statuses
    <2>2. msg' \in SupervisionRequests \cup {None} /\ ack' \in {"none", "ok", "cancelled", "refused"}
      BY DEF RunnerTypeOK, Helpers, HelperHolds, OwnedAreKept, Where, Handling, SupervisionRequests, OrNoGroup
    <2>3. /\ prog' \in [Groups -> {"none", "gated", "running", "left", "dead"}]
          /\ sentinel' \in [Groups -> {"none", "alive", "zombie"}]
          /\ killed' \subseteq Groups /\ lost' \subseteq Groups /\ stray' \in BOOLEAN
      BY DEF RunnerTypeOK, HelperHolds, Where, Handling, Held, OrNoGroup
    <2> QED
      BY <2>1, <2>2, <2>3, MaxGroupsAssumption DEF RunnerTypeOK, FaultIf, Fault
  <1>2. RunIsBooked'
    BY DEF RunnerTypeOK, Helpers, RunIsBooked, HelperHears
  <1>3. OwnedAreKept'
    BY DEF RunnerTypeOK, Helpers, Supervisors, OwnedAreKept, HelperHolds, GroupsAreKnown, RunIsBooked, Where, Handling, Alive
  <1>4. GroupsAreKnown'
    BY DEF RunnerTypeOK, Helpers, Supervisors, OwnedAreKept, HelperHolds, GroupsAreKnown, Where, Handling, Alive, HelperHears, Acknowledged
  <1>5. HelperHolds'
    BY DEF RunnerTypeOK, Helpers, HelperHolds, HelperHears, Where, Handling
  <1>6. HelperHears'
    BY DEF RunnerTypeOK, Helpers, HelperHolds, HelperHears, Where, Handling, Exchanging
  <1>7. RequestsAreSound'
    BY ZenonT(30) DEF RunnerTypeOK, Helpers, RequestsAreSound, HelperHolds, HelperHears, RunIsBooked, Where, Handling, Exchanging
  <1>8. CommitIsClean'
    BY DEF RunnerTypeOK, Helpers, CommitIsClean, HelperHolds, HelperHears, RunIsBooked, Where, Handling, Alive
  <1>9. SuccessIsUnspoilt'
    BY DEF SuccessIsUnspoilt
  <1>10. EndIsNear'
    BY DEF EndIsNear, Settled, Stopping
  <1>11. NoStraySignal'
    BY DEF NoStraySignal
  <1> QED BY <1>1, <1>2, <1>3, <1>4, <1>5, <1>6, <1>7, <1>8, <1>9, <1>10, <1>11

\* Giving a program up leaves its group registered (the wait loop of awg_subprocess_run).
LEMMA GiveUpProgramKeeps ==
  ASSUME RunnerInv, GiveUpProgram
  PROVE  RunnerInv'
  <1> USE GroupsAssumption, SupervisionAssumption DEF RunnerInv, GiveUpProgram, Running, service, helper, channel, system
  <1>1. RunnerTypeOK'
    <2>1. h' \in Helpers
      BY DEF RunnerTypeOK, Helpers, OrNoGroup, Statuses
    <2>2. msg' \in SupervisionRequests \cup {None} /\ ack' \in {"none", "ok", "cancelled", "refused"}
      BY DEF RunnerTypeOK, Helpers, HelperHolds, OwnedAreKept, Where, Handling, SupervisionRequests, OrNoGroup
    <2>3. /\ prog' \in [Groups -> {"none", "gated", "running", "left", "dead"}]
          /\ sentinel' \in [Groups -> {"none", "alive", "zombie"}]
          /\ killed' \subseteq Groups /\ lost' \subseteq Groups /\ stray' \in BOOLEAN
      BY DEF RunnerTypeOK, HelperHolds, Where, Handling, Held, OrNoGroup
    <2> QED
      BY <2>1, <2>2, <2>3, MaxGroupsAssumption DEF RunnerTypeOK, FaultIf, Fault
  <1>2. RunIsBooked'
    BY DEF RunnerTypeOK, Helpers, RunIsBooked, HelperHears
  <1>3. OwnedAreKept'
    BY DEF RunnerTypeOK, Helpers, Supervisors, OwnedAreKept, HelperHolds, GroupsAreKnown, RunIsBooked, Where, Handling, Alive
  <1>4. GroupsAreKnown'
    BY DEF RunnerTypeOK, Helpers, Supervisors, OwnedAreKept, HelperHolds, GroupsAreKnown, Where, Handling, Alive
  <1>5. HelperHolds'
    BY DEF RunnerTypeOK, Helpers, HelperHolds, HelperHears, Where, Handling
  <1>6. HelperHears'
    BY DEF RunnerTypeOK, Helpers, HelperHolds, HelperHears, Where, Handling, Exchanging
  <1>7. RequestsAreSound'
    BY DEF RunnerTypeOK, Helpers, RequestsAreSound, HelperHolds, HelperHears, RunIsBooked, Where, Handling, Exchanging
  <1>8. CommitIsClean'
    BY DEF RunnerTypeOK, Helpers, CommitIsClean, HelperHolds, HelperHears, RunIsBooked, Where, Handling, Alive
  <1>9. SuccessIsUnspoilt'
    BY DEF SuccessIsUnspoilt
  <1>10. EndIsNear'
    BY DEF EndIsNear, Settled, Stopping
  <1>11. NoStraySignal'
    BY DEF NoStraySignal
  <1> QED BY <1>1, <1>2, <1>3, <1>4, <1>5, <1>6, <1>7, <1>8, <1>9, <1>10, <1>11

\* A kept backend has left its group's first process behind (retain_group).
LEMMA ProgramExitsKeeps ==
  ASSUME RunnerInv, ProgramExits
  PROVE  RunnerInv'
  <1> USE GroupsAssumption, SupervisionAssumption DEF RunnerInv, Running, service, helper, channel, system
  <1>0. Running /\ h.pc = "wait" /\ prog[h.cur] \in {"left", "dead"} /\ UNCHANGED <<service, hp, channel, system, faults, runs, clock>>
    BY DEF ProgramExits
  <1>1. ASSUME \E k \in BOOLEAN : h' = [h EXCEPT !.pc = "term", !.ok = k]
       PROVE  RunnerInv'
    <2> USE <1>0, <1>1
    <2>1. RunnerTypeOK'
      <3>1. h' \in Helpers
        <4>1. PICK k \in BOOLEAN :
               h' = [h EXCEPT !.pc = "term", !.ok = k]
          BY DEF RunnerTypeOK, Helpers, OrNoGroup, Statuses
        <4> QED BY <4>1 DEF RunnerTypeOK, Helpers, OrNoGroup, Statuses
      <3>2. msg' \in SupervisionRequests \cup {None} /\ ack' \in {"none", "ok", "cancelled", "refused"}
        BY DEF RunnerTypeOK, Helpers, HelperHolds, OwnedAreKept, Where, Handling, SupervisionRequests, OrNoGroup
      <3>3. /\ prog' \in [Groups -> {"none", "gated", "running", "left", "dead"}]
            /\ sentinel' \in [Groups -> {"none", "alive", "zombie"}]
            /\ killed' \subseteq Groups /\ lost' \subseteq Groups /\ stray' \in BOOLEAN
        BY DEF RunnerTypeOK, HelperHolds, Where, Handling, Held, OrNoGroup
      <3> QED
        BY <3>1, <3>2, <3>3, MaxGroupsAssumption DEF RunnerTypeOK, FaultIf, Fault
    <2>2. RunIsBooked'
      BY DEF RunnerTypeOK, Helpers, RunIsBooked, HelperHears
    <2>3. OwnedAreKept'
      BY DEF RunnerTypeOK, Helpers, Supervisors, OwnedAreKept, HelperHolds, GroupsAreKnown, RunIsBooked, Where, Handling, Alive
    <2>4. GroupsAreKnown'
      BY DEF RunnerTypeOK, Helpers, Supervisors, OwnedAreKept, HelperHolds, GroupsAreKnown, Where, Handling, Alive
    <2>5. HelperHolds'
      BY DEF RunnerTypeOK, Helpers, HelperHolds, HelperHears, Where, Handling
    <2>6. HelperHears'
      BY DEF RunnerTypeOK, Helpers, HelperHolds, HelperHears, Where, Handling, Exchanging
    <2>7. RequestsAreSound'
      BY DEF RunnerTypeOK, Helpers, RequestsAreSound, HelperHolds, HelperHears, RunIsBooked, Where, Handling, Exchanging
    <2>8. CommitIsClean'
      BY DEF RunnerTypeOK, Helpers, CommitIsClean, HelperHolds, HelperHears, RunIsBooked, Where, Handling, Alive
    <2>9. SuccessIsUnspoilt'
      BY DEF SuccessIsUnspoilt
    <2>10. EndIsNear'
      BY DEF EndIsNear, Settled, Stopping
    <2>11. NoStraySignal'
      BY DEF NoStraySignal
    <2> QED BY <2>1, <2>2, <2>3, <2>4, <2>5, <2>6, <2>7, <2>8, <2>9, <2>10, <2>11
  <1>2. ASSUME /\ job.op = "up" /\ ~h.cleanup /\ h.retained = None
               /\ h' = [h EXCEPT !.pc = "work", !.cur = None, !.retained = h.cur,
                                 !.rsent = h.asent, !.active = None, !.asent = FALSE]
       PROVE  RunnerInv'
    <2> USE <1>0, <1>2
    <2>1. RunnerTypeOK'
      <3>1. h \in Helpers /\ h.cur \in OrNoGroup /\ h.asent \in BOOLEAN
        BY DEF RunnerTypeOK, Helpers
      <3>2. h' \in Helpers
        BY <3>1, RetainType, Zenon
      <3> QED
        BY <3>2 DEF RunnerTypeOK
    <2>2. RunIsBooked'
      BY DEF RunnerTypeOK, Helpers, RunIsBooked, HelperHears
    <2>3. OwnedAreKept'
      BY DEF RunnerTypeOK, Helpers, Supervisors, OwnedAreKept, HelperHolds, GroupsAreKnown, RunIsBooked, Where, Handling, Alive
    <2>4. GroupsAreKnown'
      BY DEF RunnerTypeOK, Helpers, Supervisors, OwnedAreKept, HelperHolds, GroupsAreKnown, Where, Handling, Alive
    <2>5. HelperHolds'
      BY DEF RunnerTypeOK, Helpers, HelperHolds, HelperHears, Where, Handling
    <2>6. HelperHears'
      BY DEF RunnerTypeOK, Helpers, HelperHolds, HelperHears, Where, Handling, Exchanging
    <2>7. RequestsAreSound'
      BY DEF RunnerTypeOK, Helpers, RequestsAreSound, HelperHolds, HelperHears, RunIsBooked, Where, Handling, Exchanging
    <2>8. CommitIsClean'
      BY DEF RunnerTypeOK, Helpers, CommitIsClean, HelperHolds, HelperHears, RunIsBooked, Where, Handling, Alive
    <2>9. SuccessIsUnspoilt'
      BY DEF SuccessIsUnspoilt
    <2>10. EndIsNear'
      BY DEF EndIsNear, Settled, Stopping
    <2>11. NoStraySignal'
      BY DEF NoStraySignal
    <2> QED BY <2>1, <2>2, <2>3, <2>4, <2>5, <2>6, <2>7, <2>8, <2>9, <2>10, <2>11
  <1> QED BY <1>1, <1>2 DEF ProgramExits

\* The end of a registered group is announced first (begin_group_termination).
LEMMA TerminateKeeps ==
  ASSUME RunnerInv, Terminate
  PROVE  RunnerInv'
  <1> USE GroupsAssumption, SupervisionAssumption DEF RunnerInv, Terminate, Send, Running, service, helper, channel, system
  <1>1. RunnerTypeOK'
    <2>1. h' \in Helpers
      BY DEF RunnerTypeOK, Helpers, OrNoGroup, Statuses
    <2>2. msg' \in SupervisionRequests \cup {None} /\ ack' \in {"none", "ok", "cancelled", "refused"}
      BY DEF RunnerTypeOK, Helpers, HelperHolds, OwnedAreKept, Where, Handling, SupervisionRequests, OrNoGroup
    <2>3. /\ prog' \in [Groups -> {"none", "gated", "running", "left", "dead"}]
          /\ sentinel' \in [Groups -> {"none", "alive", "zombie"}]
          /\ killed' \subseteq Groups /\ lost' \subseteq Groups /\ stray' \in BOOLEAN
      BY DEF RunnerTypeOK, HelperHolds, Where, Handling, Held, OrNoGroup
    <2> QED
      BY <2>1, <2>2, <2>3, MaxGroupsAssumption DEF RunnerTypeOK, FaultIf, Fault
  <1>2. RunIsBooked'
    BY DEF RunnerTypeOK, Helpers, RunIsBooked, HelperHears
  <1>3. OwnedAreKept'
    BY DEF RunnerTypeOK, Helpers, Supervisors, OwnedAreKept, HelperHolds, GroupsAreKnown, RunIsBooked, Where, Handling, Alive
  <1>4. GroupsAreKnown'
    BY DEF RunnerTypeOK, Helpers, Supervisors, OwnedAreKept, HelperHolds, GroupsAreKnown, Where, Handling, Alive
  <1>5. HelperHolds'
    BY DEF RunnerTypeOK, Helpers, HelperHolds, HelperHears, Where, Handling
  <1>6. HelperHears'
    BY DEF RunnerTypeOK, Helpers, HelperHolds, HelperHears, Where, Handling, Exchanging
  <1>7. RequestsAreSound'
    BY DEF RunnerTypeOK, Helpers, RequestsAreSound, HelperHolds, HelperHears, RunIsBooked, Where, Handling, Exchanging
  <1>8. CommitIsClean'
    BY DEF RunnerTypeOK, Helpers, CommitIsClean, HelperHolds, HelperHears, RunIsBooked, Where, Handling, Alive
  <1>9. SuccessIsUnspoilt'
    BY DEF SuccessIsUnspoilt
  <1>10. EndIsNear'
    BY DEF EndIsNear, Settled, Stopping
  <1>11. NoStraySignal'
    BY DEF NoStraySignal
  <1> QED BY <1>1, <1>2, <1>3, <1>4, <1>5, <1>6, <1>7, <1>8, <1>9, <1>10, <1>11

\* The signal goes to a number that a program or a sentinel holds (terminate_group).
LEMMA TerminatingKeeps ==
  ASSUME RunnerInv, Terminating
  PROVE  RunnerInv'
  <1> USE GroupsAssumption, SupervisionAssumption DEF RunnerInv, Terminating, KillGroups, Acknowledged, CloseUnless, FaultIf, Fault, Running, service, helper, channel, system
  <1>1. RunnerTypeOK'
    <2>1. h' \in Helpers
      <3>1. PICK o \in BOOLEAN, k \in BOOLEAN :
             h' = [h EXCEPT !.pc = "reap", !.open = o, !.ok = k]
        BY DEF RunnerTypeOK, Helpers, OrNoGroup, Acknowledged, CloseUnless
      <3> QED BY <3>1, ZenonT(30) DEF RunnerTypeOK, Helpers, OrNoGroup, Statuses
    <2>2. msg' \in SupervisionRequests \cup {None} /\ ack' \in {"none", "ok", "cancelled", "refused"}
      BY DEF RunnerTypeOK, Helpers, HelperHolds, OwnedAreKept, Where, Handling, SupervisionRequests, OrNoGroup
    <2>3. /\ prog' \in [Groups -> {"none", "gated", "running", "left", "dead"}]
          /\ sentinel' \in [Groups -> {"none", "alive", "zombie"}]
          /\ killed' \subseteq Groups /\ lost' \subseteq Groups /\ stray' \in BOOLEAN
      BY DEF RunnerTypeOK, HelperHolds, Where, Handling, Held, OrNoGroup
    <2> QED
      BY <2>1, <2>2, <2>3, MaxGroupsAssumption DEF RunnerTypeOK, FaultIf, Fault
  <1>2. RunIsBooked'
    BY DEF RunnerTypeOK, Helpers, RunIsBooked, HelperHears
  <1>3. OwnedAreKept'
    BY DEF RunnerTypeOK, Helpers, Supervisors, OwnedAreKept, HelperHolds, GroupsAreKnown, RunIsBooked, Where, Handling, Alive
  <1>4. GroupsAreKnown'
    BY DEF RunnerTypeOK, Helpers, Supervisors, OwnedAreKept, HelperHolds, GroupsAreKnown, Where, Handling, Alive
  <1>5. HelperHolds'
    BY DEF RunnerTypeOK, Helpers, HelperHolds, HelperHears, Where, Handling
  <1>6. HelperHears'
    BY DEF RunnerTypeOK, Helpers, HelperHolds, HelperHears, Where, Handling, Exchanging
  <1>7. RequestsAreSound'
    BY DEF RunnerTypeOK, Helpers, RequestsAreSound, HelperHolds, HelperHears, RunIsBooked, Where, Handling, Exchanging
  <1>8. CommitIsClean'
    BY DEF RunnerTypeOK, Helpers, CommitIsClean, HelperHolds, HelperHears, RunIsBooked, Where, Handling, Alive
  <1>9. SuccessIsUnspoilt'
    BY DEF SuccessIsUnspoilt
  <1>10. EndIsNear'
    BY DEF EndIsNear, Settled, Stopping
  <1>11. NoStraySignal'
    BY DEF NoStraySignal, HelperHolds, OwnedAreKept, RunIsBooked, Held, Where, RunnerTypeOK, Handling, OrNoGroup
  <1> QED BY <1>1, <1>2, <1>3, <1>4, <1>5, <1>6, <1>7, <1>8, <1>9, <1>10, <1>11

\* What the helper reaps was signalled before (reap_child, reap_descendants).
LEMMA ReapKeeps ==
  ASSUME RunnerInv, Reap
  PROVE  RunnerInv'
  <1> USE GroupsAssumption, SupervisionAssumption DEF RunnerInv, Reap, Running, service, helper, channel, system
  <1>1. RunnerTypeOK'
    <2>1. h' \in Helpers
      BY DEF RunnerTypeOK, Helpers, OrNoGroup, Statuses
    <2>2. msg' \in SupervisionRequests \cup {None} /\ ack' \in {"none", "ok", "cancelled", "refused"}
      BY DEF RunnerTypeOK, Helpers, HelperHolds, OwnedAreKept, Where, Handling, SupervisionRequests, OrNoGroup
    <2>3. /\ prog' \in [Groups -> {"none", "gated", "running", "left", "dead"}]
          /\ sentinel' \in [Groups -> {"none", "alive", "zombie"}]
          /\ killed' \subseteq Groups /\ lost' \subseteq Groups /\ stray' \in BOOLEAN
      BY DEF RunnerTypeOK, HelperHolds, Where, Handling, Held, OrNoGroup
    <2> QED
      BY <2>1, <2>2, <2>3, MaxGroupsAssumption DEF RunnerTypeOK, FaultIf, Fault
  <1>2. RunIsBooked'
    BY DEF RunnerTypeOK, Helpers, RunIsBooked, HelperHears
  <1>3. OwnedAreKept'
    BY DEF RunnerTypeOK, Helpers, Supervisors, OwnedAreKept, HelperHolds, GroupsAreKnown, RunIsBooked, Where, Handling, Alive
  <1>4. GroupsAreKnown'
    BY DEF RunnerTypeOK, Helpers, Supervisors, OwnedAreKept, HelperHolds, GroupsAreKnown, Where, Handling, Alive
  <1>5. HelperHolds'
    BY DEF RunnerTypeOK, Helpers, HelperHolds, HelperHears, Where, Handling
  <1>6. HelperHears'
    BY DEF RunnerTypeOK, Helpers, HelperHolds, HelperHears, Where, Handling, Exchanging
  <1>7. RequestsAreSound'
    BY DEF RunnerTypeOK, Helpers, RequestsAreSound, HelperHolds, HelperHears, RunIsBooked, Where, Handling, Exchanging
  <1>8. CommitIsClean'
    BY DEF RunnerTypeOK, Helpers, CommitIsClean, HelperHolds, HelperHears, RunIsBooked, Where, Handling, Alive
  <1>9. SuccessIsUnspoilt'
    BY DEF SuccessIsUnspoilt
  <1>10. EndIsNear'
    BY DEF EndIsNear, Settled, Stopping
  <1>11. NoStraySignal'
    BY DEF NoStraySignal
  <1> QED BY <1>1, <1>2, <1>3, <1>4, <1>5, <1>6, <1>7, <1>8, <1>9, <1>10, <1>11

\* A group that cannot be reaped stays registered, and the rollback begins (reap_group).
LEMMA ReapFailsKeeps ==
  ASSUME RunnerInv, ReapFails
  PROVE  RunnerInv'
  <1> USE GroupsAssumption, SupervisionAssumption DEF RunnerInv, ReapFails, AfterProgram, Running, service, helper, channel, system
  <1>1. RunnerTypeOK'
    <2>1. h' \in Helpers
      <3>1. PICK p \in {"exit", "work"}, c \in BOOLEAN, s \in Statuses :
             h' = [h EXCEPT !.pc = p, !.cur = None, !.cleanup = c, !.status = s]
        BY DEF RunnerTypeOK, Helpers, OrNoGroup, Statuses
      <3> QED BY <3>1, ZenonT(30) DEF RunnerTypeOK, Helpers, OrNoGroup, Statuses
    <2>2. msg' \in SupervisionRequests \cup {None} /\ ack' \in {"none", "ok", "cancelled", "refused"}
      BY DEF RunnerTypeOK, Helpers, HelperHolds, OwnedAreKept, Where, Handling, SupervisionRequests, OrNoGroup
    <2>3. /\ prog' \in [Groups -> {"none", "gated", "running", "left", "dead"}]
          /\ sentinel' \in [Groups -> {"none", "alive", "zombie"}]
          /\ killed' \subseteq Groups /\ lost' \subseteq Groups /\ stray' \in BOOLEAN
      BY DEF RunnerTypeOK, HelperHolds, Where, Handling, Held, OrNoGroup
    <2> QED
      BY <2>1, <2>2, <2>3, MaxGroupsAssumption DEF RunnerTypeOK, FaultIf, Fault
  <1>2. RunIsBooked'
    BY DEF RunnerTypeOK, Helpers, RunIsBooked, HelperHears
  <1>3. OwnedAreKept'
    BY DEF RunnerTypeOK, Helpers, Supervisors, OwnedAreKept, HelperHolds, GroupsAreKnown, RunIsBooked, Where, Handling, Alive
  <1>4. GroupsAreKnown'
    BY DEF RunnerTypeOK, Helpers, Supervisors, OwnedAreKept, HelperHolds, GroupsAreKnown, Where, Handling, Alive
  <1>5. HelperHolds'
    BY DEF RunnerTypeOK, Helpers, HelperHolds, HelperHears, Where, Handling
  <1>6. HelperHears'
    BY DEF RunnerTypeOK, Helpers, HelperHolds, HelperHears, Where, Handling, Exchanging
  <1>7. RequestsAreSound'
    BY DEF RunnerTypeOK, Helpers, RequestsAreSound, HelperHolds, HelperHears, RunIsBooked, Where, Handling, Exchanging
  <1>8. CommitIsClean'
    BY DEF RunnerTypeOK, Helpers, CommitIsClean, HelperHolds, HelperHears, RunIsBooked, Where, Handling, Alive
  <1>9. SuccessIsUnspoilt'
    BY DEF SuccessIsUnspoilt
  <1>10. EndIsNear'
    BY DEF EndIsNear, Settled, Stopping
  <1>11. NoStraySignal'
    BY DEF NoStraySignal
  <1> QED BY <1>1, <1>2, <1>3, <1>4, <1>5, <1>6, <1>7, <1>8, <1>9, <1>10, <1>11

\* The helper forgets the number before it asks the service to (unregister_group).
LEMMA UnregisterKeeps ==
  ASSUME RunnerInv, Unregister
  PROVE  RunnerInv'
  <1> USE GroupsAssumption, SupervisionAssumption DEF RunnerInv, Running, service, helper, channel, system
  <1>0. Running /\ h.pc = "reap" /\ prog[h.cur] = "none"
       /\ UNCHANGED <<service, hp, system, faults, runs, clock>>
    BY DEF Unregister
  <1>1. ASSUME /\ h.cur \in {h.active, h.retained} /\ Send("UNREGISTER", h.cur)
               /\ h' = [h EXCEPT !.pc = "unregister",
                                 !.active = IF @ = h.cur THEN None ELSE @,
                                 !.retained = IF @ = h.cur THEN None ELSE @]
       PROVE  RunnerInv'
    <2> USE <1>0, <1>1 DEF Send
    <2>1. RunnerTypeOK'
      <3>1. h' \in Helpers
        <4>1. PICK a \in OrNoGroup, r \in OrNoGroup :
               h' = [h EXCEPT !.pc = "unregister", !.active = a, !.retained = r]
          BY DEF RunnerTypeOK, Helpers, OrNoGroup, Statuses
        <4> QED BY <4>1, ZenonT(30) DEF RunnerTypeOK, Helpers, OrNoGroup, Statuses
      <3>2. msg' \in SupervisionRequests \cup {None} /\ ack' \in {"none", "ok", "cancelled", "refused"}
        BY DEF RunnerTypeOK, Helpers, HelperHolds, OwnedAreKept, Where, Handling, SupervisionRequests, OrNoGroup
      <3>3. /\ prog' \in [Groups -> {"none", "gated", "running", "left", "dead"}]
            /\ sentinel' \in [Groups -> {"none", "alive", "zombie"}]
            /\ killed' \subseteq Groups /\ lost' \subseteq Groups /\ stray' \in BOOLEAN
        BY DEF RunnerTypeOK, HelperHolds, Where, Handling, Held, OrNoGroup
      <3> QED
        BY <3>1, <3>2, <3>3, MaxGroupsAssumption DEF RunnerTypeOK, FaultIf, Fault
    <2>2. RunIsBooked'
      BY DEF RunnerTypeOK, Helpers, RunIsBooked, HelperHears
    <2>3. OwnedAreKept'
      BY DEF RunnerTypeOK, Helpers, Supervisors, OwnedAreKept, HelperHolds, GroupsAreKnown, RunIsBooked, Where, Handling, Alive
    <2>4. GroupsAreKnown'
      BY DEF RunnerTypeOK, Helpers, Supervisors, OwnedAreKept, HelperHolds, GroupsAreKnown, Where, Handling, Alive
    <2>5. HelperHolds'
      BY DEF RunnerTypeOK, Helpers, HelperHolds, HelperHears, Where, Handling
    <2>6. HelperHears'
      BY DEF RunnerTypeOK, Helpers, HelperHolds, HelperHears, Where, Handling, Exchanging
    <2>7. RequestsAreSound'
      BY DEF RunnerTypeOK, Helpers, RequestsAreSound, HelperHolds, HelperHears, RunIsBooked, Where, Handling, Exchanging, OrNoGroup, SupervisionRequests
    <2>8. CommitIsClean'
      BY DEF RunnerTypeOK, Helpers, CommitIsClean, HelperHolds, HelperHears, RunIsBooked, Where, Handling, Alive
    <2>9. SuccessIsUnspoilt'
      BY DEF SuccessIsUnspoilt
    <2>10. EndIsNear'
      BY DEF EndIsNear, Settled, Stopping
    <2>11. NoStraySignal'
      BY DEF NoStraySignal
    <2> QED BY <2>1, <2>2, <2>3, <2>4, <2>5, <2>6, <2>7, <2>8, <2>9, <2>10, <2>11
  <1>2. ASSUME h.cur \notin {h.active, h.retained} /\ h' = AfterProgram(h, h.ok) /\ UNCHANGED channel
       PROVE  RunnerInv'
    <2> USE <1>0, <1>2 DEF AfterProgram
    <2>1. RunnerTypeOK'
      <3>1. h' \in Helpers
        <4>1. PICK p \in {"exit", "work"}, c \in BOOLEAN, s \in Statuses :
               h' = [h EXCEPT !.pc = p, !.cur = None, !.cleanup = c, !.status = s]
          BY DEF RunnerTypeOK, Helpers, OrNoGroup, Statuses
        <4> QED BY <4>1, ZenonT(30) DEF RunnerTypeOK, Helpers, OrNoGroup, Statuses
      <3>2. msg' \in SupervisionRequests \cup {None} /\ ack' \in {"none", "ok", "cancelled", "refused"}
        BY DEF RunnerTypeOK, Helpers, HelperHolds, OwnedAreKept, Where, Handling, SupervisionRequests, OrNoGroup
      <3>3. /\ prog' \in [Groups -> {"none", "gated", "running", "left", "dead"}]
            /\ sentinel' \in [Groups -> {"none", "alive", "zombie"}]
            /\ killed' \subseteq Groups /\ lost' \subseteq Groups /\ stray' \in BOOLEAN
        BY DEF RunnerTypeOK, HelperHolds, Where, Handling, Held, OrNoGroup
      <3> QED
        BY <3>1, <3>2, <3>3, MaxGroupsAssumption DEF RunnerTypeOK, FaultIf, Fault
    <2>2. RunIsBooked'
      BY DEF RunnerTypeOK, Helpers, RunIsBooked, HelperHears
    <2>3. OwnedAreKept'
      BY DEF RunnerTypeOK, Helpers, Supervisors, OwnedAreKept, HelperHolds, GroupsAreKnown, RunIsBooked, Where, Handling, Alive
    <2>4. GroupsAreKnown'
      BY DEF RunnerTypeOK, Helpers, Supervisors, OwnedAreKept, HelperHolds, GroupsAreKnown, Where, Handling, Alive
    <2>5. HelperHolds'
      BY DEF RunnerTypeOK, Helpers, HelperHolds, HelperHears, Where, Handling
    <2>6. HelperHears'
      BY DEF RunnerTypeOK, Helpers, HelperHolds, HelperHears, Where, Handling, Exchanging
    <2>7. RequestsAreSound'
      BY DEF RunnerTypeOK, Helpers, RequestsAreSound, HelperHolds, HelperHears, RunIsBooked, Where, Handling, Exchanging
    <2>8. CommitIsClean'
      BY DEF RunnerTypeOK, Helpers, CommitIsClean, HelperHolds, HelperHears, RunIsBooked, Where, Handling, Alive
    <2>9. SuccessIsUnspoilt'
      BY DEF SuccessIsUnspoilt
    <2>10. EndIsNear'
      BY DEF EndIsNear, Settled, Stopping
    <2>11. NoStraySignal'
      BY DEF NoStraySignal
    <2> QED BY <2>1, <2>2, <2>3, <2>4, <2>5, <2>6, <2>7, <2>8, <2>9, <2>10, <2>11
  <1> QED BY <1>1, <1>2 DEF Unregister

\* An answer to UNREGISTER leaves nothing to be read (supervision_exchange).
LEMMA UnregisteredKeeps ==
  ASSUME RunnerInv, Unregistered
  PROVE  RunnerInv'
  <1> USE GroupsAssumption, SupervisionAssumption DEF RunnerInv, Unregistered, AfterProgram, Acknowledged, CloseUnless, FaultIf, Fault, Running, service, helper, channel, system
  <1>1. RunnerTypeOK'
    <2>1. h' \in Helpers
      <3>1. PICK o \in BOOLEAN, k \in BOOLEAN : h' = AfterProgram([h EXCEPT !.open = o], k)
        BY DEF RunnerTypeOK, Helpers
      <3>2. [h EXCEPT !.open = o] \in Helpers
        BY DEF RunnerTypeOK, Helpers
      <3> HIDE DEF AfterProgram
      <3> QED BY <3>1, <3>2, AfterProgramType, Zenon
    <2> QED
      BY <2>1, MaxGroupsAssumption DEF RunnerTypeOK
  <1>2. RunIsBooked'
    BY DEF RunnerTypeOK, Helpers, RunIsBooked, HelperHears
  <1>3. OwnedAreKept'
    BY DEF RunnerTypeOK, Helpers, Supervisors, OwnedAreKept, HelperHolds, GroupsAreKnown, RunIsBooked, Where, Handling, Alive
  <1>4. GroupsAreKnown'
    BY DEF RunnerTypeOK, Helpers, Supervisors, OwnedAreKept, HelperHolds, GroupsAreKnown, Where, Handling, Alive
  <1>5. HelperHolds'
    BY DEF RunnerTypeOK, Helpers, HelperHolds, HelperHears, Where, Handling
  <1>6. HelperHears'
    BY DEF RunnerTypeOK, Helpers, HelperHolds, HelperHears, Where, Handling, Exchanging
  <1>7. RequestsAreSound'
    BY DEF RunnerTypeOK, Helpers, RequestsAreSound, HelperHolds, HelperHears, RunIsBooked, Where, Handling, Exchanging
  <1>8. CommitIsClean'
    BY DEF RunnerTypeOK, Helpers, CommitIsClean, HelperHolds, HelperHears, RunIsBooked, Where, Handling, Alive
  <1>9. SuccessIsUnspoilt'
    BY DEF SuccessIsUnspoilt
  <1>10. EndIsNear'
    BY DEF EndIsNear, Settled, Stopping
  <1>11. NoStraySignal'
    BY DEF NoStraySignal
  <1> QED BY <1>1, <1>2, <1>3, <1>4, <1>5, <1>6, <1>7, <1>8, <1>9, <1>10, <1>11

\* The rollback begins between two programs, with its own deadline.
LEMMA StartRollbackKeeps ==
  ASSUME RunnerInv, StartRollback
  PROVE  RunnerInv'
  <1> USE GroupsAssumption, SupervisionAssumption DEF RunnerInv, StartRollback, Running, service, helper, channel, system
  <1>1. RunnerTypeOK'
    <2>1. h' \in Helpers
      BY DEF RunnerTypeOK, Helpers, OrNoGroup, Statuses
    <2>2. msg' \in SupervisionRequests \cup {None} /\ ack' \in {"none", "ok", "cancelled", "refused"}
      BY DEF RunnerTypeOK, Helpers, HelperHolds, OwnedAreKept, Where, Handling, SupervisionRequests, OrNoGroup
    <2>3. /\ prog' \in [Groups -> {"none", "gated", "running", "left", "dead"}]
          /\ sentinel' \in [Groups -> {"none", "alive", "zombie"}]
          /\ killed' \subseteq Groups /\ lost' \subseteq Groups /\ stray' \in BOOLEAN
      BY DEF RunnerTypeOK, HelperHolds, Where, Handling, Held, OrNoGroup
    <2> QED
      BY <2>1, <2>2, <2>3, MaxGroupsAssumption DEF RunnerTypeOK, FaultIf, Fault
  <1>2. RunIsBooked'
    BY DEF RunnerTypeOK, Helpers, RunIsBooked, HelperHears
  <1>3. OwnedAreKept'
    BY DEF RunnerTypeOK, Helpers, Supervisors, OwnedAreKept, HelperHolds, GroupsAreKnown, RunIsBooked, Where, Handling, Alive
  <1>4. GroupsAreKnown'
    BY DEF RunnerTypeOK, Helpers, Supervisors, OwnedAreKept, HelperHolds, GroupsAreKnown, Where, Handling, Alive
  <1>5. HelperHolds'
    BY DEF RunnerTypeOK, Helpers, HelperHolds, HelperHears, Where, Handling
  <1>6. HelperHears'
    BY DEF RunnerTypeOK, Helpers, HelperHolds, HelperHears, Where, Handling, Exchanging
  <1>7. RequestsAreSound'
    BY DEF RunnerTypeOK, Helpers, RequestsAreSound, HelperHolds, HelperHears, RunIsBooked, Where, Handling, Exchanging
  <1>8. CommitIsClean'
    BY DEF RunnerTypeOK, Helpers, CommitIsClean, HelperHolds, HelperHears, RunIsBooked, Where, Handling, Alive
  <1>9. SuccessIsUnspoilt'
    BY DEF SuccessIsUnspoilt
  <1>10. EndIsNear'
    BY DEF EndIsNear, Settled, Stopping
  <1>11. NoStraySignal'
    BY DEF NoStraySignal
  <1> QED BY <1>1, <1>2, <1>3, <1>4, <1>5, <1>6, <1>7, <1>8, <1>9, <1>10, <1>11

\* The rollback ends with the retained group (terminate_retained_group).
LEMMA EndRollbackKeeps ==
  ASSUME RunnerInv, EndRollback
  PROVE  RunnerInv'
  <1> USE GroupsAssumption, SupervisionAssumption DEF RunnerInv, EndRollback, Running, service, helper, channel, system
  <1>1. RunnerTypeOK'
    <2>1. h' \in Helpers
      <3>1. PICK p \in {"exit", "term"}, s \in Statuses :
             h' = [h EXCEPT !.pc = p, !.cur = h.retained, !.last = TRUE, !.ok = TRUE, !.status = s]
        BY DEF RunnerTypeOK, Helpers, OrNoGroup, Statuses
      <3> QED BY <3>1 DEF RunnerTypeOK, Helpers, OrNoGroup, Statuses
    <2>2. msg' \in SupervisionRequests \cup {None} /\ ack' \in {"none", "ok", "cancelled", "refused"}
      BY DEF RunnerTypeOK, Helpers, HelperHolds, OwnedAreKept, Where, Handling, SupervisionRequests, OrNoGroup
    <2>3. /\ prog' \in [Groups -> {"none", "gated", "running", "left", "dead"}]
          /\ sentinel' \in [Groups -> {"none", "alive", "zombie"}]
          /\ killed' \subseteq Groups /\ lost' \subseteq Groups /\ stray' \in BOOLEAN
      BY DEF RunnerTypeOK, HelperHolds, Where, Handling, Held, OrNoGroup
    <2> QED
      BY <2>1, <2>2, <2>3, MaxGroupsAssumption DEF RunnerTypeOK, FaultIf, Fault
  <1>2. RunIsBooked'
    BY DEF RunnerTypeOK, Helpers, RunIsBooked, HelperHears
  <1>3. OwnedAreKept'
    BY DEF RunnerTypeOK, Helpers, Supervisors, OwnedAreKept, HelperHolds, GroupsAreKnown, RunIsBooked, Where, Handling, Alive
  <1>4. GroupsAreKnown'
    BY DEF RunnerTypeOK, Helpers, Supervisors, OwnedAreKept, HelperHolds, GroupsAreKnown, Where, Handling, Alive
  <1>5. HelperHolds'
    BY DEF RunnerTypeOK, Helpers, HelperHolds, HelperHears, Where, Handling, OwnedAreKept, OrNoGroup, Supervisors
  <1>6. HelperHears'
    BY DEF RunnerTypeOK, Helpers, HelperHolds, HelperHears, Where, Handling, Exchanging
  <1>7. RequestsAreSound'
    BY DEF RunnerTypeOK, Helpers, RequestsAreSound, HelperHolds, HelperHears, RunIsBooked, Where, Handling, Exchanging
  <1>8. CommitIsClean'
    BY DEF RunnerTypeOK, Helpers, CommitIsClean, HelperHolds, HelperHears, RunIsBooked, Where, Handling, Alive
  <1>9. SuccessIsUnspoilt'
    BY DEF SuccessIsUnspoilt
  <1>10. EndIsNear'
    BY DEF EndIsNear, Settled, Stopping
  <1>11. NoStraySignal'
    BY DEF NoStraySignal
  <1> QED BY <1>1, <1>2, <1>3, <1>4, <1>5, <1>6, <1>7, <1>8, <1>9, <1>10, <1>11

\* An operation other than up ends with success only without a program of its own.
LEMMA FinishKeeps ==
  ASSUME RunnerInv, Finish
  PROVE  RunnerInv'
  <1> USE GroupsAssumption, SupervisionAssumption DEF RunnerInv, Finish, Running, service, helper, channel, system
  <1>1. RunnerTypeOK'
    <2>1. h' \in Helpers
      <3>1. PICK s \in Statuses :
             h' = [h EXCEPT !.pc = "exit", !.last = TRUE, !.status = s]
        BY DEF RunnerTypeOK, Helpers, OrNoGroup, Statuses
      <3> QED BY <3>1 DEF RunnerTypeOK, Helpers, OrNoGroup, Statuses
    <2>2. msg' \in SupervisionRequests \cup {None} /\ ack' \in {"none", "ok", "cancelled", "refused"}
      BY DEF RunnerTypeOK, Helpers, HelperHolds, OwnedAreKept, Where, Handling, SupervisionRequests, OrNoGroup
    <2>3. /\ prog' \in [Groups -> {"none", "gated", "running", "left", "dead"}]
          /\ sentinel' \in [Groups -> {"none", "alive", "zombie"}]
          /\ killed' \subseteq Groups /\ lost' \subseteq Groups /\ stray' \in BOOLEAN
      BY DEF RunnerTypeOK, HelperHolds, Where, Handling, Held, OrNoGroup
    <2> QED
      BY <2>1, <2>2, <2>3, MaxGroupsAssumption DEF RunnerTypeOK, FaultIf, Fault
  <1>2. RunIsBooked'
    BY DEF RunnerTypeOK, Helpers, RunIsBooked, HelperHears
  <1>3. OwnedAreKept'
    BY DEF RunnerTypeOK, Helpers, Supervisors, OwnedAreKept, HelperHolds, GroupsAreKnown, RunIsBooked, Where, Handling, Alive
  <1>4. GroupsAreKnown'
    BY DEF RunnerTypeOK, Helpers, Supervisors, OwnedAreKept, HelperHolds, GroupsAreKnown, Where, Handling, Alive
  <1>5. HelperHolds'
    BY DEF RunnerTypeOK, Helpers, HelperHolds, HelperHears, Where, Handling
  <1>6. HelperHears'
    BY DEF RunnerTypeOK, Helpers, HelperHolds, HelperHears, Where, Handling, Exchanging
  <1>7. RequestsAreSound'
    BY DEF RunnerTypeOK, Helpers, RequestsAreSound, HelperHolds, HelperHears, RunIsBooked, Where, Handling, Exchanging
  <1>8. CommitIsClean'
    BY DEF RunnerTypeOK, Helpers, CommitIsClean, HelperHolds, HelperHears, RunIsBooked, Where, Handling, Alive
  <1>9. SuccessIsUnspoilt'
    BY DEF SuccessIsUnspoilt
  <1>10. EndIsNear'
    BY DEF EndIsNear, Settled, Stopping
  <1>11. NoStraySignal'
    BY DEF NoStraySignal
  <1> QED BY <1>1, <1>2, <1>3, <1>4, <1>5, <1>6, <1>7, <1>8, <1>9, <1>10, <1>11

\* The dispatched SIGKILL meets a number that is held (dispatch_termination).
LEMMA DispatchedKeeps ==
  ASSUME RunnerInv, Dispatched
  PROVE  RunnerInv'
  <1> USE GroupsAssumption, SupervisionAssumption DEF RunnerInv, Dispatched, KillGroups, Acknowledged, CloseUnless, FaultIf, Fault, Running, service, helper, channel, system
  <1>1. RunnerTypeOK'
    <2>1. h' \in Helpers
      <3>1. PICK o \in BOOLEAN : h' = [h EXCEPT !.pc = h.ret, !.target = None, !.open = o]
        BY DEF RunnerTypeOK, Helpers
      <3> QED BY <3>1 DEF RunnerTypeOK, Helpers, OrNoGroup
    <2>2. h.target \in Groups
      BY DEF RunnerTypeOK, Helpers, HelperHolds, OrNoGroup
    <2>3. sentinel' \in [Groups -> {"none", "alive", "zombie"}] /\ killed' \subseteq Groups /\ stray' \in BOOLEAN
      BY <2>2 DEF RunnerTypeOK
    <2> QED
      BY <2>1, <2>3, MaxGroupsAssumption DEF RunnerTypeOK
  <1>2. RunIsBooked'
    BY DEF RunnerTypeOK, Helpers, RunIsBooked, HelperHears
  <1>3. OwnedAreKept'
    BY DEF RunnerTypeOK, Helpers, Supervisors, OwnedAreKept, HelperHolds, GroupsAreKnown, RunIsBooked, Where, Handling, Alive
  <1>4. GroupsAreKnown'
    BY DEF RunnerTypeOK, Helpers, Supervisors, OwnedAreKept, HelperHolds, GroupsAreKnown, Where, Handling, Alive
  <1>5. HelperHolds'
    BY DEF RunnerTypeOK, Helpers, HelperHolds, HelperHears, Where, Handling
  <1>6. HelperHears'
    BY DEF RunnerTypeOK, Helpers, HelperHolds, HelperHears, Where, Handling, Exchanging
  <1>7. RequestsAreSound'
    BY DEF RunnerTypeOK, Helpers, RequestsAreSound, HelperHolds, HelperHears, RunIsBooked, Where, Handling, Exchanging
  <1>8. CommitIsClean'
    BY DEF RunnerTypeOK, Helpers, CommitIsClean, HelperHolds, HelperHears, RunIsBooked, Where, Handling, Alive
  <1>9. SuccessIsUnspoilt'
    BY DEF SuccessIsUnspoilt
  <1>10. EndIsNear'
    BY DEF EndIsNear, Settled, Stopping
  <1>11. NoStraySignal'
    BY DEF NoStraySignal, HelperHolds, OwnedAreKept, RunIsBooked, Held, Where, RunnerTypeOK
  <1> QED BY <1>1, <1>2, <1>3, <1>4, <1>5, <1>6, <1>7, <1>8, <1>9, <1>10, <1>11

\* A committed activation has let its group go and is about to exit (commit_operation).
LEMMA CommitKeeps ==
  ASSUME RunnerInv, Commit
  PROVE  RunnerInv'
  <1> USE GroupsAssumption, SupervisionAssumption DEF RunnerInv, Commit, Running, service, helper, channel, system
  <1>1. RunnerTypeOK'
    <2>1. h' \in Helpers
      BY DEF RunnerTypeOK, Helpers, OrNoGroup, Statuses
    <2>2. msg' \in SupervisionRequests \cup {None} /\ ack' \in {"none", "ok", "cancelled", "refused"}
      BY DEF RunnerTypeOK, Helpers, HelperHolds, OwnedAreKept, Where, Handling, SupervisionRequests, OrNoGroup
    <2>3. /\ prog' \in [Groups -> {"none", "gated", "running", "left", "dead"}]
          /\ sentinel' \in [Groups -> {"none", "alive", "zombie"}]
          /\ killed' \subseteq Groups /\ lost' \subseteq Groups /\ stray' \in BOOLEAN
      BY DEF RunnerTypeOK, HelperHolds, Where, Handling, Held, OrNoGroup
    <2> QED
      BY <2>1, <2>2, <2>3, MaxGroupsAssumption DEF RunnerTypeOK, FaultIf, Fault
  <1>2. RunIsBooked'
    BY DEF RunnerTypeOK, Helpers, RunIsBooked, HelperHears
  <1>3. OwnedAreKept'
    BY DEF RunnerTypeOK, Helpers, Supervisors, OwnedAreKept, HelperHolds, GroupsAreKnown, RunIsBooked, Where, Handling, Alive
  <1>4. GroupsAreKnown'
    BY DEF RunnerTypeOK, Helpers, Supervisors, OwnedAreKept, HelperHolds, GroupsAreKnown, Where, Handling, Alive
  <1>5. HelperHolds'
    BY DEF RunnerTypeOK, Helpers, HelperHolds, HelperHears, Where, Handling
  <1>6. HelperHears'
    BY DEF RunnerTypeOK, Helpers, HelperHolds, HelperHears, Where, Handling, Exchanging
  <1>7. RequestsAreSound'
    <2>1. h'.pc = "exit" /\ h'.retained = None /\ h'.active = h.active
      BY DEF RunnerTypeOK, Helpers
    <2>2. msg # None /\ ~sup.closed => msg.type # "RELEASE"
      BY DEF RequestsAreSound, CommitIsClean
    <2> QED
      BY <2>1, <2>2 DEF RunnerTypeOK, RequestsAreSound, HelperHears, Exchanging, SupervisionRequests
  <1>8. CommitIsClean'
    <2>1. /\ h'.pc = "exit" /\ h'.retained = None /\ h'.committed /\ h'.status = "success"
          /\ h'.cleanup = h.cleanup /\ h'.level = h.level /\ h'.cur = h.cur
      BY DEF RunnerTypeOK, Helpers
    <2>2. \A g \in Groups : (Alive(g) <=> Alive(g)') /\ (prog'[g] \in {"gated", "running"} => prog[g] = prog'[g])
      BY DEF RunnerTypeOK, Alive
    <2>3. ~h.cleanup /\ job.op = "up" /\ h.level = 0
      BY DEF CommitIsClean
    <2>4. sup.pend # None => sup.pend = h.retained
      BY <2>3 DEF CommitIsClean
    <2>5. sup.pend \in killed => sup.pend \notin Groups \/ sup.cleanup
      BY <2>3, <2>4 DEF CommitIsClean
    <2> QED
      BY <2>1, <2>2, <2>3, <2>4, <2>5 DEF RunnerTypeOK, Supervisors, CommitIsClean, Where
  <1>9. SuccessIsUnspoilt'
    BY DEF SuccessIsUnspoilt
  <1>10. EndIsNear'
    BY DEF EndIsNear, Settled, Stopping
  <1>11. NoStraySignal'
    BY DEF NoStraySignal
  <1> QED BY <1>1, <1>2, <1>3, <1>4, <1>5, <1>6, <1>7, <1>8, <1>9, <1>10, <1>11

\* A withdrawn release leaves nothing to be read (commit_operation).
LEMMA WithdrawnKeeps ==
  ASSUME RunnerInv, Withdrawn
  PROVE  RunnerInv'
  <1> USE GroupsAssumption, SupervisionAssumption DEF RunnerInv, Withdrawn, Acknowledged, CloseUnless, FaultIf, Fault, Running, service, helper, channel, system
  <1>1. RunnerTypeOK'
    <2>1. h' \in Helpers
      <3>1. PICK o \in BOOLEAN :
             h' = [h EXCEPT !.pc = "work", !.open = o]
        BY DEF RunnerTypeOK, Helpers, OrNoGroup, Acknowledged, CloseUnless
      <3> QED BY <3>1 DEF RunnerTypeOK, Helpers, OrNoGroup, Statuses
    <2>2. msg' \in SupervisionRequests \cup {None} /\ ack' \in {"none", "ok", "cancelled", "refused"}
      BY DEF RunnerTypeOK, Helpers, HelperHolds, OwnedAreKept, Where, Handling, SupervisionRequests, OrNoGroup
    <2>3. /\ prog' \in [Groups -> {"none", "gated", "running", "left", "dead"}]
          /\ sentinel' \in [Groups -> {"none", "alive", "zombie"}]
          /\ killed' \subseteq Groups /\ lost' \subseteq Groups /\ stray' \in BOOLEAN
      BY DEF RunnerTypeOK, HelperHolds, Where, Handling, Held, OrNoGroup
    <2> QED
      BY <2>1, <2>2, <2>3, MaxGroupsAssumption DEF RunnerTypeOK, FaultIf, Fault
  <1>2. RunIsBooked'
    BY DEF RunnerTypeOK, Helpers, RunIsBooked, HelperHears
  <1>3. OwnedAreKept'
    BY DEF RunnerTypeOK, Helpers, Supervisors, OwnedAreKept, HelperHolds, GroupsAreKnown, RunIsBooked, Where, Handling, Alive
  <1>4. GroupsAreKnown'
    BY DEF RunnerTypeOK, Helpers, Supervisors, OwnedAreKept, HelperHolds, GroupsAreKnown, Where, Handling, Alive
  <1>5. HelperHolds'
    BY DEF RunnerTypeOK, Helpers, HelperHolds, HelperHears, Where, Handling
  <1>6. HelperHears'
    BY DEF RunnerTypeOK, Helpers, HelperHolds, HelperHears, Where, Handling, Exchanging
  <1>7. RequestsAreSound'
    BY DEF RunnerTypeOK, Helpers, RequestsAreSound, HelperHolds, HelperHears, RunIsBooked, Where, Handling, Exchanging
  <1>8. CommitIsClean'
    BY DEF RunnerTypeOK, Helpers, CommitIsClean, HelperHolds, HelperHears, RunIsBooked, Where, Handling, Alive
  <1>9. SuccessIsUnspoilt'
    BY DEF SuccessIsUnspoilt
  <1>10. EndIsNear'
    BY DEF EndIsNear, Settled, Stopping
  <1>11. NoStraySignal'
    BY DEF NoStraySignal
  <1> QED BY <1>1, <1>2, <1>3, <1>4, <1>5, <1>6, <1>7, <1>8, <1>9, <1>10, <1>11

\* A late signal is dispatched to a registered group only (dispatch_termination).
LEMMA DispatchKeeps ==
  ASSUME RunnerInv, Dispatch
  PROVE  RunnerInv'
  <1> USE GroupsAssumption, SupervisionAssumption DEF RunnerInv, Running, service, helper, channel, system
  <1>0. Running /\ h.pc \in {"work", "wait", "reap"} /\ h.level = 2 /\ UNCHANGED <<service, hp, system, faults, runs, clock>>
    BY DEF Dispatch
  <1>1. ASSUME /\ h.active # None
               /\ h' = [h EXCEPT !.pc = "dispatch", !.ret = h.pc, !.target = h.active, !.asent = TRUE]
               /\ Send("TERMINATING", h.active)
       PROVE  RunnerInv'
    <2> USE <1>0, <1>1 DEF Send
    <2>1. RunnerTypeOK'
      <3>1. h' \in Helpers
        BY DEF RunnerTypeOK, Helpers, OrNoGroup, Statuses
      <3>2. msg' \in SupervisionRequests \cup {None} /\ ack' \in {"none", "ok", "cancelled", "refused"}
        BY DEF RunnerTypeOK, Helpers, HelperHolds, OwnedAreKept, Where, Handling, SupervisionRequests, OrNoGroup
      <3>3. /\ prog' \in [Groups -> {"none", "gated", "running", "left", "dead"}]
            /\ sentinel' \in [Groups -> {"none", "alive", "zombie"}]
            /\ killed' \subseteq Groups /\ lost' \subseteq Groups /\ stray' \in BOOLEAN
        BY DEF RunnerTypeOK, HelperHolds, Where, Handling, Held, OrNoGroup
      <3> QED
        BY <3>1, <3>2, <3>3, MaxGroupsAssumption DEF RunnerTypeOK, FaultIf, Fault
    <2>2. RunIsBooked'
      BY DEF RunnerTypeOK, Helpers, RunIsBooked, HelperHears
    <2>3. OwnedAreKept'
      BY DEF RunnerTypeOK, Helpers, Supervisors, OwnedAreKept, HelperHolds, GroupsAreKnown, RunIsBooked, Where, Handling, Alive
    <2>4. GroupsAreKnown'
      BY DEF RunnerTypeOK, Helpers, Supervisors, OwnedAreKept, HelperHolds, GroupsAreKnown, Where, Handling, Alive
    <2>5. HelperHolds'
      BY DEF RunnerTypeOK, Helpers, HelperHolds, HelperHears, Where, Handling
    <2>6. HelperHears'
      BY DEF RunnerTypeOK, Helpers, HelperHolds, HelperHears, Where, Handling, Exchanging
    <2>7. RequestsAreSound'
      BY DEF RunnerTypeOK, Helpers, RequestsAreSound, HelperHolds, HelperHears, RunIsBooked, Where, Handling, Exchanging
    <2>8. CommitIsClean'
      BY DEF RunnerTypeOK, Helpers, CommitIsClean, HelperHolds, HelperHears, RunIsBooked, Where, Handling, Alive
    <2>9. SuccessIsUnspoilt'
      BY DEF SuccessIsUnspoilt
    <2>10. EndIsNear'
      BY DEF EndIsNear, Settled, Stopping
    <2>11. NoStraySignal'
      BY DEF NoStraySignal
    <2> QED BY <2>1, <2>2, <2>3, <2>4, <2>5, <2>6, <2>7, <2>8, <2>9, <2>10, <2>11
  <1>2. ASSUME /\ h.retained # None
               /\ h' = [h EXCEPT !.pc = "dispatch", !.ret = h.pc, !.target = h.retained, !.rsent = TRUE]
               /\ Send("TERMINATING", h.retained)
       PROVE  RunnerInv'
    <2> USE <1>0, <1>2 DEF Send
    <2>1. RunnerTypeOK'
      <3>1. h' \in Helpers
        BY DEF RunnerTypeOK, Helpers, OrNoGroup, Statuses
      <3>2. msg' \in SupervisionRequests \cup {None} /\ ack' \in {"none", "ok", "cancelled", "refused"}
        BY DEF RunnerTypeOK, Helpers, HelperHolds, OwnedAreKept, Where, Handling, SupervisionRequests, OrNoGroup
      <3>3. /\ prog' \in [Groups -> {"none", "gated", "running", "left", "dead"}]
            /\ sentinel' \in [Groups -> {"none", "alive", "zombie"}]
            /\ killed' \subseteq Groups /\ lost' \subseteq Groups /\ stray' \in BOOLEAN
        BY DEF RunnerTypeOK, HelperHolds, Where, Handling, Held, OrNoGroup
      <3> QED
        BY <3>1, <3>2, <3>3, MaxGroupsAssumption DEF RunnerTypeOK, FaultIf, Fault
    <2>2. RunIsBooked'
      BY DEF RunnerTypeOK, Helpers, RunIsBooked, HelperHears
    <2>3. OwnedAreKept'
      BY DEF RunnerTypeOK, Helpers, Supervisors, OwnedAreKept, HelperHolds, GroupsAreKnown, RunIsBooked, Where, Handling, Alive
    <2>4. GroupsAreKnown'
      BY DEF RunnerTypeOK, Helpers, Supervisors, OwnedAreKept, HelperHolds, GroupsAreKnown, Where, Handling, Alive
    <2>5. HelperHolds'
      BY DEF RunnerTypeOK, Helpers, HelperHolds, HelperHears, Where, Handling
    <2>6. HelperHears'
      BY DEF RunnerTypeOK, Helpers, HelperHolds, HelperHears, Where, Handling, Exchanging
    <2>7. RequestsAreSound'
      BY DEF RunnerTypeOK, Helpers, RequestsAreSound, HelperHolds, HelperHears, RunIsBooked, Where, Handling, Exchanging
    <2>8. CommitIsClean'
      BY DEF RunnerTypeOK, Helpers, CommitIsClean, HelperHolds, HelperHears, RunIsBooked, Where, Handling, Alive
    <2>9. SuccessIsUnspoilt'
      BY DEF SuccessIsUnspoilt
    <2>10. EndIsNear'
      BY DEF EndIsNear, Settled, Stopping
    <2>11. NoStraySignal'
      BY DEF NoStraySignal
    <2> QED BY <2>1, <2>2, <2>3, <2>4, <2>5, <2>6, <2>7, <2>8, <2>9, <2>10, <2>11
  <1> QED BY <1>1, <1>2 DEF Dispatch

\* A release is asked for by an activation that nobody cancelled (release_retained_group).
LEMMA ReleaseRetainedKeeps ==
  ASSUME RunnerInv, ReleaseRetained
  PROVE  RunnerInv'
  <1> USE GroupsAssumption, SupervisionAssumption DEF RunnerInv, Running, service, helper, channel, system
  <1>0. Running /\ h.pc = "work" /\ ~h.cleanup /\ job.op = "up" /\ UNCHANGED <<service, hp, system, faults, runs, clock>>
    BY DEF ReleaseRetained
  <1>1. ASSUME h' = [h EXCEPT !.cleanup = TRUE] /\ UNCHANGED channel
       PROVE  RunnerInv'
    <2> USE <1>0, <1>1
    <2>1. RunnerTypeOK'
      <3>1. h' \in Helpers
        BY DEF RunnerTypeOK, Helpers, OrNoGroup, Statuses
      <3>2. msg' \in SupervisionRequests \cup {None} /\ ack' \in {"none", "ok", "cancelled", "refused"}
        BY DEF RunnerTypeOK, Helpers, HelperHolds, OwnedAreKept, Where, Handling, SupervisionRequests, OrNoGroup
      <3>3. /\ prog' \in [Groups -> {"none", "gated", "running", "left", "dead"}]
            /\ sentinel' \in [Groups -> {"none", "alive", "zombie"}]
            /\ killed' \subseteq Groups /\ lost' \subseteq Groups /\ stray' \in BOOLEAN
        BY DEF RunnerTypeOK, HelperHolds, Where, Handling, Held, OrNoGroup
      <3> QED
        BY <3>1, <3>2, <3>3, MaxGroupsAssumption DEF RunnerTypeOK, FaultIf, Fault
    <2>2. RunIsBooked'
      BY DEF RunnerTypeOK, Helpers, RunIsBooked, HelperHears
    <2>3. OwnedAreKept'
      BY DEF RunnerTypeOK, Helpers, Supervisors, OwnedAreKept, HelperHolds, GroupsAreKnown, RunIsBooked, Where, Handling, Alive
    <2>4. GroupsAreKnown'
      BY DEF RunnerTypeOK, Helpers, Supervisors, OwnedAreKept, HelperHolds, GroupsAreKnown, Where, Handling, Alive
    <2>5. HelperHolds'
      BY DEF RunnerTypeOK, Helpers, HelperHolds, HelperHears, Where, Handling
    <2>6. HelperHears'
      BY DEF RunnerTypeOK, Helpers, HelperHolds, HelperHears, Where, Handling, Exchanging
    <2>7. RequestsAreSound'
      BY DEF RunnerTypeOK, Helpers, RequestsAreSound, HelperHolds, HelperHears, RunIsBooked, Where, Handling, Exchanging
    <2>8. CommitIsClean'
      BY DEF RunnerTypeOK, Helpers, CommitIsClean, HelperHolds, HelperHears, RunIsBooked, Where, Handling, Alive
    <2>9. SuccessIsUnspoilt'
      BY DEF SuccessIsUnspoilt
    <2>10. EndIsNear'
      BY DEF EndIsNear, Settled, Stopping
    <2>11. NoStraySignal'
      BY DEF NoStraySignal
    <2> QED BY <2>1, <2>2, <2>3, <2>4, <2>5, <2>6, <2>7, <2>8, <2>9, <2>10, <2>11
  <1>2. ASSUME h.retained = None /\ h' = [h EXCEPT !.pc = "commit"] /\ UNCHANGED channel
       PROVE  RunnerInv'
    <2> USE <1>0, <1>2
    <2>1. RunnerTypeOK'
      <3>1. h' \in Helpers
        BY DEF RunnerTypeOK, Helpers, OrNoGroup, Statuses
      <3>2. msg' \in SupervisionRequests \cup {None} /\ ack' \in {"none", "ok", "cancelled", "refused"}
        BY DEF RunnerTypeOK, Helpers, HelperHolds, OwnedAreKept, Where, Handling, SupervisionRequests, OrNoGroup
      <3>3. /\ prog' \in [Groups -> {"none", "gated", "running", "left", "dead"}]
            /\ sentinel' \in [Groups -> {"none", "alive", "zombie"}]
            /\ killed' \subseteq Groups /\ lost' \subseteq Groups /\ stray' \in BOOLEAN
        BY DEF RunnerTypeOK, HelperHolds, Where, Handling, Held, OrNoGroup
      <3> QED
        BY <3>1, <3>2, <3>3, MaxGroupsAssumption DEF RunnerTypeOK, FaultIf, Fault
    <2>2. RunIsBooked'
      BY DEF RunnerTypeOK, Helpers, RunIsBooked, HelperHears
    <2>3. OwnedAreKept'
      BY DEF RunnerTypeOK, Helpers, Supervisors, OwnedAreKept, HelperHolds, GroupsAreKnown, RunIsBooked, Where, Handling, Alive
    <2>4. GroupsAreKnown'
      BY DEF RunnerTypeOK, Helpers, Supervisors, OwnedAreKept, HelperHolds, GroupsAreKnown, Where, Handling, Alive
    <2>5. HelperHolds'
      BY DEF RunnerTypeOK, Helpers, HelperHolds, HelperHears, Where, Handling
    <2>6. HelperHears'
      BY DEF RunnerTypeOK, Helpers, HelperHolds, HelperHears, Where, Handling, Exchanging
    <2>7. RequestsAreSound'
      BY DEF RunnerTypeOK, Helpers, RequestsAreSound, HelperHolds, HelperHears, RunIsBooked, Where, Handling, Exchanging
    <2>8. CommitIsClean'
      BY DEF RunnerTypeOK, Helpers, CommitIsClean, HelperHolds, HelperHears, RunIsBooked, Where, Handling, Alive
    <2>9. SuccessIsUnspoilt'
      BY DEF SuccessIsUnspoilt
    <2>10. EndIsNear'
      BY DEF EndIsNear, Settled, Stopping
    <2>11. NoStraySignal'
      BY DEF NoStraySignal
    <2> QED BY <2>1, <2>2, <2>3, <2>4, <2>5, <2>6, <2>7, <2>8, <2>9, <2>10, <2>11
  <1>3. ASSUME h.retained # None /\ h' = [h EXCEPT !.pc = "release"] /\ Send("RELEASE", h.retained)
       PROVE  RunnerInv'
    <2> USE <1>0, <1>3 DEF Send
    <2>1. RunnerTypeOK'
      <3>1. h' \in Helpers
        BY DEF RunnerTypeOK, Helpers, OrNoGroup, Statuses
      <3>2. msg' \in SupervisionRequests \cup {None} /\ ack' \in {"none", "ok", "cancelled", "refused"}
        BY DEF RunnerTypeOK, Helpers, HelperHolds, OwnedAreKept, Where, Handling, SupervisionRequests, OrNoGroup
      <3>3. /\ prog' \in [Groups -> {"none", "gated", "running", "left", "dead"}]
            /\ sentinel' \in [Groups -> {"none", "alive", "zombie"}]
            /\ killed' \subseteq Groups /\ lost' \subseteq Groups /\ stray' \in BOOLEAN
        BY DEF RunnerTypeOK, HelperHolds, Where, Handling, Held, OrNoGroup
      <3> QED
        BY <3>1, <3>2, <3>3, MaxGroupsAssumption DEF RunnerTypeOK, FaultIf, Fault
    <2>2. RunIsBooked'
      BY DEF RunnerTypeOK, Helpers, RunIsBooked, HelperHears
    <2>3. OwnedAreKept'
      BY DEF RunnerTypeOK, Helpers, Supervisors, OwnedAreKept, HelperHolds, GroupsAreKnown, RunIsBooked, Where, Handling, Alive
    <2>4. GroupsAreKnown'
      BY DEF RunnerTypeOK, Helpers, Supervisors, OwnedAreKept, HelperHolds, GroupsAreKnown, Where, Handling, Alive
    <2>5. HelperHolds'
      BY DEF RunnerTypeOK, Helpers, HelperHolds, HelperHears, Where, Handling
    <2>6. HelperHears'
      BY DEF RunnerTypeOK, Helpers, HelperHolds, HelperHears, Where, Handling, Exchanging
    <2>7. RequestsAreSound'
      BY DEF RunnerTypeOK, Helpers, RequestsAreSound, HelperHolds, HelperHears, RunIsBooked, Where, Handling, Exchanging, CommitIsClean
    <2>8. CommitIsClean'
      BY DEF RunnerTypeOK, Helpers, CommitIsClean, HelperHolds, HelperHears, RunIsBooked, Where, Handling, Alive
    <2>9. SuccessIsUnspoilt'
      BY DEF SuccessIsUnspoilt
    <2>10. EndIsNear'
      BY DEF EndIsNear, Settled, Stopping
    <2>11. NoStraySignal'
      BY DEF NoStraySignal
    <2> QED BY <2>1, <2>2, <2>3, <2>4, <2>5, <2>6, <2>7, <2>8, <2>9, <2>10, <2>11
  <1> QED BY <1>1, <1>2, <1>3 DEF ReleaseRetained

\* The commit begins only after the service granted the release (release_retained_group).
LEMMA ReleasedKeeps ==
  ASSUME RunnerInv, Released
  PROVE  RunnerInv'
  <1> USE GroupsAssumption, SupervisionAssumption DEF RunnerInv, Running, service, helper, channel, system
  <1>0. Running /\ h.pc = "release" /\ ack' = "none" /\ FaultIf(TimedOut)
       /\ UNCHANGED <<service, hp, msg, system, runs, clock>>
    BY DEF Released
  <1>1. ASSUME Acknowledged /\ h' = [h EXCEPT !.pc = "commit"]
       PROVE  RunnerInv'
    <2> USE <1>0, <1>1 DEF Acknowledged
    <2>1. RunnerTypeOK'
      <3>1. h' \in Helpers
        BY DEF RunnerTypeOK, Helpers, OrNoGroup, Statuses
      <3>2. msg' \in SupervisionRequests \cup {None} /\ ack' \in {"none", "ok", "cancelled", "refused"}
        BY DEF RunnerTypeOK, Helpers, HelperHolds, OwnedAreKept, Where, Handling, SupervisionRequests, OrNoGroup
      <3>3. /\ prog' \in [Groups -> {"none", "gated", "running", "left", "dead"}]
            /\ sentinel' \in [Groups -> {"none", "alive", "zombie"}]
            /\ killed' \subseteq Groups /\ lost' \subseteq Groups /\ stray' \in BOOLEAN
        BY DEF RunnerTypeOK, HelperHolds, Where, Handling, Held, OrNoGroup
      <3> QED
        BY <3>1, <3>2, <3>3, MaxGroupsAssumption DEF RunnerTypeOK, FaultIf, Fault
    <2>2. RunIsBooked'
      BY DEF RunnerTypeOK, Helpers, RunIsBooked, HelperHears
    <2>3. OwnedAreKept'
      BY DEF RunnerTypeOK, Helpers, Supervisors, OwnedAreKept, HelperHolds, GroupsAreKnown, RunIsBooked, Where, Handling, Alive
    <2>4. GroupsAreKnown'
      BY DEF RunnerTypeOK, Helpers, Supervisors, OwnedAreKept, HelperHolds, GroupsAreKnown, Where, Handling, Alive
    <2>5. HelperHolds'
      BY DEF RunnerTypeOK, Helpers, HelperHolds, HelperHears, Where, Handling
    <2>6. HelperHears'
      BY DEF RunnerTypeOK, Helpers, HelperHolds, HelperHears, Where, Handling, Exchanging
    <2>7. RequestsAreSound'
      BY DEF RunnerTypeOK, Helpers, RequestsAreSound, HelperHolds, HelperHears, RunIsBooked, Where, Handling, Exchanging
    <2>8. CommitIsClean'
      BY DEF RunnerTypeOK, Helpers, CommitIsClean, HelperHolds, HelperHears, RunIsBooked, Where, Handling, Alive
    <2>9. SuccessIsUnspoilt'
      BY DEF SuccessIsUnspoilt
    <2>10. EndIsNear'
      BY DEF EndIsNear, Settled, Stopping
    <2>11. NoStraySignal'
      BY DEF NoStraySignal
    <2> QED BY <2>1, <2>2, <2>3, <2>4, <2>5, <2>6, <2>7, <2>8, <2>9, <2>10, <2>11
  <1>2. ASSUME /\ ~Acknowledged
               /\ h' = [h EXCEPT !.pc = "work", !.cleanup = TRUE, !.open = CloseUnless(ack = "cancelled")]
       PROVE  RunnerInv'
    <2> USE <1>0, <1>2 DEF Acknowledged, CloseUnless
    <2>1. RunnerTypeOK'
      <3>1. h' \in Helpers
        <4>1. PICK o \in BOOLEAN :
               h' = [h EXCEPT !.pc = "work", !.cleanup = TRUE, !.open = o]
          BY DEF RunnerTypeOK, Helpers, OrNoGroup, Statuses
        <4> QED BY <4>1 DEF RunnerTypeOK, Helpers, OrNoGroup, Statuses
      <3>2. msg' \in SupervisionRequests \cup {None} /\ ack' \in {"none", "ok", "cancelled", "refused"}
        BY DEF RunnerTypeOK, Helpers, HelperHolds, OwnedAreKept, Where, Handling, SupervisionRequests, OrNoGroup
      <3>3. /\ prog' \in [Groups -> {"none", "gated", "running", "left", "dead"}]
            /\ sentinel' \in [Groups -> {"none", "alive", "zombie"}]
            /\ killed' \subseteq Groups /\ lost' \subseteq Groups /\ stray' \in BOOLEAN
        BY DEF RunnerTypeOK, HelperHolds, Where, Handling, Held, OrNoGroup
      <3> QED
        BY <3>1, <3>2, <3>3, MaxGroupsAssumption DEF RunnerTypeOK, FaultIf, Fault
    <2>2. RunIsBooked'
      BY DEF RunnerTypeOK, Helpers, RunIsBooked, HelperHears
    <2>3. OwnedAreKept'
      BY DEF RunnerTypeOK, Helpers, Supervisors, OwnedAreKept, HelperHolds, GroupsAreKnown, RunIsBooked, Where, Handling, Alive
    <2>4. GroupsAreKnown'
      BY DEF RunnerTypeOK, Helpers, Supervisors, OwnedAreKept, HelperHolds, GroupsAreKnown, Where, Handling, Alive
    <2>5. HelperHolds'
      BY DEF RunnerTypeOK, Helpers, HelperHolds, HelperHears, Where, Handling
    <2>6. HelperHears'
      BY DEF RunnerTypeOK, Helpers, HelperHolds, HelperHears, Where, Handling, Exchanging
    <2>7. RequestsAreSound'
      BY DEF RunnerTypeOK, Helpers, RequestsAreSound, HelperHolds, HelperHears, RunIsBooked, Where, Handling, Exchanging
    <2>8. CommitIsClean'
      BY DEF RunnerTypeOK, Helpers, CommitIsClean, HelperHolds, HelperHears, RunIsBooked, Where, Handling, Alive
    <2>9. SuccessIsUnspoilt'
      BY DEF SuccessIsUnspoilt
    <2>10. EndIsNear'
      BY DEF EndIsNear, Settled, Stopping
    <2>11. NoStraySignal'
      BY DEF NoStraySignal
    <2> QED BY <2>1, <2>2, <2>3, <2>4, <2>5, <2>6, <2>7, <2>8, <2>9, <2>10, <2>11
  <1> QED BY <1>1, <1>2 DEF Released

\* The compare-and-swap comes after no signal, and a release that is not committed is
\* withdrawn (commit_operation).
LEMMA CommitOperationKeeps ==
  ASSUME RunnerInv, CommitOperation
  PROVE  RunnerInv'
  <1> USE GroupsAssumption, SupervisionAssumption DEF RunnerInv, Running, service, helper, channel, system
  <1>0. Running /\ h.pc = "commit" /\ UNCHANGED <<service, hp, system, faults, runs, clock>>
    BY DEF CommitOperation
  <1>1. ASSUME h.level = 0 /\ h' = [h EXCEPT !.pc = "cas"] /\ UNCHANGED channel
       PROVE  RunnerInv'
    <2> USE <1>0, <1>1
    <2>1. RunnerTypeOK'
      <3>1. h' \in Helpers
        BY DEF RunnerTypeOK, Helpers, OrNoGroup, Statuses
      <3>2. msg' \in SupervisionRequests \cup {None} /\ ack' \in {"none", "ok", "cancelled", "refused"}
        BY DEF RunnerTypeOK, Helpers, HelperHolds, OwnedAreKept, Where, Handling, SupervisionRequests, OrNoGroup
      <3>3. /\ prog' \in [Groups -> {"none", "gated", "running", "left", "dead"}]
            /\ sentinel' \in [Groups -> {"none", "alive", "zombie"}]
            /\ killed' \subseteq Groups /\ lost' \subseteq Groups /\ stray' \in BOOLEAN
        BY DEF RunnerTypeOK, HelperHolds, Where, Handling, Held, OrNoGroup
      <3> QED
        BY <3>1, <3>2, <3>3, MaxGroupsAssumption DEF RunnerTypeOK, FaultIf, Fault
    <2>2. RunIsBooked'
      BY DEF RunnerTypeOK, Helpers, RunIsBooked, HelperHears
    <2>3. OwnedAreKept'
      BY DEF RunnerTypeOK, Helpers, Supervisors, OwnedAreKept, HelperHolds, GroupsAreKnown, RunIsBooked, Where, Handling, Alive
    <2>4. GroupsAreKnown'
      BY DEF RunnerTypeOK, Helpers, Supervisors, OwnedAreKept, HelperHolds, GroupsAreKnown, Where, Handling, Alive
    <2>5. HelperHolds'
      BY DEF RunnerTypeOK, Helpers, HelperHolds, HelperHears, Where, Handling
    <2>6. HelperHears'
      BY DEF RunnerTypeOK, Helpers, HelperHolds, HelperHears, Where, Handling, Exchanging
    <2>7. RequestsAreSound'
      BY DEF RunnerTypeOK, Helpers, RequestsAreSound, HelperHolds, HelperHears, RunIsBooked, Where, Handling, Exchanging
    <2>8. CommitIsClean'
      BY DEF RunnerTypeOK, Helpers, CommitIsClean, HelperHolds, HelperHears, RunIsBooked, Where, Handling, Alive
    <2>9. SuccessIsUnspoilt'
      BY DEF SuccessIsUnspoilt
    <2>10. EndIsNear'
      BY DEF EndIsNear, Settled, Stopping
    <2>11. NoStraySignal'
      BY DEF NoStraySignal
    <2> QED BY <2>1, <2>2, <2>3, <2>4, <2>5, <2>6, <2>7, <2>8, <2>9, <2>10, <2>11
  <1>2. ASSUME h.retained = None /\ h' = [h EXCEPT !.pc = "work", !.cleanup = TRUE] /\ UNCHANGED channel
       PROVE  RunnerInv'
    <2> USE <1>0, <1>2
    <2>1. RunnerTypeOK'
      <3>1. h' \in Helpers
        BY ZenonT(30) DEF RunnerTypeOK, Helpers, OrNoGroup, Statuses
      <3>2. msg' \in SupervisionRequests \cup {None} /\ ack' \in {"none", "ok", "cancelled", "refused"}
        BY DEF RunnerTypeOK, Helpers, HelperHolds, OwnedAreKept, Where, Handling, SupervisionRequests, OrNoGroup
      <3>3. /\ prog' \in [Groups -> {"none", "gated", "running", "left", "dead"}]
            /\ sentinel' \in [Groups -> {"none", "alive", "zombie"}]
            /\ killed' \subseteq Groups /\ lost' \subseteq Groups /\ stray' \in BOOLEAN
        BY DEF RunnerTypeOK, HelperHolds, Where, Handling, Held, OrNoGroup
      <3> QED
        BY <3>1, <3>2, <3>3, MaxGroupsAssumption DEF RunnerTypeOK, FaultIf, Fault
    <2>2. RunIsBooked'
      BY DEF RunnerTypeOK, Helpers, RunIsBooked, HelperHears
    <2>3. OwnedAreKept'
      BY DEF RunnerTypeOK, Helpers, Supervisors, OwnedAreKept, HelperHolds, GroupsAreKnown, RunIsBooked, Where, Handling, Alive
    <2>4. GroupsAreKnown'
      BY DEF RunnerTypeOK, Helpers, Supervisors, OwnedAreKept, HelperHolds, GroupsAreKnown, Where, Handling, Alive
    <2>5. HelperHolds'
      BY DEF RunnerTypeOK, Helpers, HelperHolds, HelperHears, Where, Handling
    <2>6. HelperHears'
      BY DEF RunnerTypeOK, Helpers, HelperHolds, HelperHears, Where, Handling, Exchanging
    <2>7. RequestsAreSound'
      BY DEF RunnerTypeOK, Helpers, RequestsAreSound, HelperHolds, HelperHears, RunIsBooked, Where, Handling, Exchanging
    <2>8. CommitIsClean'
      BY DEF RunnerTypeOK, Helpers, CommitIsClean, HelperHolds, HelperHears, RunIsBooked, Where, Handling, Alive
    <2>9. SuccessIsUnspoilt'
      BY DEF SuccessIsUnspoilt
    <2>10. EndIsNear'
      BY DEF EndIsNear, Settled, Stopping
    <2>11. NoStraySignal'
      BY DEF NoStraySignal
    <2> QED BY <2>1, <2>2, <2>3, <2>4, <2>5, <2>6, <2>7, <2>8, <2>9, <2>10, <2>11
  <1>3. ASSUME /\ h.retained # None
               /\ h' = [h EXCEPT !.pc = "withdraw", !.cleanup = TRUE] /\ Send("WITHDRAW", h.retained)
       PROVE  RunnerInv'
    <2> USE <1>0, <1>3 DEF Send
    <2>1. RunnerTypeOK'
      <3>1. h' \in Helpers
        <4>1. PICK c \in BOOLEAN :
               h' = [h EXCEPT !.pc = "withdraw", !.cleanup = c]
          BY DEF RunnerTypeOK, Helpers, OrNoGroup, Statuses
        <4> QED BY <4>1 DEF RunnerTypeOK, Helpers, OrNoGroup, Statuses
      <3>2. msg' \in SupervisionRequests \cup {None} /\ ack' \in {"none", "ok", "cancelled", "refused"}
        BY DEF RunnerTypeOK, Helpers, HelperHolds, OwnedAreKept, Where, Handling, SupervisionRequests, OrNoGroup
      <3>3. /\ prog' \in [Groups -> {"none", "gated", "running", "left", "dead"}]
            /\ sentinel' \in [Groups -> {"none", "alive", "zombie"}]
            /\ killed' \subseteq Groups /\ lost' \subseteq Groups /\ stray' \in BOOLEAN
        BY DEF RunnerTypeOK, HelperHolds, Where, Handling, Held, OrNoGroup
      <3> QED
        BY <3>1, <3>2, <3>3, MaxGroupsAssumption DEF RunnerTypeOK, FaultIf, Fault
    <2>2. RunIsBooked'
      BY DEF RunnerTypeOK, Helpers, RunIsBooked, HelperHears
    <2>3. OwnedAreKept'
      BY DEF RunnerTypeOK, Helpers, Supervisors, OwnedAreKept, HelperHolds, GroupsAreKnown, RunIsBooked, Where, Handling, Alive
    <2>4. GroupsAreKnown'
      BY DEF RunnerTypeOK, Helpers, Supervisors, OwnedAreKept, HelperHolds, GroupsAreKnown, Where, Handling, Alive
    <2>5. HelperHolds'
      BY DEF RunnerTypeOK, Helpers, HelperHolds, HelperHears, Where, Handling
    <2>6. HelperHears'
      BY DEF RunnerTypeOK, Helpers, HelperHolds, HelperHears, Where, Handling, Exchanging
    <2>7. RequestsAreSound'
      BY DEF RunnerTypeOK, Helpers, RequestsAreSound, HelperHolds, HelperHears, RunIsBooked, Where, Handling, Exchanging
    <2>8. CommitIsClean'
      BY DEF RunnerTypeOK, Helpers, CommitIsClean, HelperHolds, HelperHears, RunIsBooked, Where, Handling, Alive
    <2>9. SuccessIsUnspoilt'
      BY DEF SuccessIsUnspoilt
    <2>10. EndIsNear'
      BY DEF EndIsNear, Settled, Stopping
    <2>11. NoStraySignal'
      BY DEF NoStraySignal
    <2> QED BY <2>1, <2>2, <2>3, <2>4, <2>5, <2>6, <2>7, <2>8, <2>9, <2>10, <2>11
  <1> QED BY <1>1, <1>2, <1>3 DEF CommitOperation

\* The helper's exit kills what it leaves at a gate and keeps its status (main).
LEMMA ExitKeeps ==
  ASSUME RunnerInv, Exit
  PROVE  RunnerInv'
  <1> USE GroupsAssumption, SupervisionAssumption DEF RunnerInv, Exit, HelperDies, Running, service, helper, channel, system
  <1>0. /\ h' \in Helpers /\ h'.open = FALSE /\ h'.status = h.status /\ h'.committed = h.committed
        /\ h.pc = "exit" /\ hp = "running" /\ h.status \in Statuses
    BY RemainsType DEF RunnerTypeOK, Helpers
  <1> USE <1>0
  <1>11. RunnerTypeOK'
    BY MaxGroupsAssumption DEF RunnerTypeOK
  <1>12. RunIsBooked'
    BY DEF RunnerTypeOK, Helpers, RunIsBooked, HelperHears
  <1>13. OwnedAreKept'
    BY DEF RunnerTypeOK, Helpers, Supervisors, OwnedAreKept, HelperHolds, GroupsAreKnown, RunIsBooked, Where, Handling, Alive
  <1>14. GroupsAreKnown'
    BY DEF RunnerTypeOK, Helpers, Supervisors, OwnedAreKept, HelperHolds, GroupsAreKnown, Where, Handling, Alive
  <1>15. HelperHolds'
    BY DEF RunnerTypeOK, Helpers, HelperHolds, HelperHears, Where, Handling
  <1>16. HelperHears'
    BY DEF RunnerTypeOK, Helpers, HelperHolds, HelperHears, Where, Handling, Exchanging
  <1>17. RequestsAreSound'
    BY DEF RunnerTypeOK, Helpers, RequestsAreSound, HelperHolds, HelperHears, RunIsBooked, Where, Handling, Exchanging, Supervisors
  <1>18. CommitIsClean'
    BY DEF RunnerTypeOK, Helpers, CommitIsClean, HelperHolds, HelperHears, RunIsBooked, Where, Handling, Alive, OwnedAreKept, GroupsAreKnown, Supervisors
  <1>19. SuccessIsUnspoilt'
    BY DEF SuccessIsUnspoilt
  <1>20. EndIsNear'
    BY DEF EndIsNear, Settled, Stopping
  <1>21. NoStraySignal'
    BY DEF NoStraySignal
  <1> QED BY <1>11, <1>12, <1>13, <1>14, <1>15, <1>16, <1>17, <1>18, <1>19, <1>20, <1>21

\* The helper's death kills its direct children (PR_SET_PDEATHSIG) and closes its end.
LEMMA CrashKeeps ==
  ASSUME RunnerInv, Crash
  PROVE  RunnerInv'
  <1> USE GroupsAssumption, SupervisionAssumption DEF RunnerInv, Crash, HelperDies, FaultIf, Fault, Running, service, helper, channel, system
  <1>0. /\ h' \in Helpers /\ h'.open = FALSE /\ h'.status = "signaled" /\ h'.committed = h.committed
        /\ "signaled" \in Statuses
    BY RemainsType DEF RunnerTypeOK, Statuses
  <1> USE <1>0
  <1>11. RunnerTypeOK'
    BY MaxGroupsAssumption DEF RunnerTypeOK
  <1>12. RunIsBooked'
    BY DEF RunnerTypeOK, Helpers, RunIsBooked, HelperHears
  <1>13. OwnedAreKept'
    BY DEF RunnerTypeOK, Helpers, Supervisors, OwnedAreKept, HelperHolds, GroupsAreKnown, RunIsBooked, Where, Handling, Alive
  <1>14. GroupsAreKnown'
    BY DEF RunnerTypeOK, Helpers, Supervisors, OwnedAreKept, HelperHolds, GroupsAreKnown, Where, Handling, Alive
  <1>15. HelperHolds'
    BY DEF RunnerTypeOK, Helpers, HelperHolds, HelperHears, Where, Handling
  <1>16. HelperHears'
    BY DEF RunnerTypeOK, Helpers, HelperHolds, HelperHears, Where, Handling, Exchanging
  <1>17. RequestsAreSound'
    BY DEF RunnerTypeOK, Helpers, RequestsAreSound, HelperHolds, HelperHears, RunIsBooked, Where, Handling, Exchanging
  <1>18. CommitIsClean'
    BY DEF RunnerTypeOK, Helpers, CommitIsClean, HelperHolds, HelperHears, RunIsBooked, Where, Handling, Alive
  <1>19. SuccessIsUnspoilt'
    BY DEF SuccessIsUnspoilt
  <1>20. EndIsNear'
    BY DEF EndIsNear, Settled, Stopping
  <1>21. NoStraySignal'
    BY DEF NoStraySignal
  <1> QED BY <1>11, <1>12, <1>13, <1>14, <1>15, <1>16, <1>17, <1>18, <1>19, <1>20, <1>21

\* A program that ends leaves its group to its descendants or to its parent.
LEMMA ProgramEndsKeeps ==
  ASSUME RunnerInv, NEW g \in Groups, ProgramEnds(g)
  PROVE  RunnerInv'
  <1> USE GroupsAssumption, SupervisionAssumption DEF RunnerInv, ProgramEnds, Running, service, helper, channel, system
  <1>1. RunnerTypeOK'
    <2>1. h' \in Helpers
      BY DEF RunnerTypeOK, Helpers, OrNoGroup, Statuses
    <2>2. msg' \in SupervisionRequests \cup {None} /\ ack' \in {"none", "ok", "cancelled", "refused"}
      BY DEF RunnerTypeOK, Helpers, HelperHolds, OwnedAreKept, Where, Handling, SupervisionRequests, OrNoGroup
    <2>3. /\ prog' \in [Groups -> {"none", "gated", "running", "left", "dead"}]
          /\ sentinel' \in [Groups -> {"none", "alive", "zombie"}]
          /\ killed' \subseteq Groups /\ lost' \subseteq Groups /\ stray' \in BOOLEAN
      BY DEF RunnerTypeOK, HelperHolds, Where, Handling, Held, OrNoGroup
    <2> QED
      BY <2>1, <2>2, <2>3, MaxGroupsAssumption DEF RunnerTypeOK, FaultIf, Fault
  <1>2. RunIsBooked'
    BY DEF RunnerTypeOK, Helpers, RunIsBooked, HelperHears
  <1>3. OwnedAreKept'
    BY DEF RunnerTypeOK, Helpers, Supervisors, OwnedAreKept, HelperHolds, GroupsAreKnown, RunIsBooked, Where, Handling, Alive
  <1>4. GroupsAreKnown'
    BY DEF RunnerTypeOK, Helpers, Supervisors, OwnedAreKept, HelperHolds, GroupsAreKnown, Where, Handling, Alive
  <1>5. HelperHolds'
    BY DEF RunnerTypeOK, Helpers, HelperHolds, HelperHears, Where, Handling
  <1>6. HelperHears'
    BY DEF RunnerTypeOK, Helpers, HelperHolds, HelperHears, Where, Handling, Exchanging
  <1>7. RequestsAreSound'
    BY DEF RunnerTypeOK, Helpers, RequestsAreSound, HelperHolds, HelperHears, RunIsBooked, Where, Handling, Exchanging
  <1>8. CommitIsClean'
    BY DEF RunnerTypeOK, Helpers, CommitIsClean, HelperHolds, HelperHears, RunIsBooked, Where, Handling, Alive
  <1>9. SuccessIsUnspoilt'
    BY DEF SuccessIsUnspoilt
  <1>10. EndIsNear'
    BY DEF EndIsNear, Settled, Stopping
  <1>11. NoStraySignal'
    BY DEF NoStraySignal
  <1> QED BY <1>1, <1>2, <1>3, <1>4, <1>5, <1>6, <1>7, <1>8, <1>9, <1>10, <1>11

\* A group that ends is nobody's backend any more, and needs no signal.
LEMMA GroupEndsKeeps ==
  ASSUME RunnerInv, NEW g \in Groups, GroupEnds(g)
  PROVE  RunnerInv'
  <1> USE GroupsAssumption, SupervisionAssumption DEF RunnerInv, GroupEnds, Running, service, helper, channel, system
  <1>1. RunnerTypeOK'
    <2>1. h' \in Helpers
      BY DEF RunnerTypeOK, Helpers, OrNoGroup, Statuses
    <2>2. msg' \in SupervisionRequests \cup {None} /\ ack' \in {"none", "ok", "cancelled", "refused"}
      BY DEF RunnerTypeOK, Helpers, HelperHolds, OwnedAreKept, Where, Handling, SupervisionRequests, OrNoGroup
    <2>3. /\ prog' \in [Groups -> {"none", "gated", "running", "left", "dead"}]
          /\ sentinel' \in [Groups -> {"none", "alive", "zombie"}]
          /\ killed' \subseteq Groups /\ lost' \subseteq Groups /\ stray' \in BOOLEAN
      BY DEF RunnerTypeOK, HelperHolds, Where, Handling, Held, OrNoGroup
    <2> QED
      BY <2>1, <2>2, <2>3, MaxGroupsAssumption DEF RunnerTypeOK, FaultIf, Fault
  <1>2. RunIsBooked'
    BY DEF RunnerTypeOK, Helpers, RunIsBooked, HelperHears
  <1>3. OwnedAreKept'
    BY DEF RunnerTypeOK, Helpers, Supervisors, OwnedAreKept, HelperHolds, GroupsAreKnown, RunIsBooked, Where, Handling, Alive
  <1>4. GroupsAreKnown'
    BY DEF RunnerTypeOK, Helpers, Supervisors, OwnedAreKept, HelperHolds, GroupsAreKnown, Where, Handling, Alive
  <1>5. HelperHolds'
    BY DEF RunnerTypeOK, Helpers, HelperHolds, HelperHears, Where, Handling, GroupsAreKnown, Alive
  <1>6. HelperHears'
    BY DEF RunnerTypeOK, Helpers, HelperHolds, HelperHears, Where, Handling, Exchanging
  <1>7. RequestsAreSound'
    BY DEF RunnerTypeOK, Helpers, RequestsAreSound, HelperHolds, HelperHears, RunIsBooked, Where, Handling, Exchanging
  <1>8. CommitIsClean'
    BY DEF RunnerTypeOK, Helpers, CommitIsClean, HelperHolds, HelperHears, RunIsBooked, Where, Handling, Alive
  <1>9. SuccessIsUnspoilt'
    BY DEF SuccessIsUnspoilt
  <1>10. EndIsNear'
    BY DEF EndIsNear, Settled, Stopping
  <1>11. NoStraySignal'
    BY DEF NoStraySignal
  <1> QED BY <1>1, <1>2, <1>3, <1>4, <1>5, <1>6, <1>7, <1>8, <1>9, <1>10, <1>11

\* A sentinel that is killed from outside is remembered as lost.
LEMMA SentinelLostKeeps ==
  ASSUME RunnerInv, NEW g \in Groups, SentinelLost(g)
  PROVE  RunnerInv'
  <1> USE GroupsAssumption, SupervisionAssumption DEF RunnerInv, SentinelLost, Fault, Running, service, helper, channel, system
  <1>1. RunnerTypeOK'
    <2>1. h' \in Helpers
      BY DEF RunnerTypeOK, Helpers, OrNoGroup, Statuses
    <2>2. msg' \in SupervisionRequests \cup {None} /\ ack' \in {"none", "ok", "cancelled", "refused"}
      BY DEF RunnerTypeOK, Helpers, HelperHolds, OwnedAreKept, Where, Handling, SupervisionRequests, OrNoGroup
    <2>3. /\ prog' \in [Groups -> {"none", "gated", "running", "left", "dead"}]
          /\ sentinel' \in [Groups -> {"none", "alive", "zombie"}]
          /\ killed' \subseteq Groups /\ lost' \subseteq Groups /\ stray' \in BOOLEAN
      BY DEF RunnerTypeOK, HelperHolds, Where, Handling, Held, OrNoGroup
    <2> QED
      BY <2>1, <2>2, <2>3, MaxGroupsAssumption DEF RunnerTypeOK, FaultIf, Fault
  <1>2. RunIsBooked'
    BY DEF RunnerTypeOK, Helpers, RunIsBooked, HelperHears
  <1>3. OwnedAreKept'
    BY DEF RunnerTypeOK, Helpers, Supervisors, OwnedAreKept, HelperHolds, GroupsAreKnown, RunIsBooked, Where, Handling, Alive
  <1>4. GroupsAreKnown'
    BY DEF RunnerTypeOK, Helpers, Supervisors, OwnedAreKept, HelperHolds, GroupsAreKnown, Where, Handling, Alive
  <1>5. HelperHolds'
    BY DEF RunnerTypeOK, Helpers, HelperHolds, HelperHears, Where, Handling
  <1>6. HelperHears'
    BY DEF RunnerTypeOK, Helpers, HelperHolds, HelperHears, Where, Handling, Exchanging
  <1>7. RequestsAreSound'
    BY DEF RunnerTypeOK, Helpers, RequestsAreSound, HelperHolds, HelperHears, RunIsBooked, Where, Handling, Exchanging
  <1>8. CommitIsClean'
    BY DEF RunnerTypeOK, Helpers, CommitIsClean, HelperHolds, HelperHears, RunIsBooked, Where, Handling, Alive
  <1>9. SuccessIsUnspoilt'
    BY DEF SuccessIsUnspoilt
  <1>10. EndIsNear'
    BY DEF EndIsNear, Settled, Stopping
  <1>11. NoStraySignal'
    BY DEF NoStraySignal
  <1> QED BY <1>1, <1>2, <1>3, <1>4, <1>5, <1>6, <1>7, <1>8, <1>9, <1>10, <1>11

\* A deadline that passes before hard_at changes no more than the clock.
LEMMA TickKeeps ==
  ASSUME RunnerInv, Tick
  PROVE  RunnerInv'
  <1> USE GroupsAssumption, SupervisionAssumption DEF RunnerInv, Tick, LastPoll, Running, service, helper, channel, system
  <1>1. RunnerTypeOK'
    <2>1. job' \in Runs
      BY DEF RunnerTypeOK, Runs, Statuses, Reasons, Helpers
    <2>2. sup' \in Supervisors
      BY DEF RunnerTypeOK, Supervisors, OrNoGroup
    <2>3. h' \in Helpers
      BY DEF RunnerTypeOK, Helpers, OrNoGroup, Statuses
    <2>4. /\ prog' \in [Groups -> {"none", "gated", "running", "left", "dead"}]
          /\ sentinel' \in [Groups -> {"none", "alive", "zombie"}]
          /\ killed' \subseteq Groups /\ lost' \subseteq Groups /\ backends' \subseteq Groups /\ stray' \in BOOLEAN
      BY DEF RunnerTypeOK, Supervisors
    <2> QED
      BY <2>1, <2>2, <2>3, <2>4, MaxGroupsAssumption DEF RunnerTypeOK, Supervisors, LastPoll
  <1>2. RunIsBooked'
    BY DEF RunnerTypeOK, Runs, Supervisors, RunIsBooked, HelperHears
  <1>3. OwnedAreKept'
    BY DEF RunnerTypeOK, Runs, Supervisors, OwnedAreKept, HelperHolds, GroupsAreKnown, RunIsBooked, Where, Handling, Alive
  <1>4. GroupsAreKnown'
    BY DEF RunnerTypeOK, Runs, Supervisors, OwnedAreKept, HelperHolds, GroupsAreKnown, Where, Handling, Alive
  <1>5. HelperHolds'
    BY DEF RunnerTypeOK, Runs, Supervisors, HelperHolds, HelperHears, Where, Handling
  <1>6. HelperHears'
    BY DEF RunnerTypeOK, Runs, Supervisors, HelperHolds, HelperHears, Where, Handling, Exchanging
  <1>7. RequestsAreSound'
    BY DEF RunnerTypeOK, Runs, Supervisors, RequestsAreSound, HelperHolds, HelperHears, RunIsBooked, Where, Handling, Exchanging
  <1>8. CommitIsClean'
    BY DEF RunnerTypeOK, Runs, Supervisors, CommitIsClean, HelperHolds, HelperHears, RunIsBooked, Where, Handling, Alive
  <1>9. SuccessIsUnspoilt'
    BY DEF RunnerTypeOK, Runs, SuccessIsUnspoilt
  <1>10. EndIsNear'
    BY DEF RunnerTypeOK, Runs, Supervisors, EndIsNear, Settled, Stopping, LastPoll
  <1>11. NoStraySignal'
    BY DEF NoStraySignal
  <1> QED BY <1>1, <1>2, <1>3, <1>4, <1>5, <1>6, <1>7, <1>8, <1>9, <1>10, <1>11

\* A run starts with an empty supervisor and without anything left to reap (spawn_helper).
LEMMA StartKeeps ==
  ASSUME RunnerInv, Start
  PROVE  RunnerInv'
  <1> USE GroupsAssumption, SupervisionAssumption DEF RunnerInv, FaultIf, Fault, Running, service, helper, channel, system
  <1>0. PICK op \in {"up", "list", "other"}, io \in BOOLEAN :
          /\ job' = IF io THEN [NewRun(op) EXCEPT !.io = TRUE, !.stop = "io"] ELSE NewRun(op)
          /\ sup' = NewSupervisor(op) /\ h' = [NewHelper EXCEPT !.level = IF io THEN 1 ELSE 0]
          /\ FaultIf(io)
    BY OperationsAssumption DEF Start
  <1> DEFINE l == IF io THEN 1 ELSE 0
  <1>l. l \in 0 .. 1
    OBVIOUS
  <1> HIDE DEF l
  <1>00. /\ job' \in Runs /\ job'.on /\ ~job'.exited /\ ~job'.reaped /\ ~job'.clean /\ ~job'.kill
         /\ job'.status = "none" /\ job'.op = op
    BY <1>0, NewTypes DEF NewRun
  <1>01. /\ sup' \in Supervisors /\ sup'.owned = {} /\ sup'.pend = None /\ sup'.dead = {} /\ sup'.retired = {}
         /\ (sup'.allow => op = "up") /\ ~sup'.failed /\ ~sup'.closed
    BY <1>0, NewTypes DEF NewSupervisor
  <1>02. /\ h' \in Helpers /\ h'.pc = "work" /\ h'.cur = None /\ h'.active = None /\ h'.retained = None
         /\ ~h'.cleanup /\ ~h'.committed /\ ~h'.last /\ h'.status = "none"
    BY <1>0, <1>l, NewTypes DEF NewHelper, l
  <1>03. /\ at = "loop" /\ ~job.on /\ reaps = {} /\ runs + faults < MaxRuns /\ runs' = runs + 1
         /\ hp' = "running" /\ msg' = None /\ ack' = "none" /\ clock' = 0
         /\ UNCHANGED <<at, tracked, reaps, backends, system>>
    BY DEF Start, IsBusy
  <1> USE <1>00, <1>01, <1>02, <1>03
  <1>11. RunnerTypeOK'
    BY <1>0, MaxGroupsAssumption DEF RunnerTypeOK, LastPoll
  <1>12. RunIsBooked'
    BY DEF RunnerTypeOK, Runs, Supervisors, RunIsBooked, HelperHears
  <1>13. OwnedAreKept'
    BY DEF RunnerTypeOK, Runs, Supervisors, OwnedAreKept, HelperHolds, GroupsAreKnown, RunIsBooked, Where, Handling, Alive
  <1>14. GroupsAreKnown'
    BY DEF RunnerTypeOK, Runs, Supervisors, OwnedAreKept, HelperHolds, GroupsAreKnown, Where, Handling, Alive
  <1>15. HelperHolds'
    BY DEF RunnerTypeOK, Runs, Supervisors, HelperHolds, HelperHears, Where, Handling
  <1>16. HelperHears'
    BY DEF RunnerTypeOK, Runs, Supervisors, HelperHolds, HelperHears, Where, Handling, Exchanging
  <1>17. RequestsAreSound'
    BY DEF RunnerTypeOK, Runs, Supervisors, RequestsAreSound, HelperHolds, HelperHears, RunIsBooked, Where, Handling, Exchanging
  <1>18. CommitIsClean'
    BY DEF RunnerTypeOK, Runs, Supervisors, CommitIsClean, HelperHolds, HelperHears, RunIsBooked, Where, Handling, Alive, GroupsAreKnown, OwnedAreKept
  <1>19. SuccessIsUnspoilt'
    BY DEF RunnerTypeOK, Runs, SuccessIsUnspoilt
  <1>20. EndIsNear'
    BY DEF RunnerTypeOK, Runs, Supervisors, EndIsNear, Settled, Stopping, LastPoll
  <1>21. NoStraySignal'
    BY DEF NoStraySignal
  <1> QED BY <1>11, <1>12, <1>13, <1>14, <1>15, <1>16, <1>17, <1>18, <1>19, <1>20, <1>21

\* A helper that could not be spawned leaves nothing behind (start).
LEMMA StartFailsKeeps ==
  ASSUME RunnerInv, StartFails
  PROVE  RunnerInv'
  <1> USE GroupsAssumption, SupervisionAssumption DEF RunnerInv, Running, service, helper, channel, system
  <1>0. /\ job' \in Runs /\ ~job'.on /\ ~job'.exited /\ ~job'.reaped /\ ~job'.clean /\ ~job'.kill
    <2>1. PICK op \in {"up", "list", "other"} :
            job' = [Published([NewRun(op) EXCEPT !.status = "setup"], TRUE) EXCEPT !.on = FALSE]
      BY OperationsAssumption DEF StartFails
    <2> DEFINE r == [NewRun(op) EXCEPT !.status = "setup"]
    <2>2. r \in Runs /\ ~r.exited /\ ~r.reaped /\ ~r.clean /\ ~r.kill
      BY DEF NewRun, Runs, Statuses, Reasons
    <2> HIDE DEF r
    <2>3. PICK s \in Statuses : Published(r, TRUE) = [r EXCEPT !.result = s]
      BY <2>2, PublishedDoes
    <2>4. job' = [[r EXCEPT !.result = s] EXCEPT !.on = FALSE]
      BY <2>1, <2>3 DEF r
    <2> QED BY <2>2, <2>4 DEF Runs
  <1>00. /\ at = "loop" /\ ~job.on
         /\ UNCHANGED <<sup, at, tracked, reaps, backends, helper, channel, system, faults, runs, clock>>
    BY DEF StartFails, IsBusy
  <1> USE <1>0, <1>00
  <1>11. RunnerTypeOK'
    BY DEF RunnerTypeOK
  <1>12. RunIsBooked'
    BY DEF RunnerTypeOK, Runs, Supervisors, RunIsBooked, HelperHears
  <1>13. OwnedAreKept'
    BY DEF RunnerTypeOK, Runs, Supervisors, OwnedAreKept, HelperHolds, GroupsAreKnown, RunIsBooked, Where, Handling, Alive
  <1>14. GroupsAreKnown'
    BY DEF RunnerTypeOK, Runs, Supervisors, OwnedAreKept, HelperHolds, GroupsAreKnown, Where, Handling, Alive
  <1>15. HelperHolds'
    BY DEF RunnerTypeOK, Runs, Supervisors, HelperHolds, HelperHears, Where, Handling, RunIsBooked
  <1>16. HelperHears'
    BY DEF RunnerTypeOK, Runs, Supervisors, HelperHolds, HelperHears, Where, Handling, Exchanging
  <1>17. RequestsAreSound'
    BY DEF RunnerTypeOK, Runs, Supervisors, RequestsAreSound, HelperHolds, HelperHears, RunIsBooked, Where, Handling, Exchanging
  <1>18. CommitIsClean'
    BY DEF RunnerTypeOK, Runs, Supervisors, CommitIsClean, HelperHolds, HelperHears, RunIsBooked, Where, Handling, Alive
  <1>19. SuccessIsUnspoilt'
    BY DEF RunnerTypeOK, Runs, SuccessIsUnspoilt
  <1>20. EndIsNear'
    BY DEF RunnerTypeOK, Runs, Supervisors, EndIsNear, Settled, Stopping, LastPoll
  <1>21. NoStraySignal'
    BY DEF NoStraySignal
  <1> QED BY <1>11, <1>12, <1>13, <1>14, <1>15, <1>16, <1>17, <1>18, <1>19, <1>20, <1>21

\* What is reaped later on is what was handed on (reap_children_cb).
LEMMA ReapReleasedKeeps ==
  ASSUME RunnerInv, ReapReleased
  PROVE  RunnerInv'
  <1> USE GroupsAssumption, SupervisionAssumption DEF RunnerInv, ReapReleased, ReapGroups, ChildrenLeft, Adopted, Running, service, helper, channel, system
  <1>1. RunnerTypeOK'
    <2>1. job' \in Runs
      BY DEF RunnerTypeOK, Runs, Statuses, Reasons, Helpers
    <2>2. sup' \in Supervisors
      BY DEF RunnerTypeOK, Supervisors, OrNoGroup
    <2>3. h' \in Helpers
      BY DEF RunnerTypeOK, Helpers, OrNoGroup, Statuses
    <2>4. /\ prog' \in [Groups -> {"none", "gated", "running", "left", "dead"}]
          /\ sentinel' \in [Groups -> {"none", "alive", "zombie"}]
          /\ killed' \subseteq Groups /\ lost' \subseteq Groups /\ backends' \subseteq Groups /\ stray' \in BOOLEAN
      BY DEF RunnerTypeOK, Supervisors
    <2> QED
      BY <2>1, <2>2, <2>3, <2>4, MaxGroupsAssumption DEF RunnerTypeOK, Supervisors, LastPoll
  <1>2. RunIsBooked'
    <2>1. "helper" \in reaps' <=> "helper" \in reaps /\ hp # "zombie"
      OBVIOUS
    <2>2. reaps' \subseteq {"helper"} /\ hp' = IF "helper" \in reaps /\ hp = "zombie" THEN "none" ELSE hp
      OBVIOUS
    <2>3. UNCHANGED <<job, sup, at, h>> /\ at = "loop"
      OBVIOUS
    <2> HIDE DEF ReapReleased
    <2> QED
      BY <2>1, <2>2, <2>3 DEF RunnerTypeOK, RunIsBooked
  <1>3. OwnedAreKept'
    BY DEF RunnerTypeOK, Runs, Supervisors, OwnedAreKept, HelperHolds, GroupsAreKnown, RunIsBooked, Where, Handling, Alive
  <1>4. GroupsAreKnown'
    BY DEF RunnerTypeOK, Runs, Supervisors, OwnedAreKept, HelperHolds, GroupsAreKnown, Where, Handling, Alive
  <1>5. HelperHolds'
    BY DEF RunnerTypeOK, Runs, Supervisors, HelperHolds, HelperHears, Where, Handling, OwnedAreKept, RunIsBooked, GroupsAreKnown
  <1>6. HelperHears'
    BY DEF RunnerTypeOK, Runs, Supervisors, HelperHolds, HelperHears, Where, Handling, Exchanging
  <1>7. RequestsAreSound'
    BY DEF RunnerTypeOK, Runs, Supervisors, RequestsAreSound, HelperHolds, HelperHears, RunIsBooked, Where, Handling, Exchanging
  <1>8. CommitIsClean'
    BY DEF RunnerTypeOK, Runs, Supervisors, CommitIsClean, HelperHolds, HelperHears, RunIsBooked, Where, Handling, Alive
  <1>9. SuccessIsUnspoilt'
    BY DEF RunnerTypeOK, Runs, SuccessIsUnspoilt
  <1>10. EndIsNear'
    BY DEF RunnerTypeOK, Runs, Supervisors, EndIsNear, Settled, Stopping, LastPoll
  <1>11. NoStraySignal'
    BY DEF NoStraySignal
  <1> QED BY <1>1, <1>2, <1>3, <1>4, <1>5, <1>6, <1>7, <1>8, <1>9, <1>10, <1>11

\* A helper that was reaped before is not looked at again (helper_poll_cb).
LEMMA ReapedKeeps ==
  ASSUME RunnerInv, Reaped
  PROVE  RunnerInv'
  <1> USE GroupsAssumption, SupervisionAssumption DEF RunnerInv, Reaped, Running, service, helper, channel, system
  <1>1. RunnerTypeOK'
    <2>1. job' \in Runs
      BY DEF RunnerTypeOK, Runs, Statuses, Reasons, Helpers
    <2>2. sup' \in Supervisors
      BY DEF RunnerTypeOK, Supervisors, OrNoGroup
    <2>3. h' \in Helpers
      BY DEF RunnerTypeOK, Helpers, OrNoGroup, Statuses
    <2>4. /\ prog' \in [Groups -> {"none", "gated", "running", "left", "dead"}]
          /\ sentinel' \in [Groups -> {"none", "alive", "zombie"}]
          /\ killed' \subseteq Groups /\ lost' \subseteq Groups /\ backends' \subseteq Groups /\ stray' \in BOOLEAN
      BY DEF RunnerTypeOK, Supervisors
    <2> QED
      BY <2>1, <2>2, <2>3, <2>4, MaxGroupsAssumption DEF RunnerTypeOK, Supervisors, LastPoll
  <1>2. RunIsBooked'
    BY DEF RunnerTypeOK, Runs, Supervisors, RunIsBooked, HelperHears
  <1>3. OwnedAreKept'
    BY DEF RunnerTypeOK, Runs, Supervisors, OwnedAreKept, HelperHolds, GroupsAreKnown, RunIsBooked, Where, Handling, Alive
  <1>4. GroupsAreKnown'
    BY DEF RunnerTypeOK, Runs, Supervisors, OwnedAreKept, HelperHolds, GroupsAreKnown, Where, Handling, Alive
  <1>5. HelperHolds'
    BY DEF RunnerTypeOK, Runs, Supervisors, HelperHolds, HelperHears, Where, Handling
  <1>6. HelperHears'
    BY DEF RunnerTypeOK, Runs, Supervisors, HelperHolds, HelperHears, Where, Handling, Exchanging
  <1>7. RequestsAreSound'
    BY DEF RunnerTypeOK, Runs, Supervisors, RequestsAreSound, HelperHolds, HelperHears, RunIsBooked, Where, Handling, Exchanging
  <1>8. CommitIsClean'
    BY DEF RunnerTypeOK, Runs, Supervisors, CommitIsClean, HelperHolds, HelperHears, RunIsBooked, Where, Handling, Alive
  <1>9. SuccessIsUnspoilt'
    BY DEF RunnerTypeOK, Runs, SuccessIsUnspoilt
  <1>10. EndIsNear'
    BY DEF RunnerTypeOK, Runs, Supervisors, EndIsNear, Settled, Stopping, LastPoll
  <1>11. NoStraySignal'
    BY DEF NoStraySignal
  <1> QED BY <1>1, <1>2, <1>3, <1>4, <1>5, <1>6, <1>7, <1>8, <1>9, <1>10, <1>11

\* The run learns the status the helper exited with (reap_helper, record_helper_reap).
LEMMA ReapHelperKeeps ==
  ASSUME RunnerInv, ReapHelper
  PROVE  RunnerInv'
  <1> USE GroupsAssumption, SupervisionAssumption DEF RunnerInv, ReapHelper, Running, service, helper, channel, system
  <1>1. RunnerTypeOK'
    <2>1. job' \in Runs
      BY DEF RunnerTypeOK, Runs, Statuses, Reasons, Helpers
    <2>2. sup' \in Supervisors
      BY DEF RunnerTypeOK, Supervisors, OrNoGroup
    <2>3. h' \in Helpers
      BY DEF RunnerTypeOK, Helpers, OrNoGroup, Statuses
    <2>4. /\ prog' \in [Groups -> {"none", "gated", "running", "left", "dead"}]
          /\ sentinel' \in [Groups -> {"none", "alive", "zombie"}]
          /\ killed' \subseteq Groups /\ lost' \subseteq Groups /\ backends' \subseteq Groups /\ stray' \in BOOLEAN
      BY DEF RunnerTypeOK, Supervisors
    <2> QED
      BY <2>1, <2>2, <2>3, <2>4, MaxGroupsAssumption DEF RunnerTypeOK, Supervisors, LastPoll
  <1>2. RunIsBooked'
    BY DEF RunnerTypeOK, Runs, Supervisors, RunIsBooked, HelperHears
  <1>3. OwnedAreKept'
    BY DEF RunnerTypeOK, Runs, Supervisors, OwnedAreKept, HelperHolds, GroupsAreKnown, RunIsBooked, Where, Handling, Alive
  <1>4. GroupsAreKnown'
    BY DEF RunnerTypeOK, Runs, Supervisors, OwnedAreKept, HelperHolds, GroupsAreKnown, Where, Handling, Alive, RunIsBooked
  <1>5. HelperHolds'
    BY DEF RunnerTypeOK, Runs, Supervisors, HelperHolds, HelperHears, Where, Handling
  <1>6. HelperHears'
    BY DEF RunnerTypeOK, Runs, Supervisors, HelperHolds, HelperHears, Where, Handling, Exchanging
  <1>7. RequestsAreSound'
    BY DEF RunnerTypeOK, Runs, Supervisors, RequestsAreSound, HelperHolds, HelperHears, RunIsBooked, Where, Handling, Exchanging
  <1>8. CommitIsClean'
    BY DEF RunnerTypeOK, Runs, Supervisors, CommitIsClean, HelperHolds, HelperHears, RunIsBooked, Where, Handling, Alive
  <1>9. SuccessIsUnspoilt'
    BY DEF RunnerTypeOK, Runs, SuccessIsUnspoilt
  <1>10. EndIsNear'
    BY DEF RunnerTypeOK, Runs, Supervisors, EndIsNear, Settled, Stopping, LastPoll
  <1>11. NoStraySignal'
    BY DEF NoStraySignal
  <1> QED BY <1>1, <1>2, <1>3, <1>4, <1>5, <1>6, <1>7, <1>8, <1>9, <1>10, <1>11

\* Supervision that is complete stays so (complete_helper_supervision).
LEMMA CompleteSkippedKeeps ==
  ASSUME RunnerInv, CompleteSkipped
  PROVE  RunnerInv'
  <1> USE GroupsAssumption, SupervisionAssumption DEF RunnerInv, CompleteSkipped, Running, service, helper, channel, system
  <1>1. RunnerTypeOK'
    <2>1. job' \in Runs
      BY DEF RunnerTypeOK, Runs, Statuses, Reasons, Helpers
    <2>2. sup' \in Supervisors
      BY DEF RunnerTypeOK, Supervisors, OrNoGroup
    <2>3. h' \in Helpers
      BY DEF RunnerTypeOK, Helpers, OrNoGroup, Statuses
    <2>4. /\ prog' \in [Groups -> {"none", "gated", "running", "left", "dead"}]
          /\ sentinel' \in [Groups -> {"none", "alive", "zombie"}]
          /\ killed' \subseteq Groups /\ lost' \subseteq Groups /\ backends' \subseteq Groups /\ stray' \in BOOLEAN
      BY DEF RunnerTypeOK, Supervisors
    <2> QED
      BY <2>1, <2>2, <2>3, <2>4, MaxGroupsAssumption DEF RunnerTypeOK, Supervisors, LastPoll
  <1>2. RunIsBooked'
    BY DEF RunnerTypeOK, Runs, Supervisors, RunIsBooked, HelperHears
  <1>3. OwnedAreKept'
    BY DEF RunnerTypeOK, Runs, Supervisors, OwnedAreKept, HelperHolds, GroupsAreKnown, RunIsBooked, Where, Handling, Alive
  <1>4. GroupsAreKnown'
    BY DEF RunnerTypeOK, Runs, Supervisors, OwnedAreKept, HelperHolds, GroupsAreKnown, Where, Handling, Alive
  <1>5. HelperHolds'
    BY DEF RunnerTypeOK, Runs, Supervisors, HelperHolds, HelperHears, Where, Handling
  <1>6. HelperHears'
    BY DEF RunnerTypeOK, Runs, Supervisors, HelperHolds, HelperHears, Where, Handling, Exchanging
  <1>7. RequestsAreSound'
    BY DEF RunnerTypeOK, Runs, Supervisors, RequestsAreSound, HelperHolds, HelperHears, RunIsBooked, Where, Handling, Exchanging
  <1>8. CommitIsClean'
    BY DEF RunnerTypeOK, Runs, Supervisors, CommitIsClean, HelperHolds, HelperHears, RunIsBooked, Where, Handling, Alive
  <1>9. SuccessIsUnspoilt'
    BY DEF RunnerTypeOK, Runs, SuccessIsUnspoilt
  <1>10. EndIsNear'
    BY DEF RunnerTypeOK, Runs, Supervisors, EndIsNear, Settled, Stopping, LastPoll
  <1>11. NoStraySignal'
    BY DEF NoStraySignal
  <1> QED BY <1>1, <1>2, <1>3, <1>4, <1>5, <1>6, <1>7, <1>8, <1>9, <1>10, <1>11

\* With no group left the supervision is complete (complete_helper_supervision).
LEMMA NoGroupsLeftKeeps ==
  ASSUME RunnerInv, NoGroupsLeft
  PROVE  RunnerInv'
  <1> USE GroupsAssumption, SupervisionAssumption DEF RunnerInv, NoGroupsLeft, Completing, Running, service, helper, channel, system
  <1>1. RunnerTypeOK'
    <2>1. job' \in Runs
      BY DEF RunnerTypeOK, Runs, Statuses, Reasons, Helpers
    <2>2. sup' \in Supervisors
      BY DEF RunnerTypeOK, Supervisors, OrNoGroup
    <2>3. h' \in Helpers
      BY DEF RunnerTypeOK, Helpers, OrNoGroup, Statuses
    <2>4. /\ prog' \in [Groups -> {"none", "gated", "running", "left", "dead"}]
          /\ sentinel' \in [Groups -> {"none", "alive", "zombie"}]
          /\ killed' \subseteq Groups /\ lost' \subseteq Groups /\ backends' \subseteq Groups /\ stray' \in BOOLEAN
      BY DEF RunnerTypeOK, Supervisors
    <2> QED
      BY <2>1, <2>2, <2>3, <2>4, MaxGroupsAssumption DEF RunnerTypeOK, Supervisors, LastPoll
  <1>2. RunIsBooked'
    BY DEF RunnerTypeOK, Runs, Supervisors, RunIsBooked, HelperHears
  <1>3. OwnedAreKept'
    BY ZenonT(30) DEF RunnerTypeOK, Runs, Supervisors, OwnedAreKept, HelperHolds, GroupsAreKnown, RunIsBooked, Where, Handling, Alive
  <1>4. GroupsAreKnown'
    BY DEF RunnerTypeOK, Runs, Supervisors, OwnedAreKept, HelperHolds, GroupsAreKnown, Where, Handling, Alive
  <1>5. HelperHolds'
    BY DEF RunnerTypeOK, Runs, Supervisors, HelperHolds, HelperHears, Where, Handling
  <1>6. HelperHears'
    BY DEF RunnerTypeOK, Runs, Supervisors, HelperHolds, HelperHears, Where, Handling, Exchanging
  <1>7. RequestsAreSound'
    BY DEF RunnerTypeOK, Runs, Supervisors, RequestsAreSound, HelperHolds, HelperHears, RunIsBooked, Where, Handling, Exchanging
  <1>8. CommitIsClean'
    BY DEF RunnerTypeOK, Runs, Supervisors, CommitIsClean, HelperHolds, HelperHears, RunIsBooked, Where, Handling, Alive
  <1>9. SuccessIsUnspoilt'
    BY DEF RunnerTypeOK, Runs, SuccessIsUnspoilt
  <1>10. EndIsNear'
    BY DEF RunnerTypeOK, Runs, Supervisors, EndIsNear, Settled, Stopping, LastPoll
  <1>11. NoStraySignal'
    BY DEF NoStraySignal
  <1> QED BY <1>1, <1>2, <1>3, <1>4, <1>5, <1>6, <1>7, <1>8, <1>9, <1>10, <1>11

\* A helper that survives SIGKILL is left to be reaped later (detach_stalled_helper).
LEMMA DetachHelperKeeps ==
  ASSUME RunnerInv, DetachHelper
  PROVE  RunnerInv'
  <1> USE GroupsAssumption, SupervisionAssumption DEF RunnerInv, DetachHelper, Detachable, Running, service, helper, channel, system
  <1>1. RunnerTypeOK'
    <2>1. job' \in Runs
      BY DEF RunnerTypeOK, Runs, Statuses, Reasons, Helpers
    <2>2. sup' \in Supervisors
      BY DEF RunnerTypeOK, Supervisors, OrNoGroup
    <2>3. h' \in Helpers
      BY DEF RunnerTypeOK, Helpers, OrNoGroup, Statuses
    <2>4. /\ prog' \in [Groups -> {"none", "gated", "running", "left", "dead"}]
          /\ sentinel' \in [Groups -> {"none", "alive", "zombie"}]
          /\ killed' \subseteq Groups /\ lost' \subseteq Groups /\ backends' \subseteq Groups /\ stray' \in BOOLEAN
      BY DEF RunnerTypeOK, Supervisors
    <2> QED
      BY <2>1, <2>2, <2>3, <2>4, MaxGroupsAssumption DEF RunnerTypeOK, Supervisors, LastPoll
  <1>2. RunIsBooked'
    BY DEF RunnerTypeOK, Runs, Supervisors, RunIsBooked, HelperHears
  <1>3. OwnedAreKept'
    BY DEF RunnerTypeOK, Runs, Supervisors, OwnedAreKept, HelperHolds, GroupsAreKnown, RunIsBooked, Where, Handling, Alive
  <1>4. GroupsAreKnown'
    BY DEF RunnerTypeOK, Runs, Supervisors, OwnedAreKept, HelperHolds, GroupsAreKnown, Where, Handling, Alive
  <1>5. HelperHolds'
    BY DEF RunnerTypeOK, Runs, Supervisors, HelperHolds, HelperHears, Where, Handling
  <1>6. HelperHears'
    BY DEF RunnerTypeOK, Runs, Supervisors, HelperHolds, HelperHears, Where, Handling, Exchanging
  <1>7. RequestsAreSound'
    BY DEF RunnerTypeOK, Runs, Supervisors, RequestsAreSound, HelperHolds, HelperHears, RunIsBooked, Where, Handling, Exchanging
  <1>8. CommitIsClean'
    BY DEF RunnerTypeOK, Runs, Supervisors, CommitIsClean, HelperHolds, HelperHears, RunIsBooked, Where, Handling, Alive
  <1>9. SuccessIsUnspoilt'
    BY DEF RunnerTypeOK, Runs, SuccessIsUnspoilt
  <1>10. EndIsNear'
    BY DEF RunnerTypeOK, Runs, Supervisors, EndIsNear, Settled, Stopping, LastPoll, OwnedAreKept
  <1>11. NoStraySignal'
    BY DEF NoStraySignal
  <1> QED BY <1>1, <1>2, <1>3, <1>4, <1>5, <1>6, <1>7, <1>8, <1>9, <1>10, <1>11

\* A request to stop reaches the helper as one signal at most (runner_stop, begin_stop).
LEMMA StopKeeps ==
  ASSUME RunnerInv, \E reason \in {"shutdown", "preempted"} : Stop(reason)
  PROVE  RunnerInv'
  <1> USE GroupsAssumption, SupervisionAssumption DEF RunnerInv, Running, service, helper, channel, system
  <1>1. /\ RunIsLeft /\ job'.stop # "none"
        /\ OnlySignals /\ at = "loop" /\ job.on /\ Fault
        /\ UNCHANGED <<sup, at, tracked, reaps, backends, hp, channel, system, runs, clock>>
    BY StopDoes
  <1> USE <1>1 DEF RunIsLeft, RunGoesOn, OnlySignals
  <1>11. RunnerTypeOK'
    BY MaxGroupsAssumption DEF RunnerTypeOK, Fault
  <1>12. RunIsBooked'
    BY DEF RunnerTypeOK, Runs, Supervisors, RunIsBooked, HelperHears
  <1>13. OwnedAreKept'
    BY DEF RunnerTypeOK, Runs, Supervisors, OwnedAreKept, HelperHolds, GroupsAreKnown, RunIsBooked, Where, Handling, Alive
  <1>14. GroupsAreKnown'
    BY DEF RunnerTypeOK, Runs, Supervisors, OwnedAreKept, HelperHolds, GroupsAreKnown, Where, Handling, Alive
  <1>15. HelperHolds'
    BY DEF RunnerTypeOK, Runs, Supervisors, HelperHolds, HelperHears, Where, Handling
  <1>16. HelperHears'
    BY DEF RunnerTypeOK, Runs, Supervisors, HelperHolds, HelperHears, Where, Handling, Exchanging
  <1>17. RequestsAreSound'
    BY DEF RunnerTypeOK, Runs, Supervisors, RequestsAreSound, HelperHolds, HelperHears, RunIsBooked, Where, Handling, Exchanging
  <1>18. CommitIsClean'
    BY DEF RunnerTypeOK, Runs, Supervisors, CommitIsClean, HelperHolds, HelperHears, RunIsBooked, Where, Handling, Alive
  <1>19. SuccessIsUnspoilt'
    BY DEF RunnerTypeOK, Runs, SuccessIsUnspoilt
  <1>20. EndIsNear'
    BY DEF RunnerTypeOK, Runs, Supervisors, EndIsNear, Settled, Stopping, LastPoll
  <1>21. NoStraySignal'
    BY DEF NoStraySignal
  <1> QED BY <1>11, <1>12, <1>13, <1>14, <1>15, <1>16, <1>17, <1>18, <1>19, <1>20, <1>21

\* The first half of a poll notices the helper's exit and cancels at the forward deadline
\* only what is not about to be released (helper_poll_cb).
LEMMA ObserveKeeps ==
  ASSUME RunnerInv, Observe
  PROVE  RunnerInv'
  <1> USE GroupsAssumption, SupervisionAssumption DEF RunnerInv, Running, service, helper, channel, system
  <1>0. /\ at = "loop" /\ job.on /\ at' = "poll"
        /\ clock' = (IF clock \in 3 .. LastPoll - 1 THEN clock + 1 ELSE clock)
        /\ UNCHANGED <<tracked, reaps, backends, hp, channel, system, runs>>
        /\ RunGoesOn /\ job'.clean = job.clean /\ job'.int = job.int /\ job'.kill = job.kill
        /\ job'.result = job.result /\ (job'.exited <=> hp = "zombie" /\ ~job.reaped)
        /\ OnlySignals
        /\ sup' \in Supervisors /\ sup'.owned = sup.owned /\ sup'.pend = sup.pend /\ sup'.dead = sup.dead
        /\ sup'.retired = sup.retired /\ (sup'.allow => sup.allow) /\ sup'.cleanup = sup.cleanup
        /\ sup'.closed = sup.closed /\ sup'.failed = sup.failed
        /\ faults' \in 0 .. MaxFaults /\ clock' \in 0 .. LastPoll
    BY ObserveDoes
  <1> HIDE DEF Observe
  <1> USE <1>0 DEF RunGoesOn, OnlySignals
  <1>11. RunnerTypeOK'
    BY DEF RunnerTypeOK
  <1>12. RunIsBooked'
    BY DEF RunnerTypeOK, Runs, Supervisors, RunIsBooked, HelperHears
  <1>13. OwnedAreKept'
    BY DEF RunnerTypeOK, Runs, Supervisors, OwnedAreKept, HelperHolds, GroupsAreKnown, RunIsBooked, Where, Handling, Alive
  <1>14. GroupsAreKnown'
    BY DEF RunnerTypeOK, Runs, Supervisors, OwnedAreKept, HelperHolds, GroupsAreKnown, Where, Handling, Alive
  <1>15. HelperHolds'
    BY DEF RunnerTypeOK, Runs, Supervisors, HelperHolds, HelperHears, Where, Handling
  <1>16. HelperHears'
    BY DEF RunnerTypeOK, Runs, Supervisors, HelperHolds, HelperHears, Where, Handling, Exchanging
  <1>17. RequestsAreSound'
    BY DEF RunnerTypeOK, Runs, Supervisors, RequestsAreSound, HelperHolds, HelperHears, RunIsBooked, Where, Handling, Exchanging
  <1>18. CommitIsClean'
    BY DEF RunnerTypeOK, Runs, Supervisors, CommitIsClean, HelperHolds, HelperHears, RunIsBooked, Where, Handling, Alive
  <1>19. SuccessIsUnspoilt'
    BY DEF RunnerTypeOK, Runs, SuccessIsUnspoilt
  <1>20. EndIsNear'
    BY DEF RunnerTypeOK, Runs, Supervisors, EndIsNear, Settled, Stopping, LastPoll
  <1>21. NoStraySignal'
    BY DEF NoStraySignal
  <1> QED BY <1>11, <1>12, <1>13, <1>14, <1>15, <1>16, <1>17, <1>18, <1>19, <1>20, <1>21

\* Each granted request does what it is about to the group it names (handle_message).
LEMMA HandleMessageKeeps ==
  ASSUME RunnerInv, HandleMessage
  PROVE  RunnerInv'
  <1> USE GroupsAssumption, SupervisionAssumption DEF RunnerInv, Running, service, helper, channel, system
  <1>0. /\ sup' \in Supervisors /\ SameMode(sup') /\ (sup'.failed => sup'.closed)
        /\ RunIsLeft /\ OnlySignals
        /\ at' = at \/ (at' = AfterPoll /\ sup'.closed)
    BY HandleMessageDoes
  <1>1. PICK s \in {"ok", "cancelled", "refused"} :
              /\ ack' = IF h.open THEN s ELSE ack
              /\ IF s = "ok"
                   THEN /\ sentinel' = SentinelAfter(msg)
                        /\ \/ Registered(sup') \/ UnregisteredBy(sup') \/ Announced(sup') \/ ReleasedBy(sup')
                   ELSE TurnedDown(sup') /\ sentinel' = sentinel
    BY HandleMessageDoes
  <1>2. /\ at \in {"poll", "repoll"} /\ ~sup.failed /\ ~sup.closed /\ msg # None /\ msg' = None
        /\ msg \in SupervisionRequests /\ faults' \in 0 .. MaxFaults
        /\ UNCHANGED <<tracked, reaps, backends, hp, prog, killed, lost, stray, runs, clock>>
    BY MaxGroupsAssumption DEF HandleMessage, Polling, FaultIf, Fault, RunnerTypeOK
  <1> USE <1>0, <1>1, <1>2 DEF SameMode, RunIsLeft, RunGoesOn, OnlySignals, AfterPoll, SupervisionRequests
  <1>t. CASE TurnedDown(sup') /\ sentinel' = sentinel /\ (h.open => ack' # "ok")
    <2> USE <1>t DEF TurnedDown
    <2>1. RunnerTypeOK'
      BY DEF RunnerTypeOK
    <2>2. RunIsBooked'
      BY DEF RunnerTypeOK, Runs, Supervisors, RunIsBooked, HelperHears
    <2>3. OwnedAreKept'
      BY DEF RunnerTypeOK, Runs, Supervisors, OwnedAreKept, HelperHolds, GroupsAreKnown, RunIsBooked, Where, Handling, Alive
    <2>4. GroupsAreKnown'
      BY DEF RunnerTypeOK, Runs, Supervisors, OwnedAreKept, HelperHolds, GroupsAreKnown, Where, Handling, Alive
    <2>5. HelperHolds'
      BY DEF RunnerTypeOK, Runs, Supervisors, HelperHolds, HelperHears, Where, Handling
    <2>6. HelperHears'
      BY DEF RunnerTypeOK, Runs, Supervisors, HelperHolds, HelperHears, Where, Handling, Exchanging
    <2>7. RequestsAreSound'
      BY DEF RunnerTypeOK, Runs, Supervisors, RequestsAreSound, HelperHolds, HelperHears, RunIsBooked, Where, Handling, Exchanging
    <2>8. CommitIsClean'
      BY DEF RunnerTypeOK, Runs, Supervisors, CommitIsClean, HelperHolds, HelperHears, RunIsBooked, Where, Handling, Alive
    <2>9. SuccessIsUnspoilt'
      BY DEF RunnerTypeOK, Runs, SuccessIsUnspoilt
    <2>10. EndIsNear'
      BY DEF RunnerTypeOK, Runs, Supervisors, EndIsNear, Settled, Stopping, LastPoll
    <2>11. NoStraySignal'
      BY DEF NoStraySignal
    <2> QED BY <2>1, <2>2, <2>3, <2>4, <2>5, <2>6, <2>7, <2>8, <2>9, <2>10, <2>11
  <1>r. CASE Registered(sup') /\ sentinel' = SentinelAfter(msg)
    <2> USE <1>r DEF Registered, SentinelAfter
    <2>1. RunnerTypeOK'
      BY DEF RunnerTypeOK
    <2>2. RunIsBooked'
      BY DEF RunnerTypeOK, Runs, Supervisors, RunIsBooked, HelperHears
    <2>3. OwnedAreKept'
      BY DEF RunnerTypeOK, Runs, Supervisors, OwnedAreKept, HelperHolds, GroupsAreKnown, RunIsBooked, Where, Handling, Alive, RequestsAreSound, Held
    <2>4. GroupsAreKnown'
      BY DEF RunnerTypeOK, Runs, Supervisors, OwnedAreKept, HelperHolds, GroupsAreKnown, Where, Handling, Alive
    <2>5. HelperHolds'
      BY DEF RunnerTypeOK, Runs, Supervisors, HelperHolds, HelperHears, Where, Handling
    <2>6. HelperHears'
      BY DEF RunnerTypeOK, Runs, Supervisors, HelperHolds, HelperHears, Where, Handling, Exchanging, RequestsAreSound
    <2>7. RequestsAreSound'
      BY DEF RunnerTypeOK, Runs, Supervisors, RequestsAreSound, HelperHolds, HelperHears, RunIsBooked, Where, Handling, Exchanging
    <2>8. CommitIsClean'
      BY DEF RunnerTypeOK, Runs, Supervisors, CommitIsClean, HelperHolds, HelperHears, RunIsBooked, Where, Handling, Alive
    <2>9. SuccessIsUnspoilt'
      BY DEF RunnerTypeOK, Runs, SuccessIsUnspoilt
    <2>10. EndIsNear'
      BY DEF RunnerTypeOK, Runs, Supervisors, EndIsNear, Settled, Stopping, LastPoll
    <2>11. NoStraySignal'
      BY DEF NoStraySignal
    <2> QED BY <2>1, <2>2, <2>3, <2>4, <2>5, <2>6, <2>7, <2>8, <2>9, <2>10, <2>11
  <1>u. CASE UnregisteredBy(sup') /\ sentinel' = SentinelAfter(msg)
    <2> USE <1>u DEF UnregisteredBy, SentinelAfter
    <2>1. RunnerTypeOK'
      BY DEF RunnerTypeOK
    <2>2. RunIsBooked'
      BY DEF RunnerTypeOK, Runs, Supervisors, RunIsBooked, HelperHears
    <2>3. OwnedAreKept'
      BY DEF RunnerTypeOK, Runs, Supervisors, OwnedAreKept, HelperHolds, GroupsAreKnown, RunIsBooked, Where, Handling, Alive
    <2>4. GroupsAreKnown'
      BY DEF RunnerTypeOK, Runs, Supervisors, OwnedAreKept, HelperHolds, GroupsAreKnown, Where, Handling, Alive
    <2>5. HelperHolds'
      BY DEF RunnerTypeOK, Runs, Supervisors, HelperHolds, HelperHears, Where, Handling, RequestsAreSound
    <2>6. HelperHears'
      BY DEF RunnerTypeOK, Runs, Supervisors, HelperHolds, HelperHears, Where, Handling, Exchanging, RequestsAreSound
    <2>7. RequestsAreSound'
      BY DEF RunnerTypeOK, Runs, Supervisors, RequestsAreSound, HelperHolds, HelperHears, RunIsBooked, Where, Handling, Exchanging
    <2>8. CommitIsClean'
      BY DEF RunnerTypeOK, Runs, Supervisors, CommitIsClean, HelperHolds, HelperHears, RunIsBooked, Where, Handling, Alive
    <2>9. SuccessIsUnspoilt'
      BY DEF RunnerTypeOK, Runs, SuccessIsUnspoilt
    <2>10. EndIsNear'
      BY DEF RunnerTypeOK, Runs, Supervisors, EndIsNear, Settled, Stopping, LastPoll
    <2>11. NoStraySignal'
      BY DEF NoStraySignal
    <2> QED BY <2>1, <2>2, <2>3, <2>4, <2>5, <2>6, <2>7, <2>8, <2>9, <2>10, <2>11
  <1>n. CASE Announced(sup') /\ sentinel' = SentinelAfter(msg)
    <2> USE <1>n DEF Announced, SentinelAfter
    <2>1. RunnerTypeOK'
      BY DEF RunnerTypeOK
    <2>2. RunIsBooked'
      BY DEF RunnerTypeOK, Runs, Supervisors, RunIsBooked, HelperHears
    <2>3. OwnedAreKept'
      BY DEF RunnerTypeOK, Runs, Supervisors, OwnedAreKept, HelperHolds, GroupsAreKnown, RunIsBooked, Where, Handling, Alive
    <2>4. GroupsAreKnown'
      BY DEF RunnerTypeOK, Runs, Supervisors, OwnedAreKept, HelperHolds, GroupsAreKnown, Where, Handling, Alive
    <2>5. HelperHolds'
      BY DEF RunnerTypeOK, Runs, Supervisors, HelperHolds, HelperHears, Where, Handling
    <2>6. HelperHears'
      BY DEF RunnerTypeOK, Runs, Supervisors, HelperHolds, HelperHears, Where, Handling, Exchanging, RequestsAreSound
    <2>7. RequestsAreSound'
      BY DEF RunnerTypeOK, Runs, Supervisors, RequestsAreSound, HelperHolds, HelperHears, RunIsBooked, Where, Handling, Exchanging
    <2>8. CommitIsClean'
      BY DEF RunnerTypeOK, Runs, Supervisors, CommitIsClean, HelperHolds, HelperHears, RunIsBooked, Where, Handling, Alive
    <2>9. SuccessIsUnspoilt'
      BY DEF RunnerTypeOK, Runs, SuccessIsUnspoilt
    <2>10. EndIsNear'
      BY DEF RunnerTypeOK, Runs, Supervisors, EndIsNear, Settled, Stopping, LastPoll
    <2>11. NoStraySignal'
      BY DEF NoStraySignal
    <2> QED BY <2>1, <2>2, <2>3, <2>4, <2>5, <2>6, <2>7, <2>8, <2>9, <2>10, <2>11
  <1>l. CASE ReleasedBy(sup') /\ sentinel' = SentinelAfter(msg)
    <2> USE <1>l DEF ReleasedBy, SentinelAfter
    <2>1. RunnerTypeOK'
      BY DEF RunnerTypeOK
    <2>2. RunIsBooked'
      BY DEF RunnerTypeOK, Runs, Supervisors, RunIsBooked, HelperHears
    <2>3. OwnedAreKept'
      BY DEF RunnerTypeOK, Runs, Supervisors, OwnedAreKept, HelperHolds, GroupsAreKnown, RunIsBooked, Where, Handling, Alive
    <2>4. GroupsAreKnown'
      BY DEF RunnerTypeOK, Runs, Supervisors, OwnedAreKept, HelperHolds, GroupsAreKnown, Where, Handling, Alive
    <2>5. HelperHolds'
      BY DEF RunnerTypeOK, Runs, Supervisors, HelperHolds, HelperHears, Where, Handling
    <2>6. HelperHears'
      BY DEF RunnerTypeOK, Runs, Supervisors, HelperHolds, HelperHears, Where, Handling, Exchanging, RequestsAreSound
    <2>7. RequestsAreSound'
      BY DEF RunnerTypeOK, Runs, Supervisors, RequestsAreSound, HelperHolds, HelperHears, RunIsBooked, Where, Handling, Exchanging
    <2>8. CommitIsClean'
      BY DEF RunnerTypeOK, Runs, Supervisors, CommitIsClean, HelperHolds, HelperHears, RunIsBooked, Where, Handling, Alive, RequestsAreSound
    <2>9. SuccessIsUnspoilt'
      BY DEF RunnerTypeOK, Runs, SuccessIsUnspoilt
    <2>10. EndIsNear'
      BY DEF RunnerTypeOK, Runs, Supervisors, EndIsNear, Settled, Stopping, LastPoll
    <2>11. NoStraySignal'
      BY DEF NoStraySignal
    <2> QED BY <2>1, <2>2, <2>3, <2>4, <2>5, <2>6, <2>7, <2>8, <2>9, <2>10, <2>11
  <1> QED BY <1>t, <1>r, <1>u, <1>n, <1>l 

\* A supervisor that is finished only reaps retired sentinels (supervisor_poll).
LEMMA PollFinishedKeeps ==
  ASSUME RunnerInv, PollFinished
  PROVE  RunnerInv'
  <1> USE GroupsAssumption, SupervisionAssumption DEF RunnerInv, AfterPoll, Running, service, helper, channel, system
  <1>0. /\ RunIsLeft /\ OnlySignals /\ at' = AfterPoll
    <2>1. CASE sup.failed
      BY <2>1, PollFailedDoes DEF PollFinished
    <2>2. CASE ~sup.failed
      BY <2>2, SignalsDo DEF PollFinished, RunnerTypeOK, RunIsLeft, RunGoesOn
    <2> QED BY <2>1, <2>2
  <1>00. PICK S \in SUBSET sup.retired : /\ sup' = [sup EXCEPT !.retired = @ \ S]
                                       /\ sentinel' = [g \in Groups |-> IF g \in S THEN "none" ELSE sentinel[g]]
    BY DEF PollFinished, ReapRetired
  <1>01. /\ sup' \in Supervisors /\ sup'.owned = sup.owned /\ sup'.pend = sup.pend /\ sup'.dead = sup.dead
         /\ sup'.retired = sup.retired \ S /\ sup'.allow = sup.allow /\ sup'.cleanup = sup.cleanup
         /\ sup'.closed = sup.closed /\ sup'.failed = sup.failed
    BY <1>00 DEF RunnerTypeOK, Supervisors
  <1>02. /\ at \in {"poll", "repoll"} /\ (sup.failed \/ sup.closed)
         /\ UNCHANGED <<tracked, reaps, backends, hp, channel, prog, killed, lost, stray, faults, runs, clock>>
    BY DEF PollFinished, Polling
  <1> USE <1>0, <1>00, <1>01, <1>02 DEF RunIsLeft, RunGoesOn, OnlySignals
  <1>11. RunnerTypeOK'
    BY MaxGroupsAssumption DEF RunnerTypeOK, Supervisors, AfterPoll
  <1>12. RunIsBooked'
    BY DEF RunnerTypeOK, Runs, Supervisors, RunIsBooked, HelperHears
  <1>13. OwnedAreKept'
    BY DEF RunnerTypeOK, Runs, Supervisors, OwnedAreKept, HelperHolds, GroupsAreKnown, RunIsBooked, Where, Handling, Alive
  <1>14. GroupsAreKnown'
    BY DEF RunnerTypeOK, Runs, Supervisors, OwnedAreKept, HelperHolds, GroupsAreKnown, Where, Handling, Alive
  <1>15. HelperHolds'
    BY DEF RunnerTypeOK, Runs, Supervisors, HelperHolds, HelperHears, Where, Handling
  <1>16. HelperHears'
    BY DEF RunnerTypeOK, Runs, Supervisors, HelperHolds, HelperHears, Where, Handling, Exchanging
  <1>17. RequestsAreSound'
    BY DEF RunnerTypeOK, Runs, Supervisors, RequestsAreSound, HelperHolds, HelperHears, RunIsBooked, Where, Handling, Exchanging
  <1>18. CommitIsClean'
    BY DEF RunnerTypeOK, Runs, Supervisors, CommitIsClean, HelperHolds, HelperHears, RunIsBooked, Where, Handling, Alive
  <1>19. SuccessIsUnspoilt'
    BY DEF RunnerTypeOK, Runs, SuccessIsUnspoilt
  <1>20. EndIsNear'
    BY DEF RunnerTypeOK, Runs, Supervisors, EndIsNear, Settled, Stopping, LastPoll, OwnedAreKept
  <1>21. NoStraySignal'
    BY DEF NoStraySignal
  <1> QED BY <1>11, <1>12, <1>13, <1>14, <1>15, <1>16, <1>17, <1>18, <1>19, <1>20, <1>21

\* With every request read, the supervisor notices the end of the channel (supervisor_poll).
LEMMA PollDrainedKeeps ==
  ASSUME RunnerInv, PollDrained
  PROVE  RunnerInv'
  <1> USE GroupsAssumption, SupervisionAssumption DEF RunnerInv, AfterPoll, Running, service, helper, channel, system
  <1>a. PICK open \in Ends : ReapRetired([sup EXCEPT !.closed = ~open])
    BY DEF PollDrained
  <1>0. open \in BOOLEAN /\ (clock >= 3 => open = h.open)
    <2>1. h.open \in BOOLEAN /\ clock \in Nat
      BY DEF RunnerTypeOK, Helpers
    <2>2. Copied \in BOOLEAN /\ (clock >= 3 => ~Copied)
      BY <2>1 DEF Copied
    <2> HIDE DEF Copied
    <2>3. (h.open \/ Copied) \in BOOLEAN /\ (clock >= 3 => (h.open \/ Copied) = h.open)
      BY <2>1, <2>2
    <2> QED BY <1>a, <2>1, <2>3 DEF Ends
  <1>00. PICK S \in SUBSET sup.retired :
           /\ sup' = [[sup EXCEPT !.closed = ~open] EXCEPT !.retired = @ \ S]
           /\ sentinel' = [g \in Groups |-> IF g \in S THEN "none" ELSE sentinel[g]]
    BY <1>a DEF ReapRetired, RunnerTypeOK, Supervisors
  <1>01. /\ sup' \in Supervisors /\ sup'.owned = sup.owned /\ sup'.pend = sup.pend /\ sup'.dead = sup.dead
         /\ sup'.retired = sup.retired \ S /\ sup'.allow = sup.allow /\ sup'.cleanup = sup.cleanup
         /\ sup'.closed = ~open /\ sup'.failed = sup.failed
    BY <1>00, <1>0 DEF RunnerTypeOK, Supervisors
  <1>02. /\ at \in {"poll", "repoll"} /\ ~sup.failed /\ ~sup.closed /\ msg = None /\ at' = AfterPoll
         /\ UNCHANGED <<job, tracked, reaps, backends, helper, channel, prog, killed,
                        lost, stray, faults, runs, clock>>
    BY DEF PollDrained, Polling
  <1> USE <1>0, <1>00, <1>01, <1>02
  <1>11. RunnerTypeOK'
    BY MaxGroupsAssumption DEF RunnerTypeOK, Supervisors, AfterPoll
  <1>12. RunIsBooked'
    BY DEF RunnerTypeOK, Runs, Supervisors, RunIsBooked, HelperHears
  <1>13. OwnedAreKept'
    BY DEF RunnerTypeOK, Runs, Supervisors, OwnedAreKept, HelperHolds, GroupsAreKnown, RunIsBooked, Where, Handling, Alive
  <1>14. GroupsAreKnown'
    BY DEF RunnerTypeOK, Runs, Supervisors, OwnedAreKept, HelperHolds, GroupsAreKnown, Where, Handling, Alive
  <1>15. HelperHolds'
    BY DEF RunnerTypeOK, Runs, Supervisors, HelperHolds, HelperHears, Where, Handling
  <1>16. HelperHears'
    BY DEF RunnerTypeOK, Runs, Supervisors, HelperHolds, HelperHears, Where, Handling, Exchanging
  <1>17. RequestsAreSound'
    BY DEF RunnerTypeOK, Runs, Supervisors, RequestsAreSound, HelperHolds, HelperHears, RunIsBooked, Where, Handling, Exchanging
  <1>18. CommitIsClean'
    BY DEF RunnerTypeOK, Runs, Supervisors, CommitIsClean, HelperHolds, HelperHears, RunIsBooked, Where, Handling, Alive
  <1>19. SuccessIsUnspoilt'
    BY DEF RunnerTypeOK, Runs, SuccessIsUnspoilt
  <1>20. EndIsNear'
    BY DEF RunnerTypeOK, Runs, Supervisors, EndIsNear, Settled, Stopping, LastPoll, RunIsBooked
  <1>21. NoStraySignal'
    BY DEF NoStraySignal
  <1> QED BY <1>11, <1>12, <1>13, <1>14, <1>15, <1>16, <1>17, <1>18, <1>19, <1>20, <1>21

\* A sentinel that died by itself has every group killed and nothing admitted any more
\* (sentinels_are_safe).
LEMMA PollUnsafeKeeps ==
  ASSUME RunnerInv, PollUnsafe
  PROVE  RunnerInv'
  <1> USE GroupsAssumption, SupervisionAssumption DEF RunnerInv, AfterPoll, KillGroups, Running, service, helper, channel, system
  <1>0. /\ RunIsLeft /\ job'.stop # "none" /\ OnlySignals /\ at' = AfterPoll
    BY PollFailedDoes DEF PollUnsafe
  <1>01. /\ sup' \in Supervisors /\ sup'.owned = sup.owned /\ sup'.pend = sup.pend /\ sup'.dead = sup.owned
         /\ sup'.retired = sup.retired /\ sup'.allow = sup.allow /\ sup'.cleanup
         /\ sup'.closed /\ sup'.failed
    BY DEF PollUnsafe, RunnerTypeOK, Supervisors
  <1>02. /\ at \in {"poll", "repoll"} /\ ~sup.failed /\ ~sup.closed /\ msg = None
         /\ KillGroups(sup.owned \ sup.dead)
         /\ UNCHANGED <<tracked, reaps, backends, hp, channel, faults, runs, clock>>
    BY DEF PollUnsafe, Polling
  <1> USE <1>0, <1>01, <1>02 DEF RunIsLeft, RunGoesOn, OnlySignals
  <1>11. RunnerTypeOK'
    <2>1. sup.owned \subseteq Groups
      BY DEF RunnerTypeOK, Supervisors
    <2>2. sentinel' \in [Groups -> {"none", "alive", "zombie"}] /\ killed' \subseteq Groups /\ stray' \in BOOLEAN
      BY <2>1 DEF RunnerTypeOK, KillGroups
    <2> QED
      BY <2>2 DEF RunnerTypeOK, AfterPoll, KillGroups
  <1>12. RunIsBooked'
    BY DEF RunnerTypeOK, Runs, Supervisors, RunIsBooked, HelperHears
  <1>13. OwnedAreKept'
    BY DEF RunnerTypeOK, Runs, Supervisors, OwnedAreKept, HelperHolds, GroupsAreKnown, RunIsBooked, Where, Handling, Alive
  <1>14. GroupsAreKnown'
    BY DEF RunnerTypeOK, Runs, Supervisors, OwnedAreKept, HelperHolds, GroupsAreKnown, Where, Handling, Alive
  <1>15. HelperHolds'
    BY DEF RunnerTypeOK, Runs, Supervisors, HelperHolds, HelperHears, Where, Handling
  <1>16. HelperHears'
    BY DEF RunnerTypeOK, Runs, Supervisors, HelperHolds, HelperHears, Where, Handling, Exchanging
  <1>17. RequestsAreSound'
    BY DEF RunnerTypeOK, Runs, Supervisors, RequestsAreSound, HelperHolds, HelperHears, RunIsBooked, Where, Handling, Exchanging
  <1>18. CommitIsClean'
    BY DEF RunnerTypeOK, Runs, Supervisors, CommitIsClean, HelperHolds, HelperHears, RunIsBooked, Where, Handling, Alive
  <1>19. SuccessIsUnspoilt'
    BY DEF RunnerTypeOK, Runs, SuccessIsUnspoilt
  <1>20. EndIsNear'
    BY DEF RunnerTypeOK, Runs, Supervisors, EndIsNear, Settled, Stopping, LastPoll
  <1>21. NoStraySignal'
    BY DEF NoStraySignal, RunnerTypeOK, OwnedAreKept, Supervisors, Held, RunIsBooked
  <1> QED BY <1>11, <1>12, <1>13, <1>14, <1>15, <1>16, <1>17, <1>18, <1>19, <1>20, <1>21

\* The second half of a poll: deadlines stop the run, and SIGINT and SIGKILL follow when the
\* grace is over, at hard_at and later in every poll (helper_poll_cb).
LEMMA EnforceKeeps ==
  ASSUME RunnerInv, Enforce
  PROVE  RunnerInv'
  <1> USE GroupsAssumption, SupervisionAssumption DEF RunnerInv, Running, service, helper, channel, system
  <1>1. /\ at = "stop" /\ ~job.reaped /\ ~(clock >= 3 /\ Detachable)
        /\ at' = (IF job.exited THEN "repoll" ELSE "loop")
        /\ UNCHANGED <<tracked, reaps, backends, channel, faults, runs, clock>>
        /\ RunGoesOn /\ (job'.result = "success" => job.result = "success")
        /\ job'.exited = job.exited /\ (TimesOut => job'.stop # "none")
        /\ (job.op = "list" /\ clock >= 3 /\ ~job.exited => job'.result # "none")
        /\ OnlySignals
    BY EnforceDoes
  <1>0. PICK over \in BOOLEAN :
          /\ IF Escalates(over)
              THEN job'.int /\ (job'.kill <=> Kills(over)) /\ (job'.clean <=> sup.owned = {})
              ELSE job'.clean = job.clean /\ job'.int = job.int /\ job'.kill = job.kill
          /\ hp' = (IF Kills(over) /\ hp = "running" THEN "dying" ELSE hp)
          /\ sup' = IF Escalates(over)
                    THEN [sup EXCEPT !.cleanup = TRUE, !.dead = IF Kills(over) THEN sup.owned ELSE @]
                    ELSE sup
          /\ KillGroups(IF Kills(over) THEN sup.owned \ sup.dead ELSE {})
    BY EnforceDoes
  <1>2. job \in Runs /\ h \in Helpers /\ sup \in Supervisors /\ clock \in 0 .. LastPoll
    BY DEF RunnerTypeOK
  <1>5. (Kills(over) => Escalates(over) /\ job.int) /\ (Escalates(over) => job.stop # "none" /\ ~job.kill)
        /\ (job.stop # "none" /\ ~job.kill /\ clock >= 3 => Escalates(over))
        /\ (Escalates(over) /\ job.int => Kills(over))
    BY DEF Kills, Escalates, GraceIsOver
  <1>k. CASE Kills(over)
    <2>01. /\ sup' \in Supervisors /\ sup'.owned = sup.owned /\ sup'.pend = sup.pend /\ sup'.dead = sup.owned
           /\ sup'.retired = sup.retired /\ sup'.allow = sup.allow /\ sup'.cleanup
           /\ sup'.closed = sup.closed /\ sup'.failed = sup.failed
      BY <1>0, <1>2, <1>5, <1>k DEF Supervisors
    <2>02. /\ hp' = (IF hp = "running" THEN "dying" ELSE hp) /\ KillGroups(sup.owned \ sup.dead)
           /\ Escalates(over) /\ job.int /\ job'.kill /\ job'.int /\ (job'.clean <=> sup.owned = {}) /\ ~job.kill
           /\ job.stop # "none"
      BY <1>0, <1>5, <1>k
    <2> USE <1>1, <1>2, <2>01, <2>02 DEF RunGoesOn, OnlySignals, KillGroups
    <2>1. RunnerTypeOK'
      <3>1. sup.owned \subseteq Groups
        BY DEF RunnerTypeOK, Supervisors
      <3>2. sentinel' \in [Groups -> {"none", "alive", "zombie"}] /\ killed' \subseteq Groups /\ stray' \in BOOLEAN
        BY <3>1 DEF RunnerTypeOK
      <3> QED
        BY <3>2 DEF RunnerTypeOK
    <2>2. RunIsBooked'
      BY DEF RunnerTypeOK, Runs, Supervisors, RunIsBooked, HelperHears
    <2>3. OwnedAreKept'
      BY DEF RunnerTypeOK, Runs, Supervisors, OwnedAreKept, HelperHolds, GroupsAreKnown, RunIsBooked, Where, Handling, Alive
    <2>4. GroupsAreKnown'
      BY DEF RunnerTypeOK, Runs, Supervisors, OwnedAreKept, HelperHolds, GroupsAreKnown, Where, Handling, Alive
    <2>5. HelperHolds'
      BY DEF RunnerTypeOK, Runs, Supervisors, HelperHolds, HelperHears, Where, Handling
    <2>6. HelperHears'
      BY DEF RunnerTypeOK, Runs, Supervisors, HelperHolds, HelperHears, Where, Handling, Exchanging
    <2>7. RequestsAreSound'
      BY DEF RunnerTypeOK, Runs, Supervisors, RequestsAreSound, HelperHolds, HelperHears, RunIsBooked, Where, Handling, Exchanging
    <2>8. CommitIsClean'
      BY DEF RunnerTypeOK, Runs, Supervisors, CommitIsClean, HelperHolds, HelperHears, RunIsBooked, Where, Handling, Alive
    <2>9. SuccessIsUnspoilt'
      BY DEF RunnerTypeOK, Runs, SuccessIsUnspoilt
    <2>10. EndIsNear'
      BY DEF RunnerTypeOK, Runs, Supervisors, EndIsNear, Settled, Stopping, LastPoll, RunIsBooked, TimesOut, Detachable, OwnedAreKept
    <2>11. NoStraySignal'
      BY DEF NoStraySignal, RunnerTypeOK, OwnedAreKept, Supervisors, Held, RunIsBooked
    <2> QED BY <2>1, <2>2, <2>3, <2>4, <2>5, <2>6, <2>7, <2>8, <2>9, <2>10, <2>11
  <1>d. CASE Escalates(over) /\ ~Kills(over)
    <2>01. /\ sup' \in Supervisors /\ sup'.owned = sup.owned /\ sup'.pend = sup.pend /\ sup'.dead = sup.dead
           /\ sup'.retired = sup.retired /\ sup'.allow = sup.allow /\ sup'.cleanup
           /\ sup'.closed = sup.closed /\ sup'.failed = sup.failed
      BY <1>0, <1>2, <1>d DEF Supervisors
    <2>02. hp' = hp /\ KillGroups({}) /\ ~job.int /\ job'.int /\ ~job'.kill /\ (job'.clean <=> sup.owned = {})
           /\ ~job.kill /\ job.stop # "none"
      BY <1>0, <1>5, <1>d
    <2>03. UNCHANGED <<prog, killed, sentinel, lost, stray>>
      BY <2>02, NothingIsKilled
    <2> USE <1>1, <1>2, <2>01, <2>02, <2>03 DEF RunGoesOn, OnlySignals
    <2>1. RunnerTypeOK'
      BY DEF RunnerTypeOK
    <2>2. RunIsBooked'
      BY DEF RunnerTypeOK, Runs, Supervisors, RunIsBooked, HelperHears
    <2>3. OwnedAreKept'
      BY DEF RunnerTypeOK, Runs, Supervisors, OwnedAreKept, HelperHolds, GroupsAreKnown, RunIsBooked, Where, Handling, Alive
    <2>4. GroupsAreKnown'
      BY DEF RunnerTypeOK, Runs, Supervisors, OwnedAreKept, HelperHolds, GroupsAreKnown, Where, Handling, Alive
    <2>5. HelperHolds'
      BY DEF RunnerTypeOK, Runs, Supervisors, HelperHolds, HelperHears, Where, Handling
    <2>6. HelperHears'
      BY DEF RunnerTypeOK, Runs, Supervisors, HelperHolds, HelperHears, Where, Handling, Exchanging
    <2>7. RequestsAreSound'
      BY DEF RunnerTypeOK, Runs, Supervisors, RequestsAreSound, HelperHolds, HelperHears, RunIsBooked, Where, Handling, Exchanging
    <2>8. CommitIsClean'
      BY DEF RunnerTypeOK, Runs, Supervisors, CommitIsClean, HelperHolds, HelperHears, RunIsBooked, Where, Handling, Alive
    <2>9. SuccessIsUnspoilt'
      BY DEF RunnerTypeOK, Runs, SuccessIsUnspoilt
    <2>10. EndIsNear'
      BY DEF RunnerTypeOK, Runs, Supervisors, EndIsNear, Settled, Stopping, LastPoll, RunIsBooked, TimesOut, Detachable, OwnedAreKept
    <2>11. NoStraySignal'
      BY DEF NoStraySignal
    <2> QED BY <2>1, <2>2, <2>3, <2>4, <2>5, <2>6, <2>7, <2>8, <2>9, <2>10, <2>11
  <1>n. CASE ~Escalates(over)
    <2>01. sup' = sup /\ hp' = hp /\ KillGroups({}) /\ job'.clean = job.clean /\ job'.int = job.int /\ job'.kill = job.kill
           /\ (clock >= 3 => job.stop = "none" \/ job.kill)
      BY <1>0, <1>5, <1>n
    <2>02. UNCHANGED <<prog, killed, sentinel, lost, stray>>
      BY <2>01, NothingIsKilled
    <2> USE <1>1, <1>2, <2>01, <2>02 DEF RunGoesOn, OnlySignals
    <2>1. RunnerTypeOK'
      BY DEF RunnerTypeOK
    <2>2. RunIsBooked'
      BY DEF RunnerTypeOK, Runs, Supervisors, RunIsBooked, HelperHears
    <2>3. OwnedAreKept'
      BY DEF RunnerTypeOK, Runs, Supervisors, OwnedAreKept, HelperHolds, GroupsAreKnown, RunIsBooked, Where, Handling, Alive
    <2>4. GroupsAreKnown'
      BY DEF RunnerTypeOK, Runs, Supervisors, OwnedAreKept, HelperHolds, GroupsAreKnown, Where, Handling, Alive
    <2>5. HelperHolds'
      BY DEF RunnerTypeOK, Runs, Supervisors, HelperHolds, HelperHears, Where, Handling
    <2>6. HelperHears'
      BY DEF RunnerTypeOK, Runs, Supervisors, HelperHolds, HelperHears, Where, Handling, Exchanging
    <2>7. RequestsAreSound'
      BY DEF RunnerTypeOK, Runs, Supervisors, RequestsAreSound, HelperHolds, HelperHears, RunIsBooked, Where, Handling, Exchanging
    <2>8. CommitIsClean'
      BY DEF RunnerTypeOK, Runs, Supervisors, CommitIsClean, HelperHolds, HelperHears, RunIsBooked, Where, Handling, Alive
    <2>9. SuccessIsUnspoilt'
      BY DEF RunnerTypeOK, Runs, SuccessIsUnspoilt
    <2>10. EndIsNear'
      BY DEF RunnerTypeOK, Runs, Supervisors, EndIsNear, Settled, Stopping, LastPoll, RunIsBooked, TimesOut, Detachable, OwnedAreKept
    <2>11. NoStraySignal'
      BY DEF NoStraySignal
    <2> QED BY <2>1, <2>2, <2>3, <2>4, <2>5, <2>6, <2>7, <2>8, <2>9, <2>10, <2>11
  <1> QED BY <1>k, <1>d, <1>n 

\* A channel that stays open past the grace is aborted (complete_helper_supervision).
LEMMA AwaitCloseKeeps ==
  ASSUME RunnerInv, AwaitClose
  PROVE  RunnerInv'
  <1> USE GroupsAssumption, SupervisionAssumption DEF RunnerInv, Running, service, helper, channel, system
  <1>2. /\ Completing /\ ~sup.closed
        /\ UNCHANGED <<tracked, reaps, backends, helper, channel, system, faults, runs, clock>>
    BY DEF AwaitClose
  <1>a. CASE (job.exited \/ clock < 3) /\ at' = "finish" /\ UNCHANGED <<job, sup>>
    <2> USE <1>2, <1>a DEF Completing
    <2>1. RunnerTypeOK'
      BY DEF RunnerTypeOK
    <2>2. RunIsBooked'
      BY DEF RunnerTypeOK, Runs, Supervisors, RunIsBooked, HelperHears
    <2>3. OwnedAreKept'
      BY DEF RunnerTypeOK, Runs, Supervisors, OwnedAreKept, HelperHolds, GroupsAreKnown, RunIsBooked, Where, Handling, Alive
    <2>4. GroupsAreKnown'
      BY DEF RunnerTypeOK, Runs, Supervisors, OwnedAreKept, HelperHolds, GroupsAreKnown, Where, Handling, Alive
    <2>5. HelperHolds'
      BY DEF RunnerTypeOK, Runs, Supervisors, HelperHolds, HelperHears, Where, Handling, RunIsBooked
    <2>6. HelperHears'
      BY DEF RunnerTypeOK, Runs, Supervisors, HelperHolds, HelperHears, Where, Handling, Exchanging
    <2>7. RequestsAreSound'
      BY DEF RunnerTypeOK, Runs, Supervisors, RequestsAreSound, HelperHolds, HelperHears, RunIsBooked, Where, Handling, Exchanging
    <2>8. CommitIsClean'
      BY DEF RunnerTypeOK, Runs, Supervisors, CommitIsClean, HelperHolds, HelperHears, RunIsBooked, Where, Handling, Alive
    <2>9. SuccessIsUnspoilt'
      BY DEF RunnerTypeOK, Runs, SuccessIsUnspoilt
    <2>10. EndIsNear'
      BY DEF RunnerTypeOK, Runs, Supervisors, EndIsNear, Settled, Stopping, LastPoll
    <2>11. NoStraySignal'
      BY DEF NoStraySignal
    <2> QED BY <2>1, <2>2, <2>3, <2>4, <2>5, <2>6, <2>7, <2>8, <2>9, <2>10, <2>11
  <1>b. CASE /\ ~job.exited /\ UNCHANGED at
             /\ job' = [StopRun(job, "io") EXCEPT !.io = TRUE]
             /\ sup' = [sup EXCEPT !.failed = TRUE, !.closed = TRUE]
    <2>01. RunIsLeft /\ job'.io /\ job'.stop # "none"
      BY <1>b DEF StopRun, RunnerTypeOK, RunIsLeft, RunGoesOn, Runs, Reasons
    <2>02. /\ sup' \in Supervisors /\ sup'.owned = sup.owned /\ sup'.pend = sup.pend /\ sup'.dead = sup.dead
           /\ sup'.retired = sup.retired /\ sup'.allow = sup.allow /\ sup'.cleanup = sup.cleanup
           /\ sup'.closed /\ sup'.failed
      BY <1>b DEF RunnerTypeOK, Supervisors
    <2>03. at' = "complete" /\ ~job.exited
      BY <1>2, <1>b DEF Completing
    <2> USE <1>2, <2>01, <2>02, <2>03 DEF Completing, RunIsLeft, RunGoesOn
    <2>1. RunnerTypeOK'
      BY DEF RunnerTypeOK
    <2>2. RunIsBooked'
      BY DEF RunnerTypeOK, Runs, Supervisors, RunIsBooked, HelperHears
    <2>3. OwnedAreKept'
      BY DEF RunnerTypeOK, Runs, Supervisors, OwnedAreKept, HelperHolds, GroupsAreKnown, RunIsBooked, Where, Handling, Alive
    <2>4. GroupsAreKnown'
      BY DEF RunnerTypeOK, Runs, Supervisors, OwnedAreKept, HelperHolds, GroupsAreKnown, Where, Handling, Alive
    <2>5. HelperHolds'
      BY DEF RunnerTypeOK, Runs, Supervisors, HelperHolds, HelperHears, Where, Handling, RunIsBooked
    <2>6. HelperHears'
      BY DEF RunnerTypeOK, Runs, Supervisors, HelperHolds, HelperHears, Where, Handling, Exchanging
    <2>7. RequestsAreSound'
      BY DEF RunnerTypeOK, Runs, Supervisors, RequestsAreSound, HelperHolds, HelperHears, RunIsBooked, Where, Handling, Exchanging
    <2>8. CommitIsClean'
      BY DEF RunnerTypeOK, Runs, Supervisors, CommitIsClean, HelperHolds, HelperHears, RunIsBooked, Where, Handling, Alive
    <2>9. SuccessIsUnspoilt'
      BY DEF RunnerTypeOK, Runs, SuccessIsUnspoilt
    <2>10. EndIsNear'
      BY DEF RunnerTypeOK, Runs, Supervisors, EndIsNear, Settled, Stopping, LastPoll
    <2>11. NoStraySignal'
      BY DEF NoStraySignal
    <2> QED BY <2>1, <2>2, <2>3, <2>4, <2>5, <2>6, <2>7, <2>8, <2>9, <2>10, <2>11
  <1> QED BY <1>a, <1>b DEF AwaitClose

\* The group that is let go is the committed backend, unharmed (finalize_release).
LEMMA LetGoKeeps ==
  ASSUME RunnerInv, LetGo
  PROVE  RunnerInv'
  <1> USE GroupsAssumption, SupervisionAssumption DEF RunnerInv, LetGo, Completing, CanLetGo, CleanExit, ReapGroups, Adopted, Running, service, helper, channel, system
  <1>1. RunnerTypeOK'
    <2>1. job' \in Runs
      BY DEF RunnerTypeOK, Runs, Statuses, Reasons, Helpers
    <2>2. sup' \in Supervisors
      BY DEF RunnerTypeOK, Supervisors, OrNoGroup
    <2>3. h' \in Helpers
      BY DEF RunnerTypeOK, Helpers, OrNoGroup, Statuses
    <2>4. /\ prog' \in [Groups -> {"none", "gated", "running", "left", "dead"}]
          /\ sentinel' \in [Groups -> {"none", "alive", "zombie"}]
          /\ killed' \subseteq Groups /\ lost' \subseteq Groups /\ backends' \subseteq Groups /\ stray' \in BOOLEAN
      BY DEF RunnerTypeOK, Supervisors
    <2> QED
      BY <2>1, <2>2, <2>3, <2>4, MaxGroupsAssumption DEF RunnerTypeOK, Supervisors, LastPoll
  <1>2. RunIsBooked'
    BY DEF RunnerTypeOK, Runs, Supervisors, RunIsBooked, HelperHears
  <1>3. OwnedAreKept'
    BY DEF RunnerTypeOK, Runs, Supervisors, OwnedAreKept, HelperHolds, GroupsAreKnown, RunIsBooked, Where, Handling, Alive
  <1>4. GroupsAreKnown'
    BY DEF RunnerTypeOK, Runs, Supervisors, OwnedAreKept, HelperHolds, GroupsAreKnown, Where, Handling, Alive, CommitIsClean, RunIsBooked, Runs
  <1>5. HelperHolds'
    BY DEF RunnerTypeOK, Runs, Supervisors, HelperHolds, HelperHears, Where, Handling, RunIsBooked
  <1>6. HelperHears'
    BY DEF RunnerTypeOK, Runs, Supervisors, HelperHolds, HelperHears, Where, Handling, Exchanging, RunIsBooked
  <1>7. RequestsAreSound'
    BY DEF RunnerTypeOK, Runs, Supervisors, RequestsAreSound, HelperHolds, HelperHears, RunIsBooked, Where, Handling, Exchanging
  <1>8. CommitIsClean'
    BY DEF RunnerTypeOK, Runs, Supervisors, CommitIsClean, HelperHolds, HelperHears, RunIsBooked, Where, Handling, Alive
  <1>9. SuccessIsUnspoilt'
    BY DEF RunnerTypeOK, Runs, SuccessIsUnspoilt
  <1>10. EndIsNear'
    BY DEF RunnerTypeOK, Runs, Supervisors, EndIsNear, Settled, Stopping, LastPoll
  <1>11. NoStraySignal'
    BY DEF NoStraySignal
  <1> QED BY <1>1, <1>2, <1>3, <1>4, <1>5, <1>6, <1>7, <1>8, <1>9, <1>10, <1>11

\* What should not be there any more is killed once, sentinel and all (signal_groups).
LEMMA CleanGroupsKeeps ==
  ASSUME RunnerInv, CleanGroups
  PROVE  RunnerInv'
  <1> USE GroupsAssumption, SupervisionAssumption DEF RunnerInv, CleanGroups, Completing, KillGroups, Running, service, helper, channel, system
  <1>1. RunnerTypeOK'
    <2>1. job' \in Runs
      BY DEF RunnerTypeOK, Runs, Statuses, Reasons, Helpers
    <2>2. sup' \in Supervisors
      BY DEF RunnerTypeOK, Supervisors, OrNoGroup
    <2>3. h' \in Helpers
      BY DEF RunnerTypeOK, Helpers, OrNoGroup, Statuses
    <2>4. /\ prog' \in [Groups -> {"none", "gated", "running", "left", "dead"}]
          /\ sentinel' \in [Groups -> {"none", "alive", "zombie"}]
          /\ killed' \subseteq Groups /\ lost' \subseteq Groups /\ backends' \subseteq Groups /\ stray' \in BOOLEAN
      BY DEF RunnerTypeOK, Supervisors
    <2> QED
      BY <2>1, <2>2, <2>3, <2>4, MaxGroupsAssumption DEF RunnerTypeOK, Supervisors, LastPoll
  <1>2. RunIsBooked'
    BY DEF RunnerTypeOK, Runs, Supervisors, RunIsBooked, HelperHears
  <1>3. OwnedAreKept'
    BY DEF RunnerTypeOK, Runs, Supervisors, OwnedAreKept, HelperHolds, GroupsAreKnown, RunIsBooked, Where, Handling, Alive
  <1>4. GroupsAreKnown'
    BY DEF RunnerTypeOK, Runs, Supervisors, OwnedAreKept, HelperHolds, GroupsAreKnown, Where, Handling, Alive
  <1>5. HelperHolds'
    BY DEF RunnerTypeOK, Runs, Supervisors, HelperHolds, HelperHears, Where, Handling
  <1>6. HelperHears'
    BY DEF RunnerTypeOK, Runs, Supervisors, HelperHolds, HelperHears, Where, Handling, Exchanging
  <1>7. RequestsAreSound'
    BY DEF RunnerTypeOK, Runs, Supervisors, RequestsAreSound, HelperHolds, HelperHears, RunIsBooked, Where, Handling, Exchanging
  <1>8. CommitIsClean'
    BY DEF RunnerTypeOK, Runs, Supervisors, CommitIsClean, HelperHolds, HelperHears, RunIsBooked, Where, Handling, Alive
  <1>9. SuccessIsUnspoilt'
    BY DEF RunnerTypeOK, Runs, SuccessIsUnspoilt
  <1>10. EndIsNear'
    BY DEF RunnerTypeOK, Runs, Supervisors, EndIsNear, Settled, Stopping, LastPoll, OwnedAreKept
  <1>11. NoStraySignal'
    BY DEF NoStraySignal, RunnerTypeOK, OwnedAreKept, Supervisors, Held, RunIsBooked
  <1> QED BY <1>1, <1>2, <1>3, <1>4, <1>5, <1>6, <1>7, <1>8, <1>9, <1>10, <1>11

\* What survives SIGKILL is waited for, and tracked when nobody waits any more
\* (supervisor_poll_cleanup, detach_terminated_groups).
LEMMA ReapCleanedGroupsKeeps ==
  ASSUME RunnerInv, ReapCleanedGroups
  PROVE  RunnerInv'
  <1> USE GroupsAssumption, SupervisionAssumption DEF RunnerInv, ReapCleanedGroups, Completing, ReapGroups, ChildrenLeft, Adopted, GraceIsOver, Running, service, helper, channel, system
  <1>1. RunnerTypeOK'
    <2>0. PICK over \in BOOLEAN :
            /\ sup' = [sup EXCEPT !.owned = IF job.op # "list" /\ GraceIsOver(over) THEN {} ELSE ChildrenLeft(sup.owned),
                                 !.dead = IF job.op # "list" /\ GraceIsOver(over) THEN {} ELSE ChildrenLeft(sup.owned)]
            /\ job' = [job EXCEPT !.io = @ \/ job.stop = "none",
                                 !.clean = (IF job.op # "list" /\ GraceIsOver(over) THEN {}
                                            ELSE ChildrenLeft(sup.owned)) = {}]
      BY Zenon
    <2> DEFINE k == IF job.op # "list" /\ GraceIsOver(over) THEN {} ELSE ChildrenLeft(sup.owned)
               c == k = {}
               i == job.io \/ job.stop = "none"
    <2>1. job \in Runs /\ sup \in Supervisors
      BY DEF RunnerTypeOK
    <2>2. i \in BOOLEAN /\ c \in BOOLEAN /\ k \subseteq Groups
      BY <2>1 DEF Runs, Supervisors
    <2>3. job' = [job EXCEPT !.io = i, !.clean = c] /\ sup' = [sup EXCEPT !.owned = k, !.dead = k]
      BY <2>0, <2>1 DEF Runs
    <2> HIDE DEF i, c, k
    <2>4. job' \in Runs /\ sup' \in Supervisors
      BY <2>1, <2>2, <2>3 DEF Runs, Supervisors
    <2>5. /\ prog' \in [Groups -> {"none", "gated", "running", "left", "dead"}]
          /\ sentinel' \in [Groups -> {"none", "alive", "zombie"}] /\ tracked' \subseteq Groups
      BY DEF RunnerTypeOK, Supervisors
    <2>6. at' = "finish" /\ UNCHANGED <<reaps, backends, helper, channel, killed, lost, stray, faults, runs, clock>>
      OBVIOUS
    <2> HIDE DEF ReapCleanedGroups
    <2> QED
      BY <2>4, <2>5, <2>6 DEF RunnerTypeOK
  <1>2. RunIsBooked'
    BY DEF RunnerTypeOK, Runs, Supervisors, RunIsBooked, HelperHears
  <1>3. OwnedAreKept'
    BY DEF RunnerTypeOK, Runs, Supervisors, OwnedAreKept, HelperHolds, GroupsAreKnown, RunIsBooked, Where, Handling, Alive
  <1>4. GroupsAreKnown'
    BY DEF RunnerTypeOK, Runs, Supervisors, OwnedAreKept, HelperHolds, GroupsAreKnown, Where, Handling, Alive
  <1>5. HelperHolds'
    BY DEF RunnerTypeOK, Runs, Supervisors, HelperHolds, HelperHears, Where, Handling, RunIsBooked
  <1>6. HelperHears'
    BY DEF RunnerTypeOK, Runs, Supervisors, HelperHolds, HelperHears, Where, Handling, Exchanging, RunIsBooked
  <1>7. RequestsAreSound'
    BY DEF RunnerTypeOK, Runs, Supervisors, RequestsAreSound, HelperHolds, HelperHears, RunIsBooked, Where, Handling, Exchanging
  <1>8. CommitIsClean'
    BY DEF RunnerTypeOK, Runs, Supervisors, CommitIsClean, HelperHolds, HelperHears, RunIsBooked, Where, Handling, Alive
  <1>9. SuccessIsUnspoilt'
    BY DEF RunnerTypeOK, Runs, SuccessIsUnspoilt
  <1>10. EndIsNear'
    BY DEF RunnerTypeOK, Runs, Supervisors, EndIsNear, Settled, Stopping, LastPoll
  <1>11. NoStraySignal'
    BY DEF NoStraySignal
  <1> QED BY <1>1, <1>2, <1>3, <1>4, <1>5, <1>6, <1>7, <1>8, <1>9, <1>10, <1>11

\* A run ends with everything reaped or handed on, and an inventory is answered at hard_at
\* (maybe_finish_helper, publish_result).
LEMMA FinishPollKeeps ==
  ASSUME RunnerInv, FinishPoll
  PROVE  RunnerInv'
  <1> USE GroupsAssumption, SupervisionAssumption DEF RunnerInv, Running, service, helper, channel, system
  <1>0. PICK unread \in BOOLEAN, decoded \in BOOLEAN :
          IF job.clean /\ sup.closed
            THEN /\ job' = [NewRun(job.op) EXCEPT !.on = FALSE,
                                    !.result = Published(AtTheEnd(unread), decoded).result]
                 /\ sup' = NewSupervisor(job.op)
                 /\ reaps' = reaps \cup sup.retired
                 /\ h' = NewHelper /\ msg' = None /\ ack' = "none" /\ clock' = 0
                 /\ FaultIf(InputIsLeft(unread))
            ELSE /\ job' = IF job.op = "list" /\ clock >= 3 THEN Published(job, decoded) ELSE job
                 /\ UNCHANGED <<sup, reaps, h, msg, ack, faults, clock>>
    BY Zenon DEF FinishPoll
  <1>1. /\ at = "finish" /\ at' = "loop" /\ faults' \in 0 .. MaxFaults
        /\ UNCHANGED <<tracked, backends, hp, system, runs>>
    BY <1>0, MaxGroupsAssumption DEF FinishPoll, RunnerTypeOK, FaultIf, Fault
  <1>2. job \in Runs /\ sup \in Supervisors
    BY DEF RunnerTypeOK
  <1>e. CASE job.clean /\ sup.closed
    <2>01. /\ job' \in Runs /\ ~job'.on /\ ~job'.exited /\ ~job'.reaped /\ ~job'.clean /\ ~job'.kill
      <3> DEFINE r == AtTheEnd(unread)
                 s == Published(r, decoded).result
                 n == NewRun(job.op)
      <3>1. r \in Runs
        <4> DEFINE i == job.io \/ InputIsLeft(unread)
        <4>1. i \in BOOLEAN
          BY <1>2 DEF Runs
        <4>2. r = [job EXCEPT !.io = i]
          BY <1>2 DEF AtTheEnd, Runs
        <4> HIDE DEF i, r
        <4> QED BY <1>2, <4>1, <4>2 DEF Runs
      <3> HIDE DEF r
      <3>2. Published(r, decoded) \in Runs
        BY <3>1, PublishedDoes
      <3>3. s \in Statuses
        BY <3>2 DEF Runs
      <3>4. n \in Runs /\ ~n.exited /\ ~n.reaped /\ ~n.clean /\ ~n.kill
        BY <1>2, NewTypes DEF NewRun, Runs
      <3>5. job' = [n EXCEPT !.on = FALSE, !.result = s]
        BY <1>0, <1>e DEF r
      <3> HIDE DEF s, n
      <3> QED BY <3>3, <3>4, <3>5 DEF Runs
    <2>02. /\ sup' \in Supervisors /\ sup'.owned = {} /\ sup'.pend = None /\ sup'.dead = {} /\ sup'.retired = {}
           /\ ~sup'.failed
      <3>1. job.op \in {"up", "list", "other"} /\ sup' = NewSupervisor(job.op)
        BY <1>0, <1>2, <1>e DEF Runs
      <3>2. sup' \in Supervisors
        BY <3>1, NewTypes
      <3> QED BY <3>1, <3>2 DEF NewSupervisor
    <2>03. /\ reaps' = reaps \cup sup.retired /\ h' \in Helpers /\ msg' = None /\ ack' = "none" /\ clock' = 0
           /\ sup.retired \subseteq Groups
      BY <1>0, <1>2, <1>e, NewTypes DEF Supervisors, Runs
    <2> USE <1>1, <1>e, <2>01, <2>02, <2>03
    <2>1. RunnerTypeOK'
      BY DEF RunnerTypeOK, LastPoll
    <2>2. RunIsBooked'
      BY DEF RunnerTypeOK, Runs, Supervisors, RunIsBooked, HelperHears
    <2>3. OwnedAreKept'
      BY DEF RunnerTypeOK, Runs, Supervisors, OwnedAreKept, HelperHolds, GroupsAreKnown, RunIsBooked, Where, Handling, Alive
    <2>4. GroupsAreKnown'
      BY DEF RunnerTypeOK, Runs, Supervisors, OwnedAreKept, HelperHolds, GroupsAreKnown, Where, Handling, Alive
    <2>5. HelperHolds'
      BY DEF RunnerTypeOK, Runs, Supervisors, HelperHolds, HelperHears, Where, Handling, RunIsBooked
    <2>6. HelperHears'
      BY DEF RunnerTypeOK, Runs, Supervisors, HelperHolds, HelperHears, Where, Handling, Exchanging, RunIsBooked
    <2>7. RequestsAreSound'
      BY DEF RunnerTypeOK, Runs, Supervisors, RequestsAreSound, HelperHolds, HelperHears, RunIsBooked, Where, Handling, Exchanging
    <2>8. CommitIsClean'
      BY DEF RunnerTypeOK, Runs, Supervisors, CommitIsClean, HelperHolds, HelperHears, RunIsBooked, Where, Handling, Alive
    <2>9. SuccessIsUnspoilt'
      BY DEF RunnerTypeOK, Runs, SuccessIsUnspoilt
    <2>10. EndIsNear'
      BY DEF RunnerTypeOK, Runs, Supervisors, EndIsNear, Settled, Stopping, LastPoll, RunIsBooked, OwnedAreKept, SuccessIsUnspoilt
    <2>11. NoStraySignal'
      BY DEF NoStraySignal
    <2> QED BY <2>1, <2>2, <2>3, <2>4, <2>5, <2>6, <2>7, <2>8, <2>9, <2>10, <2>11
  <1>n. CASE ~(job.clean /\ sup.closed)
    <2>01. RunIsLeft /\ job'.stop = job.stop /\ job'.io = job.io
           /\ (job.op = "list" /\ clock >= 3 /\ (job.stop # "none" \/ job.status # "none") => job'.result # "none")
      <3>1. PICK s \in Statuses : /\ Published(job, decoded) = [job EXCEPT !.result = s]
                                 /\ (job.result # "none" => s = job.result)
                                 /\ (job.status # "none" \/ job.stop # "none" => s # "none")
        BY <1>2, PublishedDoes
      <3>2. CASE job.op = "list" /\ clock >= 3
        <4>1. job' = [job EXCEPT !.result = s]
          BY <1>0, <1>n, <3>1, <3>2
        <4> QED BY <1>2, <3>1, <4>1 DEF RunIsLeft, RunGoesOn, Runs
      <3>3. CASE ~(job.op = "list" /\ clock >= 3)
        <4>1. job' = job
          BY <1>0, <1>n, <3>3
        <4> QED BY <1>2, <3>3, <4>1 DEF RunIsLeft, RunGoesOn
      <3> QED BY <3>2, <3>3
    <2>02. UNCHANGED <<sup, reaps, h, msg, ack, faults, clock>>
      BY <1>0, <1>n
    <2> USE <1>1, <1>n, <2>01, <2>02 DEF RunIsLeft, RunGoesOn
    <2>1. RunnerTypeOK'
      BY DEF RunnerTypeOK, LastPoll
    <2>2. RunIsBooked'
      BY DEF RunnerTypeOK, Runs, Supervisors, RunIsBooked, HelperHears
    <2>3. OwnedAreKept'
      BY DEF RunnerTypeOK, Runs, Supervisors, OwnedAreKept, HelperHolds, GroupsAreKnown, RunIsBooked, Where, Handling, Alive
    <2>4. GroupsAreKnown'
      BY DEF RunnerTypeOK, Runs, Supervisors, OwnedAreKept, HelperHolds, GroupsAreKnown, Where, Handling, Alive
    <2>5. HelperHolds'
      BY DEF RunnerTypeOK, Runs, Supervisors, HelperHolds, HelperHears, Where, Handling, RunIsBooked
    <2>6. HelperHears'
      BY DEF RunnerTypeOK, Runs, Supervisors, HelperHolds, HelperHears, Where, Handling, Exchanging, RunIsBooked
    <2>7. RequestsAreSound'
      BY DEF RunnerTypeOK, Runs, Supervisors, RequestsAreSound, HelperHolds, HelperHears, RunIsBooked, Where, Handling, Exchanging
    <2>8. CommitIsClean'
      BY DEF RunnerTypeOK, Runs, Supervisors, CommitIsClean, HelperHolds, HelperHears, RunIsBooked, Where, Handling, Alive
    <2>9. SuccessIsUnspoilt'
      BY DEF RunnerTypeOK, Runs, SuccessIsUnspoilt
    <2>10. EndIsNear'
      BY DEF RunnerTypeOK, Runs, Supervisors, EndIsNear, Settled, Stopping, LastPoll, RunIsBooked, OwnedAreKept, SuccessIsUnspoilt
    <2>11. NoStraySignal'
      BY DEF NoStraySignal
    <2> QED BY <2>1, <2>2, <2>3, <2>4, <2>5, <2>6, <2>7, <2>8, <2>9, <2>10, <2>11
  <1> QED BY <1>e, <1>n 

\* The first state: no run, no helper, no group (awg_helper_runner_new).
LEMMA RunnerInitHolds ==
  ASSUME RunnerInit
  PROVE  RunnerInv
  <1> USE GroupsAssumption
  <1>1. PICK op \in {"up", "list", "other"} : job = [NewRun(op) EXCEPT !.on = FALSE]
    BY OperationsAssumption DEF RunnerInit
  <1>2. job \in Runs /\ job.op = op /\ ~job.on /\ ~job.exited /\ ~job.reaped /\ ~job.clean /\ ~job.kill
    <2>1. NewRun(op) \in Runs
      BY NewTypes
    <2> QED BY <1>1, <2>1 DEF Runs, NewRun
  <1>3. /\ sup \in Supervisors /\ sup.owned = {} /\ sup.pend = None /\ sup.dead = {} /\ sup.retired = {}
        /\ ~sup.failed
    <2>1. sup = NewSupervisor(op)
      BY <1>2 DEF RunnerInit
    <2>2. sup \in Supervisors
      BY <2>1, NewTypes
    <2> QED BY <2>1, <2>2 DEF NewSupervisor
  <1>4. h \in Helpers
    BY NewTypes DEF RunnerInit
  <1>5. /\ at = "loop" /\ tracked = {} /\ reaps = {} /\ hp = "none" /\ msg = None /\ ack = "none"
        /\ prog = [g \in Groups |-> "none"] /\ sentinel = [g \in Groups |-> "none"]
        /\ killed = {} /\ lost = {} /\ backends = {} /\ ~stray /\ stray \in BOOLEAN
        /\ faults = 0 /\ runs = 0 /\ clock = 0
    BY DEF RunnerInit
  <1> USE <1>2, <1>3, <1>4, <1>5
  <1>11. RunnerTypeOK
    BY MaxGroupsAssumption DEF RunnerTypeOK, LastPoll
  <1>12. RunIsBooked
    BY DEF RunIsBooked
  <1>13. OwnedAreKept
    BY DEF OwnedAreKept, Alive
  <1>14. GroupsAreKnown
    BY DEF GroupsAreKnown, Alive
  <1>15. HelperHolds /\ HelperHears /\ RequestsAreSound
    BY DEF HelperHolds, HelperHears, RequestsAreSound
  <1>16. CommitIsClean
    BY DEF CommitIsClean
  <1>17. SuccessIsUnspoilt /\ EndIsNear /\ NoStraySignal
    BY DEF SuccessIsUnspoilt, EndIsNear, NoStraySignal
  <1> QED BY <1>11, <1>12, <1>13, <1>14, <1>15, <1>16, <1>17 DEF RunnerInv

\* A step of the rest of the service or of the system leaves the runner as it is.
LEMMA RunnerStutters ==
  ASSUME RunnerInv, UNCHANGED runnerVars
  PROVE  RunnerInv'
  <1> USE DEF RunnerInv, runnerVars, service, helper, channel, system
  <1>1. RunnerTypeOK'
    BY DEF RunnerTypeOK
  <1>2. RunIsBooked'
    BY DEF RunIsBooked
  <1>3. OwnedAreKept'
    BY DEF OwnedAreKept, Alive
  <1>4. GroupsAreKnown'
    BY DEF GroupsAreKnown, Alive
  <1>5. HelperHolds'
    BY DEF HelperHolds, Where
  <1>6. HelperHears'
    BY DEF HelperHears
  <1>7. RequestsAreSound'
    BY DEF RequestsAreSound
  <1>8. CommitIsClean'
    BY DEF CommitIsClean, Alive, Where
  <1>9. SuccessIsUnspoilt' /\ NoStraySignal'
    BY DEF SuccessIsUnspoilt, NoStraySignal
  <1>10. EndIsNear'
    BY DEF EndIsNear, Settled, Stopping
  <1> QED BY <1>1, <1>2, <1>3, <1>4, <1>5, <1>6, <1>7, <1>8, <1>9, <1>10

\* Service and helper interleave, and the system with both: the steps are those above.
LEMMA RunnerStepKeeps ==
  ASSUME RunnerInv, RunnerNext
  PROVE  RunnerInv'
  <1>1. CASE HelperNext
    <2>1. CASE (\E g \in Groups : Fork(g)) \/ Register \/ GiveUpProgram \/ ProgramExits \/ Terminate
      BY <2>1, ForkKeeps, RegisterKeeps, GiveUpProgramKeeps, ProgramExitsKeeps, TerminateKeeps
    <2>2. CASE Terminating \/ Reap \/ ReapFails \/ Unregister \/ Unregistered \/ Dispatch \/ Dispatched
      BY <2>2, TerminatingKeeps, ReapKeeps, ReapFailsKeeps, UnregisterKeeps, UnregisteredKeeps,
         DispatchKeeps, DispatchedKeeps
    <2>3. CASE StartRollback \/ EndRollback \/ Finish \/ ReleaseRetained \/ Released
      BY <2>3, StartRollbackKeeps, EndRollbackKeeps, FinishKeeps, ReleaseRetainedKeeps, ReleasedKeeps
    <2>4. CASE CommitOperation \/ Commit \/ Withdrawn \/ Exit \/ Crash
      BY <2>4, CommitOperationKeeps, CommitKeeps, WithdrawnKeeps, ExitKeeps, CrashKeeps
    <2> QED BY <1>1, <2>1, <2>2, <2>3, <2>4 DEF HelperNext
  <1>2. CASE RunnerPoll
    <2>1. CASE Observe \/ HandleMessage \/ PollFinished \/ PollDrained \/ PollUnsafe
      BY <2>1, ObserveKeeps, HandleMessageKeeps, PollFinishedKeeps, PollDrainedKeeps, PollUnsafeKeeps
    <2>2. CASE Enforce \/ DetachHelper \/ Reaped \/ ReapHelper \/ CompleteSkipped \/ AwaitClose \/ LetGo
      BY <2>2, EnforceKeeps, DetachHelperKeeps, ReapedKeeps, ReapHelperKeeps, CompleteSkippedKeeps,
         AwaitCloseKeeps, LetGoKeeps
    <2>3. CASE NoGroupsLeft \/ CleanGroups \/ ReapCleanedGroups \/ FinishPoll
      BY <2>3, NoGroupsLeftKeeps, CleanGroupsKeeps, ReapCleanedGroupsKeeps, FinishPollKeeps
    <2> QED BY <1>2, <2>1, <2>2, <2>3 DEF RunnerPoll
  <1>3. CASE Start \/ StartFails \/ (\E reason \in {"shutdown", "preempted"} : Stop(reason)) \/ ReapReleased
    BY <1>3, StartKeeps, StartFailsKeeps, StopKeeps, ReapReleasedKeeps
  <1>4. CASE SystemNext \/ Tick
    BY <1>4, ProgramEndsKeeps, GroupEndsKeeps, SentinelLostKeeps, TickKeeps DEF SystemNext
  <1> QED BY <1>1, <1>2, <1>3, <1>4 DEF RunnerNext

\* Runner, supervisor and helper keep what they know of each other and of the groups
\* through every interleaving of helper_poll_cb, the helper's exchanges and the system.
THEOREM RunnerInvariantHolds == RunnerSpec => []RunnerInv
  <1>1. RunnerInit => RunnerInv
    BY RunnerInitHolds
  <1>2. RunnerInv /\ [RunnerNext]_runnerVars => RunnerInv'
    BY RunnerStepKeeps, RunnerStutters
  <1> QED BY <1>1, <1>2, PTL DEF RunnerSpec

\* Whoever dies and whichever message is late, a running group is owned through a living
\* sentinel, let go, killed or its sentinel was taken away; no number is signalled that
\* nothing holds; no released backend is killed (register_group, spawn_sentinel,
\* unregister_group, finalize_release).
THEOREM GroupsStaySupervised == RunnerSpec => []GroupsAreSupervised
  <1>1. RunnerInv => GroupsAreSupervised
    <2> SUFFICES ASSUME RunnerInv
                 PROVE  GroupsAreSupervised
      OBVIOUS
    <2>1. NoOrphan
      BY DEF RunnerInv, NoOrphan, OwnedAreKept, GroupsAreKnown, Alive
    <2>2. BackendSurvives
      BY DEF RunnerInv, BackendSurvives, GroupsAreKnown
    <2> QED BY <2>1, <2>2 DEF GroupsAreSupervised, RunnerInv
  <1> QED BY <1>1, RunnerInvariantHolds, PTL

\* The run of an action is over, and an inventory answered, a fixed number of polls after
\* hard_at (detach_stalled_helper, detach_stalled_group_cleanup, publish_result).
THEOREM RunsEndInTime == RunnerSpec => []EndsInTime
  <1>1. RunnerInv => EndsInTime
    BY DEF RunnerInv, RunnerTypeOK, EndIsNear, EndsInTime, LastPoll
  <1> QED BY <1>1, RunnerInvariantHolds, PTL

-----------------------------------------------------------------------------
(* The steps that are seen from outside: AwgRunnerView and SuccessIsAgreed. *)

\* What a step leaves as it is that says nothing to the service.
Quiet ==
  /\ job'.on = job.on /\ reaps' = reaps /\ (hp' # "none" <=> hp # "none")
  /\ job.result # "none" => job'.result # "none"
  /\ job'.result = "success" => job.result = "success"

\* The helper's steps are its own: they change nothing of the service, and a helper that
\* dies is still there to be reaped (record_helper_reap).
LEMMA HelperIsQuiet ==
  ASSUME HelperNext
  PROVE  Quiet /\ backends' = backends
  <1> USE DEF service, helper, Running
  <1>1. CASE (\E g \in Groups : Fork(g)) \/ Register \/ GiveUpProgram \/ ProgramExits \/ Terminate
    BY <1>1 DEF Fork, Register, GiveUpProgram, ProgramExits, Terminate, Quiet
  <1>2. CASE Terminating \/ Reap \/ ReapFails \/ Unregister \/ Unregistered \/ Dispatch \/ Dispatched
    BY <1>2 DEF Terminating, Reap, ReapFails, Unregister, Unregistered, Dispatch, Dispatched, Quiet
  <1>3. CASE StartRollback \/ EndRollback \/ Finish \/ ReleaseRetained \/ Released
    BY <1>3 DEF StartRollback, EndRollback, Finish, ReleaseRetained, Released, Quiet
  <1>4. CASE CommitOperation \/ Commit \/ Withdrawn
    BY <1>4 DEF CommitOperation, Commit, Withdrawn, Quiet
  <1>5. CASE Exit \/ Crash
    BY <1>5 DEF Exit, Crash, HelperDies, Quiet
  <1> QED BY <1>1, <1>2, <1>3, <1>4, <1>5 DEF HelperNext

\* The system's steps and the clock: no result, and no group is let go by itself.
LEMMA SystemIsQuiet ==
  ASSUME SystemNext \/ Tick \/ UNCHANGED runnerVars
  PROVE  Quiet /\ backends' \subseteq backends
  BY DEF SystemNext, ProgramEnds, GroupEnds, SentinelLost, Tick, runnerVars, service, helper, Quiet

\* The steps of a poll that neither reap the helper nor give it up nor end the run: a
\* result that was published stands, and none of them publishes a success.
LEMMA PollIsQuiet ==
  ASSUME RunnerInv, NEW reason \in {"shutdown", "preempted"},
         \/ Stop(reason) \/ Observe \/ HandleMessage \/ PollFinished \/ PollDrained \/ PollUnsafe
         \/ Enforce \/ Reaped \/ CompleteSkipped \/ AwaitClose \/ LetGo \/ NoGroupsLeft
         \/ CleanGroups \/ ReapCleanedGroups
  PROVE  Quiet /\ (backends' = backends \/ LetGo)
  <1>0. RunnerTypeOK /\ job \in Runs
    BY DEF RunnerInv, RunnerTypeOK
  <1>1. CASE Stop(reason)
    BY <1>0, <1>1, StopDoes DEF Quiet, RunIsLeft, RunGoesOn
  <1>2. CASE Observe
    BY <1>0, <1>2, ObserveDoes DEF Quiet, RunGoesOn
  <1>3. CASE HandleMessage
    <2>1. RunIsLeft /\ job'.result = job.result
      BY <1>0, <1>3, HandleMessageDoes
    <2> QED BY <1>3, <2>1 DEF HandleMessage, Quiet, RunIsLeft, RunGoesOn
  <1>4. CASE PollFinished
    <2>1. CASE sup.failed
      <3>1. PollFailed
        BY <1>4, <2>1 DEF PollFinished
      <3> QED BY <1>0, <1>4, <3>1, PollFailedDoes DEF PollFinished, Quiet, RunIsLeft, RunGoesOn
    <2>2. CASE ~sup.failed
      BY <1>4, <2>2 DEF PollFinished, Quiet
    <2> QED BY <2>1, <2>2
  <1>5. CASE PollUnsafe
    <2>1. RunIsLeft /\ job'.result = job.result
      BY <1>0, <1>5, PollFailedDoes DEF PollUnsafe
    <2> QED BY <1>5, <2>1 DEF PollUnsafe, Quiet, RunIsLeft, RunGoesOn
  <1>6. CASE Enforce
    <2>1. /\ UNCHANGED <<reaps, backends>> /\ RunGoesOn
          /\ (job'.result = "success" => job.result = "success")
      BY <1>0, <1>6, EnforceDoes
    <2>2. hp' # "none" <=> hp # "none"
      BY <1>6 DEF Enforce
    <2> QED BY <2>1, <2>2 DEF Quiet, RunGoesOn
  <1>7. CASE AwaitClose
    BY <1>0, <1>7 DEF AwaitClose, StopRun, Runs, helper, Quiet
  <1>8. CASE PollDrained \/ Reaped \/ CompleteSkipped
    BY <1>8 DEF PollDrained, Reaped, CompleteSkipped, helper, Quiet
  <1>9. CASE LetGo \/ NoGroupsLeft \/ CleanGroups
    BY <1>0, <1>9 DEF LetGo, NoGroupsLeft, CleanGroups, helper, Quiet, Runs
  <1>10. CASE ReapCleanedGroups
    BY <1>0, <1>10 DEF ReapCleanedGroups, helper, Quiet, Runs
  <1> QED BY <1>1, <1>2, <1>3, <1>4, <1>5, <1>6, <1>7, <1>8, <1>9, <1>10

\* A group is let go by finalize_release alone, of a run whose helper committed and exited
\* with success.
LEMMA ReleaseStep ==
  ASSUME RunnerInv, [RunnerNext]_runnerVars, backends' \ backends # {}
  PROVE  h.committed /\ h.status = "success" /\ job.stop = "none" /\ ~sup.failed
  <1>1. LetGo
    <2>1. CASE HelperNext \/ SystemNext \/ Tick \/ UNCHANGED runnerVars
      BY <2>1, HelperIsQuiet, SystemIsQuiet
    <2>2. CASE Start \/ StartFails \/ ReapReleased \/ DetachHelper \/ ReapHelper \/ FinishPoll
      BY <2>2 DEF Start, StartFails, ReapReleased, DetachHelper, ReapHelper, FinishPoll
    <2>3. CASE \/ (\E reason \in {"shutdown", "preempted"} : Stop(reason))
               \/ Observe \/ HandleMessage \/ PollFinished \/ PollDrained \/ PollUnsafe
               \/ Enforce \/ Reaped \/ CompleteSkipped \/ AwaitClose \/ LetGo \/ NoGroupsLeft
               \/ CleanGroups \/ ReapCleanedGroups
      BY <2>3, PollIsQuiet
    <2> QED BY <2>1, <2>2, <2>3 DEF RunnerNext, RunnerPoll
  <1>2. /\ job.on /\ job.reaped /\ job.stop = "none" /\ job.status = "success" /\ ~sup.failed
        /\ sup.pend # None
    BY <1>1 DEF LetGo, Completing, CanLetGo, CleanExit, RunnerInv, RunIsBooked
  <1>3. job.op = "up" /\ h.status = "success"
    BY <1>2 DEF RunnerInv, RunIsBooked, CommitIsClean
  <1> QED BY <1>2, <1>3 DEF RunnerInv, CommitIsClean

\* A success comes from the end of a poll, of a run whose helper was reaped with status 0
\* before anything stopped it; then the supervisor has nothing left that lives
\* (publish_result, effective_status, maybe_finish_helper).
LEMMA SuccessStep ==
  ASSUME RunnerInv, [RunnerNext]_runnerVars,
         job.on, job.result # "success", job'.result = "success"
  PROVE  /\ h.status = "success" /\ job.stop = "none" /\ ~job.io
         /\ job.op = "up" => h.committed
         /\ \A g \in Groups : Alive(g) => g \in backends \/ g \in killed
  <1>0. job \in Runs /\ RunnerTypeOK
    BY DEF RunnerInv, RunnerTypeOK
  <1>1. FinishPoll
    <2>1. CASE HelperNext \/ SystemNext \/ Tick \/ UNCHANGED runnerVars
      BY <2>1, HelperIsQuiet, SystemIsQuiet DEF Quiet
    <2>2. CASE Start \/ StartFails \/ ReapReleased
      BY <2>2 DEF Start, StartFails, ReapReleased, IsBusy
    <2>3. CASE DetachHelper \/ ReapHelper
      BY <1>0, <2>3 DEF DetachHelper, ReapHelper, Runs
    <2>4. CASE \/ (\E reason \in {"shutdown", "preempted"} : Stop(reason))
               \/ Observe \/ HandleMessage \/ PollFinished \/ PollDrained \/ PollUnsafe
               \/ Enforce \/ Reaped \/ CompleteSkipped \/ AwaitClose \/ LetGo \/ NoGroupsLeft
               \/ CleanGroups \/ ReapCleanedGroups
      BY <2>4, PollIsQuiet DEF Quiet
    <2> QED BY <2>1, <2>2, <2>3, <2>4 DEF RunnerNext, RunnerPoll
  <1>2. at = "finish" /\ job.reaped
    BY <1>1 DEF FinishPoll, RunnerInv, RunIsBooked
  <1>3. /\ job.status = "success" /\ job.stop = "none" /\ ~job.io
        /\ \/ job.clean
           \/ job.op = "list"
    <2>1. PICK unread \in BOOLEAN, decoded \in BOOLEAN :
            IF job.clean /\ sup.closed
              THEN job' = [NewRun(job.op) EXCEPT !.on = FALSE,
                                  !.result = Published(AtTheEnd(unread), decoded).result]
              ELSE job' = IF job.op = "list" /\ clock >= 3 THEN Published(job, decoded) ELSE job
      BY <1>1, Zenon DEF FinishPoll
    <2>2. CASE job.clean /\ sup.closed
      <3> DEFINE i == job.io \/ InputIsLeft(unread)
                 r == AtTheEnd(unread)
                 n == NewRun(job.op)
                 p == Published(r, decoded).result
      <3>1. i \in BOOLEAN /\ r = [job EXCEPT !.io = i]
        BY <1>0 DEF AtTheEnd, Runs
      <3>2. job' = [n EXCEPT !.on = FALSE, !.result = p] /\ n \in Runs
        BY <1>0, <2>1, <2>2, NewTypes DEF Runs
      <3>3. ~i => ~job.io
        OBVIOUS
      <3> HIDE DEF i, r, n
      <3>4. r \in Runs /\ r.result = job.result /\ r.status = job.status /\ r.stop = job.stop /\ r.io = i
        BY <1>0, <3>1 DEF Runs
      <3>5. PICK s \in Statuses : /\ Published(r, decoded) = [r EXCEPT !.result = s]
                                  /\ (r.result # "none" => s = r.result)
                                  /\ (r.result = "none" /\ s = "success" =>
                                        r.status = "success" /\ r.stop = "none" /\ ~r.io)
        BY <3>4, PublishedDoes
      <3>6. p = s
        BY <3>4, <3>5 DEF Runs
      <3> HIDE DEF p
      <3>7. job'.result = p
        BY <3>2 DEF Runs
      <3> QED BY <2>2, <3>3, <3>4, <3>5, <3>6, <3>7
    <2>3. CASE ~(job.clean /\ sup.closed)
      <3>1. PICK s \in Statuses : /\ Published(job, decoded) = [job EXCEPT !.result = s]
                                  /\ (job.result # "none" => s = job.result)
                                  /\ (job.result = "none" /\ s = "success" =>
                                        job.status = "success" /\ job.stop = "none" /\ ~job.io)
        BY <1>0, PublishedDoes
      <3>2. job.op = "list" /\ job' = Published(job, decoded)
        BY <2>1, <2>3
      <3>3. job'.result = s
        BY <1>0, <3>1, <3>2 DEF Runs
      <3> QED BY <3>1, <3>2, <3>3
    <2> QED BY <2>2, <2>3
  <1>4. h.status = "success" /\ "helper" \notin reaps
    BY <1>2, <1>3 DEF RunnerInv, RunIsBooked
  <1>5. hp = "none"
    BY <1>2, <1>4 DEF RunnerInv, RunIsBooked
  <1>6. job.op = "up" => h.committed
    BY <1>4 DEF RunnerInv, CommitIsClean
  <1>7. ASSUME NEW g \in Groups, Alive(g)
        PROVE  g \in backends \/ g \in killed
    <2>1. CASE job.clean
      BY <1>5, <1>7, <2>1 DEF RunnerInv, OwnedAreKept, GroupsAreKnown, Alive
    <2>2. CASE job.op = "list"
      <3>1. g \in tracked \cup killed
        BY <1>4, <1>7, <2>2 DEF RunnerInv, CommitIsClean
      <3> QED BY <1>7, <3>1 DEF RunnerInv, GroupsAreKnown
    <2> QED BY <1>3, <2>1, <2>2
  <1> QED BY <1>3, <1>4, <1>6, <1>7

\* Success means the same to helper, runner and service: a group is let go only after a
\* commit and a clean exit, and a success is published only with nothing stopped or failed
\* and no program left but a backend (commit_operation, finalize_release, effective_status).
THEOREM SuccessStaysAgreed == RunnerSpec => SuccessIsAgreed
  <1>1. RunnerInv /\ [RunnerNext]_runnerVars =>
          [backends' \ backends # {} =>
             h.committed /\ h.status = "success" /\ job.stop = "none" /\ ~sup.failed]_runnerVars
    BY ReleaseStep
  <1>2. RunnerInv /\ [RunnerNext]_runnerVars =>
          [job.on /\ job.result # "success" /\ job'.result = "success" =>
             /\ h.status = "success" /\ job.stop = "none" /\ ~job.io
             /\ job.op = "up" => h.committed
             /\ \A g \in Groups : Alive(g) => g \in backends \/ g \in killed]_runnerVars
    BY SuccessStep
  <1>3. RunnerSpec => ReleaseIsCommitted
    BY <1>1, RunnerInvariantHolds, PTL DEF RunnerSpec, ReleaseIsCommitted
  <1>4. RunnerSpec => SuccessIsClean
    BY <1>2, RunnerInvariantHolds, PTL DEF RunnerSpec, SuccessIsClean
  <1> QED BY <1>3, <1>4 DEF SuccessIsAgreed

\* Every step of runner, supervisor and helper is one that the service reckons with, or
\* none at all (network_sidebar_awg_helper_runner_is_busy, publish_result).
LEMMA RunnerStepIsSeen ==
  ASSUME RunnerInv, [RunnerNext]_runnerVars
  PROVE  [View!Next]_(View!view)
  <1>0. job \in Runs /\ RunnerTypeOK
    BY DEF RunnerInv, RunnerTypeOK
  <1>1. ASSUME Quiet PROVE View!Publish \/ UNCHANGED View!view
    BY <1>0, <1>1 DEF Quiet, View!Publish, View!view, Runs
  <1>2. CASE HelperNext \/ SystemNext \/ Tick \/ UNCHANGED runnerVars
    BY <1>1, <1>2, HelperIsQuiet, SystemIsQuiet DEF View!Next
  <1>3. CASE \/ (\E reason \in {"shutdown", "preempted"} : Stop(reason))
             \/ Observe \/ HandleMessage \/ PollFinished \/ PollDrained \/ PollUnsafe
             \/ Enforce \/ Reaped \/ CompleteSkipped \/ AwaitClose \/ LetGo \/ NoGroupsLeft
             \/ CleanGroups \/ ReapCleanedGroups
    BY <1>1, <1>3, PollIsQuiet DEF View!Next
  <1>4. CASE Start
    <2>1. /\ ~job.on /\ reaps = {} /\ reaps' = {} /\ hp' # "none"
      BY <1>4 DEF Start, IsBusy
    <2>2. hp = "none"
      BY <2>1 DEF RunnerInv, RunIsBooked
    <2>3. job'.on = TRUE /\ job'.result = "none"
      BY <1>4 DEF Start, NewRun
    <2> QED BY <1>0, <2>1, <2>2, <2>3 DEF View!Next, View!Start, Runs
  <1>5. CASE StartFails
    <2>1. ~job.on /\ job'.on = FALSE /\ UNCHANGED <<reaps, hp>>
      <3>1. ~job.on /\ UNCHANGED <<reaps, hp>>
        BY <1>5 DEF StartFails, IsBusy, helper
      <3>2. PICK op \in {"up", "list", "other"} :
              job' = [Published([NewRun(op) EXCEPT !.status = "setup"], TRUE) EXCEPT !.on = FALSE]
        BY <1>5, OperationsAssumption DEF StartFails
      <3> DEFINE r == Published([NewRun(op) EXCEPT !.status = "setup"], TRUE)
      <3>3. r \in Runs
        <4>1. [NewRun(op) EXCEPT !.status = "setup"] \in Runs
          BY DEF NewRun, Runs, Reasons, Statuses
        <4> QED BY <4>1, PublishedDoes
      <3>4. job' = [r EXCEPT !.on = FALSE]
        BY <3>2
      <3> HIDE DEF r
      <3>5. job'.on = FALSE
        BY <3>3, <3>4 DEF Runs
      <3> QED BY <3>1, <3>5
    <2> QED BY <1>0, <2>1 DEF View!view, Runs
  <1>6. CASE DetachHelper
    <2>1. job'.on = job.on /\ job'.result = job.result /\ job.on /\ hp # "none" /\ hp' = hp /\ reaps' # {}
      BY <1>0, <1>6 DEF DetachHelper, RunnerInv, RunIsBooked, helper, Runs
    <2> QED BY <1>0, <2>1 DEF View!Next, View!Detach, Runs
  <1>7. CASE ReapHelper
    <2>1. job'.on = job.on /\ job'.result = job.result /\ job.on /\ hp # "none" /\ hp' = "none"
          /\ reaps' = reaps /\ reaps = {}
      BY <1>0, <1>7 DEF ReapHelper, RunnerInv, RunIsBooked, Runs
    <2> QED BY <1>0, <2>1 DEF View!Next, View!Reap, Runs
  <1>8. CASE FinishPoll
    <2>0. PICK decoded \in BOOLEAN, x \in Statuses :
            IF job.clean /\ sup.closed
              THEN job' = [NewRun(job.op) EXCEPT !.on = FALSE, !.result = x] /\ reaps' = reaps \cup sup.retired
              ELSE /\ job' = IF job.op = "list" /\ clock >= 3 THEN Published(job, decoded) ELSE job
                   /\ reaps' = reaps
      <3>1. PICK unread \in BOOLEAN, decoded \in BOOLEAN :
              IF job.clean /\ sup.closed
                THEN /\ job' = [NewRun(job.op) EXCEPT !.on = FALSE,
                                       !.result = Published(AtTheEnd(unread), decoded).result]
                     /\ reaps' = reaps \cup sup.retired
                ELSE /\ job' = IF job.op = "list" /\ clock >= 3 THEN Published(job, decoded) ELSE job
                     /\ reaps' = reaps
        BY <1>8, Zenon DEF FinishPoll
      <3>2. Published(AtTheEnd(unread), decoded).result \in Statuses
        <4> DEFINE i == job.io \/ InputIsLeft(unread)
                   r == AtTheEnd(unread)
        <4>1. i \in BOOLEAN /\ r = [job EXCEPT !.io = i]
          BY <1>0 DEF AtTheEnd, Runs
        <4> HIDE DEF i, r
        <4>2. r \in Runs
          BY <1>0, <4>1 DEF Runs
        <4>3. Published(r, decoded) \in Runs
          BY <4>2, PublishedDoes
        <4> QED BY <4>3 DEF r, Runs
      <3> QED BY <3>1, <3>2
    <2>1. job.on /\ hp' = hp /\ (hp # "none" => reaps # {})
      BY <1>8 DEF FinishPoll, RunnerInv, RunIsBooked
    <2>2. CASE job.clean /\ sup.closed
      <3>1. NewRun(job.op) \in Runs
        BY <1>0, NewTypes DEF Runs
      <3>2. job'.on = FALSE /\ reaps' = reaps \cup sup.retired
        BY <2>0, <2>2, <3>1 DEF Runs
      <3> QED BY <1>0, <2>1, <3>2 DEF View!Next, View!Finish, Runs
    <2>3. CASE ~(job.clean /\ sup.closed)
      <3>1. PICK s \in Statuses : /\ Published(job, decoded) = [job EXCEPT !.result = s]
                                  /\ (job.result # "none" => s = job.result)
        BY <1>0, PublishedDoes
      <3>2. job' \in {job, [job EXCEPT !.result = s]} /\ reaps' = reaps
        BY <2>0, <2>3, <3>1
      <3>3. job'.on = job.on /\ (job.result # "none" => job'.result # "none")
        BY <1>0, <3>1, <3>2 DEF Runs
      <3> QED BY <1>0, <2>1, <3>2, <3>3 DEF View!Next, View!Publish, View!view, Runs
    <2> QED BY <2>2, <2>3
  <1>9. CASE ReapReleased
    <2>1. /\ job' = job /\ reaps' \subseteq {"helper"} /\ ("helper" \in reaps' <=> "helper" \in reaps /\ hp # "zombie")
          /\ hp' = IF "helper" \in reaps /\ hp = "zombie" THEN "none" ELSE hp
      BY <1>9 DEF ReapReleased
    <2>2. at = "loop" /\ (job.on => reaps \subseteq {"helper"})
          /\ (hp # "none" <=> "helper" \in reaps \/ (job.on /\ ~job.reaped))
          /\ (job.on /\ ~job.reaped => "helper" \notin reaps)
      BY <1>9 DEF ReapReleased, RunnerInv, RunIsBooked
    <2>3. CASE "helper" \in reaps /\ hp # "zombie"
      BY <2>1, <2>3 DEF View!view
    <2>4. CASE ~("helper" \in reaps /\ hp # "zombie") /\ reaps = {}
      BY <2>1, <2>4 DEF View!view
    <2>5. CASE ~("helper" \in reaps /\ hp # "zombie") /\ reaps # {}
      <3>1. reaps' = {}
        BY <2>1, <2>5
      <3>2. hp' = "none"
        BY <2>1, <2>2, <2>5
      <3> QED BY <2>1, <2>5, <3>1, <3>2 DEF View!Next, View!ReapLeftovers
    <2> QED BY <2>3, <2>4, <2>5
  <1> QED BY <1>2, <1>3, <1>4, <1>5, <1>6, <1>7, <1>8, <1>9 DEF RunnerNext, RunnerPoll

\* The runner in all its detail behaves as the service takes it to: no second helper beside
\* a process or a sentinel that is left, and one result per run (AwgRunnerView).
THEOREM RunnerKeepsView == RunnerSpec => RunnerView
  <1>1. RunnerInit => View!Init
    BY DEF RunnerInit, View!Init, NewRun
  <1>2. RunnerInv /\ [RunnerNext]_runnerVars => [View!Next]_(View!view)
    BY RunnerStepIsSeen
  <1> QED BY <1>1, <1>2, RunnerInvariantHolds, PTL DEF RunnerSpec, RunnerView, View!Spec

=============================================================================
