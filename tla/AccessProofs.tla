---------------------------- MODULE AccessProofs ----------------------------
(***************************************************************************)
(* Proofs about what stands between a client and a tool: leases, approvals,*)
(* the cache of keys, sealed cursors, the edits of the configuration and   *)
(* the discovery of the sources.  Each is proved of its own specification, *)
(* for every value of its constants.                                       *)
(***************************************************************************)
EXTENDS MCAccess, SequenceTheorems, FiniteSetTheorems, TLAPS

-----------------------------------------------------------------------------
(* Leases.                                                                 *)


Calls ==
    {NoCall} \cup
    [pc : {"read"}, id : Ids, lease : Lease, alias : Aliases,
     kind : {"invoke", "submit"}, late : BOOLEAN]

TypeOK ==
    /\ catalog \in [Aliases -> [schema : Schemas, effect : Effects]]
    /\ scopes \in [Callers -> SUBSET (Effects \ {ReadOnly})]
    /\ store \in [Ids -> Lease \cup {Nothing}]
    /\ issued \in [Ids -> Lease \cup {Nothing}]
    /\ released \subseteq Ids
    /\ calls \in [Callers -> Calls]
    /\ now \in Nat

\* A copy of a lease that nobody altered is what was issued under its ID.
Genuine(lease, id) ==
    /\ issued[id] # Nothing
    /\ lease.intact => lease = issued[id]

\* What is stored was issued and not released; what was released was issued.
StoreGenuine ==
    /\ \A id \in Ids : store[id] # Nothing => Genuine(store[id], id) /\ id \notin released
    /\ \A id \in released : issued[id] # Nothing

\* So was what a call under way has read.
CallsGenuine ==
    \A c \in Callers : calls[c].pc = "read" =>
        Genuine(calls[c].lease, calls[c].id) /\ ~calls[c].late

InvokedKnown == \A i \in invoked : i.id \in Ids

LeaseInv == TypeOK /\ StoreGenuine /\ CallsGenuine /\ InvokedKnown /\ WithinAuthority

-----------------------------------------------------------------------------
LEMMA InitLeaseInv == Init => LeaseInv
  BY LeaseBounds DEF Init, LeaseInv, TypeOK, StoreGenuine, CallsGenuine, InvokedKnown,
                     WithinAuthority, Calls, NoCall

\* What was issued stays as it was issued.
Fixed == \A id \in Ids : issued[id] # Nothing => issued'[id] = issued[id]

\* The calls that were let through stay within what was issued.
LEMMA StaysWithin ==
  ASSUME LeaseInv, Fixed, invoked' = invoked
  PROVE  InvokedKnown' /\ WithinAuthority'
  BY DEF LeaseInv, Fixed, InvokedKnown, WithinAuthority

\* So does what a call has read, if the call is as it was.
LEMMA CallsStayGenuine ==
  ASSUME LeaseInv, Fixed, calls' = calls
  PROVE  CallsGenuine'
<1>. SUFFICES ASSUME NEW c \in Callers, calls[c].pc = "read"
              PROVE  Genuine(calls[c].lease, calls[c].id)' /\ ~calls[c].late
  BY DEF CallsGenuine
<1>1. calls[c].id \in Ids
  BY DEF LeaseInv, TypeOK, Calls, NoCall
<1>. QED
  BY <1>1 DEF LeaseInv, CallsGenuine, Genuine, Fixed

LEMMA IssueKeeps ==
  ASSUME LeaseInv, NEW c \in Callers, NEW id \in Ids,
         NEW aliases \in SUBSET Aliases, NEW effects \in SUBSET Effects,
         Issue(c, id, aliases, effects)
  PROVE  LeaseInv'
<1>. DEFINE lease == [owner |-> c, capabilities |-> {Identity(alias) : alias \in aliases},
                      effects |-> effects, expires |-> now + Ttl, intact |-> TRUE]
<1>. USE DEF LeaseInv
<1>1. lease \in Lease /\ lease # Nothing
  <2>1. {Identity(alias) : alias \in aliases} \in SUBSET Capabilities
    <3>1. \A alias \in aliases : Identity(alias) \in Capabilities
      BY DEF TypeOK, Identity, Capabilities
    <3>. QED
      BY <3>1
  <2>2. now + Ttl \in Nat
    BY LeaseBounds DEF TypeOK
  <2>. HIDE DEF LeaseInv
  <2>3. lease \in Lease
    BY <2>1, <2>2 DEF Lease
  <2>. QED
    BY <2>3, LeaseBounds
<1>2. /\ issued[id] = Nothing
      /\ store' = [store EXCEPT ![id] = lease]
      /\ issued' = [issued EXCEPT ![id] = lease]
      /\ UNCHANGED <<catalog, scopes, released, calls, invoked, now>>
  BY DEF Issue
<1>. HIDE DEF lease
<1>3. Fixed
  BY <1>2 DEF Fixed, TypeOK
<1>4. TypeOK'
  BY <1>1, <1>2 DEF TypeOK
<1>5. StoreGenuine'
  BY <1>1, <1>2 DEF StoreGenuine, Genuine, TypeOK
<1>. QED
  BY <1>2, <1>3, <1>4, <1>5, StaysWithin, CallsStayGenuine

LEMMA ReadKeeps ==
  ASSUME LeaseInv, NEW c \in Callers, NEW id \in Ids, NEW alias \in Aliases,
         NEW way \in {"invoke", "submit"}, ReadLease(c, id, alias, way)
  PROVE  LeaseInv'
<1>. DEFINE call == [pc |-> "read", id |-> id, lease |-> store[id], alias |-> alias,
                     kind |-> way, late |-> id \in released]
<1>. USE DEF LeaseInv
<1>1. /\ store[id] # Nothing
      /\ calls' = [calls EXCEPT ![c] = call]
      /\ UNCHANGED <<catalog, scopes, store, issued, released, invoked, now>>
  BY DEF ReadLease
<1>2. call \in Calls
  BY <1>1 DEF Calls, TypeOK
<1>3. Fixed
  BY <1>1 DEF Fixed
<1>4. TypeOK'
  BY <1>1, <1>2 DEF TypeOK
<1>5. StoreGenuine'
  BY <1>1 DEF StoreGenuine, Genuine
<1>6. CallsGenuine'
  BY <1>1 DEF CallsGenuine, StoreGenuine, Genuine, TypeOK
<1>. QED
  BY <1>1, <1>3, <1>4, <1>5, <1>6, StaysWithin

\* A call is let through on a copy of what was issued, whatever happened to the row.
LEMMA DecideKeeps ==
  ASSUME LeaseInv, NEW c \in Callers, Decide(c)
  PROVE  LeaseInv'
<1>. DEFINE call == calls[c]
            effect == EffectOf(c)
            through == [caller |-> c, id |-> call.id, capability |-> Identity(call.alias),
                        effect |-> effect, granted |-> Grants(c, effect), at |-> now,
                        late |-> call.late]
<1>. USE DEF LeaseInv
<1>1. /\ call.pc = "read"
      /\ calls' = [calls EXCEPT ![c] = NoCall]
      /\ UNCHANGED <<catalog, scopes, store, issued, released, now>>
  BY DEF Decide
<1>2. call.id \in Ids /\ Genuine(call.lease, call.id) /\ ~call.late
  BY <1>1 DEF TypeOK, Calls, NoCall, CallsGenuine
<1>3. TypeOK' /\ StoreGenuine' /\ CallsGenuine'
  <2>1. TypeOK'
    BY <1>1 DEF TypeOK, Calls
  <2>2. StoreGenuine'
    BY <1>1 DEF StoreGenuine, Genuine
  <2>3. CallsGenuine'
    BY <1>1 DEF CallsGenuine, Genuine, NoCall, TypeOK
  <2>. QED
    BY <2>1, <2>2, <2>3
<1>4. CASE Authorized(call.lease, c, Identity(call.alias), effect)
  <2>1. invoked' = invoked \cup {through}
    BY <1>4 DEF Decide
  <2>2. call.lease = issued[call.id]
    BY <1>2, <1>4 DEF Authorized, LeaseAllows, Genuine
  <2>3. /\ issued[call.id] # Nothing
        /\ issued[call.id].owner = c
        /\ Identity(call.alias) \in issued[call.id].capabilities
        /\ effect \in issued[call.id].effects
        /\ now < issued[call.id].expires
        /\ Grants(c, effect)
    BY <1>2, <1>4, <2>2 DEF Authorized, LeaseAllows, Genuine
  <2>. HIDE DEF effect
  <2>4. WithinAuthority'
    BY <1>1, <1>2, <2>1, <2>3 DEF WithinAuthority
  <2>5. InvokedKnown'
    BY <1>2, <2>1 DEF InvokedKnown
  <2>. QED
    BY <1>3, <2>4, <2>5
<1>5. CASE ~Authorized(call.lease, c, Identity(call.alias), effect)
  <2>1. invoked' = invoked
    BY <1>5 DEF Decide
  <2>2. Fixed
    BY <1>1 DEF Fixed
  <2>. QED
    BY <1>3, <2>1, <2>2, StaysWithin
<1>. QED
  BY <1>4, <1>5

LEMMA ReleaseKeeps ==
  ASSUME LeaseInv, NEW c \in Callers, NEW id \in Ids, Release(c, id)
  PROVE  LeaseInv'
<1>. USE DEF LeaseInv
<1>1. /\ store[id] # Nothing
      /\ store' = [store EXCEPT ![id] = Nothing]
      /\ released' = released \cup {id}
      /\ UNCHANGED <<catalog, scopes, issued, calls, invoked, now>>
  BY DEF Release
<1>2. Fixed
  BY <1>1 DEF Fixed
<1>3. TypeOK'
  BY <1>1 DEF TypeOK
<1>4. StoreGenuine'
  BY <1>1 DEF StoreGenuine, Genuine, TypeOK
<1>. QED
  BY <1>1, <1>2, <1>3, <1>4, StaysWithin, CallsStayGenuine

LEMMA RestartKeeps ==
  ASSUME LeaseInv, Restart
  PROVE  LeaseInv'
<1>. USE DEF LeaseInv
<1>1. /\ catalog' \in [Aliases -> [schema : Schemas, effect : Effects]]
      /\ store' = IF Durable THEN store ELSE [id \in Ids |-> Nothing]
      /\ calls' = [c \in Callers |-> NoCall]
      /\ UNCHANGED <<scopes, issued, released, invoked, now>>
  BY DEF Restart
<1>2. Fixed
  BY <1>1 DEF Fixed
<1>3. TypeOK'
  BY <1>1 DEF TypeOK, Calls
<1>4. StoreGenuine'
  BY <1>1 DEF StoreGenuine, Genuine
<1>5. CallsGenuine'
  BY <1>1 DEF CallsGenuine, NoCall
<1>. QED
  BY <1>1, <1>2, <1>3, <1>4, <1>5, StaysWithin

LEMMA NewTokenKeeps ==
  ASSUME LeaseInv, NEW c \in Callers, NewToken(c)
  PROVE  LeaseInv'
<1>. USE DEF LeaseInv
<1>1. /\ scopes' \in [Callers -> SUBSET (Effects \ {ReadOnly})]
      /\ UNCHANGED <<catalog, store, issued, released, calls, invoked, now>>
  BY DEF NewToken
<1>2. Fixed
  BY <1>1 DEF Fixed
<1>3. TypeOK' /\ StoreGenuine'
  BY <1>1 DEF TypeOK, StoreGenuine, Genuine
<1>. QED
  BY <1>1, <1>2, <1>3, StaysWithin, CallsStayGenuine

\* An altered row is not intact, so nothing is said of it.
LEMMA AlterKeeps ==
  ASSUME LeaseInv, NEW id \in Ids, Alter(id)
  PROVE  LeaseInv'
<1>. USE DEF LeaseInv
<1>1. PICK effects \in SUBSET Effects :
          store' = [store EXCEPT ![id].effects = effects, ![id].expires = MaxTime + 1,
                                 ![id].intact = FALSE]
  BY DEF Alter
<1>2. /\ store[id] # Nothing
      /\ UNCHANGED <<catalog, scopes, issued, released, calls, invoked, now>>
  BY DEF Alter
<1>3. Fixed
  BY <1>2 DEF Fixed
<1>4. store[id] \in Lease
  BY <1>2 DEF TypeOK
<1>5. store'[id] \in Lease /\ ~store'[id].intact
  <2>1. store'[id] = [store[id] EXCEPT !.effects = effects, !.expires = MaxTime + 1,
                                       !.intact = FALSE]
    BY <1>1 DEF TypeOK
  <2>2. MaxTime + 1 \in Nat
    BY LeaseBounds
  <2>3. store'[id] = [owner |-> store[id].owner, capabilities |-> store[id].capabilities,
                      effects |-> effects, expires |-> MaxTime + 1, intact |-> FALSE]
    BY <1>4, <2>1 DEF Lease
  <2>4. store[id].owner \in Callers /\ store[id].capabilities \in SUBSET Capabilities
    BY <1>4 DEF Lease
  <2>. QED
    BY <2>2, <2>3, <2>4 DEF Lease
<1>6. \A other \in Ids \ {id} : store'[other] = store[other]
  BY <1>1 DEF TypeOK
<1>7. TypeOK'
  <2>1. store' = [other \in Ids |-> store'[other]]
    BY <1>1 DEF TypeOK
  <2>2. store' \in [Ids -> Lease \cup {Nothing}]
    BY <1>5, <1>6, <2>1 DEF TypeOK
  <2>. QED
    BY <1>2, <2>2 DEF TypeOK
<1>8. StoreGenuine'
  BY <1>2, <1>5, <1>6 DEF StoreGenuine, Genuine
<1>. QED
  BY <1>2, <1>3, <1>7, <1>8, StaysWithin, CallsStayGenuine

LEMMA TickKeeps ==
  ASSUME LeaseInv, Tick
  PROVE  LeaseInv'
<1>. USE DEF LeaseInv
<1>1. now' = now + 1 /\ UNCHANGED <<catalog, scopes, store, issued, released, calls, invoked>>
  BY DEF Tick
<1>2. Fixed
  BY <1>1 DEF Fixed
<1>3. TypeOK' /\ StoreGenuine'
  BY <1>1 DEF TypeOK, StoreGenuine, Genuine
<1>. QED
  BY <1>1, <1>2, <1>3, StaysWithin, CallsStayGenuine

LEMMA NextLeaseInv == LeaseInv /\ [Next]_vars => LeaseInv'
<1>. SUFFICES ASSUME LeaseInv, [Next]_vars PROVE LeaseInv'
  OBVIOUS
<1>1. CASE UNCHANGED vars
  <2>1. Fixed
    BY <1>1 DEF vars, Fixed
  <2>2. TypeOK' /\ StoreGenuine'
    BY <1>1 DEF vars, LeaseInv, TypeOK, StoreGenuine, Genuine
  <2>. QED
    BY <1>1, <2>1, <2>2, StaysWithin, CallsStayGenuine DEF vars, LeaseInv
<1>2. CASE Next
  BY <1>2, IssueKeeps, ReadKeeps, DecideKeeps, ReleaseKeeps, RestartKeeps, NewTokenKeeps,
     AlterKeeps, TickKeeps DEF Next
<1>. QED
  BY <1>1, <1>2

-----------------------------------------------------------------------------
\* Whatever is altered, released, restarted or re-issued meanwhile, a call is let through
\* only within a lease that was issued to its caller and within the caller's own token.
THEOREM AuthorityKept == Spec => []WithinAuthority
<1>1. LeaseInv => WithinAuthority
  BY DEF LeaseInv
<1>. QED
  BY InitLeaseInv, NextLeaseInv, <1>1, PTL DEF Spec

-----------------------------------------------------------------------------
(* Approvals.                                                              *)

\* At most one connection puts its requests to the operator on the terminal: prompts
\* take turns under the cli_lock of their connection, and stdin has no lock of its own.
OneTerminal ==
    \A c, d \in Connections : policy[c] = "local_cli" /\ policy[d] = "local_cli" => c = d

ApprovalTypeOK ==
    /\ home \in [Elicitations -> Connections]
    /\ policy \in [Connections -> Approval!Policies]
    /\ cliLock \in [Connections -> Elicitations \cup {Nobody}]
    /\ {reader, screen} \subseteq Elicitations \cup {Nobody}
    /\ readers \subseteq Elicitations
    /\ DOMAIN state = Elicitations /\ DOMAIN typed = Elicitations
    /\ DOMAIN source = Elicitations

\* Where a request waits follows from its policy, and the one whose prompt waits holds
\* the lock and the screen.
WaitsInTurn ==
    \A r \in Elicitations :
        /\ state[r] = "queued" => policy[home[r]] = "local_cli"
        /\ state[r] = "posted" => policy[home[r]] = "signed_webhook"
        /\ state[r] = "prompted" =>
              policy[home[r]] = "local_cli" /\ cliLock[home[r]] = r /\ screen = r

Unanswered(T) == {q \in Elicitations : T[q] = "nothing"}

\* As long as no line was typed unasked, there is a read for every prompt that was not
\* answered, although not always its own, and so no line stays in the terminal.
ReadsWait ==
    /\ IsFiniteSet(readers) /\ \A q \in readers : typed[q] # "hidden"
    /\ IF readers = {} THEN reader = Nobody ELSE reader \in readers
    /\ \A q \in Elicitations : state[q] \in {"new", "queued"} => typed[q] = "hidden"
    /\ ~unasked => /\ lines = <<>>
                   /\ IsFiniteSet(Unanswered(typed))
                   /\ Cardinality(Unanswered(typed)) = Cardinality(readers)

ApprovalInv ==
    /\ ApprovalTypeOK /\ OneTerminal /\ WaitsInTurn /\ ReadsWait
    /\ Approval!AcceptedAsAnswered

LEMMA NobodyAsks == Nobody \notin Elicitations
  BY AccessConstants DEF Approval!ApprovalConstants

LEMMA InitApproval ==
    ASSUME Approval!Init, OneTerminal
    PROVE  ApprovalInv
  <1>1. ApprovalTypeOK
    BY DEF Approval!Init, ApprovalTypeOK
  <1>2. \A r \in Elicitations : state[r] = "new" /\ typed[r] = "hidden"
    BY DEF Approval!Init
  <1>3. /\ readers = {} /\ reader = Nobody /\ lines = <<>> /\ Unanswered(typed) = {}
    BY <1>2 DEF Approval!Init, Unanswered
  <1>4. ReadsWait
    BY <1>2, <1>3, FS_EmptySet DEF ReadsWait
  <1> QED
    BY <1>1, <1>2, <1>4 DEF ApprovalInv, WaitsInTurn, Approval!AcceptedAsAnswered

\* A step that types nothing and reads nothing.
LEMMA QuietReads ==
    ASSUME ReadsWait, UNCHANGED <<readers, reader, lines, typed, unasked>>,
           \A q \in Elicitations :
              state'[q] \in {"new", "queued"} => state[q] \in {"new", "queued"}
    PROVE  ReadsWait'
  <1>1. UNCHANGED Unanswered(typed)
    BY DEF Unanswered
  <1> QED
    BY <1>1 DEF ReadsWait

\* What a decision changes: one request, which is accepted only if its form fits.
LEMMA DecideAccepts ==
    ASSUME ApprovalInv, NEW r \in Elicitations, NEW verdict, NEW meant,
           Approval!Decide(r, verdict, meant)
    PROVE  /\ DOMAIN state' = Elicitations /\ DOMAIN source' = Elicitations
           /\ \A q \in Elicitations : q # r => state'[q] = state[q] /\ source'[q] = source[q]
           /\ state'[r] = verdict
           /\ verdict = "accept" => source'[r] = meant
  BY DEF Approval!Decide, ApprovalInv, ApprovalTypeOK

LEMMA DecisionFits ==
    ASSUME NEW r, NEW answer
    PROVE  /\ Approval!Decision(r, answer) \in Approval!Outcomes
           /\ Approval!Decision(r, answer) = "accept" => answer = "valid" /\ r \in form
  BY DEF Approval!Decision, Approval!Fits, Approval!Outcomes

\* A request that ends leaves the others' turns alone.
LEMMA DecideKeepsTurns ==
    ASSUME ApprovalInv, NEW r \in Elicitations,
           NEW verdict \in Approval!Outcomes \cup {"queued", "posted"},
           Approval!Decide(r, verdict, r), UNCHANGED Approval!fixed, UNCHANGED Approval!terminal,
           verdict = "queued" => policy[home[r]] = "local_cli" /\ state[r] = "new",
           verdict = "posted" => policy[home[r]] = "signed_webhook",
           verdict = "accept" => r \in form /\ policy[home[r]] \notin {"deny", "local_cli"}
    PROVE  ApprovalInv'
  <1>1. /\ DOMAIN state' = Elicitations /\ DOMAIN source' = Elicitations
        /\ \A q \in Elicitations : q # r => state'[q] = state[q] /\ source'[q] = source[q]
        /\ state'[r] = verdict
        /\ verdict = "accept" => source'[r] = r
    BY DecideAccepts
  <1>2. UNCHANGED <<home, policy, form, cliLock, readers, reader, screen, lines, typed,
                    unasked, inTime>>
    BY DEF Approval!fixed, Approval!terminal
  <1>3. ApprovalTypeOK' /\ OneTerminal'
    BY <1>1, <1>2 DEF ApprovalInv, ApprovalTypeOK, OneTerminal
  <1>4. verdict # "prompted"
    BY DEF Approval!Outcomes
  <1>5. ASSUME NEW q \in Elicitations
        PROVE  /\ state'[q] = "queued" => policy[home[q]] = "local_cli"
               /\ state'[q] = "posted" => policy[home[q]] = "signed_webhook"
               /\ state'[q] = "prompted" =>
                     policy[home[q]] = "local_cli" /\ cliLock[home[q]] = q /\ screen = q
    <2>1. CASE q = r
      BY <1>1, <1>4, <2>1
    <2>2. CASE q # r
      BY <1>1, <2>2 DEF ApprovalInv, WaitsInTurn
    <2> QED
      BY <2>1, <2>2
  <1>6. ASSUME NEW q \in Elicitations, state'[q] = "accept"
        PROVE  /\ q \in form /\ policy[home[q]] # "deny"
               /\ policy[home[q]] = "local_cli" /\ ~unasked =>
                     source'[q] = q /\ typed[q] = "valid"
    <2>1. CASE q = r
      BY <1>1, <1>6, <2>1
    <2>2. CASE q # r
      BY <1>1, <1>6, <2>2 DEF ApprovalInv, Approval!AcceptedAsAnswered
    <2> QED
      BY <2>1, <2>2
  <1>7. ASSUME NEW q \in Elicitations, state'[q] \in {"new", "queued"}
        PROVE  state[q] \in {"new", "queued"}
    <2>1. CASE q = r
      BY <1>1, <1>7, <2>1 DEF Approval!Outcomes
    <2>2. CASE q # r
      BY <1>1, <1>7, <2>2
    <2> QED
      BY <2>1, <2>2
  <1>8. ReadsWait'
    BY <1>2, <1>7, QuietReads DEF ApprovalInv
  <1> QED
    BY <1>2, <1>3, <1>5, <1>6, <1>8 DEF ApprovalInv, WaitsInTurn, Approval!AcceptedAsAnswered

LEMMA HandleKeeps ==
    ASSUME ApprovalInv, NEW r \in Elicitations, Approval!Handle(r)
    PROVE  ApprovalInv'
  <1>1. UNCHANGED Approval!fixed /\ UNCHANGED Approval!terminal /\ state[r] = "new"
    BY DEF Approval!Handle
  <1>2. CASE policy[home[r]] = "deny"
    <2>1. Approval!Decide(r, "decline", r)
      BY <1>2 DEF Approval!Handle
    <2> QED
      BY <1>1, <2>1, DecideKeepsTurns DEF Approval!Outcomes
  <1>3. CASE policy[home[r]] = "static_policy"
    <2>1. PICK answer \in {"valid", "invalid"} :
             Approval!Decide(r, Approval!Decision(r, answer), r)
      BY <1>3 DEF Approval!Handle
    <2>2. PICK verdict : verdict = Approval!Decision(r, answer)
      OBVIOUS
    <2>3. verdict \in Approval!Outcomes /\ (verdict = "accept" => r \in form)
      BY <2>2, DecisionFits
    <2>4. Approval!Decide(r, verdict, r) /\ verdict \notin {"queued", "posted"}
      BY <2>1, <2>2, <2>3 DEF Approval!Outcomes
    <2> QED
      BY <1>1, <1>3, <2>3, <2>4, DecideKeepsTurns
  <1>4. CASE policy[home[r]] \notin {"deny", "static_policy"}
    <2>1. PICK verdict \in {"queued", "posted"} :
             /\ state' = [state EXCEPT ![r] = verdict] /\ source' = source
             /\ verdict = "queued" <=> policy[home[r]] = "local_cli"
      <3>1. CASE policy[home[r]] = "local_cli"
        BY <1>4, <3>1 DEF Approval!Handle
      <3>2. CASE policy[home[r]] # "local_cli"
        BY <1>4, <3>2 DEF Approval!Handle
      <3> QED
        BY <3>1, <3>2
    <2>2. policy[home[r]] \in Approval!Policies
      BY DEF ApprovalInv, ApprovalTypeOK
    <2>3. verdict = "posted" => policy[home[r]] = "signed_webhook"
      BY <1>4, <2>1, <2>2 DEF Approval!Policies
    <2>4. Approval!Decide(r, verdict, r) /\ verdict # "accept"
      BY <2>1 DEF Approval!Decide
    <2> QED
      BY <1>1, <2>1, <2>3, <2>4, DecideKeepsTurns
  <1> QED
    BY <1>2, <1>3, <1>4

\* Nobody else's prompt waits when the lock of the connection is free.
LEMMA NonePrompted ==
    ASSUME ApprovalInv, NEW r \in Elicitations, state[r] = "queued",
           cliLock[home[r]] = Nobody
    PROVE  \A q \in Elicitations : state[q] # "prompted"
  <1>1. policy[home[r]] = "local_cli" /\ home[r] \in Connections
    BY DEF ApprovalInv, WaitsInTurn, ApprovalTypeOK
  <1>2. ASSUME NEW q \in Elicitations, state[q] = "prompted"
        PROVE  FALSE
    <2>1. policy[home[q]] = "local_cli" /\ cliLock[home[q]] = q /\ home[q] \in Connections
      BY <1>2 DEF ApprovalInv, WaitsInTurn, ApprovalTypeOK
    <2>2. home[q] = home[r]
      BY <1>1, <2>1 DEF ApprovalInv, OneTerminal
    <2> QED
      BY <2>1, <2>2, NobodyAsks
  <1> QED
    BY <1>2

\* A prompt waits: one more prompt without an answer, and one more read.
LEMMA StartReadKeeps ==
    ASSUME ApprovalInv, NEW r \in Elicitations, Approval!Prompt(r), lines = <<>>
    PROVE  ApprovalInv'
  <1>1. /\ state[r] = "queued" /\ cliLock[home[r]] = Nobody
        /\ cliLock' = [cliLock EXCEPT ![home[r]] = r]
        /\ state' = [state EXCEPT ![r] = "prompted"]
        /\ screen' = r /\ readers' = readers \cup {r}
        /\ typed' = [typed EXCEPT ![r] = "nothing"]
        /\ reader' = IF reader = Nobody THEN r ELSE reader
        /\ UNCHANGED <<home, policy, form, lines, unasked, source>>
    BY DEF Approval!Prompt, Approval!StartRead, Approval!fixed
  <1>2. policy[home[r]] = "local_cli" /\ home[r] \in Connections
    BY <1>1 DEF ApprovalInv, WaitsInTurn, ApprovalTypeOK
  <1>3. ApprovalTypeOK' /\ OneTerminal'
    BY <1>1, <1>2 DEF ApprovalInv, ApprovalTypeOK, OneTerminal
  <1>4. \A q \in Elicitations :
           /\ state'[q] = IF q = r THEN "prompted" ELSE state[q]
           /\ typed'[q] = IF q = r THEN "nothing" ELSE typed[q]
    BY <1>1 DEF ApprovalInv, ApprovalTypeOK
  <1>5. cliLock'[home[r]] = r
    BY <1>1, <1>2 DEF ApprovalInv, ApprovalTypeOK
  <1>6. \A q \in Elicitations : state[q] # "prompted"
    BY <1>1, NonePrompted
  <1>7. ASSUME NEW q \in Elicitations
        PROVE  /\ state'[q] = "queued" => policy[home[q]] = "local_cli"
               /\ state'[q] = "posted" => policy[home[q]] = "signed_webhook"
               /\ state'[q] = "prompted" =>
                     policy[home[q]] = "local_cli" /\ cliLock'[home[q]] = q /\ screen' = q
    <2>1. CASE q = r
      BY <1>1, <1>2, <1>4, <1>5, <2>1
    <2>2. CASE q # r
      BY <1>4, <1>6, <2>2 DEF ApprovalInv, WaitsInTurn
    <2> QED
      BY <2>1, <2>2
  <1>8. WaitsInTurn'
    BY <1>1, <1>7 DEF WaitsInTurn
  <1>9. Approval!AcceptedAsAnswered'
    BY <1>1, <1>4 DEF ApprovalInv, Approval!AcceptedAsAnswered
  <1>10. typed[r] = "hidden" /\ r \notin readers /\ readers \subseteq Elicitations
    BY <1>1 DEF ApprovalInv, ReadsWait, ApprovalTypeOK
  <1>11. Unanswered(typed') = Unanswered(typed) \cup {r} /\ r \notin Unanswered(typed)
    BY <1>4, <1>10 DEF Unanswered
  <1>12. /\ IsFiniteSet(readers')
         /\ Cardinality(readers') = Cardinality(readers) + 1
    BY <1>1, <1>10, FS_AddElement DEF ApprovalInv, ReadsWait
  <1>13. ~unasked => /\ IsFiniteSet(Unanswered(typed'))
                     /\ Cardinality(Unanswered(typed')) = Cardinality(readers')
    <2>1. SUFFICES ASSUME ~unasked
                   PROVE  /\ IsFiniteSet(Unanswered(typed'))
                          /\ Cardinality(Unanswered(typed')) = Cardinality(readers')
      OBVIOUS
    <2>2. /\ IsFiniteSet(Unanswered(typed))
          /\ Cardinality(Unanswered(typed)) = Cardinality(readers)
      BY <2>1 DEF ApprovalInv, ReadsWait
    <2>3. /\ IsFiniteSet(Unanswered(typed'))
          /\ Cardinality(Unanswered(typed')) = Cardinality(Unanswered(typed)) + 1
      BY <1>11, <2>2, FS_AddElement
    <2> QED
      BY <1>12, <2>2, <2>3
  <1>14. /\ \A q \in readers' : typed'[q] # "hidden"
         /\ \A q \in Elicitations : state'[q] \in {"new", "queued"} => typed'[q] = "hidden"
         /\ readers' # {} /\ reader' \in readers'
    BY <1>1, <1>4, <1>10 DEF ApprovalInv, ReadsWait
  <1>15. ReadsWait'
    BY <1>1, <1>12, <1>13, <1>14 DEF ReadsWait
  <1> QED
    BY <1>3, <1>8, <1>9, <1>15 DEF ApprovalInv

\* A line left over answers the prompt at once: one was typed unasked.
LEMMA ReadLeftOverKeeps ==
    ASSUME ApprovalInv, NEW r \in Elicitations, Approval!Prompt(r), lines # <<>>
    PROVE  ApprovalInv'
  <1>1. /\ state[r] = "queued" /\ cliLock[home[r]] = Nobody
        /\ screen' = r /\ typed' = [typed EXCEPT ![r] = "nothing"]
        /\ UNCHANGED <<home, policy, form, unasked, cliLock, readers, reader>>
        /\ Approval!Decide(r, Approval!Decision(r, Head(lines).answer), Head(lines).screen)
    BY DEF Approval!Prompt, Approval!ReadLeftOver, Approval!fixed
  <1>2. unasked
    BY DEF ApprovalInv, ReadsWait
  <1>3. policy[home[r]] = "local_cli"
    BY <1>1 DEF ApprovalInv, WaitsInTurn
  <1>4. PICK verdict : verdict = Approval!Decision(r, Head(lines).answer)
    OBVIOUS
  <1>5. /\ verdict \in Approval!Outcomes
        /\ verdict = "accept" => r \in form
    BY <1>4, DecisionFits
  <1>6. /\ DOMAIN state' = Elicitations /\ DOMAIN source' = Elicitations
        /\ \A q \in Elicitations : q # r => state'[q] = state[q] /\ source'[q] = source[q]
        /\ state'[r] = verdict
    BY <1>1, <1>4, DecideAccepts
  <1>7. ApprovalTypeOK' /\ OneTerminal'
    BY <1>1, <1>6 DEF ApprovalInv, ApprovalTypeOK, OneTerminal
  <1>8. \A q \in Elicitations : typed'[q] = IF q = r THEN "nothing" ELSE typed[q]
    BY <1>1 DEF ApprovalInv, ApprovalTypeOK
  <1>9. \A q \in Elicitations : state[q] # "prompted"
    BY <1>1, NonePrompted
  <1>10. ASSUME NEW q \in Elicitations
         PROVE  /\ state'[q] = "queued" => policy[home[q]] = "local_cli"
                /\ state'[q] = "posted" => policy[home[q]] = "signed_webhook"
                /\ state'[q] # "prompted"
                /\ state'[q] = "accept" => q \in form /\ policy[home[q]] # "deny"
                /\ state'[q] \in {"new", "queued"} => typed'[q] = "hidden"
    <2>1. CASE q = r
      BY <1>3, <1>5, <1>6, <2>1 DEF Approval!Outcomes
    <2>2. CASE q # r
      BY <1>6, <1>8, <1>9, <2>2
      DEF ApprovalInv, WaitsInTurn, ReadsWait, Approval!AcceptedAsAnswered
    <2> QED
      BY <2>1, <2>2
  <1>11. WaitsInTurn'
    BY <1>1, <1>10 DEF WaitsInTurn
  <1>12. Approval!AcceptedAsAnswered'
    BY <1>1, <1>2, <1>10 DEF Approval!AcceptedAsAnswered
  <1>13. \A q \in readers' : typed'[q] # "hidden"
    BY <1>1, <1>8 DEF ApprovalInv, ApprovalTypeOK, ReadsWait
  <1>14. ReadsWait'
    BY <1>1, <1>2, <1>10, <1>13 DEF ApprovalInv, ReadsWait
  <1> QED
    BY <1>7, <1>11, <1>12, <1>14 DEF ApprovalInv

\* The lock that r gives back was not another's.
LEMMA UnlockedTyped ==
    ASSUME ApprovalInv, NEW r \in Elicitations
    PROVE  /\ Approval!Unlocked(r) \in [Connections -> Elicitations \cup {Nobody}]
           /\ \A c \in Connections : cliLock[c] # r => Approval!Unlocked(r)[c] = cliLock[c]
  BY DEF Approval!Unlocked, ApprovalInv, ApprovalTypeOK

LEMMA TimeOutKeeps ==
    ASSUME ApprovalInv, NEW r \in Elicitations, Approval!TimeOut(r)
    PROVE  ApprovalInv'
  <1>1. /\ state[r] = "prompted" /\ state' = [state EXCEPT ![r] = "error"]
        /\ cliLock' = Approval!Unlocked(r)
        /\ UNCHANGED <<home, policy, form, readers, reader, screen, lines, typed, unasked,
                       source>>
    BY DEF Approval!TimeOut, Approval!fixed
  <1>2. ApprovalTypeOK' /\ OneTerminal'
    BY <1>1, UnlockedTyped DEF ApprovalInv, ApprovalTypeOK, OneTerminal
  <1>3. \A q \in Elicitations : state'[q] = IF q = r THEN "error" ELSE state[q]
    BY <1>1 DEF ApprovalInv, ApprovalTypeOK
  <1>4. ASSUME NEW q \in Elicitations
        PROVE  /\ state'[q] = "queued" => policy[home[q]] = "local_cli"
               /\ state'[q] = "posted" => policy[home[q]] = "signed_webhook"
               /\ state'[q] = "prompted" =>
                     policy[home[q]] = "local_cli" /\ cliLock'[home[q]] = q /\ screen = q
    <2>1. CASE q = r
      BY <1>3, <2>1
    <2>2. CASE q # r
      <3>1. home[q] \in Connections
        BY DEF ApprovalInv, ApprovalTypeOK
      <3> QED
        BY <1>1, <1>3, <2>2, <3>1, UnlockedTyped DEF ApprovalInv, WaitsInTurn
    <2> QED
      BY <2>1, <2>2
  <1>5. WaitsInTurn'
    BY <1>1, <1>4 DEF WaitsInTurn
  <1>6. Approval!AcceptedAsAnswered'
    BY <1>1, <1>3 DEF ApprovalInv, Approval!AcceptedAsAnswered
  <1>7. ReadsWait'
    BY <1>1, <1>3, QuietReads DEF ApprovalInv
  <1> QED
    BY <1>2, <1>5, <1>6, <1>7 DEF ApprovalInv

LEMMA WebhookKeeps ==
    ASSUME ApprovalInv, NEW r \in Elicitations,
           Approval!WebhookFails(r) \/ \E answer \in Approval!Answers : Approval!Respond(r, answer)
    PROVE  ApprovalInv'
  <1>1. /\ state[r] = "posted"
        /\ UNCHANGED Approval!fixed /\ UNCHANGED Approval!terminal
    BY DEF Approval!WebhookFails, Approval!Respond
  <1>2. policy[home[r]] = "signed_webhook"
    BY <1>1 DEF ApprovalInv, WaitsInTurn
  <1>3. CASE Approval!WebhookFails(r)
    <2>1. Approval!Decide(r, "error", r)
      BY <1>3 DEF Approval!WebhookFails
    <2> QED
      BY <1>1, <2>1, DecideKeepsTurns DEF Approval!Outcomes
  <1>4. ASSUME NEW answer \in Approval!Answers, Approval!Respond(r, answer)
        PROVE  ApprovalInv'
    <2>1. PICK verdict : verdict = Approval!Decision(r, answer)
      OBVIOUS
    <2>2. Approval!Decide(r, verdict, r)
      BY <1>4, <2>1 DEF Approval!Respond
    <2>3. verdict \in Approval!Outcomes /\ (verdict = "accept" => r \in form)
      BY <2>1, DecisionFits
    <2>4. verdict \notin {"queued", "posted"}
      BY <2>3 DEF Approval!Outcomes
    <2> QED
      BY <1>1, <1>2, <2>2, <2>3, <2>4, DecideKeepsTurns
  <1> QED
    BY <1>3, <1>4

\* The history of a line: it is the first at the prompt on the screen, or unasked.
LEMMA LineSaid ==
    ASSUME ApprovalInv, NEW answer \in Approval!Answers, Approval!Type(answer), ~unasked'
    PROVE  /\ ~unasked /\ screen \in Elicitations /\ typed[screen] = "nothing"
           /\ typed' = [typed EXCEPT ![screen] = answer]
           /\ readers # {} /\ IsFiniteSet(Unanswered(typed))
           /\ Cardinality(Unanswered(typed)) = Cardinality(readers)
           /\ IsFiniteSet(readers)
  <1>1. /\ ~unasked /\ screen # Nobody /\ typed[screen] = "nothing"
        /\ typed' = [typed EXCEPT ![screen] = answer]
    BY DEF Approval!Type
  <1>2. screen \in Elicitations
    BY <1>1 DEF ApprovalInv, ApprovalTypeOK
  <1>3. /\ IsFiniteSet(Unanswered(typed)) /\ IsFiniteSet(readers)
        /\ Cardinality(Unanswered(typed)) = Cardinality(readers)
    BY <1>1 DEF ApprovalInv, ReadsWait
  <1>4. screen \in Unanswered(typed)
    BY <1>1, <1>2 DEF Unanswered
  <1>5. Cardinality(Unanswered(typed)) # 0
    BY <1>3, <1>4, FS_EmptySet
  <1>6. readers # {}
    BY <1>3, <1>5, FS_EmptySet
  <1> QED
    BY <1>1, <1>2, <1>3, <1>6

\* What is typed at a prompt answers no other, and no prompt becomes unshown.
LEMMA TypedMoves ==
    ASSUME ApprovalInv, NEW answer \in Approval!Answers, Approval!Type(answer)
    PROVE  /\ DOMAIN typed' = Elicitations
           /\ \A q \in Elicitations :
                 \/ typed'[q] = typed[q]
                 \/ typed[q] = "nothing" /\ typed'[q] = answer /\ answer # "hidden"
           /\ UNCHANGED <<home, policy, form, screen>>
  <1>1. answer # "hidden"
    BY DEF Approval!Answers
  <1>2. \/ typed' = typed
        \/ typed[screen] = "nothing" /\ typed' = [typed EXCEPT ![screen] = answer]
    BY DEF Approval!Type
  <1> QED
    BY <1>1, <1>2 DEF Approval!Type, Approval!fixed, ApprovalInv, ApprovalTypeOK

\* The terminal keeps a line only when one was typed unasked.
LEMMA KeptKeeps ==
    ASSUME ApprovalInv, NEW answer \in Approval!Answers, Approval!Type(answer),
           Approval!Kept(answer)
    PROVE  ApprovalInv'
  <1>1. /\ UNCHANGED <<home, policy, form, screen, state, source, cliLock, readers, reader>>
        /\ reader = Nobody
    BY TypedMoves DEF Approval!Kept
  <1>2. unasked'
    <2>1. readers = {}
      BY <1>1, NobodyAsks DEF ApprovalInv, ReadsWait, ApprovalTypeOK
    <2> QED
      BY <2>1, LineSaid
  <1>3. ApprovalTypeOK' /\ OneTerminal' /\ WaitsInTurn'
    BY <1>1, TypedMoves DEF ApprovalInv, ApprovalTypeOK, OneTerminal, WaitsInTurn
  <1>4. Approval!AcceptedAsAnswered'
    BY <1>1, <1>2 DEF ApprovalInv, Approval!AcceptedAsAnswered
  <1>5. /\ \A q \in readers' : typed'[q] # "hidden"
        /\ \A q \in Elicitations : state'[q] \in {"new", "queued"} => typed'[q] = "hidden"
    BY <1>1, TypedMoves DEF ApprovalInv, ApprovalTypeOK, ReadsWait
  <1>6. ReadsWait'
    BY <1>1, <1>2, <1>5 DEF ApprovalInv, ReadsWait
  <1> QED
    BY <1>3, <1>4, <1>6 DEF ApprovalInv

\* A read ends with every line that answers a prompt.
LEMMA TakenReads ==
    ASSUME ApprovalInv, NEW answer \in Approval!Answers, Approval!Type(answer),
           Approval!Taken(answer),
           \A q \in Elicitations :
              state'[q] \in {"new", "queued"} => state[q] \in {"new", "queued"}
    PROVE  ReadsWait'
  <1>1. /\ reader # Nobody /\ readers' = readers \ {reader} /\ lines' = lines
        /\ reader' \in IF readers \ {reader} = {} THEN {Nobody} ELSE readers \ {reader}
    BY DEF Approval!Taken
  <1>2. reader \in readers /\ IsFiniteSet(readers) /\ readers \subseteq Elicitations
    BY <1>1 DEF ApprovalInv, ReadsWait, ApprovalTypeOK
  <1>3. IsFiniteSet(readers') /\ Cardinality(readers') = Cardinality(readers) - 1
    BY <1>1, <1>2, FS_RemoveElement
  <1>4. ~unasked' => /\ lines' = <<>>
                     /\ IsFiniteSet(Unanswered(typed'))
                     /\ Cardinality(Unanswered(typed')) = Cardinality(readers')
    <2>1. SUFFICES ASSUME ~unasked'
                   PROVE  /\ lines' = <<>>
                          /\ IsFiniteSet(Unanswered(typed'))
                          /\ Cardinality(Unanswered(typed')) = Cardinality(readers')
      OBVIOUS
    <2>2. /\ ~unasked /\ screen \in Elicitations /\ typed[screen] = "nothing"
          /\ typed' = [typed EXCEPT ![screen] = answer]
          /\ IsFiniteSet(Unanswered(typed))
          /\ Cardinality(Unanswered(typed)) = Cardinality(readers)
      BY <2>1, LineSaid
    <2>3. answer # "nothing" /\ DOMAIN typed = Elicitations
      BY DEF Approval!Answers, ApprovalInv, ApprovalTypeOK
    <2>4. /\ Unanswered(typed') = Unanswered(typed) \ {screen}
          /\ screen \in Unanswered(typed)
      BY <2>2, <2>3 DEF Unanswered
    <2>5. /\ IsFiniteSet(Unanswered(typed'))
          /\ Cardinality(Unanswered(typed')) = Cardinality(Unanswered(typed)) - 1
      BY <2>2, <2>4, FS_RemoveElement
    <2>6. lines = <<>>
      BY <2>2 DEF ApprovalInv, ReadsWait
    <2> QED
      BY <1>1, <1>3, <2>2, <2>5, <2>6
  <1>5. /\ \A q \in readers' : typed'[q] # "hidden"
        /\ \A q \in Elicitations : state'[q] \in {"new", "queued"} => typed'[q] = "hidden"
    BY <1>1, <1>2, TypedMoves DEF ApprovalInv, ReadsWait
  <1>6. IF readers' = {} THEN reader' = Nobody ELSE reader' \in readers'
    BY <1>1
  <1> QED
    BY <1>3, <1>4, <1>5, <1>6 DEF ReadsWait

\* The line goes to the read that holds stdin.  If that read's request still waits, its
\* prompt is the one on the screen.
LEMMA TakenKeeps ==
    ASSUME ApprovalInv, NEW answer \in Approval!Answers, Approval!Type(answer),
           Approval!Taken(answer)
    PROVE  ApprovalInv'
  <1>1. /\ reader # Nobody /\ readers' = readers \ {reader}
        /\ reader' \in IF readers \ {reader} = {} THEN {Nobody} ELSE readers \ {reader}
        /\ UNCHANGED <<home, policy, form, screen>> /\ DOMAIN typed' = Elicitations
    BY TypedMoves DEF Approval!Taken
  <1>2. reader \in Elicitations
    BY <1>1 DEF ApprovalInv, ApprovalTypeOK
  <1>3. /\ {reader', screen'} \subseteq Elicitations \cup {Nobody}
        /\ readers' \subseteq Elicitations
        /\ home' \in [Elicitations -> Connections]
        /\ policy' \in [Connections -> Approval!Policies]
        /\ OneTerminal'
    BY <1>1 DEF ApprovalInv, ApprovalTypeOK, OneTerminal
  <1>4. \A q \in Elicitations : state[q] = "accept" =>
           /\ q \in form /\ policy[home[q]] # "deny"
           /\ policy[home[q]] = "local_cli" /\ ~unasked' =>
                 source[q] = q /\ typed'[q] = "valid"
    <2> SUFFICES ASSUME NEW q \in Elicitations, state[q] = "accept"
                 PROVE  /\ q \in form /\ policy[home[q]] # "deny"
                        /\ policy[home[q]] = "local_cli" /\ ~unasked' =>
                              source[q] = q /\ typed'[q] = "valid"
      OBVIOUS
    <2>1. /\ q \in form /\ policy[home[q]] # "deny"
          /\ policy[home[q]] = "local_cli" /\ ~unasked =>
                source[q] = q /\ typed[q] = "valid"
      BY DEF ApprovalInv, Approval!AcceptedAsAnswered
    <2> QED
      BY <2>1, LineSaid, TypedMoves
  <1>5. CASE state[reader] = "prompted"
    <2>1. PICK verdict : verdict = Approval!Decision(reader, answer)
      OBVIOUS
    <2>2. Approval!Decide(reader, verdict, screen) /\ cliLock' = Approval!Unlocked(reader)
      BY <1>5, <2>1 DEF Approval!Taken
    <2>3. /\ verdict \in Approval!Outcomes
          /\ verdict = "accept" => answer = "valid" /\ reader \in form
      BY <2>1, DecisionFits
    <2>4. policy[home[reader]] = "local_cli" /\ screen = reader
      BY <1>2, <1>5 DEF ApprovalInv, WaitsInTurn
    <2>5. /\ DOMAIN state' = Elicitations /\ DOMAIN source' = Elicitations
          /\ \A q \in Elicitations : q # reader => state'[q] = state[q] /\ source'[q] = source[q]
          /\ state'[reader] = verdict
          /\ verdict = "accept" => source'[reader] = screen
      BY <1>2, <2>2, DecideAccepts
    <2>6. ApprovalTypeOK'
      BY <1>1, <1>2, <1>3, <2>2, <2>5, UnlockedTyped DEF ApprovalTypeOK
    <2>7. ASSUME NEW q \in Elicitations
          PROVE  /\ state'[q] = "queued" => policy[home[q]] = "local_cli"
                 /\ state'[q] = "posted" => policy[home[q]] = "signed_webhook"
                 /\ state'[q] = "prompted" =>
                       policy[home[q]] = "local_cli" /\ cliLock'[home[q]] = q /\ screen = q
                 /\ state'[q] \in {"new", "queued"} => state[q] \in {"new", "queued"}
      <3>1. CASE q = reader
        BY <2>3, <2>5, <3>1 DEF Approval!Outcomes
      <3>2. CASE q # reader
        <4>1. home[q] \in Connections
          BY DEF ApprovalInv, ApprovalTypeOK
        <4> QED
          BY <1>2, <2>2, <2>5, <3>2, <4>1, UnlockedTyped DEF ApprovalInv, WaitsInTurn
      <3> QED
        BY <3>1, <3>2
    <2>8. WaitsInTurn' /\ ReadsWait'
      BY <1>1, <2>7, TakenReads DEF WaitsInTurn
    <2>9. ASSUME NEW q \in Elicitations, state'[q] = "accept"
          PROVE  /\ q \in form /\ policy[home[q]] # "deny"
                 /\ policy[home[q]] = "local_cli" /\ ~unasked' =>
                       source'[q] = q /\ typed'[q] = "valid"
      <3>1. CASE q = reader
        <4>1. verdict = "accept"
          BY <2>5, <2>9, <3>1
        <4>2. /\ q \in form /\ policy[home[q]] # "deny" /\ source'[q] = q /\ answer = "valid"
          BY <2>3, <2>4, <2>5, <3>1, <4>1
        <4>3. ~unasked' => typed' = [typed EXCEPT ![q] = answer]
          BY <2>4, <3>1, LineSaid
        <4>4. DOMAIN typed = Elicitations
          BY DEF ApprovalInv, ApprovalTypeOK
        <4> QED
          BY <4>2, <4>3, <4>4
      <3>2. CASE q # reader
        BY <1>4, <2>5, <2>9, <3>2
      <3> QED
        BY <3>1, <3>2
    <2>10. Approval!AcceptedAsAnswered'
      BY <1>1, <2>9 DEF Approval!AcceptedAsAnswered
    <2> QED
      BY <1>3, <2>6, <2>8, <2>10 DEF ApprovalInv
  <1>6. CASE state[reader] # "prompted"
    <2>1. UNCHANGED <<state, source, cliLock>>
      BY <1>6 DEF Approval!Taken
    <2>2. ApprovalTypeOK'
      BY <1>1, <1>3, <2>1 DEF ApprovalInv, ApprovalTypeOK
    <2>3. WaitsInTurn'
      BY <1>1, <2>1 DEF ApprovalInv, WaitsInTurn
    <2>4. ReadsWait'
      BY <2>1, TakenReads
    <2>5. Approval!AcceptedAsAnswered'
      BY <1>1, <1>4, <2>1 DEF Approval!AcceptedAsAnswered
    <2> QED
      BY <1>3, <2>2, <2>3, <2>4, <2>5 DEF ApprovalInv
  <1> QED
    BY <1>5, <1>6

LEMMA ApprovalNext ==
    ASSUME ApprovalInv, [Approval!Next]_(Approval!vars)
    PROVE  ApprovalInv'
  <1>1. ASSUME NEW r \in Elicitations,
               \/ Approval!Handle(r) \/ Approval!Prompt(r) \/ Approval!TimeOut(r)
               \/ Approval!WebhookFails(r)
               \/ \E answer \in Approval!Answers : Approval!Respond(r, answer)
        PROVE  ApprovalInv'
    BY <1>1, HandleKeeps, StartReadKeeps, ReadLeftOverKeeps, TimeOutKeeps, WebhookKeeps
  <1>2. ASSUME NEW answer \in Approval!Answers, Approval!Type(answer)
        PROVE  ApprovalInv'
    BY <1>2, TakenKeeps, KeptKeeps DEF Approval!Type
  <1>3. CASE UNCHANGED Approval!vars
    BY <1>3 DEF Approval!vars, ApprovalInv, ApprovalTypeOK, OneTerminal, WaitsInTurn,
                ReadsWait, Unanswered, Approval!AcceptedAsAnswered
  <1> QED
    BY <1>1, <1>2, <1>3 DEF Approval!Next

\* approval::handle: whatever times out and is answered late, and however many requests
\* and connections there are, a request is accepted only on content that fits its form,
\* and never under a deny policy; where one connection alone uses the terminal, on the
\* line typed at its own prompt, as long as no line was typed unasked.
THEOREM AnswersKept == Approval!Spec /\ OneTerminal => []AcceptedAsAnswered
  <1>1. Approval!Init /\ OneTerminal => ApprovalInv
    BY InitApproval
  <1>2. ApprovalInv /\ [Approval!Next]_(Approval!vars) => ApprovalInv'
    BY ApprovalNext
  <1>3. ApprovalInv => AcceptedAsAnswered
    BY DEF ApprovalInv, AcceptedAsAnswered
  <1> QED
    BY <1>1, <1>2, <1>3, PTL DEF Approval!Spec

-----------------------------------------------------------------------------
(* The cache of the provider's keys.  What the cache holds was published   *)
(* no earlier than one fetch and one lifetime before the set expires; what *)
(* an answer under way holds was published when its fetch began or later.  *)
(* A request whose key is published throughout finds it in every answer    *)
(* that is given to it, and has not forced a fetch when it first looks.    *)

KeyTypes ==
    /\ keyNow \in Nat /\ published \in SUBSET Keys
    /\ left \in [Keys -> Nat] /\ rotations \in Nat
    /\ cached \in [set : SUBSET Keys, expires_at : Nat]
    /\ refresh \in Bearers \cup {Nobody}
    /\ req \in [Bearers -> KeySet!Requesting]

\* What is published is published now, and nothing was published later.
LeftTimely(clock, shown, last) ==
    \A k \in Keys : last[k] <= clock /\ (k \in shown => last[k] = clock)

\* No key in the cache outlives its withdrawal by more than a fetch and a lifetime.
CacheTimely(cache, last) ==
    \A k \in cache.set : cache.expires_at <= last[k] + CacheTtl + FetchTimeout

\* How far a request has come agrees with what the provider published meanwhile.
Timely(q, clock, shown, last) ==
    /\ q.throughout => q.token.key \in shown
    /\ q.pc \in {"fetch", "answered"} =>
         q.since <= clock /\ clock <= q.since + FetchTimeout
    /\ q.pc = "answered" => \A k \in q.answer : q.since <= last[k]

Honest(q) ==
    /\ q.pc = "keys" => ~q.forced
    /\ q.pc = "answered" /\ q.throughout => q.token.key \in q.answer
    /\ q.pc = "refused" /\ q.throughout /\ KeySet!Unexpired(q.token, q.at) => q.failed

KeyInv ==
    /\ KeyTypes
    /\ LeftTimely(keyNow, published, left)
    /\ CacheTimely(cached, left)
    /\ \A r \in Bearers : Timely(req[r], keyNow, published, left) /\ Honest(req[r])

LEMMA IdleRequest ==
  ASSUME KeySet!KeyCacheConstants
  PROVE  /\ KeySet!Idle \in KeySet!Requesting
         /\ KeySet!Idle.pc = "idle"
         /\ ~KeySet!Idle.throughout
<1>1. PICK token : token \in KeySet!Tokens
  <2>1. PICK k : k \in Keys
    BY DEF KeySet!KeyCacheConstants
  <2>2. PICK e : e \in Expiries
    BY DEF KeySet!KeyCacheConstants
  <2>3. [key |-> k, exp |-> e] \in KeySet!Tokens
    BY <2>1, <2>2 DEF KeySet!Tokens
  <2>. QED
    BY <2>3
<1>2. (CHOOSE any \in KeySet!Tokens : TRUE) \in KeySet!Tokens
  BY <1>1
<1>. QED
  BY <1>2 DEF KeySet!Idle, KeySet!Requesting

LEMMA KeysBegin ==
  ASSUME KeySet!KeyCacheConstants, KeySet!Init
  PROVE  KeyInv
<1>1. {CacheTtl, FetchTimeout} \subseteq Nat /\ FirstKeys \subseteq Keys
  BY DEF KeySet!KeyCacheConstants
<1>2. KeyTypes
  BY <1>1, IdleRequest DEF KeySet!Init, KeyTypes
<1>3. LeftTimely(keyNow, published, left) /\ CacheTimely(cached, left)
  BY <1>1 DEF KeySet!Init, LeftTimely, CacheTimely
<1>4. \A r \in Bearers : Timely(req[r], keyNow, published, left) /\ Honest(req[r])
  BY IdleRequest DEF KeySet!Init, Timely, Honest
<1>. QED
  BY <1>2, <1>3, <1>4 DEF KeyInv

\* One request's step, with what it may change besides.
LEMMA RequestKeeps ==
  ASSUME KeyInv, NEW r \in Bearers, NEW q \in KeySet!Requesting,
         req' = [req EXCEPT ![r] = q],
         Timely(q, keyNow, published, left), Honest(q),
         UNCHANGED <<keyNow, published, left, rotations>>,
         cached' \in [set : SUBSET Keys, expires_at : Nat], CacheTimely(cached', left),
         refresh' \in Bearers \cup {Nobody}
  PROVE  KeyInv'
<1>1. KeyTypes'
  BY DEF KeyInv, KeyTypes
<1>2. LeftTimely(keyNow', published', left') /\ CacheTimely(cached', left')
  BY DEF KeyInv, LeftTimely, CacheTimely
<1>3. ASSUME NEW s \in Bearers
      PROVE  Timely(req'[s], keyNow', published', left') /\ Honest(req'[s])
  <2>1. req'[s] = IF s = r THEN q ELSE req[s]
    BY DEF KeyInv, KeyTypes
  <2>2. /\ keyNow' = keyNow /\ published' = published /\ left' = left
    OBVIOUS
  <2>. QED
    BY <2>1, <2>2 DEF KeyInv
<1>. QED
  BY <1>1, <1>2, <1>3 DEF KeyInv

\* Verifying a token settles the request or sends it to the mutex, and refuses one that
\* was published throughout only for its own expiry.
LEMMA VerifiedHonest ==
  ASSUME KeySet!KeyCacheConstants,
         NEW q \in KeySet!Requesting, NEW set \in SUBSET Keys,
         q.throughout /\ q.forced => q.token.key \in set
  PROVE  /\ KeySet!Verified(q, set) \in KeySet!Requesting
         /\ Honest(KeySet!Verified(q, set))
         /\ KeySet!Verified(q, set).pc \in {"lock", "accepted", "refused"}
         /\ KeySet!Verified(q, set).pc = "accepted" => q.token.key \in set
         /\ KeySet!Verified(q, set).token = q.token
         /\ KeySet!Verified(q, set).throughout = q.throughout
<1>1. CASE q.token.key \in set
  BY <1>1 DEF KeySet!Verified, KeySet!Requesting, Honest, KeySet!Unexpired
<1>2. CASE q.token.key \notin set /\ q.forced
  BY <1>2 DEF KeySet!Verified, KeySet!Requesting, Honest, KeySet!Unexpired
<1>3. CASE q.token.key \notin set /\ ~q.forced
  BY <1>3 DEF KeySet!Verified, KeySet!Requesting, Honest, KeySet!Unexpired
<1>. QED
  BY <1>1, <1>2, <1>3

LEMMA TickKeepsKeys ==
  ASSUME KeySet!KeyCacheConstants, KeyInv, KeySet!Tick
  PROVE  KeyInv'
<1>1. {CacheTtl, FetchTimeout} \subseteq Nat
  BY DEF KeySet!KeyCacheConstants
<1>2. /\ keyNow' = keyNow + 1
      /\ left' = [k \in Keys |-> IF k \in published THEN keyNow + 1 ELSE left[k]]
      /\ UNCHANGED <<published, rotations, cached, refresh, req>>
      /\ \A r \in Bearers :
           req[r].pc \in {"fetch", "answered"} => keyNow < req[r].since + FetchTimeout
  BY DEF KeySet!Tick
<1>3. KeyTypes'
  BY <1>2 DEF KeyInv, KeyTypes
<1>4. LeftTimely(keyNow', published', left')
  BY <1>2 DEF KeyInv, KeyTypes, LeftTimely
<1>5. \A k \in Keys : left'[k] \in Nat /\ left[k] \in Nat /\ left[k] <= left'[k]
  BY <1>2 DEF KeyInv, KeyTypes, LeftTimely
<1>6. CacheTimely(cached', left')
  BY <1>1, <1>2, <1>5 DEF KeyInv, KeyTypes, CacheTimely
<1>7. ASSUME NEW r \in Bearers
      PROVE  Timely(req'[r], keyNow', published', left') /\ Honest(req'[r])
  <2>1. req'[r] = req[r] /\ req[r] \in KeySet!Requesting /\ published' = published
    BY <1>2 DEF KeyInv, KeyTypes
  <2>2. Timely(req[r], keyNow, published, left) /\ Honest(req[r])
    BY DEF KeyInv
  <2>3. req[r].since \in Nat /\ req[r].answer \in SUBSET Keys /\ keyNow \in Nat
    BY <2>1 DEF KeyInv, KeyTypes, KeySet!Requesting
  <2>4. req[r].pc \in {"fetch", "answered"} =>
           req[r].since <= keyNow + 1 /\ keyNow + 1 <= req[r].since + FetchTimeout
    BY <1>1, <1>2, <2>2, <2>3 DEF Timely
  <2>5. req[r].pc = "answered" => \A k \in req[r].answer : req[r].since <= left'[k]
    BY <1>5, <2>2, <2>3 DEF Timely
  <2>. QED
    BY <1>2, <2>1, <2>2, <2>4, <2>5 DEF Timely
<1>. QED
  BY <1>3, <1>4, <1>6, <1>7 DEF KeyInv

LEMMA RotateKeepsKeys ==
  ASSUME KeySet!KeyCacheConstants, KeyInv, KeySet!Rotate
  PROVE  KeyInv'
<1>1. {CacheTtl, FetchTimeout} \subseteq Nat
  BY DEF KeySet!KeyCacheConstants
<1>2. PICK set \in SUBSET Keys :
        /\ published' = set
        /\ left' = [k \in Keys |-> IF k \in set THEN keyNow ELSE left[k]]
        /\ req' = [r \in Bearers |->
                     [req[r] EXCEPT !.throughout = @ /\ req[r].token.key \in set]]
        /\ rotations' = rotations + 1
        /\ UNCHANGED <<keyNow, cached, refresh>>
  BY DEF KeySet!Rotate
<1>3. \A k \in Keys : left'[k] \in Nat /\ left[k] \in Nat /\ left[k] <= left'[k]
  BY <1>2 DEF KeyInv, KeyTypes, LeftTimely
<1>4. LeftTimely(keyNow', published', left')
  BY <1>2 DEF KeyInv, KeyTypes, LeftTimely
<1>5. CacheTimely(cached', left')
  BY <1>1, <1>2, <1>3 DEF KeyInv, KeyTypes, CacheTimely
<1>6. ASSUME NEW r \in Bearers
      PROVE  /\ req'[r] \in KeySet!Requesting
             /\ Timely(req'[r], keyNow', published', left') /\ Honest(req'[r])
  <2>1. PICK q : q = req[r]
    OBVIOUS
  <2>2. /\ q \in KeySet!Requesting
        /\ Timely(q, keyNow, published, left) /\ Honest(q)
    BY <2>1 DEF KeyInv, KeyTypes
  <2>3. PICK flag : flag = (q.throughout /\ q.token.key \in set) /\ flag \in BOOLEAN
    BY <2>2 DEF KeySet!Requesting
  <2>4. PICK n : n = req'[r]
    OBVIOUS
  <2>5. n = [q EXCEPT !.throughout = flag]
    BY <1>2, <2>1, <2>3, <2>4
  <2>6. /\ n \in KeySet!Requesting
        /\ n.pc = q.pc /\ n.token = q.token /\ n.at = q.at /\ n.forced = q.forced
        /\ n.since = q.since /\ n.answer = q.answer /\ n.failed = q.failed
        /\ n.throughout = flag
    BY <2>2, <2>3, <2>5 DEF KeySet!Requesting
  <2>7. Honest(n)
    BY <2>2, <2>3, <2>6 DEF Honest
  <2>8. q.pc = "answered" => \A k \in q.answer : q.since <= left'[k]
    <3>1. q.since \in Nat /\ q.answer \in SUBSET Keys
      BY <2>2 DEF KeySet!Requesting
    <3>. QED
      BY <1>3, <2>2, <3>1 DEF Timely
  <2>9. Timely(n, keyNow', published', left')
    BY <1>2, <2>2, <2>3, <2>6, <2>8 DEF Timely
  <2>. QED
    BY <2>4, <2>6, <2>7, <2>9
<1>7. KeyTypes'
  <2>1. left' \in [Keys -> Nat]
    BY <1>2 DEF KeyInv, KeyTypes
  <2>2. req' \in [Bearers -> KeySet!Requesting]
    BY <1>2, <1>6
  <2>. QED
    BY <1>2, <2>1, <2>2 DEF KeyInv, KeyTypes
<1>. QED
  BY <1>4, <1>5, <1>6, <1>7 DEF KeyInv

LEMMA ArriveKeeps ==
  ASSUME KeySet!KeyCacheConstants, KeyInv, NEW r \in Bearers, KeySet!Arrive(r)
  PROVE  KeyInv'
<1>1. PICK token \in KeySet!Tokens :
        req' = [req EXCEPT ![r] = [KeySet!Idle EXCEPT
                   !.pc = "keys", !.token = token, !.at = keyNow,
                   !.throughout = token.key \in published]]
  BY DEF KeySet!Arrive
<1>2. PICK flag : flag = (token.key \in published) /\ flag \in BOOLEAN
  <2>1. CASE token.key \in published
    <3>1. TRUE = (token.key \in published)
      BY <2>1
    <3>. QED
      BY <3>1, Zenon
  <2>2. CASE token.key \notin published
    <3>1. FALSE = (token.key \in published)
      BY <2>2
    <3>. QED
      BY <3>1, Zenon
  <2>. QED
    BY <2>1, <2>2
<1>3. PICK q : q = [KeySet!Idle EXCEPT
                   !.pc = "keys", !.token = token, !.at = keyNow, !.throughout = flag]
  OBVIOUS
<1>4. /\ q \in KeySet!Requesting
      /\ q.pc = "keys" /\ ~q.forced /\ q.throughout = flag /\ q.token = token
  <2>1. PICK i : i = KeySet!Idle
    OBVIOUS
  <2>2. i \in KeySet!Requesting /\ ~i.forced
    BY <2>1, IdleRequest DEF KeySet!Idle
  <2>3. keyNow \in Nat
    BY DEF KeyInv, KeyTypes
  <2>. QED
    BY <1>2, <1>3, <2>1, <2>2, <2>3 DEF KeySet!Requesting
<1>5. Timely(q, keyNow, published, left) /\ Honest(q)
  BY <1>2, <1>4 DEF Timely, Honest
<1>6. UNCHANGED <<keyNow, published, left, rotations, cached, refresh>>
  BY DEF KeySet!Arrive
<1>. QED
  <2>1. req' = [req EXCEPT ![r] = q]
    BY <1>1, <1>2, <1>3
  <2>. QED
    BY <2>1, <1>4, <1>5, <1>6, RequestKeeps DEF KeyInv, KeyTypes

\* What the request at hand brings to its step.
LEMMA RequestAtHand ==
  ASSUME KeyInv, NEW r \in Bearers
  PROVE  /\ req[r] \in KeySet!Requesting
         /\ Timely(req[r], keyNow, published, left) /\ Honest(req[r])
         /\ keyNow \in Nat /\ left \in [Keys -> Nat] /\ published \in SUBSET Keys
         /\ cached \in [set : SUBSET Keys, expires_at : Nat] /\ CacheTimely(cached, left)
         /\ LeftTimely(keyNow, published, left)
         /\ refresh \in Bearers \cup {Nobody}
BY DEF KeyInv, KeyTypes

\* A request verified with a set of keys is on time again.
LEMMA VerifiedTimely ==
  ASSUME KeySet!KeyCacheConstants, KeyInv,
         NEW q \in KeySet!Requesting, NEW set \in SUBSET Keys,
         q.throughout /\ q.forced => q.token.key \in set,
         q.throughout => q.token.key \in published
  PROVE  Timely(KeySet!Verified(q, set), keyNow, published, left)
<1>1. PICK n : n = KeySet!Verified(q, set)
  OBVIOUS
<1>2. /\ n.pc \in {"lock", "accepted", "refused"}
      /\ n.token = q.token /\ n.throughout = q.throughout
  BY <1>1, VerifiedHonest
<1>. QED
  BY <1>1, <1>2 DEF Timely

\* Served from the cache, before or after waiting for the mutex.
LEMMA ServedKeeps ==
  ASSUME KeySet!KeyCacheConstants, KeyInv, NEW r \in Bearers, ~req[r].forced,
         req' = [req EXCEPT ![r] = KeySet!Verified(req[r], cached.set)],
         UNCHANGED <<keyNow, published, left, rotations, cached, refresh>>
  PROVE  KeyInv'
<1>1. PICK q : q = KeySet!Verified(req[r], cached.set)
  OBVIOUS
<1>2. /\ q \in KeySet!Requesting /\ Honest(q)
      /\ Timely(q, keyNow, published, left)
  BY <1>1, RequestAtHand, VerifiedHonest, VerifiedTimely DEF Timely
<1>3. req' = [req EXCEPT ![r] = q]
  BY <1>1
<1>. QED
  BY <1>2, <1>3, RequestAtHand, RequestKeeps

\* A request that takes the mutex begins its fetch now.
LEMMA FetchBegins ==
  ASSUME KeySet!KeyCacheConstants, KeyInv, NEW r \in Bearers, req[r].pc = "lock",
         req' = [req EXCEPT ![r].pc = "fetch", ![r].since = keyNow],
         refresh' = r,
         UNCHANGED <<keyNow, published, left, rotations, cached>>
  PROVE  KeyInv'
<1>1. PICK q : q = [req[r] EXCEPT !.pc = "fetch", !.since = keyNow]
  OBVIOUS
<1>2. /\ q \in KeySet!Requesting /\ q.pc = "fetch" /\ q.since = keyNow
      /\ q.token = req[r].token /\ q.throughout = req[r].throughout
  BY <1>1, RequestAtHand DEF KeySet!Requesting
<1>3. FetchTimeout \in Nat
  BY DEF KeySet!KeyCacheConstants
<1>4. Timely(q, keyNow, published, left) /\ Honest(q)
  BY <1>2, <1>3, RequestAtHand DEF Timely, Honest
<1>5. req' = [req EXCEPT ![r] = q]
  BY <1>1 DEF KeyInv, KeyTypes, KeySet!Requesting
<1>. QED
  BY <1>2, <1>4, <1>5, RequestAtHand, RequestKeeps

LEMMA LookKeeps ==
  ASSUME KeySet!KeyCacheConstants, KeyInv, NEW r \in Bearers, KeySet!Look(r)
  PROVE  KeyInv'
<1>1. /\ req[r].pc = "keys" /\ ~req[r].forced
      /\ UNCHANGED <<keyNow, published, left, rotations, cached, refresh>>
  BY RequestAtHand DEF KeySet!Look, Honest
<1>2. CASE KeySet!Fresh
  <2>1. req' = [req EXCEPT ![r] = KeySet!Verified(req[r], cached.set)]
    BY <1>2 DEF KeySet!Look, KeyInv, KeyTypes
  <2>. QED
    BY <1>1, <2>1, ServedKeeps
<1>3. CASE ~KeySet!Fresh
  <2>1. PICK q : q = [req[r] EXCEPT !.pc = "lock"]
    OBVIOUS
  <2>2. req' = [req EXCEPT ![r] = q]
    BY <1>3, <2>1 DEF KeySet!Look, KeyInv, KeyTypes
  <2>3. /\ q \in KeySet!Requesting /\ q.pc = "lock"
        /\ q.token = req[r].token /\ q.throughout = req[r].throughout
    BY <2>1, RequestAtHand DEF KeySet!Requesting
  <2>4. Timely(q, keyNow, published, left) /\ Honest(q)
    BY <2>3, RequestAtHand DEF Timely, Honest
  <2>. QED
    BY <1>1, <2>2, <2>3, <2>4, RequestAtHand, RequestKeeps
<1>. QED
  BY <1>2, <1>3

LEMMA LockKeeps ==
  ASSUME KeySet!KeyCacheConstants, KeyInv, NEW r \in Bearers, KeySet!Lock(r)
  PROVE  KeyInv'
<1>1. req[r].pc = "lock" /\ UNCHANGED <<keyNow, published, left, rotations, cached>>
  BY DEF KeySet!Lock
<1>2. CASE ~req[r].forced /\ KeySet!Fresh
  <2>1. /\ req' = [req EXCEPT ![r] = KeySet!Verified(req[r], cached.set)]
        /\ refresh' = refresh
    BY <1>2 DEF KeySet!Lock, KeyInv, KeyTypes
  <2>. QED
    BY <1>1, <1>2, <2>1, ServedKeeps
<1>3. CASE ~(~req[r].forced /\ KeySet!Fresh)
  <2>1. req' = [req EXCEPT ![r].pc = "fetch", ![r].since = keyNow] /\ refresh' = r
    BY <1>3 DEF KeySet!Lock
  <2>. QED
    BY <1>1, <2>1, FetchBegins
<1>. QED
  BY <1>2, <1>3

LEMMA AnswerKeeps ==
  ASSUME KeySet!KeyCacheConstants, KeyInv, NEW r \in Bearers, KeySet!Answer(r)
  PROVE  KeyInv'
<1>1. PICK q : q = [req[r] EXCEPT !.pc = "answered", !.answer = published]
  OBVIOUS
<1>2. /\ req[r].pc = "fetch"
      /\ UNCHANGED <<keyNow, published, left, rotations, cached, refresh>>
  BY DEF KeySet!Answer
<1>3. req' = [req EXCEPT ![r] = q]
  BY <1>1 DEF KeySet!Answer, KeyInv, KeyTypes, KeySet!Requesting
<1>4. /\ q \in KeySet!Requesting /\ q.pc = "answered" /\ q.answer = published
      /\ q.token = req[r].token /\ q.throughout = req[r].throughout
      /\ q.since = req[r].since
  BY <1>1, RequestAtHand DEF KeySet!Requesting
<1>5. \A k \in published : q.since <= left[k]
  \* Such a key is published now, and the fetch began before now.
  <2>1. Timely(req[r], keyNow, published, left)
    BY RequestAtHand
  <2>2. \A k \in published : left[k] = keyNow
    BY RequestAtHand DEF LeftTimely
  <2>3. req[r].since <= keyNow
    BY <1>2, <2>1 DEF Timely
  <2>. QED
    BY <1>4, <2>2, <2>3
<1>6. Timely(q, keyNow, published, left) /\ Honest(q)
  BY <1>2, <1>4, <1>5, RequestAtHand DEF Timely, Honest
<1>. QED
  BY <1>2, <1>3, <1>4, <1>6, RequestAtHand, RequestKeeps

LEMMA ReceiveKeeps ==
  ASSUME KeySet!KeyCacheConstants, KeyInv, NEW r \in Bearers, KeySet!Receive(r)
  PROVE  KeyInv'
<1>1. PICK q : q = [req[r] EXCEPT !.since = 0, !.answer = {}]
  OBVIOUS
<1>2. /\ req[r].pc = "answered"
      /\ cached' = [set |-> req[r].answer, expires_at |-> keyNow + CacheTtl]
      /\ refresh' = Nobody
      /\ UNCHANGED <<keyNow, published, left, rotations>>
  BY DEF KeySet!Receive
<1>3. q \in KeySet!Requesting /\ q.token = req[r].token /\ q.throughout = req[r].throughout
  BY <1>1, RequestAtHand DEF KeySet!Requesting
<1>4. PICK n : n = KeySet!Verified(q, req[r].answer)
  OBVIOUS
<1>5. req' = [req EXCEPT ![r] = n]
  BY <1>1, <1>4 DEF KeySet!Receive, KeyInv, KeyTypes
<1>6. /\ req[r].answer \in SUBSET Keys /\ req[r].since \in Nat
      /\ q.throughout => q.token.key \in req[r].answer /\ q.token.key \in published
  BY <1>2, <1>3, RequestAtHand DEF KeySet!Requesting, Honest, Timely
<1>7. n \in KeySet!Requesting /\ Honest(n) /\ Timely(n, keyNow, published, left)
  BY <1>3, <1>4, <1>6, VerifiedHonest, VerifiedTimely
<1>8. /\ cached' \in [set : SUBSET Keys, expires_at : Nat]
      /\ CacheTimely(cached', left)
  <2>1. {CacheTtl, FetchTimeout} \subseteq Nat
    BY DEF KeySet!KeyCacheConstants
  <2>2. /\ keyNow <= req[r].since + FetchTimeout
        /\ \A k \in req[r].answer : req[r].since <= left[k]
    BY <1>2, RequestAtHand DEF Timely
  <2>3. keyNow \in Nat /\ left \in [Keys -> Nat]
    BY RequestAtHand
  <2>4. cached'.set = req[r].answer /\ cached'.expires_at = keyNow + CacheTtl
    BY <1>2
  <2>5. \A k \in req[r].answer : keyNow + CacheTtl <= left[k] + CacheTtl + FetchTimeout
    BY <1>6, <2>1, <2>2, <2>3
  <2>. QED
    BY <1>2, <1>6, <2>1, <2>3, <2>4, <2>5 DEF CacheTimely
<1>. QED
  BY <1>2, <1>5, <1>7, <1>8, RequestKeeps

LEMMA FailKeeps ==
  ASSUME KeySet!KeyCacheConstants, KeyInv, NEW r \in Bearers, KeySet!FetchFails(r)
  PROVE  KeyInv'
<1>1. PICK q : q = [req[r] EXCEPT !.pc = "refused", !.failed = TRUE]
  OBVIOUS
<1>2. /\ refresh' = Nobody
      /\ UNCHANGED <<keyNow, published, left, rotations, cached>>
  BY DEF KeySet!FetchFails
<1>3. req' = [req EXCEPT ![r] = q]
  BY <1>1 DEF KeySet!FetchFails, KeyInv, KeyTypes, KeySet!Requesting
<1>4. /\ q \in KeySet!Requesting /\ q.pc = "refused" /\ q.failed
      /\ q.token = req[r].token /\ q.throughout = req[r].throughout
  BY <1>1, RequestAtHand DEF KeySet!Requesting
<1>5. Timely(q, keyNow, published, left) /\ Honest(q)
  BY <1>4, RequestAtHand DEF Timely, Honest
<1>. QED
  BY <1>2, <1>3, <1>4, <1>5, RequestAtHand, RequestKeeps

LEMMA RespondKeepsKeys ==
  ASSUME KeySet!KeyCacheConstants, KeyInv, NEW r \in Bearers, KeySet!Respond(r)
  PROVE  KeyInv'
<1>1. PICK q : q = KeySet!Idle
  OBVIOUS
<1>2. /\ req' = [req EXCEPT ![r] = q]
      /\ UNCHANGED <<keyNow, published, left, rotations, cached, refresh>>
  BY <1>1 DEF KeySet!Respond
<1>3. q \in KeySet!Requesting /\ Timely(q, keyNow, published, left) /\ Honest(q)
  BY <1>1, IdleRequest DEF Timely, Honest
<1>. QED
  BY <1>2, <1>3, RequestAtHand, RequestKeeps

LEMMA KeyNext ==
  ASSUME KeySet!KeyCacheConstants, KeyInv, [KeySet!Next]_(KeySet!vars)
  PROVE  KeyInv'
<1>1. ASSUME NEW r \in Bearers,
             \/ KeySet!Arrive(r) \/ KeySet!Look(r) \/ KeySet!Lock(r) \/ KeySet!Answer(r)
             \/ KeySet!Receive(r) \/ KeySet!FetchFails(r) \/ KeySet!Respond(r)
      PROVE  KeyInv'
  BY <1>1, ArriveKeeps, LookKeeps, LockKeeps, AnswerKeeps, ReceiveKeeps, FailKeeps,
     RespondKeepsKeys
<1>2. CASE UNCHANGED KeySet!vars
  BY <1>2 DEF KeySet!vars, KeyInv, KeyTypes
<1>. QED
  BY <1>1, <1>2, TickKeepsKeys, RotateKeepsKeys DEF KeySet!Next

\* A step that accepts a token finds it in a set that was good, and so not withdrawn for
\* longer than that set was fetched and kept.
LEMMA AcceptedTimely ==
  ASSUME KeySet!KeyCacheConstants, KeyInv, [KeySet!Next]_(KeySet!vars),
         NEW r \in Bearers, req[r].pc # "accepted", req'[r].pc = "accepted"
  PROVE  keyNow <= left[req[r].token.key] + CacheTtl + FetchTimeout
<1>. DEFINE T == keyNow <= left[req[r].token.key] + CacheTtl + FetchTimeout
<1>1. /\ {CacheTtl, FetchTimeout} \subseteq Nat
      /\ keyNow \in Nat /\ left \in [Keys -> Nat] /\ req[r] \in KeySet!Requesting
      /\ req \in [Bearers -> KeySet!Requesting]
  BY RequestAtHand DEF KeySet!KeyCacheConstants, KeyInv, KeyTypes
<1>2. ASSUME KeySet!Fresh, req[r].token.key \in cached.set
      PROVE  T
  <2>2. keyNow < cached.expires_at /\ cached.expires_at \in Nat /\ req[r].token.key \in Keys
    BY <1>2, RequestAtHand DEF KeySet!Fresh, KeySet!Requesting, KeySet!Tokens
  <2>3. cached.expires_at <= left[req[r].token.key] + CacheTtl + FetchTimeout
    BY <1>2, RequestAtHand DEF CacheTimely
  <2>. QED
    BY <1>1, <2>2, <2>3
<1>3. ASSUME NEW s \in Bearers,
             \/ KeySet!Arrive(s) \/ KeySet!Answer(s) \/ KeySet!FetchFails(s)
             \/ KeySet!Respond(s)
      PROVE  FALSE
  <2>1. CASE KeySet!Arrive(s)
    <3>1. PICK token \in KeySet!Tokens :
            req' = [req EXCEPT ![s] = [KeySet!Idle EXCEPT
                      !.pc = "keys", !.token = token, !.at = keyNow,
                      !.throughout = token.key \in published]]
      BY <2>1 DEF KeySet!Arrive
    <3>2. PICK q : q = [KeySet!Idle EXCEPT !.pc = "keys", !.token = token, !.at = keyNow,
                          !.throughout = token.key \in published]
      OBVIOUS
    <3>3. q.pc = "keys" /\ req' = [req EXCEPT ![s] = q]
      BY <3>1, <3>2 DEF KeySet!Idle
    <3>. QED
      BY <1>1, <3>3
  <2>2. CASE KeySet!Answer(s)
    BY <1>1, <2>2 DEF KeySet!Answer, KeySet!Requesting
  <2>3. CASE KeySet!FetchFails(s)
    BY <1>1, <2>3 DEF KeySet!FetchFails, KeySet!Requesting
  <2>4. CASE KeySet!Respond(s)
    BY <1>1, <2>4, IdleRequest DEF KeySet!Respond
  <2>. QED
    BY <1>3, <2>1, <2>2, <2>3, <2>4
<1>4. ASSUME NEW s \in Bearers, KeySet!Look(s)
      PROVE  T
  <2>1. s = r
    BY <1>1, <1>4 DEF KeySet!Look
  <2>2. KeySet!Fresh /\ req'[r] = KeySet!Verified(req[r], cached.set)
    BY <1>1, <1>4, <2>1 DEF KeySet!Look, KeySet!Requesting
  <2>3. req[r].token.key \in cached.set
    BY <1>1, <2>2, RequestAtHand DEF KeySet!Verified, KeySet!Requesting
  <2>. QED
    BY <1>2, <2>2, <2>3
<1>5. ASSUME NEW s \in Bearers, KeySet!Lock(s)
      PROVE  T
  <2>1. s = r
    BY <1>1, <1>5 DEF KeySet!Lock
  <2>2. KeySet!Fresh /\ req'[r] = KeySet!Verified(req[r], cached.set)
    BY <1>1, <1>5, <2>1 DEF KeySet!Lock, KeySet!Requesting
  <2>3. req[r].token.key \in cached.set
    BY <1>1, <2>2, RequestAtHand DEF KeySet!Verified, KeySet!Requesting
  <2>. QED
    BY <1>2, <2>2, <2>3
<1>6. ASSUME NEW s \in Bearers, KeySet!Receive(s)
      PROVE  T
  <2>1. s = r
    BY <1>1, <1>6 DEF KeySet!Receive
  <2>2. PICK q : q = [req[r] EXCEPT !.since = 0, !.answer = {}]
    OBVIOUS
  <2>3. q \in KeySet!Requesting /\ q.token = req[r].token
    BY <1>1, <2>2 DEF KeySet!Requesting
  <2>4. req'[r] = KeySet!Verified(q, req[r].answer)
    BY <1>1, <1>6, <2>1, <2>2 DEF KeySet!Receive
  <2>5. req[r].token.key \in req[r].answer
    BY <2>3, <2>4 DEF KeySet!Verified, KeySet!Requesting
  <2>6. keyNow <= req[r].since + FetchTimeout /\ req[r].since <= left[req[r].token.key]
    BY <1>6, <2>1, <2>5, RequestAtHand DEF KeySet!Receive, Timely
  <2>7. req[r].since \in Nat /\ req[r].token.key \in Keys
    BY <1>1 DEF KeySet!Requesting, KeySet!Tokens
  <2>. QED
    BY <1>1, <2>6, <2>7
<1>7. CASE KeySet!Rotate
  <2>1. PICK set \in SUBSET Keys :
          req' = [s \in Bearers |->
                    [req[s] EXCEPT !.throughout = @ /\ req[s].token.key \in set]]
    BY <1>7 DEF KeySet!Rotate
  <2>2. req'[r].pc = req[r].pc
    BY <1>1, <2>1 DEF KeySet!Requesting
  <2>. QED
    BY <2>2
<1>8. CASE KeySet!Tick \/ UNCHANGED KeySet!vars
  BY <1>8 DEF KeySet!Tick, KeySet!vars
<1>. QED
  BY <1>3, <1>4, <1>5, <1>6, <1>7, <1>8 DEF KeySet!Next

\* auth.rs: a rotation of the provider's keys locks nobody out.  A token that was unexpired
\* and whose key was published for as long as its request ran is refused only when a
\* fetch of that request failed, whichever requests share the cache and the mutex.
THEOREM RotationAdmits == KeySet!Spec => []PublishedAdmitted
<1>1. KeySet!KeyCacheConstants
  BY AccessConstants
<1>2. KeySet!Init => KeyInv
  BY <1>1, KeysBegin
<1>3. KeyInv /\ [KeySet!Next]_(KeySet!vars) => KeyInv'
  BY <1>1, KeyNext
<1>4. KeyInv => PublishedAdmitted
  BY DEF KeyInv, Honest, PublishedAdmitted, KeySet!PublishedAdmitted
<1>. QED
  BY <1>2, <1>3, <1>4, PTL DEF KeySet!Spec

\* auth.rs: a key that the provider has withdrawn is honoured no longer than one fetch and
\* one lifetime of the cache, in whatever order requests refresh it.
THEOREM WithdrawnKeysDie == KeySet!Spec => KeysTimely
<1>1. KeySet!KeyCacheConstants
  BY AccessConstants
<1>2. KeySet!Init => KeyInv
  BY <1>1, KeysBegin
<1>3. KeyInv /\ [KeySet!Next]_(KeySet!vars) => KeyInv'
  BY <1>1, KeyNext
<1>4. KeyInv /\ [KeySet!Next]_(KeySet!vars) =>
        \A r \in Bearers : req[r].pc # "accepted" /\ req'[r].pc = "accepted" =>
          keyNow <= left[req[r].token.key] + CacheTtl + FetchTimeout
  BY <1>1, AcceptedTimely
<1>. QED
  BY <1>2, <1>3, <1>4, PTL DEF KeySet!Spec, KeysTimely, KeySet!KeysTimely

-----------------------------------------------------------------------------
(* The commands that edit the configuration.  A command that is about to   *)
(* rename holds what its operation makes of the document it read, and that *)
(* document is the file unless a rename has come since the comparison.     *)

Progress ==
    [pc : {"idle", "read", "inspect", "compare", "persist"}, command : Config!Commands,
     expected : Config!Documents \cup {Missing}, document : Config!Documents \cup {Missing},
     seen : Nat]

RegistryTypes ==
    /\ file \in Config!Documents \cup {Missing}
    /\ proc \in [Processes -> Progress]
    /\ writes \in Nat
    /\ overlap \in BOOLEAN

\* What a command has made of what it read.
Worked(q) ==
    /\ q.pc = "inspect" => q.command.op = "add" /\ q.expected \in Config!Documents
    /\ q.pc \in {"compare", "persist"} =>
         /\ q.document \in Config!Documents
         /\ q.command.op \in {"init", "force"} => q.document = Config!default_config
         /\ q.command.op = "add" =>
              /\ q.expected \in Config!Documents
              /\ q.document = Config!Pushed(q.expected, q.command)
         /\ q.command.op = "remove" =>
              /\ q.expected \in Config!Documents
              /\ q.document = Config!Retained(q.expected, q.command)

\* Whether the file is still what the command compared it with.
Compared(q, current, count) ==
    q.pc = "persist" =>
      /\ q.seen <= count
      /\ q.seen = count /\ q.command.op \in {"add", "remove"} => current = q.expected

RegistryInv ==
    /\ RegistryTypes
    /\ \A p \in Processes : Worked(proc[p]) /\ Compared(proc[p], file, writes)
    /\ Config!EditsKept

LEMMA IdleCommand ==
  /\ Config!Idle \in Progress /\ Worked(Config!Idle)
  /\ Config!Idle.pc = "idle"
BY DEF Config!Idle, Progress, Worked, Config!Commands

\* What the operations make of a document, and what is registered then.
LEMMA OperationsRegister ==
  ASSUME Config!RegistryConstants, NEW doc \in Config!Documents, NEW c \in Config!Commands
  PROVE  /\ c.op = "add" =>
              /\ Config!Pushed(doc, c) \in Config!Documents
              /\ Config!Registered(Config!Pushed(doc, c)) = Config!Registered(doc) \cup {c.id}
         /\ c.op = "remove" =>
              /\ Config!Retained(doc, c) \in Config!Documents
              /\ Config!Registered(Config!Retained(doc, c)) = Config!Registered(doc) \ {c.id}
         /\ Config!default_config \in Config!Documents
         /\ Config!Registered(Config!default_config) = {}
<1>1. Missing \notin Config!Documents
  BY DEF Config!RegistryConstants
<1>2. Config!Registered(doc) = {e.id : e \in doc.entries}
  BY <1>1 DEF Config!Registered
<1>3. ASSUME c.op = "add"
      PROVE  /\ Config!Pushed(doc, c) \in Config!Documents
             /\ Config!Registered(Config!Pushed(doc, c)) = Config!Registered(doc) \cup {c.id}
  <2>1. c.id \in EntryIds /\ c.kind \in {"mcp", "model"} /\ c.loopback \in BOOLEAN
    BY <1>3 DEF Config!Commands
  <2>2. PICK e : e = Config!Entry(c)
    OBVIOUS
  <2>3. e \in Config!Entries /\ e.id = c.id
    BY <2>1, <2>2 DEF Config!Entry, Config!Entries
  <2>4. PICK d : d = Config!Pushed(doc, c)
    OBVIOUS
  <2>5. d \in Config!Documents /\ d.entries = doc.entries \cup {e}
    BY <2>2, <2>3, <2>4 DEF Config!Pushed, Config!Documents
  <2>6. Config!Registered(d) = {f.id : f \in doc.entries \cup {e}}
    BY <1>1, <2>5 DEF Config!Registered
  <2>7. {f.id : f \in doc.entries \cup {e}} = {f.id : f \in doc.entries} \cup {e.id}
    OBVIOUS
  <2>. QED
    BY <1>2, <2>3, <2>4, <2>5, <2>6, <2>7
<1>4. ASSUME c.op = "remove"
      PROVE  /\ Config!Retained(doc, c) \in Config!Documents
             /\ Config!Registered(Config!Retained(doc, c)) = Config!Registered(doc) \ {c.id}
  <2>1. PICK d : d = Config!Retained(doc, c)
    OBVIOUS
  <2>2. d \in Config!Documents /\ d.entries = {e \in doc.entries : e.id # c.id}
    BY <2>1 DEF Config!Retained, Config!Documents
  <2>3. Config!Registered(d) = {f.id : f \in {e \in doc.entries : e.id # c.id}}
    BY <1>1, <2>2 DEF Config!Registered
  <2>4. {f.id : f \in {e \in doc.entries : e.id # c.id}}
          = {f.id : f \in doc.entries} \ {c.id}
    OBVIOUS
  <2>. QED
    BY <1>2, <2>1, <2>2, <2>3, <2>4
<1>5. Config!default_config \in Config!Documents
  BY DEF Config!default_config, Config!Documents
<1>6. Config!Registered(Config!default_config) = {}
  BY <1>1, <1>5 DEF Config!Registered, Config!default_config
<1>. QED
  BY <1>3, <1>4, <1>5, <1>6

LEMMA RegistryBegins ==
  ASSUME Config!RegistryConstants, Config!Init
  PROVE  RegistryInv
<1>1. RegistryTypes
  BY IdleCommand DEF Config!Init, RegistryTypes, Config!RegistryConstants
<1>2. \A p \in Processes : Worked(proc[p]) /\ Compared(proc[p], file, writes)
  BY IdleCommand DEF Config!Init, Compared
<1>. QED
  BY <1>1, <1>2 DEF RegistryInv, Config!Init, Config!EditsKept

\* A step of one command that leaves the file alone.
LEMMA CommandKeeps ==
  ASSUME RegistryInv, NEW p \in Processes, NEW q \in Progress,
         proc' = [proc EXCEPT ![p] = q], Worked(q), Compared(q, file, writes),
         UNCHANGED <<file, ledger, writes, overlap>>
  PROVE  RegistryInv'
<1>1. RegistryTypes'
  BY DEF RegistryInv, RegistryTypes
<1>2. ASSUME NEW s \in Processes
      PROVE  Worked(proc'[s]) /\ Compared(proc'[s], file', writes')
  <2>1. proc'[s] = IF s = p THEN q ELSE proc[s]
    BY DEF RegistryInv, RegistryTypes
  <2>. QED
    BY <2>1 DEF RegistryInv
<1>3. Config!EditsKept'
  BY DEF RegistryInv, Config!EditsKept
<1>. QED
  BY <1>1, <1>2, <1>3 DEF RegistryInv

\* A command that gives up is idle again.
LEMMA GivingUpKeeps ==
  ASSUME RegistryInv, NEW p \in Processes, Config!Fail(p),
         UNCHANGED <<file, ledger, writes, overlap>>
  PROVE  RegistryInv'
<1>1. PICK q : q = Config!Idle
  OBVIOUS
<1>2. q \in Progress /\ Worked(q) /\ Compared(q, file, writes)
  BY <1>1, IdleCommand DEF Compared
<1>3. proc' = [proc EXCEPT ![p] = q]
  BY <1>1 DEF Config!Fail
<1>. QED
  BY <1>2, <1>3, CommandKeeps

LEMMA StartKeepsEdits ==
  ASSUME RegistryInv, NEW p \in Processes, Config!Start(p)
  PROVE  RegistryInv'
<1>1. PICK c \in Config!Commands :
        proc' = [proc EXCEPT ![p] = [Config!Idle EXCEPT !.pc = "read", !.command = c]]
  BY DEF Config!Start
<1>2. PICK q : q = [Config!Idle EXCEPT !.pc = "read", !.command = c]
  OBVIOUS
<1>3. q \in Progress /\ q.pc = "read"
  <2>1. PICK i : i = Config!Idle
    OBVIOUS
  <2>2. i \in Progress
    BY <2>1, IdleCommand
  <2>. QED
    BY <1>2, <2>1, <2>2 DEF Progress
<1>4. Worked(q) /\ Compared(q, file, writes)
  BY <1>3 DEF Worked, Compared
<1>5. proc' = [proc EXCEPT ![p] = q]
  BY <1>1, <1>2
<1>. QED
  BY <1>3, <1>4, <1>5, CommandKeeps DEF Config!Start

LEMMA CommandAtHand ==
  ASSUME RegistryInv, NEW p \in Processes
  PROVE  /\ proc[p] \in Progress /\ Worked(proc[p]) /\ Compared(proc[p], file, writes)
         /\ file \in Config!Documents \cup {Missing} /\ writes \in Nat
         /\ overlap \in BOOLEAN /\ proc \in [Processes -> Progress]
BY DEF RegistryInv, RegistryTypes

LEMMA ReadToRemoveKeeps ==
  ASSUME Config!RegistryConstants, RegistryInv, NEW p \in Processes, Config!ReadToRemove(p)
  PROVE  RegistryInv'
<1>1. /\ proc[p].pc = "read" /\ proc[p].command.op = "remove"
      /\ UNCHANGED <<file, ledger, writes, overlap>>
  BY DEF Config!ReadToRemove
<1>2. CASE Config!Fail(p)
  BY <1>1, <1>2, GivingUpKeeps
<1>3. CASE ~Config!Fail(p)
  <2>1. PICK document : document = Config!Retained(file, proc[p].command)
    OBVIOUS
  <2>2. /\ file # Missing
        /\ proc' = [proc EXCEPT ![p].pc = "compare", ![p].expected = file,
                                ![p].document = document]
    BY <1>3, <2>1 DEF Config!ReadToRemove
  <2>3. file \in Config!Documents /\ document \in Config!Documents
    <3>1. file \in Config!Documents
      BY <2>2, CommandAtHand
    <3>2. proc[p].command \in Config!Commands
      BY CommandAtHand DEF Progress
    <3>. QED
      BY <1>1, <2>1, <3>1, <3>2, OperationsRegister
  <2>4. PICK q : q = [proc[p] EXCEPT !.pc = "compare", !.expected = file,
                                     !.document = document]
    OBVIOUS
  <2>5. proc' = [proc EXCEPT ![p] = q]
    BY <2>2, <2>4, CommandAtHand DEF Progress
  <2>6. /\ q \in Progress /\ q.pc = "compare" /\ q.command = proc[p].command
        /\ q.expected = file /\ q.document = document
    BY <2>3, <2>4, CommandAtHand DEF Progress
  <2>7. Worked(q) /\ Compared(q, file, writes)
    BY <1>1, <2>1, <2>3, <2>6 DEF Worked, Compared
  <2>. QED
    BY <1>1, <2>5, <2>6, <2>7, CommandKeeps
<1>. QED
  BY <1>2, <1>3

LEMMA ReadToAddKeeps ==
  ASSUME RegistryInv, NEW p \in Processes, Config!ReadToAdd(p)
  PROVE  RegistryInv'
<1>1. /\ proc[p].pc = "read" /\ proc[p].command.op = "add"
      /\ UNCHANGED <<file, ledger, writes, overlap>>
  BY DEF Config!ReadToAdd
<1>2. CASE Config!Fail(p)
  BY <1>1, <1>2, GivingUpKeeps
<1>3. CASE ~Config!Fail(p)
  <2>1. /\ file # Missing
        /\ proc' = [proc EXCEPT ![p].pc = "inspect", ![p].expected = file]
    BY <1>3 DEF Config!ReadToAdd
  <2>2. PICK q : q = [proc[p] EXCEPT !.pc = "inspect", !.expected = file]
    OBVIOUS
  <2>3. proc' = [proc EXCEPT ![p] = q]
    BY <2>1, <2>2, CommandAtHand DEF Progress
  <2>4. /\ q \in Progress /\ q.pc = "inspect" /\ q.command = proc[p].command
        /\ q.expected = file
    BY <2>2, CommandAtHand DEF Progress
  <2>5. Worked(q) /\ Compared(q, file, writes)
    BY <1>1, <2>1, <2>4, CommandAtHand DEF Worked, Compared
  <2>. QED
    BY <1>1, <2>3, <2>4, <2>5, CommandKeeps
<1>. QED
  BY <1>2, <1>3

LEMMA InspectedKeeps ==
  ASSUME Config!RegistryConstants, RegistryInv, NEW p \in Processes, Config!Inspected(p)
  PROVE  RegistryInv'
<1>1. /\ proc[p].pc = "inspect" /\ proc[p].command.op = "add"
      /\ UNCHANGED <<file, ledger, writes, overlap>>
      /\ proc[p].expected \in Config!Documents
  BY CommandAtHand DEF Config!Inspected, Worked
<1>2. CASE Config!Fail(p)
  BY <1>1, <1>2, GivingUpKeeps
<1>3. CASE ~Config!Fail(p)
  <2>1. PICK document : document = Config!Pushed(proc[p].expected, proc[p].command)
    OBVIOUS
  <2>2. proc' = [proc EXCEPT ![p].pc = "compare", ![p].document = document]
    BY <1>3, <2>1 DEF Config!Inspected
  <2>3. document \in Config!Documents
    <3>1. proc[p].command \in Config!Commands
      BY CommandAtHand DEF Progress
    <3>. QED
      BY <1>1, <2>1, <3>1, OperationsRegister
  <2>4. PICK q : q = [proc[p] EXCEPT !.pc = "compare", !.document = document]
    OBVIOUS
  <2>5. proc' = [proc EXCEPT ![p] = q]
    BY <2>2, <2>4, CommandAtHand DEF Progress
  <2>6. /\ q \in Progress /\ q.pc = "compare" /\ q.command = proc[p].command
        /\ q.expected = proc[p].expected /\ q.document = document
    BY <2>3, <2>4, CommandAtHand DEF Progress
  <2>7. Worked(q) /\ Compared(q, file, writes)
    BY <1>1, <2>1, <2>3, <2>6 DEF Worked, Compared
  <2>. QED
    BY <1>1, <2>5, <2>6, <2>7, CommandKeeps
<1>. QED
  BY <1>2, <1>3

LEMMA InitializeKeeps ==
  ASSUME Config!RegistryConstants, RegistryInv, NEW p \in Processes,
         Config!ReadToInitialize(p)
  PROVE  RegistryInv'
<1>1. /\ proc[p].pc = "read" /\ proc[p].command.op \in {"init", "force"}
      /\ UNCHANGED <<file, ledger, writes, overlap>>
  BY DEF Config!ReadToInitialize
<1>2. CASE Config!Fail(p)
  BY <1>1, <1>2, GivingUpKeeps
<1>3. CASE ~Config!Fail(p)
  <2>1. PICK document : document = Config!default_config
    OBVIOUS
  <2>2. proc' = [proc EXCEPT ![p].pc = "compare", ![p].document = document]
    BY <1>3, <2>1 DEF Config!ReadToInitialize
  <2>3. document \in Config!Documents
    BY <2>1 DEF Config!default_config, Config!Documents
  <2>4. PICK q : q = [proc[p] EXCEPT !.pc = "compare", !.document = document]
    OBVIOUS
  <2>5. proc' = [proc EXCEPT ![p] = q]
    BY <2>2, <2>4, CommandAtHand DEF Progress
  <2>6. /\ q \in Progress /\ q.pc = "compare" /\ q.command = proc[p].command
        /\ q.document = document
    BY <2>3, <2>4, CommandAtHand DEF Progress
  <2>7. Worked(q) /\ Compared(q, file, writes)
    BY <1>1, <2>1, <2>3, <2>6 DEF Worked, Compared
  <2>. QED
    BY <1>1, <2>5, <2>6, <2>7, CommandKeeps
<1>. QED
  BY <1>2, <1>3

LEMMA CompareKeeps ==
  ASSUME RegistryInv, NEW p \in Processes, Config!Compare(p)
  PROVE  RegistryInv'
<1>1. proc[p].pc = "compare" /\ UNCHANGED <<file, ledger, writes, overlap>>
  BY DEF Config!Compare
<1>2. CASE Config!Fail(p)
  BY <1>1, <1>2, GivingUpKeeps
<1>3. CASE ~Config!Fail(p)
  <2>1. /\ proc' = [proc EXCEPT ![p].pc = "persist", ![p].seen = writes]
        /\ proc[p].command.op \in {"add", "remove"} => file = proc[p].expected
    BY <1>3 DEF Config!Compare, Config!Expects
  <2>2. PICK q : q = [proc[p] EXCEPT !.pc = "persist", !.seen = writes]
    OBVIOUS
  <2>3. proc' = [proc EXCEPT ![p] = q]
    BY <2>1, <2>2, CommandAtHand DEF Progress
  <2>4. /\ q \in Progress /\ q.pc = "persist" /\ q.command = proc[p].command
        /\ q.expected = proc[p].expected /\ q.document = proc[p].document
        /\ q.seen = writes
    BY <2>2, CommandAtHand DEF Progress
  <2>5. Worked(q)
    BY <1>1, <2>4, CommandAtHand DEF Worked
  <2>6. Compared(q, file, writes)
    BY <2>1, <2>4, CommandAtHand DEF Compared
  <2>. QED
    BY <1>1, <2>3, <2>4, <2>5, <2>6, CommandKeeps
<1>. QED
  BY <1>2, <1>3

\* The rename.  Unless another came since the comparison, the file is the document that
\* the command read, and what is registered changes as the command says.
LEMMA PersistKeeps ==
  ASSUME Config!RegistryConstants, RegistryInv, NEW p \in Processes, Config!Persist(p)
  PROVE  RegistryInv'
<1>1. proc[p].pc = "persist" /\ Config!Fail(p)
  BY DEF Config!Persist, Config!Fail
<1>2. PICK c : c = proc[p].command
  OBVIOUS
<1>3. CASE c.op = "init" /\ file # Missing
  BY <1>1, <1>2, <1>3, GivingUpKeeps DEF Config!Persist
<1>4. CASE ~(c.op = "init" /\ file # Missing)
  <2>1. /\ file' = proc[p].document
        /\ ledger' = Config!Effect(c)
        /\ writes' = writes + 1
        /\ overlap' = (overlap \/ writes # proc[p].seen)
    BY <1>2, <1>4 DEF Config!Persist
  <2>2. /\ c \in Config!Commands /\ proc[p].document \in Config!Documents
        /\ proc[p].seen \in Nat /\ writes \in Nat
    BY <1>1, <1>2, CommandAtHand DEF Progress, Worked
  <2>3. PICK q : q = Config!Idle
    OBVIOUS
  <2>4. q \in Progress /\ q.pc = "idle" /\ Worked(q) /\ proc' = [proc EXCEPT ![p] = q]
    BY <1>1, <2>3, IdleCommand DEF Config!Fail
  <2>5. RegistryTypes'
    <3>1. overlap' \in BOOLEAN
      BY <2>1, CommandAtHand
    <3>. QED
      BY <2>1, <2>2, <2>4, <3>1, CommandAtHand DEF RegistryTypes
  <2>6. ASSUME NEW s \in Processes
        PROVE  Worked(proc'[s]) /\ Compared(proc'[s], file', writes')
    <3>1. CASE s = p
      <4>1. proc'[s] = q
        BY <2>4, <3>1, CommandAtHand
      <4>. QED
        BY <2>4, <4>1 DEF Compared
    <3>2. CASE s # p
      <4>1. proc'[s] = proc[s]
        BY <2>4, <3>2, CommandAtHand
      <4>2. Worked(proc[s]) /\ Compared(proc[s], file, writes) /\ proc[s].seen \in Nat
        BY CommandAtHand DEF Progress
      <4>3. Compared(proc[s], file', writes')
        BY <2>1, <2>2, <4>2 DEF Compared
      <4>. QED
        BY <4>1, <4>2, <4>3
    <3>. QED
      BY <3>1, <3>2
  <2>7. Config!EditsKept'
    <3>1. SUFFICES ASSUME ~overlap, writes = proc[p].seen
                   PROVE  Config!Registered(proc[p].document) = Config!Effect(c)
      BY <2>1, <2>2 DEF Config!EditsKept, Config!Registered
    <3>2. Config!Registered(file) = ledger
      BY <3>1 DEF RegistryInv, Config!EditsKept
    <3>3. CASE c.op \in {"add", "remove"}
      <4>1. file = proc[p].expected /\ file \in Config!Documents
        BY <1>1, <1>2, <3>1, <3>3, CommandAtHand DEF Compared, Worked
      <4>2. /\ c.op = "add" => proc[p].document = Config!Pushed(file, c)
            /\ c.op = "remove" => proc[p].document = Config!Retained(file, c)
        BY <1>1, <1>2, <4>1, CommandAtHand DEF Worked
      <4>. QED
        BY <2>2, <3>2, <3>3, <4>1, <4>2, OperationsRegister DEF Config!Effect
    <3>4. CASE c.op \in {"init", "force"}
      <4>1. proc[p].document = Config!default_config
        BY <1>1, <1>2, <3>4, CommandAtHand DEF Worked
      <4>. QED
        BY <2>2, <3>4, <4>1, OperationsRegister DEF Config!Effect
    <3>. QED
      BY <2>2, <3>3, <3>4 DEF Config!Commands
  <2>. QED
    BY <2>5, <2>6, <2>7 DEF RegistryInv
<1>. QED
  BY <1>3, <1>4

LEMMA RegistryNext ==
  ASSUME Config!RegistryConstants, RegistryInv, [Config!Next]_(Config!vars)
  PROVE  RegistryInv'
<1>1. ASSUME NEW p \in Processes,
             \/ Config!Start(p)
             \/ Config!ReadToRemove(p) \/ Config!ReadToAdd(p) \/ Config!Inspected(p)
             \/ Config!ReadToInitialize(p)
             \/ Config!Compare(p) \/ Config!Persist(p) \/ Config!Crash(p)
      PROVE  RegistryInv'
  <2>1. CASE Config!Crash(p)
    BY <2>1, GivingUpKeeps DEF Config!Crash
  <2>. QED
    BY <1>1, <2>1, StartKeepsEdits, ReadToRemoveKeeps, ReadToAddKeeps, InspectedKeeps,
       InitializeKeeps, CompareKeeps, PersistKeeps
<1>2. CASE UNCHANGED Config!vars
  BY <1>2 DEF Config!vars, RegistryInv, RegistryTypes, Config!EditsKept
<1>3. CASE Config!Done
  BY <1>2, <1>3 DEF Config!Done
<1>. QED
  BY <1>1, <1>2, <1>3 DEF Config!Next

\* main.rs: the file registers what the commands that succeeded said, whatever the order
\* in which any number of them read, ask their peers, compare, rename and are killed,
\* unless a rename fell between another's comparison and its rename.
THEOREM EditsSurvive == Config!Spec => []EditsKept
<1>1. Config!RegistryConstants
  BY AccessConstants
<1>2. Config!Init => RegistryInv
  BY <1>1, RegistryBegins
<1>3. RegistryInv /\ [Config!Next]_(Config!vars) => RegistryInv'
  BY <1>1, RegistryNext
<1>4. RegistryInv => EditsKept
  BY DEF RegistryInv, EditsKept
<1>. QED
  BY <1>2, <1>3, <1>4, PTL DEF Config!Spec

-----------------------------------------------------------------------------
(* The discovery of the sources.  The sources before the one at hand are   *)
(* kept or left out, the running services are those that are kept and the  *)
(* one at hand, and what the federation serves of a reviewed source is its *)
(* pin, for no later source is merged over it.                             *)

\* What the federation serves of a source.
Served(fed, s) == {<<key[1], fed[key][2]>> : key \in {k \in DOMAIN fed : fed[k][1] = s}}

\* Every alias belongs to a source that was kept, and is that source's own.
Owned(fed, kept) ==
    \A key \in DOMAIN fed :
      fed[key][1] \in kept /\ key[2] = Alias(fed[key][1], key[1], fed[key][2])

\* Of every reviewed source that was kept, what was reviewed is served, as far as it can be.
Reviewed(fed, kept) ==
    \A s \in kept : pins[s] # Unpinned => Served(fed, s) = pins[s] \ Unsupported

DiscoveryTypes ==
    /\ mode \in {"strict", "degraded"}
    /\ step \in {"connect", "list", "serving", "failed"}
    /\ at \in Nat \ {0}
    /\ step \in {"connect", "list"} => at \in Sources
    /\ kind \in Nat \ {0}
    /\ found \in Seq(Discover!Capabilities)

\* How far the start has come.
Started ==
    /\ active \cap incomplete = {}
    /\ active \cup incomplete = 1..(at - 1)
    /\ mode = "strict" => incomplete = {}
    /\ step \in {"connect", "serving"} => open = active
    /\ step = "list" => open = active \cup {at}
    /\ step = "serving" => Sources = 1..(at - 1)

DiscoveryInv ==
    /\ DiscoveryTypes
    /\ Started
    /\ Owned(federation, active)
    /\ Reviewed(federation, active)

LEMMA SourcesInOrder ==
  ASSUME Discover!DiscoveryBounds
  PROVE  \E n \in Nat \ {0} : Sources = 1..n
BY DEF Discover!DiscoveryBounds

LEMMA DiscoveryBegins ==
  ASSUME Discover!DiscoveryBounds, Discover!Init
  PROVE  DiscoveryInv
<1>1. DiscoveryTypes
  BY SourcesInOrder DEF Discover!Init, DiscoveryTypes
<1>2. Started
  BY DEF Discover!Init, Started
<1>3. Owned(federation, active) /\ Reviewed(federation, active)
  BY DEF Discover!Init, Owned, Reviewed
<1>. QED
  BY <1>1, <1>2, <1>3 DEF DiscoveryInv

\* The step to the next source, kept or left out, from one that is at hand.
LEMMA FollowingKeeps ==
  ASSUME Discover!DiscoveryBounds, DiscoveryInv, at \in Sources, Discover!Following,
         UNCHANGED <<mode, kind, found>>,
         \/ /\ active' = active \cup {at} /\ incomplete' = incomplete
            /\ open' = active \cup {at}
         \/ /\ active' = active /\ incomplete' = incomplete \cup {at}
            /\ open' = active /\ mode = "degraded"
  PROVE  DiscoveryTypes' /\ Started'
<1>1. PICK n \in Nat \ {0} : Sources = 1..n
  BY SourcesInOrder
<1>2. at \in 1..n /\ at' = at + 1 /\ step' = IF at + 1 \in 1..n THEN "connect" ELSE "serving"
  BY <1>1 DEF Discover!Following
<1>3. DiscoveryTypes'
  BY <1>1, <1>2 DEF DiscoveryInv, DiscoveryTypes
<1>4. 1..(at' - 1) = (1..(at - 1)) \cup {at} /\ at \notin 1..(at - 1)
  BY <1>2
<1>5. /\ active \cap incomplete = {} /\ active \cup incomplete = 1..(at - 1)
      /\ mode = "strict" => incomplete = {}
  BY DEF DiscoveryInv, Started
<1>6. /\ active' \cap incomplete' = {} /\ active' \cup incomplete' = 1..(at' - 1)
      /\ mode' = "strict" => incomplete' = {}
  BY <1>4, <1>5
<1>7. step' = "serving" => Sources = 1..(at' - 1)
  BY <1>1, <1>2
<1>8. step' # "list" /\ open' = active'
  BY <1>2
<1>. QED
  BY <1>1, <1>3, <1>6, <1>7, <1>8 DEF Started

\* A source is left out: its service, if it had one, is cancelled, and the federation
\* is what it was.
LEMMA DroppedKeeps ==
  ASSUME Discover!DiscoveryBounds, DiscoveryInv, step \in {"connect", "list"},
         Discover!LeaveOut
  PROVE  DiscoveryInv'
<1>1. /\ at \in Sources /\ at \in Nat \ {0}
      /\ active \cup incomplete = 1..(at - 1)
      /\ open \subseteq active \cup {at} /\ active \subseteq open
  BY DEF DiscoveryInv, DiscoveryTypes, Started
<1>2. open' = active
  BY <1>1 DEF Discover!LeaveOut, Discover!Dropped
<1>3. UNCHANGED <<mode, pins, kind, found, active, federation>>
  BY DEF Discover!LeaveOut, Discover!Dropped, Discover!config
<1>4. Owned(federation', active') /\ Reviewed(federation, active)'
  BY <1>3 DEF DiscoveryInv, Owned, Reviewed, Served
<1>5. CASE mode = "strict"
  <2>1. step' = "failed" /\ at' = at /\ incomplete' = incomplete
    BY <1>5 DEF Discover!LeaveOut, Discover!Dropped
  <2>2. DiscoveryTypes' /\ Started'
    BY <1>3, <2>1 DEF DiscoveryInv, DiscoveryTypes, Started
  <2>. QED
    BY <1>4, <2>2 DEF DiscoveryInv
<1>6. CASE mode # "strict"
  <2>1. /\ Discover!Following /\ incomplete' = incomplete \cup {at} /\ mode = "degraded"
    BY <1>6 DEF Discover!LeaveOut, Discover!Dropped, DiscoveryInv, DiscoveryTypes
  <2>2. DiscoveryTypes' /\ Started'
    BY <1>1, <1>2, <1>3, <2>1, FollowingKeeps
  <2>. QED
    BY <1>4, <2>2 DEF DiscoveryInv
<1>. QED
  BY <1>5, <1>6

\* The listing of a finite set holds its elements.
LEMMA ListingHolds ==
  ASSUME NEW S, IsFiniteSet(S)
  PROVE  Discover!SetToSeq(S) \in Seq(S)
<1>1. Cardinality(S) \in Nat /\ ExistsBijection(1..Cardinality(S), S)
  BY FS_CardinalityType
<1>2. PICK f \in [1..Cardinality(S) -> S] : \A x, y \in DOMAIN f : f[x] = f[y] => x = y
  BY <1>1 DEF ExistsBijection, Bijection, Injection, IsInjective
<1>3. Discover!Cardinality(S) = Cardinality(S)
  BY DEF Discover!Cardinality, Cardinality
<1>4. Discover!SetToSeq(S) \in [1..Cardinality(S) -> S]
  BY <1>2, <1>3 DEF Discover!SetToSeq, Discover!IsInjective
<1>. QED
  BY <1>1, <1>4

LEMMA ConnectKeeps ==
  ASSUME DiscoveryInv, Discover!Connect
  PROVE  DiscoveryInv'
<1>1. /\ step = "connect" /\ step' = "list" /\ kind' = 1 /\ found' = <<>>
      /\ open' = open \cup {at}
      /\ UNCHANGED <<mode, pins, at, federation, active, incomplete>>
  BY DEF Discover!Connect, Discover!config
<1>2. DiscoveryTypes'
  BY <1>1 DEF DiscoveryInv, DiscoveryTypes
<1>3. Started'
  BY <1>1 DEF DiscoveryInv, Started
<1>4. Owned(federation', active') /\ Reviewed(federation, active)'
  BY <1>1 DEF DiscoveryInv, Owned, Reviewed, Served
<1>. QED
  BY <1>2, <1>3, <1>4 DEF DiscoveryInv

\* A step of the listing, which only adds to what was found.
LEMMA ListedKeeps ==
  ASSUME DiscoveryInv, step = "list",
         found' \in Seq(Discover!Capabilities), kind' \in Nat \ {0},
         UNCHANGED <<mode, pins, at, step, federation, active, incomplete, open>>
  PROVE  DiscoveryInv'
<1>1. DiscoveryTypes' /\ Started'
  BY DEF DiscoveryInv, DiscoveryTypes, Started
<1>2. Owned(federation', active') /\ Reviewed(federation, active)'
  BY DEF DiscoveryInv, Owned, Reviewed, Served
<1>. QED
  BY <1>1, <1>2 DEF DiscoveryInv

LEMMA PageKeeps ==
  ASSUME Discover!DiscoveryBounds, DiscoveryInv, NEW items \in SUBSET Names, NEW next,
         Discover!Page(items, next)
  PROVE  DiscoveryInv'
<1>1. step = "list" /\ kind \in 1..Len(Listings)
  BY DEF Discover!Page, DiscoveryInv, DiscoveryTypes
<1>2. CASE Discover!LeaveOut
  BY <1>1, <1>2, DroppedKeeps
<1>3. CASE ~Discover!LeaveOut
  <2>1. PICK S : S = {<<Listings[kind], n>> : n \in items}
    OBVIOUS
  <2>2. /\ found' = found \o Discover!SetToSeq(S)
        /\ kind' = IF next = {} THEN kind + 1 ELSE kind
        /\ UNCHANGED <<mode, pins, at, step, federation, active, incomplete, open>>
    BY <1>3, <2>1 DEF Discover!Page, Discover!config
  <2>3. Listings[kind] \in Discover!ToSet(Listings)
    BY <1>1 DEF Discover!DiscoveryBounds, Discover!ToSet
  <2>4. S \in SUBSET Discover!Capabilities
    BY <2>1, <2>3 DEF Discover!Capabilities
  <2>5. IsFiniteSet(S)
    <3>1. IsFiniteSet(items)
      <4>1. Discover!IsFiniteSet(Names) => IsFiniteSet(Names)
        BY DEF Discover!IsFiniteSet, IsFiniteSet
      <4>. QED
        BY <4>1, FS_Subset DEF Discover!DiscoveryBounds
    <3>2. PICK f : f = [n \in items |-> <<Listings[kind], n>>]
      OBVIOUS
    <3>3. f \in Surjection(items, S)
      BY <2>1, <3>2 DEF Surjection
    <3>. QED
      BY <3>1, <3>3, FS_Surjection
  <2>6. Discover!SetToSeq(S) \in Seq(Discover!Capabilities)
    BY <2>4, <2>5, ListingHolds
  <2>7. found' \in Seq(Discover!Capabilities)
    BY <2>2, <2>6 DEF DiscoveryInv, DiscoveryTypes
  <2>8. kind' \in Nat \ {0}
    BY <2>2 DEF DiscoveryInv, DiscoveryTypes
  <2>. QED
    BY <1>1, <2>2, <2>7, <2>8, ListedKeeps
<1>. QED
  BY <1>2, <1>3

\* What a source without collisions offers: under each of its aliases the name that was
\* listed with it.
LEMMA OfferedAsListed ==
  ASSUME found \in Seq(Discover!Capabilities), ~Discover!Collides
  PROVE  /\ DOMAIN Discover!SourceFederation
              = {<<c[1], Alias(at, c[1], c[2])>> : c \in Discover!Offered}
         /\ \A c \in Discover!Offered :
              Discover!SourceFederation[<<c[1], Alias(at, c[1], c[2])>>] = <<at, c[2]>>
<1>. DEFINE D == {<<c[1], Alias(at, c[1], c[2])>> : c \in Discover!Offered}
<1>1. DOMAIN Discover!SourceFederation = D
  BY DEF Discover!SourceFederation
<1>2. ASSUME NEW c \in Discover!Offered
      PROVE  Discover!SourceFederation[<<c[1], Alias(at, c[1], c[2])>>] = <<at, c[2]>>
  <2>1. PICK key : key = <<c[1], Alias(at, c[1], c[2])>>
    OBVIOUS
  <2>2. key \in D /\ key[1] = c[1] /\ key[2] = Alias(at, c[1], c[2])
    BY <2>1
  <2>3. PICK i \in DOMAIN found : found[i] = c
    BY DEF Discover!Offered, Discover!Listed, Discover!ToSet
  <2>4. c \in Discover!Capabilities
    BY <2>3
  <2>5. c[2] \in Names /\ c = <<c[1], c[2]>>
    BY <2>4 DEF Discover!Capabilities
  <2>6. PICK m : m = CHOOSE n \in Names :
                       <<key[1], n>> \in Discover!Offered /\ Alias(at, key[1], n) = key[2]
    OBVIOUS
  <2>7. \E n \in Names : <<key[1], n>> \in Discover!Offered /\ Alias(at, key[1], n) = key[2]
    BY <2>2, <2>5
  <2>8. m \in Names /\ <<key[1], m>> \in Discover!Offered /\ Alias(at, key[1], m) = key[2]
    BY <2>6, <2>7
  <2>9. PICK j \in DOMAIN found : found[j] = <<c[1], m>>
    BY <2>2, <2>8 DEF Discover!Offered, Discover!Listed, Discover!ToSet
  <2>10. i = j
    BY <2>2, <2>3, <2>8, <2>9 DEF Discover!Collides
  <2>11. m = c[2]
    BY <2>3, <2>5, <2>9, <2>10
  <2>12. Discover!SourceFederation[key] = <<at, m>>
    BY <2>2, <2>6 DEF Discover!SourceFederation
  <2>. QED
    BY <2>1, <2>11, <2>12
<1>. QED
  BY <1>1, <1>2

\* A source is kept: what it offers is served beside what the earlier ones do.
LEMMA AddKeeps ==
  ASSUME Discover!DiscoveryBounds, DiscoveryInv, Discover!Add
  PROVE  DiscoveryInv'
<1>. DEFINE L == Discover!Offered
<1>1. /\ step = "list" /\ ~Discover!Collides /\ pins[at] \in {Unpinned, Discover!Listed}
      /\ Discover!Clear
      /\ federation' = Discover!Merge(Discover!SourceFederation)
      /\ active' = active \cup {at} /\ Discover!Following
      /\ UNCHANGED <<mode, pins, kind, found, incomplete, open>>
  BY DEF Discover!Add, Discover!Accepted, Discover!config
<1>2. /\ at \in Sources /\ at \in Nat \ {0} /\ found \in Seq(Discover!Capabilities)
      /\ open = active \cup {at} /\ active \subseteq 1..(at - 1)
  BY <1>1 DEF DiscoveryInv, DiscoveryTypes, Started
<1>3. at \notin active
  BY <1>2
<1>4. DiscoveryTypes' /\ Started'
  BY <1>1, <1>2, FollowingKeeps
<1>5. PICK offer : offer = Discover!SourceFederation
  OBVIOUS
<1>6. /\ DOMAIN offer = {<<c[1], Alias(at, c[1], c[2])>> : c \in L}
      /\ \A c \in L : offer[<<c[1], Alias(at, c[1], c[2])>>] = <<at, c[2]>>
  BY <1>1, <1>2, <1>5, OfferedAsListed
<1>7. PICK fed : fed = federation'
  OBVIOUS
<1>8. /\ DOMAIN offer \cap DOMAIN federation = {}
      /\ DOMAIN fed = DOMAIN offer \cup DOMAIN federation
      /\ \A key \in DOMAIN offer : fed[key] = offer[key]
      /\ \A key \in DOMAIN federation : fed[key] = federation[key]
  BY <1>1, <1>5, <1>7 DEF Discover!Merge, Discover!Clear
<1>9. \A c \in L : c = <<c[1], c[2]>>
  <2>1. \A c \in L : c \in Discover!Capabilities
    BY <1>2 DEF Discover!Offered, Discover!Listed, Discover!ToSet
  <2>. QED
    BY <2>1 DEF Discover!Capabilities
<1>10. \A key \in DOMAIN offer :
         \E c \in L : /\ key[1] = c[1] /\ key[2] = Alias(at, c[1], c[2])
                      /\ offer[key] = <<at, c[2]>>
  BY <1>6
<1>11. \A key \in DOMAIN federation :
         federation[key][1] \in active
           /\ key[2] = Alias(federation[key][1], key[1], federation[key][2])
  BY DEF DiscoveryInv, Owned
<1>12. Owned(fed, active \cup {at})
  <2>1. ASSUME NEW key \in DOMAIN offer
        PROVE  /\ fed[key][1] \in active \cup {at}
               /\ key[2] = Alias(fed[key][1], key[1], fed[key][2])
    <3>1. PICK c \in L : /\ key[1] = c[1] /\ key[2] = Alias(at, c[1], c[2])
                         /\ offer[key] = <<at, c[2]>>
      BY <1>10
    <3>2. fed[key][1] = at /\ fed[key][2] = c[2]
      BY <1>8, <3>1
    <3>. QED
      BY <3>1, <3>2
  <2>2. ASSUME NEW key \in DOMAIN federation
        PROVE  /\ fed[key][1] \in active \cup {at}
               /\ key[2] = Alias(fed[key][1], key[1], fed[key][2])
    <3>1. fed[key] = federation[key]
      BY <1>8
    <3>. QED
      BY <1>11, <3>1
  <2>. QED
    BY <1>8, <2>1, <2>2 DEF Owned
<1>13. Served(fed, at) = L
  <2>1. ASSUME NEW key \in DOMAIN fed, fed[key][1] = at
        PROVE  <<key[1], fed[key][2]>> \in L
    <3>1. key \in DOMAIN offer
      BY <1>3, <1>8, <1>11, <2>1
    <3>2. PICK c \in L : key[1] = c[1] /\ offer[key] = <<at, c[2]>>
      BY <1>10, <3>1
    <3>3. fed[key][2] = c[2]
      BY <1>8, <3>1, <3>2
    <3>. QED
      BY <1>9, <3>2, <3>3
  <2>2. ASSUME NEW c \in L
        PROVE  \E key \in DOMAIN fed : fed[key][1] = at /\ c = <<key[1], fed[key][2]>>
    <3>1. PICK key : key = <<c[1], Alias(at, c[1], c[2])>>
      OBVIOUS
    <3>2. key \in DOMAIN offer /\ offer[key] = <<at, c[2]>> /\ key[1] = c[1]
      BY <1>6, <3>1
    <3>3. key \in DOMAIN fed /\ fed[key][1] = at /\ fed[key][2] = c[2]
      BY <1>8, <3>2
    <3>. QED
      BY <1>9, <3>2, <3>3
  <2>. QED
    BY <2>1, <2>2 DEF Served
<1>14. ASSUME NEW s \in active
       PROVE  Served(fed, s) = Served(federation, s)
  <2>1. s # at
    BY <1>3
  <2>2. \A key \in DOMAIN offer : fed[key][1] = at
    <3>1. ASSUME NEW key \in DOMAIN offer
          PROVE  fed[key][1] = at
      <4>1. PICK c \in L : offer[key] = <<at, c[2]>>
        BY <1>10
      <4>. QED
        BY <1>8, <4>1
    <3>. QED
      BY <3>1
  <2>3. {k \in DOMAIN fed : fed[k][1] = s} = {k \in DOMAIN federation : federation[k][1] = s}
    BY <1>8, <2>1, <2>2
  <2>4. \A k \in DOMAIN federation : fed[k][2] = federation[k][2]
    BY <1>8
  <2>. QED
    BY <2>3, <2>4 DEF Served
<1>15. \A s \in active \cup {at} :
          pins[s] # Unpinned => Served(fed, s) = pins[s] \ Unsupported
  <2>1. \A s \in active :
           pins[s] # Unpinned => Served(federation, s) = pins[s] \ Unsupported
    BY DEF DiscoveryInv, Reviewed
  <2>2. pins[at] # Unpinned => Served(fed, at) = pins[at] \ Unsupported
    BY <1>1, <1>13 DEF Discover!Offered
  <2>3. \A s \in active : pins[s] # Unpinned => Served(fed, s) = pins[s] \ Unsupported
    BY <1>14, <2>1
  <2>. QED
    BY <2>2, <2>3
<1>16. Owned(federation', active') /\ Reviewed(federation, active)'
  <2>1. Owned(federation', active')
    BY <1>1, <1>7, <1>12
  <2>2. Reviewed(federation, active)'
    BY <1>1, <1>7, <1>15 DEF Reviewed
  <2>. QED
    BY <2>1, <2>2
<1>. QED
  BY <1>4, <1>16 DEF DiscoveryInv

LEMMA DiscoveryNext ==
  ASSUME Discover!DiscoveryBounds, DiscoveryInv, [Discover!Next]_(Discover!vars)
  PROVE  DiscoveryInv'
<1>1. CASE Discover!Connect
  BY <1>1, ConnectKeeps
<1>2. CASE Discover!ConnectFails
  BY <1>2, DroppedKeeps DEF Discover!ConnectFails
<1>3. ASSUME NEW items \in SUBSET Names,
             NEW next \in {{}} \cup {{c} : c \in Cursors}, Discover!Page(items, next)
      PROVE  DiscoveryInv'
  BY <1>3, PageKeeps
<1>4. CASE Discover!Skip
  <2>1. /\ step = "list" /\ kind' = kind + 1
        /\ UNCHANGED <<mode, pins, at, step, found, federation, active, incomplete, open>>
    BY <1>4 DEF Discover!Skip, Discover!config
  <2>2. kind' \in Nat \ {0} /\ found' \in Seq(Discover!Capabilities)
    BY <2>1 DEF DiscoveryInv, DiscoveryTypes
  <2>. QED
    BY <2>1, <2>2, ListedKeeps
<1>5. CASE Discover!ListingFails
  BY <1>5, DroppedKeeps DEF Discover!ListingFails
<1>6. CASE Discover!Add
  BY <1>6, AddKeeps
<1>7. CASE Discover!AliasTaken
  \* A source that takes an alias of an earlier one is merged not at all.
  <2>1. step = "list" /\ Discover!Dropped /\ federation' = federation
    BY <1>7 DEF Discover!AliasTaken, Discover!Accepted, Discover!Merge, Discover!Clear
  <2>. QED
    BY <2>1, DroppedKeeps DEF Discover!LeaveOut
<1>8. CASE Discover!Refuse
  BY <1>8, DroppedKeeps DEF Discover!Refuse
<1>9. CASE UNCHANGED Discover!vars
  <2>1. UNCHANGED <<mode, pins, at, step, kind, found, federation, active, incomplete, open>>
    BY <1>9 DEF Discover!vars, Discover!config
  <2>. QED
    BY <2>1 DEF DiscoveryInv, DiscoveryTypes, Started, Owned, Reviewed, Served
<1>. QED
  BY <1>1, <1>2, <1>3, <1>4, <1>5, <1>6, <1>7, <1>8, <1>9 DEF Discover!Next

\* outbound.rs, federation.rs: however many sources there are and whatever they list or
\* fail at, the gateway serves the sources it kept under their own aliases: all that a
\* reviewed source was reviewed for, except the templates that cannot be expanded, and
\* nothing more; in strict mode it serves them all.
THEOREM ReviewedServed == Discover!Spec => []ServedAsReviewed
<1>1. Discover!DiscoveryBounds
  BY AccessConstants
<1>2. Discover!Init => DiscoveryInv
  BY <1>1, DiscoveryBegins
<1>3. DiscoveryInv /\ [Discover!Next]_(Discover!vars) => DiscoveryInv'
  BY <1>1, DiscoveryNext
<1>4. DiscoveryInv => ServedAsReviewed
  <2>. SUFFICES ASSUME DiscoveryInv PROVE Discover!ServedAsReviewed
    BY DEF ServedAsReviewed
  <2>2. \A key \in DOMAIN federation :
          LET owner == federation[key] IN
          owner[1] \in active /\ key[2] = Alias(owner[1], key[1], owner[2])
    BY DEF DiscoveryInv, Owned
  <2>3. \A s \in active : pins[s] # Unpinned =>
          {<<key[1], federation[key][2]>> :
             key \in {k \in DOMAIN federation : federation[k][1] = s}} = pins[s] \ Unsupported
    BY DEF DiscoveryInv, Reviewed, Served
  <2>4. step = "serving" =>
          /\ open = active
          /\ active \cup incomplete = Sources
          /\ mode = "strict" => active = Sources
    BY DEF DiscoveryInv, Started
  <2>. QED
    BY <2>2, <2>3, <2>4 DEF Discover!ServedAsReviewed, DiscoveryInv, Started
<1>. QED
  BY <1>2, <1>3, <1>4, PTL DEF Discover!Spec

-----------------------------------------------------------------------------
(* The sealed tokens.  A token is one of a list, and holds the list up to  *)
(* its position, or one of a round, and holds the rounds before it; labels *)
(* keep the two apart.  Only a round opened by this process opens under    *)
(* its key.                                                                *)

OfList(token) ==
    /\ token.label \in Lists
    /\ token.position \in Nat
    /\ token.history = SubSeq(token.digest, 1, token.position)

OfRound(token, current, opened) ==
    \E tool \in DOMAIN Rounds : \E i \in 1..Len(Rounds[tool]) :
      /\ token.label = Rounds[tool][i]
      /\ token.history = SubSeq(Rounds[tool], 1, i - 1)
      /\ token.key = current => tool \in opened

Sealed(token, current, opened) ==
    /\ token.key \in Nat /\ token.key <= current
    /\ OfList(token) \/ OfRound(token, current, opened)

CursorInv ==
    /\ epoch \in Nat \ {0} /\ catalogue \in Catalogues
    /\ \A token \in tokens : Sealed(token, epoch, begun)
    /\ Cursor!WholeList
    /\ Cursor!RoundsInOrder

LEMMA CursorBegins ==
  ASSUME Cursor!Init
  PROVE  CursorInv
<1>1. epoch = 1 /\ catalogue \in Catalogues /\ tokens = {} /\ outcome = Cursor!NoOutcome
  BY DEF Cursor!Init
<1>2. outcome.of = "nothing"
  BY <1>1 DEF Cursor!NoOutcome
<1>3. Cursor!WholeList /\ Cursor!RoundsInOrder
  BY <1>2 DEF Cursor!WholeList, Cursor!RoundsInOrder
<1>. QED
  BY <1>1, <1>3 DEF CursorInv

\* Lists and rounds are sequences, and a label tells what it belongs to.
LEMMA LabelsDistinct ==
  ASSUME Cursor!CursorsConstants
  PROVE  /\ PageSize \in Nat \ {0}
         /\ \A tool \in DOMAIN Rounds :
              /\ Rounds[tool] \in Seq(Cursor!ToSet(Rounds[tool]))
              /\ Len(Rounds[tool]) \in {1, 2}
              /\ \A i \in 1..Len(Rounds[tool]) : Rounds[tool][i] \notin Lists
         /\ \A tool, other \in DOMAIN Rounds :
              \A i \in 1..Len(Rounds[tool]), j \in 1..Len(Rounds[other]) :
                Rounds[tool][i] = Rounds[other][j] => tool = other /\ i = j
<1>1. /\ PageSize \in Nat \ {0}
      /\ \A tool \in DOMAIN Rounds :
           /\ Rounds[tool] \in Seq(Cursor!ToSet(Rounds[tool]))
           /\ Len(Rounds[tool]) \in {1, 2}
  BY DEF Cursor!CursorsConstants, Cursor!IsSequence
<1>2. \A tool \in DOMAIN Rounds : DOMAIN Rounds[tool] = 1..Len(Rounds[tool])
  BY <1>1
<1>3. \A tool \in DOMAIN Rounds : \A i \in 1..Len(Rounds[tool]) : Rounds[tool][i] \notin Lists
  BY <1>2 DEF Cursor!CursorsConstants, Cursor!ToSet
<1>4. \A tool, other \in DOMAIN Rounds :
        \A i \in 1..Len(Rounds[tool]), j \in 1..Len(Rounds[other]) :
          Rounds[tool][i] = Rounds[other][j] => tool = other /\ i = j
  BY <1>2 DEF Cursor!CursorsConstants
<1>. QED
  BY <1>1, <1>3, <1>4

\* What a client may see of a list is a sequence.
LEMMA ListedSequence ==
  ASSUME Cursor!CursorsConstants, CursorInv, NEW k \in Lists, NEW tasks \in BOOLEAN
  PROVE  Cursor!Listed(k, tasks) \in Seq(Cursor!ToSet(Cursor!Listed(k, tasks)))
BY DEF Cursor!CursorsConstants, Cursor!Listed, CursorInv, Cursor!IsSequence

\* A page adds the items after those behind its token, up to the end of the list.
LEMMA PageExtends ==
  ASSUME NEW S, NEW items \in Seq(S), NEW start \in 0..Len(items), NEW end \in start..Len(items)
  PROVE  SubSeq(items, 1, start) \o SubSeq(items, start + 1, end) = SubSeq(items, 1, end)
BY ConcatAdjacentSubSeq

\* A token issued to a client, of what this process has begun.
LEMMA TokenKeeps ==
  ASSUME CursorInv, NEW token, tokens' = tokens \cup {token}, Sealed(token, epoch, begun'),
         begun \subseteq begun', UNCHANGED <<epoch, catalogue>>,
         outcome'.of \notin {"listed", "completed"}
  PROVE  CursorInv'
<1>1. ASSUME NEW t \in tokens'
      PROVE  Sealed(t, epoch', begun')
  <2>1. CASE t \in tokens
    <3>1. Sealed(t, epoch, begun)
      BY <2>1 DEF CursorInv
    <3>. QED
      BY <3>1 DEF Sealed, OfRound
  <2>2. CASE t = token
    BY <2>2
  <2>. QED
    BY <2>1, <2>2
<1>2. Cursor!WholeList' /\ Cursor!RoundsInOrder'
  BY DEF Cursor!WholeList, Cursor!RoundsInOrder
<1>. QED
  BY <1>1, <1>2 DEF CursorInv

\* Nothing is issued: the outcome alone may change.
LEMMA OutcomeKeeps ==
  ASSUME CursorInv, UNCHANGED <<epoch, catalogue, tokens, begun>>,
         outcome'.of = "listed" => outcome'.history = Cursor!Listed(outcome'.by, outcome'.tasks),
         outcome'.of = "completed" =>
           outcome'.by \in begun /\ outcome'.history = Rounds[outcome'.by]
  PROVE  CursorInv'
<1>1. \A t \in tokens' : Sealed(t, epoch', begun')
  BY DEF CursorInv
<1>2. Cursor!WholeList' /\ Cursor!RoundsInOrder'
  BY DEF Cursor!WholeList, Cursor!RoundsInOrder, Cursor!Listed
<1>. QED
  BY <1>1, <1>2 DEF CursorInv

LEMMA RefuseKeeps ==
  ASSUME CursorInv, Cursor!Refuse, UNCHANGED <<epoch, catalogue, begun>>
  PROVE  CursorInv'
<1>1. outcome'.of = "refused" /\ UNCHANGED tokens
  BY DEF Cursor!Refuse, Cursor!NoOutcome
<1>. QED
  BY <1>1, OutcomeKeeps

\* The request for a list continues a token of this very list, or starts afresh.
LEMMA ListPageKeeps ==
  ASSUME Cursor!CursorsConstants, CursorInv, NEW k \in Lists, NEW tasks \in BOOLEAN,
         NEW token, Cursor!Page(k, tasks, token),
         token.position \in 0..Len(Cursor!Listed(k, tasks)),
         token.history = SubSeq(Cursor!Listed(k, tasks), 1, token.position),
         UNCHANGED <<epoch, catalogue, begun>>
  PROVE  CursorInv'
<1>1. PICK items : items = Cursor!Listed(k, tasks)
  OBVIOUS
<1>2. PICK S : items \in Seq(S)
  BY <1>1, ListedSequence
<1>3. PICK start \in 0..Len(items) : start = token.position
  BY <1>1
<1>4. Len(items) \in Nat /\ PageSize \in Nat \ {0}
  BY <1>2, LabelsDistinct
<1>5. PICK end : end = IF start + PageSize < Len(items) THEN start + PageSize ELSE Len(items)
  OBVIOUS
<1>6. end \in start..Len(items)
  BY <1>3, <1>4, <1>5
<1>7. PICK history : history = token.history \o SubSeq(items, start + 1, end)
  OBVIOUS
<1>8. history = SubSeq(items, 1, end)
  BY <1>1, <1>2, <1>3, <1>6, <1>7, PageExtends
<1>9. CASE end < Len(items)
  <2>1. PICK new : new = [key |-> epoch, digest |-> items, label |-> k,
                          position |-> end, history |-> history]
    OBVIOUS
  <2>2. Cursor!Issue(new) /\ outcome' = [Cursor!NoOutcome EXCEPT !.of = "page"]
    BY <1>1, <1>3, <1>5, <1>7, <1>9, <2>1 DEF Cursor!Page
  <2>3. tokens' = tokens \cup {new} /\ outcome'.of = "page"
    BY <2>2 DEF Cursor!Issue, Cursor!NoOutcome
  <2>4. /\ new.key = epoch /\ new.label = k /\ new.position = end
        /\ new.digest = items /\ new.history = history
    BY <2>1
  <2>5. Sealed(new, epoch, begun')
    BY <1>3, <1>4, <1>6, <1>8, <2>4 DEF Sealed, OfList, CursorInv
  <2>. QED
    BY <2>3, <2>5, TokenKeeps
<1>10. CASE ~(end < Len(items))
  <2>1. /\ outcome' = [of |-> "listed", by |-> k, tasks |-> tasks, history |-> history]
        /\ UNCHANGED tokens
    BY <1>1, <1>3, <1>5, <1>7, <1>10 DEF Cursor!Page
  <2>2. end = Len(items)
    BY <1>3, <1>4, <1>6, <1>10
  <2>3. history = items
    BY <1>2, <1>8, <2>2, SubSeqFull
  <2>4. /\ outcome'.of = "listed" /\ outcome'.by = k /\ outcome'.tasks = tasks
        /\ outcome'.history = Cursor!Listed(k, tasks)
    BY <1>1, <2>1, <2>3
  <2>. QED
    BY <2>1, <2>4, OutcomeKeeps
<1>. QED
  BY <1>9, <1>10

LEMMA ListKeeps ==
  ASSUME Cursor!CursorsConstants, CursorInv, NEW k \in Lists, NEW tasks \in BOOLEAN,
         Cursor!List(k, tasks)
  PROVE  CursorInv'
<1>1. UNCHANGED <<epoch, catalogue, begun>>
  BY DEF Cursor!List
<1>2. PICK items : items = Cursor!Listed(k, tasks)
  OBVIOUS
<1>3. PICK S : items \in Seq(S)
  BY <1>2, ListedSequence
<1>4. CASE Cursor!Page(k, tasks, Cursor!NoCursor)
  <2>1. Cursor!NoCursor.position = 0 /\ Cursor!NoCursor.history = <<>>
    BY DEF Cursor!NoCursor
  <2>2. SubSeq(items, 1, 0) = <<>> /\ 0 \in 0..Len(items)
    BY <1>3, SubSeqEmpty
  <2>. QED
    BY <1>1, <1>2, <1>4, <2>1, <2>2, ListPageKeeps
<1>5. ASSUME NEW token \in tokens, Cursor!Continues(token, k, items),
             Cursor!Page(k, tasks, token)
      PROVE  CursorInv'
  <2>1. token.digest = items /\ token.label = k /\ token.position <= Len(items)
    BY <1>5 DEF Cursor!Continues
  <2>2. ~OfRound(token, epoch, begun)
    BY <2>1, LabelsDistinct DEF OfRound
  <2>3. OfList(token)
    BY <2>2 DEF CursorInv, Sealed
  <2>4. token.position \in 0..Len(items) /\ token.history = SubSeq(items, 1, token.position)
    BY <1>3, <2>1, <2>3 DEF OfList
  <2>. QED
    BY <1>1, <1>2, <1>5, <2>4, ListPageKeeps
<1>6. CASE Cursor!Refuse
  BY <1>1, <1>6, RefuseKeeps
<1>. QED
  BY <1>2, <1>4, <1>5, <1>6 DEF Cursor!List

\* A token that is valid for a round is of that very round, which this process began.
LEMMA ValidOfRound ==
  ASSUME Cursor!CursorsConstants, CursorInv, NEW token \in tokens,
         NEW tool \in DOMAIN Rounds, NEW i \in 1..Len(Rounds[tool]),
         Cursor!Valid(token, Rounds[tool][i])
  PROVE  tool \in begun /\ token.history = SubSeq(Rounds[tool], 1, i - 1)
<1>1. token.key = epoch /\ token.label = Rounds[tool][i]
  BY DEF Cursor!Valid, Cursor!Opens
<1>2. ~OfList(token)
  BY <1>1, LabelsDistinct DEF OfList
<1>3. OfRound(token, epoch, begun)
  BY <1>2 DEF CursorInv, Sealed
<1>4. PICK other \in DOMAIN Rounds : \E j \in 1..Len(Rounds[other]) :
        /\ token.label = Rounds[other][j]
        /\ token.history = SubSeq(Rounds[other], 1, j - 1)
        /\ token.key = epoch => other \in begun
  BY <1>3 DEF OfRound
<1>5. PICK j \in 1..Len(Rounds[other]) :
        /\ token.label = Rounds[other][j]
        /\ token.history = SubSeq(Rounds[other], 1, j - 1)
        /\ token.key = epoch => other \in begun
  BY <1>4
<1>6. other = tool /\ j = i
  <2>1. \A x \in 1..Len(Rounds[other]), y \in 1..Len(Rounds[tool]) :
          Rounds[other][x] = Rounds[tool][y] => other = tool /\ x = y
    BY LabelsDistinct
  <2>. QED
    BY <1>1, <1>5, <2>1
<1>. QED
  BY <1>1, <1>5, <1>6

\* The rounds of a tool, one after another.
LEMMA RoundsOf ==
  ASSUME Cursor!CursorsConstants, NEW tool \in DOMAIN Rounds
  PROVE  /\ SubSeq(Rounds[tool], 1, 0) = <<>>
         /\ SubSeq(Rounds[tool], 1, 1) = <<Rounds[tool][1]>>
         /\ Len(Rounds[tool]) = 1 => Append(<<>>, Rounds[tool][1]) = Rounds[tool]
         /\ Len(Rounds[tool]) = 2 =>
              Append(<<Rounds[tool][1]>>, Rounds[tool][2]) = Rounds[tool]
<1>1. PICK S : Rounds[tool] \in Seq(S)
  BY LabelsDistinct
<1>2. PICK s \in Seq(S) : s = Rounds[tool]
  BY <1>1
<1>3. Len(s) \in {1, 2}
  BY <1>2, LabelsDistinct
<1>4. SubSeq(s, 1, 0) = <<>>
  BY SubSeqEmpty
<1>5. SubSeq(s, 1, 1) = <<s[1]>>
  <2>1. /\ SubSeq(s, 1, 1) \in Seq(S) /\ Len(SubSeq(s, 1, 1)) = 1
        /\ SubSeq(s, 1, 1)[1] = s[1]
    BY <1>3
  <2>2. <<s[1]>> \in Seq(S) /\ Len(<<s[1]>>) = 1 /\ <<s[1]>>[1] = s[1]
    BY <1>3
  <2>3. \A i \in 1..Len(SubSeq(s, 1, 1)) : SubSeq(s, 1, 1)[i] = <<s[1]>>[i]
    BY <2>1, <2>2
  <2>4. Len(SubSeq(s, 1, 1)) = Len(<<s[1]>>)
    BY <2>1, <2>2
  <2>5. PICK u \in Seq(S), v \in Seq(S) : u = SubSeq(s, 1, 1) /\ v = <<s[1]>>
    BY <2>1, <2>2
  <2>6. u = v
    BY <2>3, <2>4, <2>5, SeqEqual
  <2>. QED
    BY <2>5, <2>6
<1>6. Len(s) = 1 => Append(<<>>, s[1]) = s
  BY <1>2
<1>7. Len(s) = 2 => Append(<<s[1]>>, s[2]) = s
  BY <1>2
<1>. QED
  BY <1>2, <1>4, <1>5, <1>6, <1>7

\* A round is asked for: its token holds the rounds answered before it.
LEMMA AskKeeps ==
  ASSUME CursorInv, NEW tool \in DOMAIN Rounds, NEW i \in 1..Len(Rounds[tool]), NEW history,
         history = SubSeq(Rounds[tool], 1, i - 1),
         Cursor!Ask(tool, Rounds[tool][i], history),
         tool \in begun', begun \subseteq begun', UNCHANGED <<epoch, catalogue>>
  PROVE  CursorInv'
<1>1. PICK new : new = Cursor!State(Rounds[tool][i], history)
  OBVIOUS
<1>2. new.key = epoch /\ new.label = Rounds[tool][i] /\ new.history = history
  BY <1>1 DEF Cursor!State
<1>3. tokens' = tokens \cup {new} /\ outcome'.of = "input required"
  BY <1>1 DEF Cursor!Ask, Cursor!Issue, Cursor!NoOutcome
<1>4. OfRound(new, epoch, begun')
  BY <1>2 DEF OfRound
<1>5. Sealed(new, epoch, begun')
  BY <1>2, <1>4 DEF Sealed, CursorInv
<1>. QED
  BY <1>3, <1>5, TokenKeeps

\* The last round is answered by a token that it was asked for with.
LEMMA CompleteKeeps ==
  ASSUME CursorInv, NEW tool \in begun, NEW history, history = Rounds[tool],
         Cursor!Complete(tool, history), UNCHANGED <<epoch, catalogue, begun>>
  PROVE  CursorInv'
<1>1. /\ outcome'.of = "completed" /\ outcome'.by = tool /\ outcome'.history = history
      /\ UNCHANGED tokens
  BY DEF Cursor!Complete
<1>. QED
  BY <1>1, OutcomeKeeps

LEMMA SingleKeeps ==
  ASSUME Cursor!CursorsConstants, CursorInv, NEW tool \in DOMAIN Rounds,
         Cursor!CallSingle(tool)
  PROVE  CursorInv'
<1>1. Len(Rounds[tool]) = 1 /\ UNCHANGED <<epoch, catalogue>>
  BY DEF Cursor!CallSingle
<1>2. CASE Cursor!Ask(tool, Rounds[tool][1], <<>>) /\ begun' = begun \cup {tool}
  <2>1. PICK i \in 1..Len(Rounds[tool]) : i = 1
    BY <1>1
  <2>2. i - 1 = 0
    BY <2>1
  <2>3. <<>> = SubSeq(Rounds[tool], 1, i - 1)
    BY <2>2, RoundsOf
  <2>4. /\ Cursor!Ask(tool, Rounds[tool][i], <<>>)
        /\ tool \in begun' /\ begun \subseteq begun'
    BY <1>2, <2>1
  <2>. QED
    BY <1>1, <2>3, <2>4, AskKeeps
<1>3. ASSUME NEW token \in tokens, Cursor!Valid(token, Rounds[tool][1]),
             Cursor!Complete(tool, Append(token.history, Rounds[tool][1])),
             UNCHANGED begun
      PROVE  CursorInv'
  <2>1. tool \in begun /\ token.history = SubSeq(Rounds[tool], 1, 0)
    <3>1. PICK i \in 1..Len(Rounds[tool]) : i = 1
      BY <1>1
    <3>2. i - 1 = 0 /\ Cursor!Valid(token, Rounds[tool][i])
      BY <1>3, <3>1
    <3>3. tool \in begun /\ token.history = SubSeq(Rounds[tool], 1, i - 1)
      BY <1>3, <3>2, ValidOfRound
    <3>. QED
      BY <3>2, <3>3
  <2>2. Append(token.history, Rounds[tool][1]) = Rounds[tool]
    BY <1>1, <2>1, RoundsOf
  <2>. QED
    BY <1>1, <1>3, <2>1, <2>2, CompleteKeeps
<1>4. CASE Cursor!Refuse /\ UNCHANGED begun
  BY <1>1, <1>4, RefuseKeeps
<1>. QED
  BY <1>2, <1>3, <1>4 DEF Cursor!CallSingle

LEMMA MultiKeeps ==
  ASSUME Cursor!CursorsConstants, CursorInv, NEW tool \in DOMAIN Rounds,
         Cursor!CallMulti(tool)
  PROVE  CursorInv'
<1>1. Len(Rounds[tool]) = 2 /\ UNCHANGED <<epoch, catalogue>>
  BY DEF Cursor!CallMulti
<1>2. CASE Cursor!Ask(tool, Rounds[tool][1], <<>>) /\ begun' = begun \cup {tool}
  <2>1. PICK i \in 1..Len(Rounds[tool]) : i = 1
    BY <1>1
  <2>2. i - 1 = 0
    BY <2>1
  <2>3. <<>> = SubSeq(Rounds[tool], 1, i - 1)
    BY <2>2, RoundsOf
  <2>4. /\ Cursor!Ask(tool, Rounds[tool][i], <<>>)
        /\ tool \in begun' /\ begun \subseteq begun'
    BY <1>2, <2>1
  <2>. QED
    BY <1>1, <2>3, <2>4, AskKeeps
<1>3. ASSUME NEW token \in tokens, Cursor!Valid(token, Rounds[tool][1]),
             Cursor!Ask(tool, Rounds[tool][2], Append(token.history, Rounds[tool][1])),
             UNCHANGED begun
      PROVE  CursorInv'
  <2>1. tool \in begun /\ token.history = SubSeq(Rounds[tool], 1, 0)
    <3>1. PICK i \in 1..Len(Rounds[tool]) : i = 1
      BY <1>1
    <3>2. i - 1 = 0 /\ Cursor!Valid(token, Rounds[tool][i])
      BY <1>3, <3>1
    <3>3. tool \in begun /\ token.history = SubSeq(Rounds[tool], 1, i - 1)
      BY <1>3, <3>2, ValidOfRound
    <3>. QED
      BY <3>2, <3>3
  <2>2. Append(token.history, Rounds[tool][1]) = <<Rounds[tool][1]>>
    <3>1. token.history = <<>>
      BY <2>1, RoundsOf
    <3>. QED
      BY <3>1
  <2>3. PICK i \in 1..Len(Rounds[tool]) : i = 2
    BY <1>1
  <2>4. i - 1 = 1
    BY <2>3
  <2>5. Append(token.history, Rounds[tool][1]) = SubSeq(Rounds[tool], 1, i - 1)
    BY <2>2, <2>4, RoundsOf
  <2>6. Cursor!Ask(tool, Rounds[tool][i], Append(token.history, Rounds[tool][1]))
    BY <1>3, <2>3
  <2>. QED
    BY <1>1, <1>3, <2>1, <2>5, <2>6, AskKeeps
<1>4. ASSUME NEW token \in tokens, Cursor!Valid(token, Rounds[tool][2]),
             Cursor!Complete(tool, Append(token.history, Rounds[tool][2])),
             UNCHANGED begun
      PROVE  CursorInv'
  <2>1. tool \in begun /\ token.history = SubSeq(Rounds[tool], 1, 1)
    <3>1. PICK i \in 1..Len(Rounds[tool]) : i = 2
      BY <1>1
    <3>2. i - 1 = 1 /\ Cursor!Valid(token, Rounds[tool][i])
      BY <1>4, <3>1
    <3>3. tool \in begun /\ token.history = SubSeq(Rounds[tool], 1, i - 1)
      BY <1>4, <3>2, ValidOfRound
    <3>. QED
      BY <3>2, <3>3
  <2>2. Append(token.history, Rounds[tool][2]) = Rounds[tool]
    BY <1>1, <2>1, RoundsOf
  <2>. QED
    BY <1>1, <1>4, <2>1, <2>2, CompleteKeeps
<1>5. CASE Cursor!Refuse /\ UNCHANGED begun
  BY <1>1, <1>5, RefuseKeeps
<1>. QED
  BY <1>2, <1>3, <1>4, <1>5 DEF Cursor!CallMulti

\* Another process seals with another key: no token of the earlier ones opens.
LEMMA RestartKeepsTokens ==
  ASSUME CursorInv, Cursor!Restart
  PROVE  CursorInv'
<1>1. /\ epoch' = epoch + 1 /\ catalogue' \in Catalogues /\ begun' = {}
      /\ outcome' = Cursor!NoOutcome /\ UNCHANGED tokens
  BY DEF Cursor!Restart
<1>2. epoch \in Nat \ {0}
  BY DEF CursorInv
<1>3. ASSUME NEW token \in tokens
      PROVE  Sealed(token, epoch', begun')
  <2>1. Sealed(token, epoch, begun)
    BY DEF CursorInv
  <2>2. token.key \in Nat /\ token.key <= epoch' /\ token.key # epoch'
    BY <1>1, <1>2, <2>1 DEF Sealed
  <2>. QED
    BY <2>1, <2>2 DEF Sealed, OfRound
<1>4. outcome'.of = "nothing"
  BY <1>1 DEF Cursor!NoOutcome
<1>5. Cursor!WholeList' /\ Cursor!RoundsInOrder'
  BY <1>4 DEF Cursor!WholeList, Cursor!RoundsInOrder
<1>. QED
  BY <1>1, <1>2, <1>3, <1>5 DEF CursorInv

LEMMA CursorNext ==
  ASSUME Cursor!CursorsConstants, CursorInv, [Cursor!Next]_(Cursor!vars)
  PROVE  CursorInv'
<1>1. ASSUME NEW k \in Lists, NEW tasks \in BOOLEAN, Cursor!List(k, tasks)
      PROVE  CursorInv'
  BY <1>1, ListKeeps
<1>2. ASSUME NEW tool \in DOMAIN Rounds, Cursor!CallSingle(tool) \/ Cursor!CallMulti(tool)
      PROVE  CursorInv'
  BY <1>2, SingleKeeps, MultiKeeps
<1>3. CASE UNCHANGED Cursor!vars
  BY <1>3 DEF Cursor!vars, CursorInv, Cursor!WholeList, Cursor!RoundsInOrder, Cursor!Listed
<1>. QED
  BY <1>1, <1>2, <1>3, RestartKeepsTokens DEF Cursor!Next, Cursor!Tools

\* federation.rs, mcp.rs: whatever tokens a client holds, of other lists, clients, tools
\* or processes, what comes of one is the rest of its own list, every item once and in
\* order, or the next round of its own conversation.
THEOREM TokensContinue == Cursor!Spec => []TokensKept
<1>1. Cursor!CursorsConstants
  BY AccessConstants
<1>2. Cursor!Init => CursorInv
  BY CursorBegins
<1>3. CursorInv /\ [Cursor!Next]_(Cursor!vars) => CursorInv'
  BY <1>1, CursorNext
<1>4. CursorInv => TokensKept
  BY DEF CursorInv, TokensKept, Cursor!TokensKept
<1>. QED
  BY <1>2, <1>3, <1>4, PTL DEF Cursor!Spec

-----------------------------------------------------------------------------
(* The parts run side by side.  What is proved of each one alone is true   *)
(* of all of them in one gateway.                                          *)

LEMMA PartsRun ==
  AccessSpec =>
    Spec /\ Approval!Spec /\ KeySet!Spec /\ Cursor!Spec /\ Config!Spec /\ Discover!Spec
<1>. DEFINE Parts == \/ LeaseSteps \/ ApprovalSteps \/ KeySteps
                     \/ CursorSteps \/ ConfigSteps \/ DiscoverySteps
<1>1. AccessInit =>
        /\ Init /\ Approval!Init /\ KeySet!Init /\ Cursor!Init /\ Config!Init /\ Discover!Init
  BY DEF AccessInit
<1>2. [Parts]_AccessVars => [Next]_vars
  BY DEF AccessVars, LeaseSteps, ApprovalSteps, KeySteps, CursorSteps, ConfigSteps,
         DiscoverySteps
<1>3. [Parts]_AccessVars => [Approval!Next]_(Approval!vars)
  BY DEF AccessVars, LeaseSteps, ApprovalSteps, KeySteps, CursorSteps, ConfigSteps,
         DiscoverySteps, approval, Approval!vars
<1>4. [Parts]_AccessVars => [KeySet!Next]_(KeySet!vars)
  BY DEF AccessVars, LeaseSteps, ApprovalSteps, KeySteps, CursorSteps, ConfigSteps,
         DiscoverySteps, keys, KeySet!vars
<1>5. [Parts]_AccessVars => [Cursor!Next]_(Cursor!vars)
  BY DEF AccessVars, LeaseSteps, ApprovalSteps, KeySteps, CursorSteps, ConfigSteps,
         DiscoverySteps, cursor, Cursor!vars
<1>6. [Parts]_AccessVars => [Config!Next]_(Config!vars)
  BY DEF AccessVars, LeaseSteps, ApprovalSteps, KeySteps, CursorSteps, ConfigSteps,
         DiscoverySteps, config, Config!vars
<1>7. [Parts]_AccessVars => [Discover!Next]_(Discover!vars)
  BY DEF AccessVars, LeaseSteps, ApprovalSteps, KeySteps, CursorSteps, ConfigSteps,
         DiscoverySteps, discovery, Discover!vars, Discover!config
<1>. QED
  BY <1>1, <1>2, <1>3, <1>4, <1>5, <1>6, <1>7, PTL
     DEF AccessSpec, Spec, Approval!Spec, KeySet!Spec, Cursor!Spec, Config!Spec, Discover!Spec

\* What stands between a client and a tool, in the exploration of all the parts: calls
\* within their leases, keys that are honoured in time and lock nobody out, tokens that
\* continue what they were issued for, edits that are kept and sources served as reviewed;
\* and approvals as they were answered, if one connection alone uses the terminal.
THEOREM AccessKept ==
  /\ AccessSpec => [](WithinAuthority /\ PublishedAdmitted /\ TokensKept)
  /\ AccessSpec => [](EditsKept /\ ServedAsReviewed)
  /\ AccessSpec => KeysTimely
  /\ AccessSpec /\ OneTerminal => []AcceptedAsAnswered
<1>1. AccessSpec => [](WithinAuthority /\ PublishedAdmitted /\ TokensKept)
  BY PartsRun, AuthorityKept, RotationAdmits, TokensContinue, PTL
<1>2. AccessSpec => [](EditsKept /\ ServedAsReviewed)
  BY PartsRun, EditsSurvive, ReviewedServed, PTL
<1>3. AccessSpec => KeysTimely
  BY PartsRun, WithdrawnKeysDie, PTL
<1>4. AccessSpec /\ OneTerminal => []AcceptedAsAnswered
  BY PartsRun, AnswersKept, PTL
<1>. QED
  BY <1>1, <1>2, <1>3, <1>4
=============================================================================
