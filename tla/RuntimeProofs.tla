--------------------------- MODULE RuntimeProofs ---------------------------
(***************************************************************************)
(* Proofs about admission control, the circuit breaker and the fair queue, *)
(* for any number of requests and tenants and every limit, threshold and   *)
(* cost: no permit is lost or handed out twice although the entries of     *)
(* tenants come and go; the breaker opens and closes on evidence; whoever  *)
(* waits in the queue is served the same.                                  *)
(***************************************************************************)
EXTENDS MCRuntime, FiniteSetTheorems, SequenceTheorems, WellFoundedInduction, TLAPS

\* The places at which a request holds on to its tenant's entry.
Holding == Acquiring \cup {"running"}
Places == Holding \cup {"outside", "overloaded", "leaving"}

Entry == [free : Nat, waiters : Seq(Requests), queued : Nat]
Request == [pc : Places, tenant : Tenants \cup {None}, adm : Admissions \cup {None}]

TypeOK ==
    /\ DOMAIN tenants \subseteq Tenants /\ tenants \in [DOMAIN tenants -> Admissions]
    /\ IsFiniteSet(DOMAIN tenants) /\ Cardinality(DOMAIN tenants) <= MaxTrackedTenants
    /\ adm \in [Admissions -> Entry]
    /\ global \in Nat
    /\ req \in [Requests -> Request]

\* Request r holds the entry of its own tenant, or none; a tracked tenant's entry is its own.
Attached(r) ==
    IF req[r].pc \in Holding
    THEN req[r].tenant \in DOMAIN tenants /\ tenants[req[r].tenant] = req[r].adm
    ELSE req[r].adm = None
Separate == \A t, u \in DOMAIN tenants : tenants[t] = tenants[u] => t = u

\* The entries of the tracked tenants.
Used == {tenants[t] : t \in DOMAIN tenants}

\* A line of distinct requests; a line of the requests in S.
Distinct(line) == \A i, j \in DOMAIN line : line[i] = line[j] => i = j
InLine(line, S) ==
    /\ \A r \in Requests : r \in S <=> \E i \in DOMAIN line : line[i] = r
    /\ Distinct(line)

\* The permits of an entry, its queue counter, and its line of waiters.
Counted(a) ==
    /\ adm[a].free + Cardinality(At(a, Permitted)) = MaxConcurrent
    /\ adm[a].queued = Cardinality(At(a, Queued))
    /\ adm[a].queued <= MaxQueue
Lined(a) == InLine(adm[a].waiters, At(a, {"waiting"}))

\* The gateway's permits.
Inside == {r \in Requests : req[r].pc \in {"running", "leaving"}}
Gateway == global + Cardinality(Inside) = MaxGlobalInflight

AdmissionInv ==
    /\ TypeOK
    /\ Separate
    /\ \A r \in Requests : Attached(r)
    /\ \A a \in Used : Counted(a) /\ Lined(a)
    /\ Gateway

-----------------------------------------------------------------------------
(* Counting                                                                *)

LEMMA RequestsFinite ==
  ASSUME NEW S \in SUBSET Requests
  PROVE  IsFiniteSet(S) /\ Cardinality(S) \in Nat
  BY AdmissionBounds, FS_Subset, FS_CardinalityType

LEMMA Joins ==
  ASSUME NEW S \in SUBSET Requests, NEW r \in Requests, r \notin S
  PROVE  Cardinality(S \cup {r}) = Cardinality(S) + 1
  BY RequestsFinite, FS_AddElement

LEMMA Leaves ==
  ASSUME NEW S \in SUBSET Requests, NEW r \in S
  PROVE  Cardinality(S \ {r}) = Cardinality(S) - 1 /\ Cardinality(S) >= 1
<1>1. Cardinality(S \ {r}) = Cardinality(S) - 1
  BY RequestsFinite, FS_RemoveElement
<1>2. Cardinality(S \ {r}) \in Nat /\ Cardinality(S) \in Nat
  BY RequestsFinite
<1>. QED
  BY <1>1, <1>2

LEMMA Replaced ==
  ASSUME NEW S \in SUBSET Requests, NEW r \in S, NEW h \in Requests, h \notin S
  PROVE  Cardinality((S \ {r}) \cup {h}) = Cardinality(S)
<1>1. Cardinality((S \ {r}) \cup {h}) = Cardinality(S \ {r}) + 1
  BY Joins
<1>2. Cardinality(S) \in Nat
  BY RequestsFinite
<1>. QED
  BY <1>1, <1>2, Leaves

LEMMA AtSubset == \A a, places : At(a, places) \in SUBSET Requests
  BY DEF At

\* Where a request is told apart by its entry and its place.
LEMMA AtMember ==
  ASSUME NEW a, NEW places, NEW r \in Requests
  PROVE  r \in At(a, places) <=> req[r].adm = a /\ req[r].pc \in places
  BY DEF At

\* Lines, position by position.
LEMMA AppendAt ==
  ASSUME NEW S, NEW s \in Seq(S), NEW e \in S
  PROVE  /\ Append(s, e) \in Seq(S) /\ Len(s) \in Nat /\ DOMAIN s = 1..Len(s)
         /\ DOMAIN Append(s, e) = 1..(Len(s) + 1)
         /\ Append(s, e)[Len(s) + 1] = e /\ \A i \in 1..Len(s) : Append(s, e)[i] = s[i]
  OBVIOUS

LEMMA RemoveAtAt ==
  ASSUME NEW S, NEW s \in Seq(S), NEW k \in 1..Len(s)
  PROVE  /\ RemoveAt(s, k) \in Seq(S) /\ Len(s) \in Nat /\ DOMAIN s = 1..Len(s)
         /\ DOMAIN RemoveAt(s, k) = 1..(Len(s) - 1)
         /\ \A i \in 1..(Len(s) - 1) :
               RemoveAt(s, k)[i] = IF i < k THEN s[i] ELSE s[i + 1]
<1>. DEFINE m == Len(s)
            u == SubSeq(s, 1, k - 1)
            v == SubSeq(s, k + 1, m)
<1>1. m \in Nat /\ DOMAIN s = 1..m /\ k \in Nat /\ 1 <= k /\ k <= m
  OBVIOUS
<1>2. u \in Seq(S) /\ Len(u) = k - 1 /\ \A i \in 1..(k - 1) : u[i] = s[i]
  <2>1. \A i \in 1..(k - 1) : s[i] \in S
    BY <1>1
  <2>. QED
    BY <1>1, <2>1, SubSeqProperties
<1>3. v \in Seq(S) /\ Len(v) = m - k /\ \A i \in 1..(m - k) : v[i] = s[k + i]
  <2>1. \A i \in (k + 1)..m : s[i] \in S
    BY <1>1
  <2>2. k + 1 \in Int /\ m \in Int
    BY <1>1
  <2>3. /\ v \in Seq(S) /\ Len(v) = (IF k + 1 <= m THEN m - (k + 1) + 1 ELSE 0)
        /\ \A i \in 1..(m - (k + 1) + 1) : v[i] = s[(k + 1) + i - 1]
    BY <2>1, <2>2, SubSeqProperties
  <2>. HIDE DEF v, m
  <2>4. m - (k + 1) + 1 = m - k /\ Len(v) = m - k
    BY <1>1, <2>3
  <2>5. \A i \in 1..(m - k) : (k + 1) + i - 1 = k + i
    BY <1>1
  <2>. QED
    BY <2>3, <2>4, <2>5
<1>4. RemoveAt(s, k) = u \o v
  BY DEF RemoveAt
<1>. HIDE DEF m, u, v
<1>5. /\ u \o v \in Seq(S) /\ DOMAIN (u \o v) = 1..((k - 1) + (m - k))
      /\ \A i \in 1..((k - 1) + (m - k)) :
            (u \o v)[i] = IF i <= k - 1 THEN u[i] ELSE v[i - (k - 1)]
  <2>1. /\ u \o v \in Seq(S) /\ Len(u \o v) = Len(u) + Len(v)
        /\ \A i \in 1..(Len(u) + Len(v)) :
              (u \o v)[i] = IF i <= Len(u) THEN u[i] ELSE v[i - Len(u)]
    BY <1>2, <1>3, ConcatProperties
  <2>2. DOMAIN (u \o v) = 1..Len(u \o v)
    BY <2>1
  <2>. QED
    BY <1>2, <1>3, <2>1, <2>2
<1>6. (k - 1) + (m - k) = m - 1
  BY <1>1
<1>7. ASSUME NEW i \in 1..(m - 1)
      PROVE  (u \o v)[i] = IF i < k THEN s[i] ELSE s[i + 1]
  <2>1. CASE i < k
    BY <1>1, <1>2, <1>5, <1>6, <2>1
  <2>2. CASE ~(i < k)
    <3>1. i - (k - 1) \in 1..(m - k) /\ k + (i - (k - 1)) = i + 1 /\ ~(i <= k - 1)
      BY <1>1, <2>2
    <3>2. v[i - (k - 1)] = s[i + 1]
      BY <1>3, <3>1
    <3>. QED
      BY <1>5, <1>6, <2>2, <3>1, <3>2
  <2>. QED
    BY <2>1, <2>2
<1>. QED
  BY <1>1, <1>4, <1>5, <1>6, <1>7 DEF m

LEMMA TailAt ==
  ASSUME NEW S, NEW s \in Seq(S), s # <<>>
  PROVE  /\ Tail(s) \in Seq(S) /\ Len(s) \in Nat /\ DOMAIN s = 1..Len(s) /\ Len(s) >= 1
         /\ Head(s) = s[1] /\ DOMAIN Tail(s) = 1..(Len(s) - 1)
         /\ \A i \in 1..(Len(s) - 1) : Tail(s)[i] = s[i + 1]
  OBVIOUS

\* A line that is another with e at its end; a line that is another without e.
Joined(new, e, line) ==
    /\ \A s : (\E i \in DOMAIN new : new[i] = s) <=> (s = e \/ \E i \in DOMAIN line : line[i] = s)
    /\ Distinct(new)
Follow(new, e, line) ==
    /\ \A s : (\E i \in DOMAIN new : new[i] = s) <=> (s # e /\ \E i \in DOMAIN line : line[i] = s)
    /\ Distinct(new)

LEMMA Joining ==
  ASSUME NEW line \in Seq(Requests), Distinct(line), NEW e \in Requests,
         \A i \in DOMAIN line : line[i] # e
  PROVE  Joined(Append(line, e), e, line)
<1>. DEFINE m == Len(line)
            new == Append(line, e)
<1>1. /\ m \in Nat /\ DOMAIN line = 1..m /\ DOMAIN new = 1..(m + 1)
      /\ new[m + 1] = e /\ \A i \in 1..m : new[i] = line[i]
  BY AppendAt
<1>. HIDE DEF m, new
<1>2. /\ m + 1 \in DOMAIN new /\ DOMAIN line \subseteq DOMAIN new
      /\ \A i \in DOMAIN new : i = m + 1 \/ i \in DOMAIN line
  BY <1>1
<1>3. \A i \in DOMAIN line : new[i] = line[i]
  BY <1>1
<1>4. \A s : (\E i \in DOMAIN new : new[i] = s) <=> (s = e \/ \E i \in DOMAIN line : line[i] = s)
  BY <1>1, <1>2, <1>3, Zenon
<1>5. Distinct(new)
  <2>1. ASSUME NEW i \in DOMAIN new, NEW j \in DOMAIN new, new[i] = new[j]
        PROVE  i = j
    <3>1. CASE i \in DOMAIN line /\ j \in DOMAIN line
      BY <1>3, <2>1, <3>1, Zenon DEF Distinct
    <3>2. CASE i = m + 1 /\ j \in DOMAIN line
      BY <1>1, <1>3, <2>1, <3>2, Zenon
    <3>3. CASE i \in DOMAIN line /\ j = m + 1
      BY <1>1, <1>3, <2>1, <3>3, Zenon
    <3>. QED
      BY <1>2, <3>1, <3>2, <3>3, Zenon
  <2>. QED
    BY <2>1 DEF Distinct
<1>. QED
  BY <1>4, <1>5 DEF Joined, new

\* Behind the first of a line stand the others.
LEMMA Behind ==
  ASSUME NEW line \in Seq(Requests), line # <<>>, Distinct(line)
  PROVE  /\ Tail(line) \in Seq(Requests) /\ 1 \in DOMAIN line /\ Head(line) = line[1]
         /\ Follow(Tail(line), Head(line), line)
<1>. DEFINE m == Len(line)
            new == Tail(line)
            h == Head(line)
<1>1. /\ new \in Seq(Requests) /\ m \in Nat /\ DOMAIN line = 1..m /\ m >= 1
      /\ h = line[1] /\ DOMAIN new = 1..(m - 1)
      /\ \A i \in 1..(m - 1) : new[i] = line[i + 1]
  BY TailAt
<1>. HIDE DEF m, new, h
<1>2. 1 \in 1..m /\ (\A i, j \in 1..m : line[i] = line[j] => i = j)
  <2>1. 1 \in 1..m
    BY <1>1
  <2>2. DOMAIN line = 1..m
    BY <1>1
  <2>. QED
    BY <2>1, <2>2, Zenon DEF Distinct
<1>3. ASSUME NEW s
      PROVE  (\E i \in DOMAIN new : new[i] = s) <=> (s # h /\ \E i \in DOMAIN line : line[i] = s)
  <2>1. ASSUME NEW i \in DOMAIN new, new[i] = s
        PROVE  s # h /\ \E j \in DOMAIN line : line[j] = s
    <3>1. i + 1 \in 1..m /\ i + 1 # 1 /\ line[i + 1] = s
      BY <1>1, <2>1
    <3>. QED
      BY <1>1, <1>2, <3>1
  <2>2. ASSUME s # h, NEW j \in DOMAIN line, line[j] = s
        PROVE  \E i \in DOMAIN new : new[i] = s
    <3>1. j # 1
      BY <1>1, <2>2
    <3>2. j - 1 \in 1..(m - 1) /\ (j - 1) + 1 = j
      BY <1>1, <3>1
    <3>3. j - 1 \in DOMAIN new /\ new[j - 1] = s
      BY <1>1, <2>2, <3>2
    <3>. QED
      BY <3>3
  <2>. QED
    BY <2>1, <2>2
<1>4. ASSUME NEW i \in DOMAIN new, NEW j \in DOMAIN new, new[i] = new[j]
      PROVE  i = j
  <2>1. i + 1 \in 1..m /\ j + 1 \in 1..m /\ line[i + 1] = line[j + 1] /\ i \in Int /\ j \in Int
    BY <1>1, <1>4
  <2>2. i + 1 = j + 1
    BY <1>2, <2>1
  <2>. QED
    BY <2>1, <2>2
<1>. QED
  <2>1. Follow(new, h, line)
    BY <1>3, <1>4 DEF Follow, Distinct
  <2>. QED
    BY <1>1, <1>2, <2>1 DEF new, h

\* Who gives up leaves the line where it stood, and the others close up.
LEMMA Without ==
  ASSUME NEW line \in Seq(Requests), Distinct(line), NEW k \in DOMAIN line
  PROVE  RemoveAt(line, k) \in Seq(Requests) /\ Follow(RemoveAt(line, k), line[k], line)
<1>. DEFINE m == Len(line)
            new == RemoveAt(line, k)
<1>1. k \in 1..Len(line)
  OBVIOUS
<1>2. /\ new \in Seq(Requests) /\ m \in Nat /\ DOMAIN line = 1..m /\ k \in 1..m
      /\ DOMAIN new = 1..(m - 1)
      /\ \A i \in 1..(m - 1) : new[i] = IF i < k THEN line[i] ELSE line[i + 1]
  BY <1>1, RemoveAtAt
<1>. HIDE DEF m, new
<1>3. \A i, j \in DOMAIN line : line[i] = line[j] => i = j
  BY DEF Distinct
<1>. DEFINE old(i) == IF i < k THEN i ELSE i + 1
<1>4. \A i \in DOMAIN new : old(i) \in DOMAIN line /\ old(i) # k /\ new[i] = line[old(i)]
  BY <1>2
<1>5. \A j \in DOMAIN line : j # k => \E i \in DOMAIN new : old(i) = j
  <2>1. ASSUME NEW j \in DOMAIN line, j # k
        PROVE  \E i \in DOMAIN new : old(i) = j
    <3>1. CASE j < k
      <4>1. j \in DOMAIN new /\ old(j) = j
        BY <1>2, <2>1, <3>1
      <4>. QED
        BY <4>1
    <3>2. CASE j > k
      <4>1. j - 1 \in DOMAIN new /\ old(j - 1) = j
        BY <1>2, <2>1, <3>2
      <4>. QED
        BY <4>1
    <3>. QED
      BY <1>2, <2>1, <3>1, <3>2
  <2>. QED
    BY <2>1
<1>6. \A i, j \in DOMAIN new : old(i) = old(j) => i = j
  BY <1>2
<1>. HIDE DEF old
<1>7. \A s : (\E i \in DOMAIN new : new[i] = s) <=> (s # line[k] /\ \E i \in DOMAIN line : line[i] = s)
  BY <1>3, <1>4, <1>5
<1>8. Distinct(new)
  BY <1>3, <1>4, <1>6 DEF Distinct
<1>. QED
  BY <1>2, <1>7, <1>8 DEF Follow, new

\* Who is in a line that somebody joined, or left.
LEMMA InJoined ==
  ASSUME NEW line, NEW new, NEW e \in Requests, NEW S, InLine(line, S), Joined(new, e, line)
  PROVE  InLine(new, S \cup {e})
  BY DEF InLine, Joined

LEMMA InFollowed ==
  ASSUME NEW line, NEW new, NEW e \in Requests, NEW S, InLine(line, S), Follow(new, e, line)
  PROVE  InLine(new, S \ {e})
  BY DEF InLine, Follow

-----------------------------------------------------------------------------
(* A step within one entry                                                 *)

\* The other entries are as they were.
LEMMA OthersKept ==
  ASSUME NEW b \in Admissions, Counted(b), Lined(b), adm'[b] = adm[b],
         \A q \in Requests : req'[q] = req[q] \/ (req[q].adm # b /\ req'[q].adm # b)
  PROVE  (Counted(b) /\ Lined(b))'
<1>1. \A places : At(b, places)' = At(b, places)
  BY DEF At
<1>. QED
  BY <1>1 DEF Counted, Lined

\* A step of r, and perhaps of another request of its entry, keeps the invariant if
\* it does so for that entry.
LEMMA WithinEntry ==
  ASSUME AdmissionInv, NEW a, tenants' = tenants, TypeOK', Gateway',
         \A q \in Requests : \/ req'[q] = req[q]
                             \/ req[q].adm = a /\ req'[q].adm \in {a, None} /\ Attached(q)',
         \A b \in Admissions \ {a} : adm'[b] = adm[b],
         Counted(a)', Lined(a)'
  PROVE  AdmissionInv'
<1>1. Separate' /\ Used' = Used
  BY DEF AdmissionInv, Separate, Used
<1>2. \A q \in Requests : Attached(q)'
  BY DEF AdmissionInv, Attached
<1>3. ASSUME NEW b \in Used, b # a
      PROVE  (Counted(b) /\ Lined(b))'
  <2>1. b \in Admissions /\ b # None
    BY DEF AdmissionInv, TypeOK, Used, Admissions, None
  <2>2. Counted(b) /\ Lined(b)
    BY DEF AdmissionInv
  <2>3. \A q \in Requests : req'[q] = req[q] \/ (req[q].adm # b /\ req'[q].adm # b)
    BY <1>3, <2>1
  <2>. QED
    BY <1>3, <2>1, <2>2, <2>3, OthersKept
<1>. QED
  BY <1>1, <1>2, <1>3 DEF AdmissionInv

\* A request that holds an entry is counted by it.
LEMMA HeldEntry ==
  ASSUME AdmissionInv, NEW r \in Requests, req[r].pc \in Holding
  PROVE  LET a == req[r].adm IN
         /\ a \in Used /\ a \in Admissions /\ a # None
         /\ Counted(a) /\ Lined(a) /\ adm[a] \in Entry
         /\ req[r].tenant \in DOMAIN tenants /\ tenants[req[r].tenant] = a
<1>1. req[r].tenant \in DOMAIN tenants /\ tenants[req[r].tenant] = req[r].adm
  BY DEF AdmissionInv, Attached
<1>2. req[r].adm \in Used /\ req[r].adm \in Admissions /\ adm[req[r].adm] \in Entry
  BY <1>1 DEF AdmissionInv, TypeOK, Used
<1>3. req[r].adm # None
  BY <1>2, AdmissionBounds, RequestsFinite DEF Admissions, None
<1>. QED
  BY <1>1, <1>2, <1>3 DEF AdmissionInv

-----------------------------------------------------------------------------
(* A step of one request                                                   *)

\* Of the requests only r moves, within its entry a or out of it, and of the entries
\* only a changes.
Moves(r, a) ==
    /\ req' \in [Requests -> Request] /\ \A q \in Requests \ {r} : req'[q] = req[q]
    /\ IF req'[r].pc \in Holding THEN req'[r].adm = a /\ req'[r].tenant = req[r].tenant
                                 ELSE req'[r].adm = None
Changes(a) ==
    /\ adm' \in [Admissions -> Entry] /\ \A b \in Admissions \ {a} : adm'[b] = adm[b]
    /\ tenants' = tenants

\* What r counts for at its place.
One(place, places) == IF place \in places THEN 1 ELSE 0

\* The requests at some places of the entry of the one that moves.
LEMMA AtAfter ==
  ASSUME NEW r \in Requests, NEW a, req[r].adm = a, Moves(r, a),
         NEW places, places \subseteq Holding
  PROVE  At(a, places)' = IF req'[r].pc \in places THEN At(a, places) \cup {r}
                                                   ELSE At(a, places) \ {r}
<1>1. ASSUME NEW q \in Requests
      PROVE  q \in At(a, places)' <=> IF q = r THEN req'[r].pc \in places
                                               ELSE q \in At(a, places)
  BY DEF Moves, At
<1>2. At(a, places)' \subseteq Requests /\ At(a, places) \subseteq Requests
  BY DEF At
<1>. QED
  BY <1>1, <1>2

LEMMA CountAfter ==
  ASSUME NEW r \in Requests, NEW a, req[r].adm = a, Moves(r, a),
         NEW places, places \subseteq Holding
  PROVE  /\ Cardinality(At(a, places)) \in Nat
         /\ Cardinality(At(a, places)') =
               Cardinality(At(a, places)) - One(req[r].pc, places) + One(req'[r].pc, places)
<1>. DEFINE S == At(a, places)
            p == req[r].pc
            pp == req'[r].pc
<1>1. S \in SUBSET Requests /\ (r \in S <=> p \in places)
  BY AtSubset, AtMember
<1>2. At(a, places)' = IF pp \in places THEN S \cup {r} ELSE S \ {r}
  BY AtAfter
<1>. HIDE DEF S, p, pp
<1>3. Cardinality(S) \in Nat
  BY <1>1, RequestsFinite
<1>4. CASE p \in places /\ pp \in places
  <2>1. At(a, places)' = S /\ One(p, places) = 1 /\ One(pp, places) = 1
    BY <1>1, <1>2, <1>4 DEF One
  <2>. QED
    BY <1>3, <2>1 DEF S, p, pp
<1>5. CASE p \in places /\ pp \notin places
  <2>1. At(a, places)' = S \ {r} /\ One(p, places) = 1 /\ One(pp, places) = 0
    BY <1>1, <1>2, <1>5 DEF One
  <2>2. Cardinality(S \ {r}) = Cardinality(S) - 1
    BY <1>1, <1>5, Leaves
  <2>. QED
    BY <1>3, <2>1, <2>2 DEF S, p, pp
<1>6. CASE p \notin places /\ pp \in places
  <2>1. At(a, places)' = S \cup {r} /\ One(p, places) = 0 /\ One(pp, places) = 1
    BY <1>1, <1>2, <1>6 DEF One
  <2>2. Cardinality(S \cup {r}) = Cardinality(S) + 1
    BY <1>1, <1>6, Joins
  <2>. QED
    BY <1>3, <2>1, <2>2 DEF S, p, pp
<1>7. CASE p \notin places /\ pp \notin places
  <2>1. At(a, places)' = S /\ One(p, places) = 0 /\ One(pp, places) = 0
    BY <1>1, <1>2, <1>7 DEF One
  <2>. QED
    BY <1>3, <2>1 DEF S, p, pp
<1>. QED
  BY <1>4, <1>5, <1>6, <1>7

\* The gateway's permits are untouched by a move that stays out of it, or in it.
LEMMA GatewayAfter ==
  ASSUME AdmissionInv, NEW r \in Requests, NEW a, Moves(r, a), global' = global,
         req'[r].pc \in {"running", "leaving"} <=> req[r].pc \in {"running", "leaving"}
  PROVE  Gateway' /\ global' \in Nat
<1>1. Inside' = Inside
  BY DEF Moves, Inside
<1>. QED
  BY <1>1 DEF AdmissionInv, Gateway, TypeOK

\* A move of r alone is sound if the entry's numbers change by what r gives and takes.
LEMMA Shifts ==
  ASSUME AdmissionInv, NEW r \in Requests, NEW a, a = req[r].adm, req[r].pc \in Holding,
         Moves(r, a), Changes(a),
         adm'[a].free = adm[a].free + One(req[r].pc, Permitted) - One(req'[r].pc, Permitted),
         adm'[a].queued = adm[a].queued - One(req[r].pc, Queued) + One(req'[r].pc, Queued),
         adm'[a].queued <= MaxQueue,
         global' \in Nat, Gateway', Lined(a)'
  PROVE  AdmissionInv'
<1>1. /\ a \in Admissions /\ Counted(a) /\ adm[a] \in Entry /\ a # None
      /\ req[r].tenant \in DOMAIN tenants /\ tenants[req[r].tenant] = a
  BY HeldEntry
<1>2. Permitted \subseteq Holding /\ Queued \subseteq Holding
  BY DEF Permitted, Queued, Holding, Acquiring
<1>3. Counted(a)'
  <2>. DEFINE P == Cardinality(At(a, Permitted))
              Q == Cardinality(At(a, Queued))
              PP == Cardinality(At(a, Permitted)')
              QQ == Cardinality(At(a, Queued)')
              p == One(req[r].pc, Permitted)
              pp == One(req'[r].pc, Permitted)
              q == One(req[r].pc, Queued)
              qq == One(req'[r].pc, Queued)
  <2>1. P \in Nat /\ PP = P - p + pp /\ Q \in Nat /\ QQ = Q - q + qq
    BY <1>2, CountAfter
  <2>2. adm[a].free + P = MaxConcurrent /\ adm[a].queued = Q
        /\ adm[a].free \in Nat /\ adm[a].queued \in Nat
    BY <1>1 DEF Counted, Entry
  <2>3. p \in Int /\ pp \in Int /\ q \in Int /\ qq \in Int
    BY DEF One
  <2>4. adm'[a].free = adm[a].free + p - pp /\ adm'[a].queued = adm[a].queued - q + qq
    OBVIOUS
  <2>. HIDE DEF P, Q, PP, QQ, p, pp, q, qq
  <2>5. adm'[a].free + PP = MaxConcurrent /\ adm'[a].queued = QQ
    BY <2>1, <2>2, <2>3, <2>4, AdmissionBounds
  <2>. QED
    BY <2>5 DEF Counted, PP, QQ
<1>4. Attached(r)'
  BY <1>1 DEF Attached, Moves, Changes
<1>5. TypeOK'
  BY DEF AdmissionInv, TypeOK, Moves, Changes
<1>6. \A q \in Requests : \/ req'[q] = req[q]
                          \/ req[q].adm = a /\ req'[q].adm \in {a, None} /\ Attached(q)'
  BY <1>4 DEF Moves
<1>. QED
  BY <1>3, <1>5, <1>6, WithinEntry DEF Changes

\* A move of r alone that does not touch the line.
LEMMA Passes ==
  ASSUME AdmissionInv, NEW r \in Requests, NEW a, a = req[r].adm, req[r].pc \in Holding,
         req[r].pc # "waiting", req'[r].pc # "waiting",
         Moves(r, a), Changes(a),
         adm'[a].free = adm[a].free + One(req[r].pc, Permitted) - One(req'[r].pc, Permitted),
         adm'[a].queued = adm[a].queued - One(req[r].pc, Queued) + One(req'[r].pc, Queued),
         adm'[a].queued <= MaxQueue, adm'[a].waiters = adm[a].waiters,
         global' \in Nat, Gateway'
  PROVE  AdmissionInv'
<1>1. At(a, {"waiting"})' = At(a, {"waiting"})
  <2>1. At(a, {"waiting"})' = At(a, {"waiting"}) \ {r}
    <3>1. {"waiting"} \subseteq Holding /\ req'[r].pc \notin {"waiting"}
      BY DEF Holding, Acquiring
    <3>. QED
      BY <3>1, AtAfter
  <2>2. r \notin At(a, {"waiting"})
    BY AtMember
  <2>. QED
    BY <2>1, <2>2
<1>2. Lined(a)
  BY HeldEntry
<1>3. Lined(a)'
  BY <1>1, <1>2 DEF Lined
<1>. QED
  BY <1>3, Shifts

-----------------------------------------------------------------------------
(* The actions                                                             *)

\* Moves of the two kinds that the actions make.
LEMMA GoesTo ==
  ASSUME AdmissionInv, NEW r \in Requests, req[r].pc \in Holding,
         NEW place \in Holding, Goto(r, place)
  PROVE  Moves(r, req[r].adm) /\ req'[r].pc = place
<1>1. req \in [Requests -> Request]
  BY DEF AdmissionInv, TypeOK
<1>2. [req[r] EXCEPT !.pc = place] \in Request
  BY <1>1 DEF Request, Places
<1>3. req' = [req EXCEPT ![r] = [req[r] EXCEPT !.pc = place]]
  BY <1>1 DEF Goto
<1>4. req' \in [Requests -> Request] /\ \A q \in Requests \ {r} : req'[q] = req[q]
  BY <1>1, <1>2, <1>3
<1>5. req'[r].pc = place /\ req'[r].adm = req[r].adm /\ req'[r].tenant = req[r].tenant
  BY <1>1, <1>3 DEF Request
<1>. QED
  BY <1>4, <1>5 DEF Moves

LEMMA GoesOut ==
  ASSUME AdmissionInv, NEW r \in Requests, NEW place \in {"outside", "overloaded", "leaving"},
         req' = [req EXCEPT ![r] = [Outside EXCEPT !.pc = place]], NEW a
  PROVE  Moves(r, a) /\ req'[r].pc = place
<1>1. req \in [Requests -> Request]
  BY DEF AdmissionInv, TypeOK
<1>2. [Outside EXCEPT !.pc = place] = [pc |-> place, tenant |-> None, adm |-> None]
  BY DEF Outside
<1>3. [pc |-> place, tenant |-> None, adm |-> None] \in Request /\ place \notin Holding
  BY DEF Request, Places, Holding, Acquiring
<1>. QED
  BY <1>1, <1>2, <1>3 DEF Moves

\* An entry with one of its parts replaced.
LEMMA PartSet ==
  ASSUME NEW x \in Entry, NEW v
  PROVE  /\ [x EXCEPT !.free = v] = [free |-> v, waiters |-> x.waiters, queued |-> x.queued]
         /\ [x EXCEPT !.waiters = v] = [free |-> x.free, waiters |-> v, queued |-> x.queued]
         /\ [x EXCEPT !.queued = v] = [free |-> x.free, waiters |-> x.waiters, queued |-> v]
<1>1. PICK W : W = Seq(Requests)
  OBVIOUS
<1>2. x \in [free : Nat, waiters : W, queued : Nat]
  BY <1>1 DEF Entry
<1>3. [x EXCEPT !.free = v] = [free |-> v, waiters |-> x.waiters, queued |-> x.queued]
  BY <1>2
<1>4. [x EXCEPT !.waiters = v] = [free |-> x.free, waiters |-> v, queued |-> x.queued]
  BY <1>2
<1>5. [x EXCEPT !.queued = v] = [free |-> x.free, waiters |-> x.waiters, queued |-> v]
  BY <1>2
<1>. QED
  BY <1>3, <1>4, <1>5

\* Changes of an entry, by what they leave it with.
LEMMA FreeSet ==
  ASSUME AdmissionInv, NEW a \in Admissions, NEW f \in Nat,
         adm' = [adm EXCEPT ![a].free = f], tenants' = tenants
  PROVE  /\ Changes(a)
         /\ adm'[a].free = f /\ adm'[a].queued = adm[a].queued
         /\ adm'[a].waiters = adm[a].waiters
<1>. DEFINE e == [free |-> f, waiters |-> adm[a].waiters, queued |-> adm[a].queued]
<1>1. adm \in [Admissions -> Entry] /\ adm[a] \in Entry
  BY DEF AdmissionInv, TypeOK
<1>2. e \in Entry
  BY <1>1 DEF Entry
<1>3. adm' = [adm EXCEPT ![a] = e]
  <2>1. [adm[a] EXCEPT !.free = f] = e
    BY <1>1, PartSet
  <2>2. adm' = [adm EXCEPT ![a] = [adm[a] EXCEPT !.free = f]]
    BY <1>1
  <2>. QED
    BY <2>1, <2>2
<1>4. e.free = f /\ e.waiters = adm[a].waiters /\ e.queued = adm[a].queued
  OBVIOUS
<1>. HIDE DEF e
<1>5. adm' \in [Admissions -> Entry] /\ adm'[a] = e /\ \A b \in Admissions \ {a} : adm'[b] = adm[b]
  BY <1>1, <1>2, <1>3
<1>. QED
  BY <1>4, <1>5 DEF Changes

LEMMA QueuedSet ==
  ASSUME AdmissionInv, NEW a \in Admissions, NEW q \in Nat,
         adm' = [adm EXCEPT ![a].queued = q], tenants' = tenants
  PROVE  /\ Changes(a)
         /\ adm'[a].free = adm[a].free /\ adm'[a].queued = q
         /\ adm'[a].waiters = adm[a].waiters
<1>. DEFINE e == [free |-> adm[a].free, waiters |-> adm[a].waiters, queued |-> q]
<1>1. adm \in [Admissions -> Entry] /\ adm[a] \in Entry
  BY DEF AdmissionInv, TypeOK
<1>2. e \in Entry
  BY <1>1 DEF Entry
<1>3. adm' = [adm EXCEPT ![a] = e]
  <2>1. [adm[a] EXCEPT !.queued = q] = e
    BY <1>1, PartSet
  <2>2. adm' = [adm EXCEPT ![a] = [adm[a] EXCEPT !.queued = q]]
    BY <1>1
  <2>. QED
    BY <2>1, <2>2
<1>4. e.free = adm[a].free /\ e.waiters = adm[a].waiters /\ e.queued = q
  OBVIOUS
<1>. HIDE DEF e
<1>5. adm' \in [Admissions -> Entry] /\ adm'[a] = e /\ \A b \in Admissions \ {a} : adm'[b] = adm[b]
  BY <1>1, <1>2, <1>3
<1>. QED
  BY <1>4, <1>5 DEF Changes

SetsFree(a, f, q) == adm' = [adm EXCEPT ![a].free = f, ![a].queued = q]
SetsWaiters(a, w, q) == adm' = [adm EXCEPT ![a].waiters = w, ![a].queued = q]

LEMMA FreeQueuedSet ==
  ASSUME AdmissionInv, NEW a \in Admissions, NEW f \in Nat, NEW q \in Nat,
         SetsFree(a, f, q), tenants' = tenants
  PROVE  /\ Changes(a)
         /\ adm'[a].free = f /\ adm'[a].queued = q
         /\ adm'[a].waiters = adm[a].waiters
<1>. DEFINE e == [free |-> f, waiters |-> adm[a].waiters, queued |-> q]
<1>1. adm \in [Admissions -> Entry] /\ adm[a] \in Entry
  BY DEF AdmissionInv, TypeOK
<1>2. e \in Entry
  BY <1>1 DEF Entry
<1>3. adm' = [adm EXCEPT ![a] = e]
  <2>. DEFINE m == [adm EXCEPT ![a].free = f]
              n == [adm[a] EXCEPT !.free = f]
  <2>1. adm' = [m EXCEPT ![a].queued = q]
    BY DEF SetsFree
  <2>2. DOMAIN m = Admissions /\ m[a] = n /\ \A b \in Admissions \ {a} : m[b] = adm[b]
    BY <1>1
  <2>3. n \in Entry /\ [n EXCEPT !.queued = q] = e
    <3>1. n = [free |-> f, waiters |-> adm[a].waiters, queued |-> adm[a].queued]
      BY <1>1, PartSet
    <3>2. n \in Entry /\ n.free = f /\ n.waiters = adm[a].waiters
      BY <1>1, <3>1 DEF Entry
    <3>. HIDE DEF n
    <3>3. [n EXCEPT !.queued = q] = [free |-> n.free, waiters |-> n.waiters, queued |-> q]
      BY <3>2, PartSet
    <3>. QED
      BY <3>2, <3>3
  <2>. HIDE DEF m, n, e
  <2>4. adm' = [m EXCEPT ![a] = e]
    BY <2>1, <2>2, <2>3
  <2>. QED
    BY <1>1, <2>2, <2>4
<1>4. e.free = f /\ e.waiters = adm[a].waiters /\ e.queued = q
  OBVIOUS
<1>. HIDE DEF e
<1>5. adm' \in [Admissions -> Entry] /\ adm'[a] = e /\ \A b \in Admissions \ {a} : adm'[b] = adm[b]
  BY <1>1, <1>2, <1>3
<1>. QED
  BY <1>4, <1>5 DEF Changes

LEMMA WaitersSet ==
  ASSUME AdmissionInv, NEW a \in Admissions, NEW w \in Seq(Requests),
         adm' = [adm EXCEPT ![a].waiters = w], tenants' = tenants
  PROVE  /\ Changes(a)
         /\ adm'[a].free = adm[a].free /\ adm'[a].queued = adm[a].queued
         /\ adm'[a].waiters = w
<1>. DEFINE e == [free |-> adm[a].free, waiters |-> w, queued |-> adm[a].queued]
<1>1. adm \in [Admissions -> Entry] /\ adm[a] \in Entry
  BY DEF AdmissionInv, TypeOK
<1>2. e \in Entry
  BY <1>1 DEF Entry
<1>3. adm' = [adm EXCEPT ![a] = e]
  <2>1. [adm[a] EXCEPT !.waiters = w] = e
    BY <1>1, PartSet
  <2>2. adm' = [adm EXCEPT ![a] = [adm[a] EXCEPT !.waiters = w]]
    BY <1>1
  <2>. QED
    BY <2>1, <2>2
<1>4. e.free = adm[a].free /\ e.waiters = w /\ e.queued = adm[a].queued
  OBVIOUS
<1>. HIDE DEF e
<1>5. adm' \in [Admissions -> Entry] /\ adm'[a] = e /\ \A b \in Admissions \ {a} : adm'[b] = adm[b]
  BY <1>1, <1>2, <1>3
<1>. QED
  BY <1>4, <1>5 DEF Changes

LEMMA WaitersQueuedSet ==
  ASSUME AdmissionInv, NEW a \in Admissions, NEW w \in Seq(Requests), NEW q \in Nat,
         SetsWaiters(a, w, q), tenants' = tenants
  PROVE  /\ Changes(a)
         /\ adm'[a].free = adm[a].free /\ adm'[a].queued = q
         /\ adm'[a].waiters = w
<1>. DEFINE e == [free |-> adm[a].free, waiters |-> w, queued |-> q]
<1>1. adm \in [Admissions -> Entry] /\ adm[a] \in Entry
  BY DEF AdmissionInv, TypeOK
<1>2. e \in Entry
  BY <1>1 DEF Entry
<1>3. adm' = [adm EXCEPT ![a] = e]
  <2>. DEFINE m == [adm EXCEPT ![a].waiters = w]
              n == [adm[a] EXCEPT !.waiters = w]
  <2>1. adm' = [m EXCEPT ![a].queued = q]
    BY DEF SetsWaiters
  <2>2. DOMAIN m = Admissions /\ m[a] = n /\ \A b \in Admissions \ {a} : m[b] = adm[b]
    BY <1>1
  <2>3. n \in Entry /\ [n EXCEPT !.queued = q] = e
    <3>1. n = [free |-> adm[a].free, waiters |-> w, queued |-> adm[a].queued]
      BY <1>1, PartSet
    <3>2. n \in Entry /\ n.waiters = w /\ n.free = adm[a].free
      BY <1>1, <3>1 DEF Entry
    <3>. HIDE DEF n
    <3>3. [n EXCEPT !.queued = q] = [free |-> n.free, waiters |-> n.waiters, queued |-> q]
      BY <3>2, PartSet
    <3>. QED
      BY <3>2, <3>3
  <2>. HIDE DEF m, n, e
  <2>4. adm' = [m EXCEPT ![a] = e]
    BY <2>1, <2>2, <2>3
  <2>. QED
    BY <1>1, <2>2, <2>4
<1>4. e.free = adm[a].free /\ e.waiters = w /\ e.queued = q
  OBVIOUS
<1>. HIDE DEF e
<1>5. adm' \in [Admissions -> Entry] /\ adm'[a] = e /\ \A b \in Admissions \ {a} : adm'[b] = adm[b]
  BY <1>1, <1>2, <1>3
<1>. QED
  BY <1>4, <1>5 DEF Changes

LEMMA NothingSet ==
  ASSUME AdmissionInv, NEW a, adm' = adm, tenants' = tenants
  PROVE  Changes(a) /\ adm'[a] = adm[a]
  BY DEF AdmissionInv, TypeOK, Changes

LEMMA TryTenantKeeps ==
  ASSUME AdmissionInv, NEW r \in Requests, NEW a, a = req[r].adm, TryTenant(r)
  PROVE  AdmissionInv'
<1>1. req[r].pc = "found" /\ req[r].pc \in Holding
  BY DEF TryTenant, Holding, Acquiring
<1>2. a \in Admissions /\ adm[a] \in Entry /\ adm[a].queued <= MaxQueue
  BY <1>1, HeldEntry DEF Counted
<1>3. adm[a].free \in Nat /\ adm[a].queued \in Nat
  BY <1>2 DEF Entry
<1>4. tenants' = tenants /\ global' = global
  BY DEF TryTenant
<1>5. CASE adm[a].free > 0
  <2>1. Goto(r, "tenant") /\ adm' = [adm EXCEPT ![a].free = adm[a].free - 1]
    BY <1>5 DEF TryTenant
  <2>2. Moves(r, a) /\ req'[r].pc = "tenant"
    BY <1>1, <2>1, GoesTo DEF Holding, Acquiring
  <2>3. adm[a].free - 1 \in Nat
    BY <1>3, <1>5
  <2>4. /\ Changes(a) /\ adm'[a].free = adm[a].free - 1 /\ adm'[a].queued = adm[a].queued
        /\ adm'[a].waiters = adm[a].waiters
    BY <1>2, <1>4, <2>1, <2>3, FreeSet
  <2>5. Gateway' /\ global' \in Nat
    BY <1>1, <1>4, <2>2, GatewayAfter
  <2>6. /\ One(req[r].pc, Permitted) = 0 /\ One(req'[r].pc, Permitted) = 1
        /\ One(req[r].pc, Queued) = 0 /\ One(req'[r].pc, Queued) = 0
    BY <1>1, <2>2 DEF One, Permitted, Queued
  <2>. QED
    BY <1>1, <1>2, <1>3, <2>2, <2>4, <2>5, <2>6, Passes
<1>6. CASE ~(adm[a].free > 0)
  <2>1. Goto(r, "full") /\ adm' = adm
    BY <1>6 DEF TryTenant
  <2>2. Moves(r, a) /\ req'[r].pc = "full"
    BY <1>1, <2>1, GoesTo DEF Holding, Acquiring
  <2>3. Changes(a) /\ adm'[a] = adm[a]
    BY <1>4, <2>1, NothingSet
  <2>4. Gateway' /\ global' \in Nat
    BY <1>1, <1>4, <2>2, GatewayAfter
  <2>5. /\ One(req[r].pc, Permitted) = 0 /\ One(req'[r].pc, Permitted) = 0
        /\ One(req[r].pc, Queued) = 0 /\ One(req'[r].pc, Queued) = 0
    BY <1>1, <2>2 DEF One, Permitted, Queued
  <2>. QED
    BY <1>1, <1>2, <1>3, <2>2, <2>3, <2>4, <2>5, Passes
<1>. QED
  BY <1>5, <1>6

LEMMA ReserveKeeps ==
  ASSUME AdmissionInv, NEW r \in Requests, NEW a, a = req[r].adm, Reserve(r)
  PROVE  AdmissionInv'
<1>1. req[r].pc = "full" /\ req[r].pc \in Holding
  BY DEF Reserve, Holding, Acquiring
<1>2. a \in Admissions /\ adm[a] \in Entry /\ adm[a].queued <= MaxQueue
  BY <1>1, HeldEntry DEF Counted
<1>3. adm[a].free \in Nat /\ adm[a].queued \in Nat /\ MaxQueue \in Nat
  BY <1>2, AdmissionBounds DEF Entry
<1>4. tenants' = tenants /\ global' = global
  BY DEF Reserve
<1>5. CASE adm[a].queued < MaxQueue
  <2>1. Goto(r, "reserved") /\ adm' = [adm EXCEPT ![a].queued = adm[a].queued + 1]
    BY <1>5 DEF Reserve
  <2>2. Moves(r, a) /\ req'[r].pc = "reserved"
    BY <1>1, <2>1, GoesTo DEF Holding, Acquiring
  <2>3. adm[a].queued + 1 \in Nat /\ adm[a].queued + 1 <= MaxQueue
    BY <1>3, <1>5
  <2>4. /\ Changes(a) /\ adm'[a].free = adm[a].free /\ adm'[a].queued = adm[a].queued + 1
        /\ adm'[a].waiters = adm[a].waiters
    BY <1>2, <1>4, <2>1, <2>3, QueuedSet
  <2>5. Gateway' /\ global' \in Nat
    BY <1>1, <1>4, <2>2, GatewayAfter
  <2>6. /\ One(req[r].pc, Permitted) = 0 /\ One(req'[r].pc, Permitted) = 0
        /\ One(req[r].pc, Queued) = 0 /\ One(req'[r].pc, Queued) = 1
    BY <1>1, <2>2 DEF One, Permitted, Queued
  <2>. QED
    BY <1>1, <1>2, <1>3, <2>2, <2>3, <2>4, <2>5, <2>6, Passes
<1>6. CASE ~(adm[a].queued < MaxQueue)
  <2>1. req' = [req EXCEPT ![r] = [Outside EXCEPT !.pc = "overloaded"]] /\ adm' = adm
    BY <1>6 DEF Reserve
  <2>2. Moves(r, a) /\ req'[r].pc = "overloaded"
    BY <2>1, GoesOut
  <2>3. Changes(a) /\ adm'[a] = adm[a]
    BY <1>4, <2>1, NothingSet
  <2>4. Gateway' /\ global' \in Nat
    BY <1>1, <1>4, <2>2, GatewayAfter
  <2>5. /\ One(req[r].pc, Permitted) = 0 /\ One(req'[r].pc, Permitted) = 0
        /\ One(req[r].pc, Queued) = 0 /\ One(req'[r].pc, Queued) = 0
    BY <1>1, <2>2 DEF One, Permitted, Queued
  <2>. QED
    BY <1>1, <1>2, <1>3, <2>2, <2>3, <2>4, <2>5, Passes
<1>. QED
  BY <1>5, <1>6

\* Who joins the line was not in it, and is its last.
LEMMA LineJoined ==
  ASSUME AdmissionInv, NEW r \in Requests, NEW a, a = req[r].adm, req[r].pc \in Holding,
         req[r].pc # "waiting", req'[r].pc = "waiting", Moves(r, a),
         NEW line, line = adm[a].waiters, NEW new, Joined(new, r, line), adm'[a].waiters = new
  PROVE  Lined(a)'
<1>1. InLine(line, At(a, {"waiting"}))
  BY HeldEntry DEF Lined
<1>2. At(a, {"waiting"})' = At(a, {"waiting"}) \cup {r}
  <2>1. {"waiting"} \subseteq Holding /\ req'[r].pc \in {"waiting"}
    BY DEF Holding, Acquiring
  <2>. QED
    BY <2>1, AtAfter
<1>3. InLine(new, At(a, {"waiting"}) \cup {r})
  BY <1>1, InJoined
<1>. QED
  BY <1>2, <1>3 DEF Lined

LEMMA EnqueueKeeps ==
  ASSUME AdmissionInv, NEW r \in Requests, NEW a, a = req[r].adm, Enqueue(r)
  PROVE  AdmissionInv'
<1>1. req[r].pc = "reserved" /\ req[r].pc \in Holding
  BY DEF Enqueue, Holding, Acquiring
<1>2. a \in Admissions /\ adm[a] \in Entry /\ adm[a].queued <= MaxQueue
  BY <1>1, HeldEntry DEF Counted
<1>3. adm[a].free \in Nat /\ adm[a].queued \in Nat /\ adm[a].waiters \in Seq(Requests)
  BY <1>2 DEF Entry
<1>4. tenants' = tenants /\ global' = global
  BY DEF Enqueue
<1>5. CASE adm[a].free > 0
  <2>1. Goto(r, "granted") /\ adm' = [adm EXCEPT ![a].free = adm[a].free - 1]
    BY <1>5 DEF Enqueue
  <2>2. Moves(r, a) /\ req'[r].pc = "granted"
    BY <1>1, <2>1, GoesTo DEF Holding, Acquiring
  <2>3. adm[a].free - 1 \in Nat
    BY <1>3, <1>5
  <2>4. /\ Changes(a) /\ adm'[a].free = adm[a].free - 1 /\ adm'[a].queued = adm[a].queued
        /\ adm'[a].waiters = adm[a].waiters
    BY <1>2, <1>4, <2>1, <2>3, FreeSet
  <2>5. Gateway' /\ global' \in Nat
    BY <1>1, <1>4, <2>2, GatewayAfter
  <2>6. /\ One(req[r].pc, Permitted) = 0 /\ One(req'[r].pc, Permitted) = 1
        /\ One(req[r].pc, Queued) = 1 /\ One(req'[r].pc, Queued) = 1
    BY <1>1, <2>2 DEF One, Permitted, Queued
  <2>7. /\ adm'[a].free = adm[a].free + One(req[r].pc, Permitted) - One(req'[r].pc, Permitted)
        /\ adm'[a].queued = adm[a].queued - One(req[r].pc, Queued) + One(req'[r].pc, Queued)
        /\ adm'[a].queued <= MaxQueue
    <3>1. adm[a].free \in Nat /\ adm[a].queued \in Nat
      BY <1>3
    <3>. QED
      BY <1>2, <2>4, <2>6, <3>1
  <2>. QED
    BY <1>1, <2>2, <2>4, <2>5, <2>7, Passes
<1>6. CASE ~(adm[a].free > 0)
  <2>1. Goto(r, "waiting") /\ adm' = [adm EXCEPT ![a].waiters = Append(adm[a].waiters, r)]
    BY <1>6 DEF Enqueue
  <2>2. Moves(r, a) /\ req'[r].pc = "waiting"
    BY <1>1, <2>1, GoesTo DEF Holding, Acquiring
  <2>3. Append(adm[a].waiters, r) \in Seq(Requests)
    BY <1>3
  <2>4. /\ Changes(a) /\ adm'[a].free = adm[a].free /\ adm'[a].queued = adm[a].queued
        /\ adm'[a].waiters = Append(adm[a].waiters, r)
    BY <1>2, <1>4, <2>1, <2>3, WaitersSet
  <2>5. Gateway' /\ global' \in Nat
    BY <1>1, <1>4, <2>2, GatewayAfter
  <2>6. /\ One(req[r].pc, Permitted) = 0 /\ One(req'[r].pc, Permitted) = 0
        /\ One(req[r].pc, Queued) = 1 /\ One(req'[r].pc, Queued) = 1
    BY <1>1, <2>2 DEF One, Permitted, Queued
  <2>7. Lined(a)'
    <3>1. Lined(a)
      BY <1>1, HeldEntry
    <3>2. PICK line \in Seq(Requests) : line = adm[a].waiters
      BY <1>3
    <3>3. Distinct(line)
      BY <3>1, <3>2 DEF Lined, InLine
    <3>4. r \notin At(a, {"waiting"})
      BY <1>1, AtMember
    <3>5. \A i \in DOMAIN line : line[i] # r
      BY <3>1, <3>2, <3>4 DEF Lined, InLine
    <3>6. Joined(Append(line, r), r, line)
      BY <3>3, <3>5, Joining
    <3>. QED
      BY <1>1, <2>2, <2>4, <3>2, <3>6, LineJoined
  <2>8. /\ adm'[a].free = adm[a].free + One(req[r].pc, Permitted) - One(req'[r].pc, Permitted)
        /\ adm'[a].queued = adm[a].queued - One(req[r].pc, Queued) + One(req'[r].pc, Queued)
        /\ adm'[a].queued <= MaxQueue
    <3>1. adm[a].free \in Nat /\ adm[a].queued \in Nat
      BY <1>3
    <3>. QED
      BY <1>2, <2>4, <2>6, <3>1
  <2>. QED
    BY <1>1, <2>2, <2>4, <2>5, <2>7, <2>8, Shifts
<1>. QED
  BY <1>5, <1>6

\* Who has a reservation is counted.
LEMMA Reserved ==
  ASSUME AdmissionInv, NEW r \in Requests, req[r].pc \in Queued
  PROVE  adm[req[r].adm].queued >= 1
<1>. DEFINE a == req[r].adm
            S == At(a, Queued)
<1>1. Queued \subseteq Holding
  BY DEF Queued, Holding, Acquiring
<1>2. Counted(a)
  BY <1>1, HeldEntry
<1>3. S \in SUBSET Requests /\ r \in S
  BY AtSubset, AtMember
<1>4. Cardinality(S) >= 1
  BY <1>3, Leaves
<1>. QED
  BY <1>2, <1>4 DEF Counted

LEMMA WakeKeeps ==
  ASSUME AdmissionInv, NEW r \in Requests, NEW a, a = req[r].adm, Wake(r)
  PROVE  AdmissionInv'
<1>1. req[r].pc = "granted" /\ req[r].pc \in Holding /\ req[r].pc \in Queued
  BY DEF Wake, Holding, Acquiring, Queued
<1>2. a \in Admissions /\ adm[a] \in Entry /\ adm[a].queued <= MaxQueue /\ adm[a].queued >= 1
  BY <1>1, HeldEntry, Reserved DEF Counted
<1>3. adm[a].free \in Nat /\ adm[a].queued \in Nat /\ MaxQueue \in Nat
  BY <1>2, AdmissionBounds DEF Entry
<1>4. tenants' = tenants /\ global' = global
  BY DEF Wake
<1>5. Goto(r, "tenant") /\ adm' = [adm EXCEPT ![a].queued = adm[a].queued - 1]
  BY DEF Wake
<1>6. Moves(r, a) /\ req'[r].pc = "tenant"
  BY <1>1, <1>5, GoesTo DEF Holding, Acquiring
<1>7. adm[a].queued - 1 \in Nat /\ adm[a].queued - 1 <= MaxQueue
  BY <1>2, <1>3
<1>8. /\ Changes(a) /\ adm'[a].free = adm[a].free /\ adm'[a].queued = adm[a].queued - 1
      /\ adm'[a].waiters = adm[a].waiters
  BY <1>2, <1>4, <1>5, <1>7, QueuedSet
<1>9. Gateway' /\ global' \in Nat
  BY <1>1, <1>4, <1>6, GatewayAfter
<1>10. /\ One(req[r].pc, Permitted) = 1 /\ One(req'[r].pc, Permitted) = 1
       /\ One(req[r].pc, Queued) = 1 /\ One(req'[r].pc, Queued) = 0
  BY <1>1, <1>6 DEF One, Permitted, Queued
<1>. QED
  BY <1>1, <1>3, <1>6, <1>7, <1>8, <1>9, <1>10, Passes

\* Who is no longer waiting is no longer in the line.
LEMMA LineLeft ==
  ASSUME AdmissionInv, NEW r \in Requests, NEW a, a = req[r].adm, req[r].pc = "waiting",
         req'[r].pc \notin Holding, Moves(r, a),
         NEW line, line = adm[a].waiters, NEW new, Follow(new, r, line), adm'[a].waiters = new
  PROVE  Lined(a)'
<1>1. InLine(line, At(a, {"waiting"}))
  BY HeldEntry DEF Lined, Holding, Acquiring
<1>2. At(a, {"waiting"})' = At(a, {"waiting"}) \ {r}
  <2>1. {"waiting"} \subseteq Holding /\ req'[r].pc \notin {"waiting"}
    BY DEF Holding, Acquiring
  <2>. QED
    BY <2>1, AtAfter
<1>3. InLine(new, At(a, {"waiting"}) \ {r})
  BY <1>1, InFollowed
<1>. QED
  BY <1>2, <1>3 DEF Lined

LEMMA AbandonKeeps ==
  ASSUME AdmissionInv, NEW r \in Requests, NEW a, a = req[r].adm, Abandon(r)
  PROVE  AdmissionInv'
<1>. DEFINE line == adm[a].waiters
            k == CHOOSE i \in DOMAIN line : line[i] = r
<1>1. req[r].pc = "waiting" /\ req[r].pc \in Holding /\ req[r].pc \in Queued
  BY DEF Abandon, Holding, Acquiring, Queued
<1>2. /\ a \in Admissions /\ adm[a] \in Entry /\ adm[a].queued <= MaxQueue /\ adm[a].queued >= 1
      /\ Lined(a)
  BY <1>1, HeldEntry, Reserved DEF Counted
<1>3. adm[a].free \in Nat /\ adm[a].queued \in Nat /\ MaxQueue \in Nat /\ line \in Seq(Requests)
  BY <1>2, AdmissionBounds DEF Entry
<1>4. tenants' = tenants /\ global' = global
  BY DEF Abandon
<1>5. k \in DOMAIN line /\ line[k] = r
  <2>1. r \in At(a, {"waiting"})
    BY <1>1, AtMember
  <2>2. \E i \in DOMAIN line : line[i] = r
    BY <1>2, <2>1 DEF Lined, InLine
  <2>. QED
    BY <2>2
<1>6. /\ req' = [req EXCEPT ![r] = [Outside EXCEPT !.pc = "overloaded"]]
      /\ adm' = [adm EXCEPT ![a].waiters = RemoveAt(line, k), ![a].queued = adm[a].queued - 1]
  BY DEF Abandon
<1>. HIDE DEF k
<1>7. Moves(r, a) /\ req'[r].pc = "overloaded" /\ req'[r].pc \notin Holding
  BY <1>6, GoesOut DEF Holding, Acquiring
<1>8. adm[a].queued - 1 \in Nat /\ adm[a].queued - 1 <= MaxQueue
  BY <1>2, <1>3
<1>. DEFINE w == RemoveAt(line, k)
            q == adm[a].queued - 1
<1>9. w \in Seq(Requests) /\ Follow(w, r, line)
  <2>1. Distinct(line)
    BY <1>2 DEF Lined, InLine
  <2>2. PICK l \in Seq(Requests) : l = line
    BY <1>3
  <2>3. RemoveAt(l, k) \in Seq(Requests) /\ Follow(RemoveAt(l, k), l[k], l)
    BY <1>5, <2>1, <2>2, Without
  <2>. QED
    BY <1>5, <2>2, <2>3
<1>10. /\ Changes(a) /\ adm'[a].free = adm[a].free /\ adm'[a].queued = adm[a].queued - 1
       /\ adm'[a].waiters = w
  <2>1. SetsWaiters(a, w, q) /\ q \in Nat
    BY <1>6, <1>8 DEF SetsWaiters
  <2>. HIDE DEF w, q
  <2>2. /\ Changes(a) /\ adm'[a].free = adm[a].free /\ adm'[a].queued = q
        /\ adm'[a].waiters = w
    BY <1>2, <1>4, <1>9, <2>1, WaitersQueuedSet
  <2>. QED
    BY <2>2 DEF q
<1>11. Gateway' /\ global' \in Nat
  BY <1>1, <1>4, <1>7, GatewayAfter
<1>12. /\ One(req[r].pc, Permitted) = 0 /\ One(req'[r].pc, Permitted) = 0
       /\ One(req[r].pc, Queued) = 1 /\ One(req'[r].pc, Queued) = 0
  BY <1>1, <1>7 DEF One, Permitted, Queued
<1>13. Lined(a)'
  <2>. HIDE DEF w, line
  <2>1. line = adm[a].waiters
    BY DEF line
  <2>. QED
    BY <1>1, <1>7, <1>9, <1>10, <2>1, LineLeft
<1>14. /\ adm'[a].free = adm[a].free + One(req[r].pc, Permitted) - One(req'[r].pc, Permitted)
       /\ adm'[a].queued = adm[a].queued - One(req[r].pc, Queued) + One(req'[r].pc, Queued)
       /\ adm'[a].queued <= MaxQueue
  BY <1>3, <1>8, <1>10, <1>12
<1>15. Moves(r, a) /\ Changes(a)
  BY <1>7, <1>10
<1>. QED
  BY <1>1, <1>11, <1>13, <1>14, <1>15, Shifts

\* Two requests move at once: one to x, the other to "granted".
HandsTo(r, x, h) == req' = [req EXCEPT ![r] = x, ![h].pc = "granted"]

LEMMA Handed ==
  ASSUME req \in [Requests -> Request], NEW r \in Requests, NEW h \in Requests, h # r,
         NEW x \in Request, HandsTo(r, x, h)
  PROVE  /\ req' \in [Requests -> Request]
         /\ req'[r] = x /\ \A s \in Requests \ {r, h} : req'[s] = req[s]
         /\ req'[h].pc = "granted" /\ req'[h].adm = req[h].adm /\ req'[h].tenant = req[h].tenant
<1>. DEFINE m == [req EXCEPT ![r] = x]
            y == [req[h] EXCEPT !.pc = "granted"]
<1>1. req' = [m EXCEPT ![h].pc = "granted"]
  BY DEF HandsTo
<1>2. /\ m \in [Requests -> Request] /\ m[r] = x /\ m[h] = req[h]
      /\ \A s \in Requests \ {r} : m[s] = req[s]
  OBVIOUS
<1>. HIDE DEF m
<1>3. req' = [m EXCEPT ![h] = [m[h] EXCEPT !.pc = "granted"]]
  BY <1>1, <1>2
<1>4. req' = [m EXCEPT ![h] = y]
  BY <1>2, <1>3
<1>5. y \in Request /\ y.pc = "granted" /\ y.adm = req[h].adm /\ y.tenant = req[h].tenant
  <2>1. req[h] \in Request
    OBVIOUS
  <2>. QED
    BY <2>1 DEF Request, Places, Holding, Acquiring
<1>. HIDE DEF y
<1>. QED
  BY <1>2, <1>4, <1>5

\* r leaves the entry a with its permit, and h of the same entry takes it over.
Swaps(r, h, a) ==
    /\ req' \in [Requests -> Request] /\ h \in Requests /\ h # r
    /\ req[r].adm = a /\ req[r].pc \in Permitted
    /\ req'[r].pc \in {"outside", "overloaded", "leaving"} /\ req'[r].adm = None
    /\ req[h].adm = a /\ req[h].pc = "waiting"
    /\ req'[h].adm = a /\ req'[h].pc = "granted" /\ req'[h].tenant = req[h].tenant
    /\ \A s \in Requests \ {r, h} : req'[s] = req[s]

LEMMA SwapCounts ==
  ASSUME NEW r \in Requests, NEW h, NEW a, a # None, Swaps(r, h, a)
  PROVE  /\ Cardinality(At(a, Permitted)') = Cardinality(At(a, Permitted))
         /\ Cardinality(At(a, Queued)') =
               Cardinality(At(a, Queued)) - One(req[r].pc, Queued)
         /\ At(a, {"waiting"})' = At(a, {"waiting"}) \ {h}
<1>1. "waiting" \notin Permitted /\ "waiting" \in Queued /\ "granted" \in Permitted /\ "granted" \in Queued
      /\ "waiting" # "granted" /\ req[r].pc # "waiting" /\ req[r].pc \in Permitted
  BY DEF Permitted, Queued, Swaps
<1>2. ASSUME NEW places, NEW s \in Requests
      PROVE  s \in At(a, places)' <=>
                IF s = r THEN FALSE ELSE IF s = h THEN "granted" \in places ELSE s \in At(a, places)
  BY DEF Swaps, At
<1>3. \A places : At(a, places) \in SUBSET Requests /\ At(a, places)' \in SUBSET Requests
  BY DEF At
<1>4. h \in Requests /\ h # r /\ h \in At(a, Queued) /\ h \notin At(a, Permitted) /\ r \in At(a, Permitted)
      /\ r \notin At(a, {"waiting"}) /\ (r \in At(a, Queued) <=> req[r].pc \in Queued)
  BY <1>1 DEF Swaps, At
<1>5. At(a, Permitted)' = (At(a, Permitted) \ {r}) \cup {h}
  BY <1>1, <1>2, <1>3, <1>4
<1>6. At(a, Queued)' = At(a, Queued) \ {r}
  BY <1>1, <1>2, <1>3, <1>4
<1>7. At(a, {"waiting"})' = At(a, {"waiting"}) \ {h}
  BY <1>1, <1>2, <1>3, <1>4
<1>8. Cardinality(At(a, Permitted)') = Cardinality(At(a, Permitted))
  BY <1>3, <1>4, <1>5, Replaced
<1>9. Cardinality(At(a, Queued)') = Cardinality(At(a, Queued)) - One(req[r].pc, Queued)
  <2>1. CASE r \in At(a, Queued)
    <3>1. One(req[r].pc, Queued) = 1
      BY <1>4, <2>1 DEF One
    <3>. QED
      BY <1>3, <1>6, <2>1, <3>1, Leaves
  <2>2. CASE r \notin At(a, Queued)
    <3>1. One(req[r].pc, Queued) = 0 /\ At(a, Queued)' = At(a, Queued)
      BY <1>4, <1>6, <2>2 DEF One
    <3>2. Cardinality(At(a, Queued)) \in Nat
      BY <1>3, RequestsFinite
    <3>. QED
      BY <3>1, <3>2
  <2>. QED
    BY <2>1, <2>2
<1>. QED
  BY <1>7, <1>8, <1>9

\* The first of the line takes the permit that r returns.
LEMMA HandsOver ==
  ASSUME AdmissionInv, NEW r \in Requests, NEW a, a = req[r].adm, req[r].pc \in Permitted,
         NEW place \in {"outside", "overloaded", "leaving"},
         place = "leaving" <=> req[r].pc = "running",
         NEW line, line = adm[a].waiters, line # <<>>,
         NEW q \in Nat, q = adm[a].queued - One(req[r].pc, Queued),
         HandsTo(r, [Outside EXCEPT !.pc = place], Head(line)),
         SetsWaiters(a, Tail(line), q), tenants' = tenants, global' = global
  PROVE  AdmissionInv'
<1>1. req[r].pc \in Holding /\ req[r].pc # "waiting"
  BY DEF Permitted, Holding, Acquiring
<1>2. /\ a \in Admissions /\ a # None /\ adm[a] \in Entry /\ Counted(a) /\ Lined(a)
      /\ req \in [Requests -> Request]
  BY <1>1, HeldEntry DEF AdmissionInv, TypeOK
<1>3. /\ line \in Seq(Requests) /\ adm[a].free \in Nat /\ adm[a].queued \in Nat
      /\ adm[a].queued <= MaxQueue /\ MaxQueue \in Nat
  BY <1>2, AdmissionBounds DEF Entry, Counted
<1>4. Distinct(line)
  BY <1>2 DEF Lined, InLine
<1>5. PICK h : h = Head(line)
  OBVIOUS
<1>6. PICK new : new = Tail(line)
  OBVIOUS
<1>7. new \in Seq(Requests) /\ 1 \in DOMAIN line /\ h = line[1] /\ Follow(new, h, line)
  <2>1. line \in Seq(Requests)
    BY <1>3
  <2>2. /\ Tail(line) \in Seq(Requests) /\ 1 \in DOMAIN line /\ Head(line) = line[1]
        /\ Follow(Tail(line), Head(line), line)
    BY <1>4, <2>1, Behind
  <2>. QED
    BY <1>5, <1>6, <2>2, ZenonT(30)
<1>8. h \in Requests /\ req[h].adm = a /\ req[h].pc = "waiting" /\ h # r
  <2>1. h \in Requests
    BY <1>3, <1>7
  <2>2. h \in At(a, {"waiting"})
    BY <1>2, <1>7, <2>1 DEF Lined, InLine
  <2>. QED
    BY <1>1, <2>1, <2>2 DEF At
<1>9. PICK x : x = [Outside EXCEPT !.pc = place]
  OBVIOUS
<1>10. x \in Request /\ x.pc = place /\ x.adm = None
  BY <1>9 DEF Outside, Request, Places
<1>11. /\ req' \in [Requests -> Request]
       /\ req'[r] = x /\ \A s \in Requests \ {r, h} : req'[s] = req[s]
       /\ req'[h].pc = "granted" /\ req'[h].adm = req[h].adm /\ req'[h].tenant = req[h].tenant
  <2>1. HandsTo(r, x, h)
    BY <1>5, <1>9
  <2>. QED
    BY <1>2, <1>8, <1>10, <2>1, Handed
<1>12. Swaps(r, h, a)
  BY <1>8, <1>10, <1>11 DEF Swaps
<1>13. /\ Changes(a) /\ adm'[a].free = adm[a].free /\ adm'[a].queued = q
       /\ adm'[a].waiters = new
  <2>1. SetsWaiters(a, new, q) /\ new \in Seq(Requests) /\ a \in Admissions
    BY <1>2, <1>6, <1>7
  <2>2. \A w \in Seq(Requests) : SetsWaiters(a, w, q) =>
            /\ Changes(a) /\ adm'[a].free = adm[a].free /\ adm'[a].queued = q
            /\ adm'[a].waiters = w
    BY <2>1, WaitersQueuedSet
  <2>. QED
    BY <2>1, <2>2, Zenon
<1>14. Counted(a)'
  <2>1. /\ Cardinality(At(a, Permitted)') = Cardinality(At(a, Permitted))
        /\ Cardinality(At(a, Queued)') = Cardinality(At(a, Queued)) - One(req[r].pc, Queued)
    BY <1>2, <1>12, SwapCounts
  <2>2. adm[a].free + Cardinality(At(a, Permitted)) = MaxConcurrent
        /\ adm[a].queued = Cardinality(At(a, Queued))
    BY <1>2 DEF Counted
  <2>3. q <= MaxQueue
    BY <1>3 DEF One
  <2>4. adm'[a].free + Cardinality(At(a, Permitted)') = MaxConcurrent
    BY <1>13, <2>1, <2>2
  <2>5. adm'[a].queued = Cardinality(At(a, Queued)')
    BY <1>13, <2>1, <2>2
  <2>. QED
    BY <1>13, <2>3, <2>4, <2>5 DEF Counted
<1>15. Lined(a)'
  <2>1. At(a, {"waiting"})' = At(a, {"waiting"}) \ {h}
    BY <1>2, <1>12, SwapCounts
  <2>2. InLine(line, At(a, {"waiting"}))
    BY <1>2 DEF Lined
  <2>3. InLine(new, At(a, {"waiting"}) \ {h})
    BY <1>7, <1>8, <2>2, InFollowed
  <2>. QED
    BY <1>13, <2>1, <2>3 DEF Lined
<1>16. Attached(r)' /\ Attached(h)'
  <2>1. req[h].tenant \in DOMAIN tenants /\ tenants[req[h].tenant] = a
    BY <1>8, HeldEntry DEF Holding, Acquiring
  <2>2. place \notin Holding /\ "granted" \in Holding
    BY DEF Holding, Acquiring
  <2>. QED
    BY <1>8, <1>10, <1>11, <2>1, <2>2 DEF Attached
<1>17. \A s \in Requests : \/ req'[s] = req[s]
                           \/ req[s].adm = a /\ req'[s].adm \in {a, None} /\ Attached(s)'
  BY <1>8, <1>10, <1>11, <1>16
<1>18. Gateway'
  <2>1. Inside' = Inside
    <3>1. \A s \in Requests : s \in Inside' <=> s \in Inside
      BY <1>1, <1>8, <1>10, <1>11 DEF Inside, Permitted
    <3>. QED
      BY <3>1 DEF Inside
  <2>. QED
    BY <2>1 DEF AdmissionInv, Gateway
<1>19. TypeOK'
  BY <1>11, <1>13 DEF AdmissionInv, TypeOK, Changes
<1>. QED
  BY <1>13, <1>14, <1>15, <1>17, <1>18, <1>19, WithinEntry DEF Changes

\* A permit that r returns, when nobody waits for it.
LEMMA GivesBack ==
  ASSUME AdmissionInv, NEW r \in Requests, NEW a, a = req[r].adm, req[r].pc \in Permitted,
         NEW place \in {"outside", "overloaded", "leaving"},
         place = "leaving" <=> req[r].pc = "running",
         NEW q \in Nat, q = adm[a].queued - One(req[r].pc, Queued),
         req' = [req EXCEPT ![r] = [Outside EXCEPT !.pc = place]],
         SetsFree(a, adm[a].free + 1, q), tenants' = tenants, global' = global
  PROVE  AdmissionInv'
<1>1. req[r].pc \in Holding /\ req[r].pc # "waiting"
  BY DEF Permitted, Holding, Acquiring
<1>2. a \in Admissions /\ adm[a] \in Entry /\ adm[a].queued <= MaxQueue
  BY <1>1, HeldEntry DEF Counted
<1>3. adm[a].free \in Nat /\ adm[a].free + 1 \in Nat /\ adm[a].queued \in Nat /\ MaxQueue \in Nat
  BY <1>2, AdmissionBounds DEF Entry
<1>4. Moves(r, a) /\ req'[r].pc = place /\ place # "waiting"
  BY GoesOut
<1>5. /\ Changes(a) /\ adm'[a].free = adm[a].free + 1 /\ adm'[a].queued = q
      /\ adm'[a].waiters = adm[a].waiters
  BY <1>2, <1>3, FreeQueuedSet
<1>6. Gateway' /\ global' \in Nat
  <2>1. place # "running" /\ req[r].pc # "leaving"
    BY DEF Permitted
  <2>. QED
    BY <1>4, <2>1, GatewayAfter
<1>7. One(req[r].pc, Permitted) = 1 /\ One(place, Permitted) = 0 /\ One(place, Queued) = 0
      /\ One(req[r].pc, Queued) \in {0, 1}
  BY DEF One, Permitted, Queued
<1>8. q <= MaxQueue /\ q = adm[a].queued - One(req[r].pc, Queued) + 0
  <2>. DEFINE o == One(req[r].pc, Queued)
              p == adm[a].queued
  <2>1. o \in {0, 1} /\ p \in Nat /\ p <= MaxQueue /\ MaxQueue \in Nat /\ q = p - o
    BY <1>2, <1>3, <1>7
  <2>. HIDE DEF o, p
  <2>2. q <= MaxQueue /\ q = p - o + 0
    BY <2>1
  <2>. QED
    BY <2>2 DEF o, p
<1>9. adm[a].free + 1 = adm[a].free + One(req[r].pc, Permitted) - One(place, Permitted)
  BY <1>3, <1>7
<1>. QED
  BY <1>1, <1>4, <1>5, <1>6, <1>7, <1>8, <1>9, Passes

\* Whoever returns a permit, and whether or not somebody waits for it.
LEMMA ReturnKeeps ==
  ASSUME AdmissionInv, NEW r \in Requests, req[r].pc \in Permitted,
         NEW place \in {"outside", "overloaded", "leaving"},
         place = "leaving" <=> req[r].pc = "running",
         NEW left, left = One(req[r].pc, Queued),
         ReturnPermit(r, [Outside EXCEPT !.pc = place], left),
         tenants' = tenants, global' = global
  PROVE  AdmissionInv'
<1>1. req[r].pc \in Holding
  BY DEF Permitted, Holding, Acquiring
<1>2. PICK a : a = req[r].adm
  OBVIOUS
<1>3. a \in Admissions /\ adm[a] \in Entry
  BY <1>1, <1>2, HeldEntry
<1>4. PICK q \in Nat : q = adm[a].queued - left
  <2>1. adm[a].queued \in Nat
    BY <1>3 DEF Entry
  <2>2. CASE req[r].pc \in Queued
    <3>1. adm[a].queued >= 1 /\ left = 1
      BY <1>2, <2>2, Reserved DEF One
    <3>2. adm[a].queued - left \in Nat
      BY <2>1, <3>1
    <3>. QED
      BY <3>2
  <2>3. CASE req[r].pc \notin Queued
    <3>1. adm[a].queued - left \in Nat
      BY <2>1, <2>3 DEF One
    <3>. QED
      BY <3>1
  <2>. QED
    BY <2>2, <2>3
<1>5. CASE adm[a].waiters = <<>>
  <2>1. SetsFree(a, adm[a].free + 1, q)
    BY <1>2, <1>4, <1>5 DEF ReturnPermit, SetsFree
  <2>2. req' = [req EXCEPT ![r] = [Outside EXCEPT !.pc = place]]
    BY <1>2, <1>5 DEF ReturnPermit
  <2>. QED
    BY <1>2, <1>4, <2>1, <2>2, GivesBack
<1>6. CASE adm[a].waiters # <<>>
  <2>1. SetsWaiters(a, Tail(adm[a].waiters), q)
    BY <1>2, <1>4, <1>6 DEF ReturnPermit, SetsWaiters
  <2>2. HandsTo(r, [Outside EXCEPT !.pc = place], Head(adm[a].waiters))
    BY <1>2, <1>6 DEF ReturnPermit, HandsTo
  <2>. QED
    BY <1>2, <1>4, <1>6, <2>1, <2>2, HandsOver
<1>. QED
  BY <1>5, <1>6

LEMMA AbandonGrantedKeeps ==
  ASSUME AdmissionInv, NEW r \in Requests, AbandonGranted(r)
  PROVE  AdmissionInv'
<1>1. /\ req[r].pc = "granted" /\ req[r].pc \in Permitted /\ One(req[r].pc, Queued) = 1
      /\ tenants' = tenants /\ global' = global
  BY DEF AbandonGranted, Permitted, One, Queued
<1>2. Outside = [Outside EXCEPT !.pc = "outside"]
  BY DEF Outside
<1>3. ReturnPermit(r, [Outside EXCEPT !.pc = "outside"], 1)
  BY <1>2 DEF AbandonGranted
<1>. QED
  BY <1>1, <1>3, ReturnKeeps

LEMMA FinishKeeps ==
  ASSUME AdmissionInv, NEW r \in Requests, Finish(r)
  PROVE  AdmissionInv'
<1>1. /\ req[r].pc = "running" /\ req[r].pc \in Permitted /\ One(req[r].pc, Queued) = 0
      /\ tenants' = tenants /\ global' = global
      /\ ReturnPermit(r, [Outside EXCEPT !.pc = "leaving"], 0)
  BY DEF Finish, Permitted, One, Queued
<1>. QED
  BY <1>1, ReturnKeeps

LEMMA TryGlobalKeeps ==
  ASSUME AdmissionInv, NEW r \in Requests, NEW a, a = req[r].adm, TryGlobal(r)
  PROVE  AdmissionInv'
<1>1. /\ req[r].pc = "tenant" /\ req[r].pc \in Permitted /\ req[r].pc \in Holding
      /\ One(req[r].pc, Queued) = 0 /\ tenants' = tenants
  BY DEF TryGlobal, Permitted, One, Queued, Holding, Acquiring
<1>2. CASE global > 0
  <2>1. Goto(r, "running") /\ global' = global - 1 /\ adm' = adm
    BY <1>2 DEF TryGlobal
  <2>2. Moves(r, a) /\ req'[r].pc = "running"
    BY <1>1, <2>1, GoesTo DEF Holding
  <2>3. Changes(a) /\ adm'[a] = adm[a]
    BY <1>1, <2>1, NothingSet
  <2>4. Gateway' /\ global' \in Nat
    <3>1. Inside' = Inside \cup {r} /\ r \notin Inside /\ Inside \in SUBSET Requests
      <4>1. \A s \in Requests : s \in Inside' <=> s = r \/ s \in Inside
        BY <2>2 DEF Inside, Moves
      <4>. QED
        BY <1>1, <4>1 DEF Inside
    <3>2. Cardinality(Inside') = Cardinality(Inside) + 1 /\ Cardinality(Inside) \in Nat
      BY <3>1, Joins, RequestsFinite
    <3>3. global \in Nat /\ global + Cardinality(Inside) = MaxGlobalInflight
      BY DEF AdmissionInv, TypeOK, Gateway
    <3>4. global' \in Nat /\ global' + Cardinality(Inside') = MaxGlobalInflight
      BY <1>2, <2>1, <3>2, <3>3
    <3>. QED
      BY <3>4 DEF Gateway
  <2>5. /\ One(req[r].pc, Permitted) = 1 /\ One(req'[r].pc, Permitted) = 1
        /\ One(req'[r].pc, Queued) = 0
    BY <1>1, <2>2 DEF One, Permitted, Queued
  <2>6. adm[a] \in Entry /\ adm[a].queued <= MaxQueue
    BY <1>1, HeldEntry DEF Counted
  <2>7. adm[a].free \in Nat /\ adm[a].queued \in Nat
    BY <2>6 DEF Entry
  <2>. QED
    BY <1>1, <2>2, <2>3, <2>4, <2>5, <2>6, <2>7, Passes
<1>3. CASE ~(global > 0)
  <2>1. ReturnPermit(r, [Outside EXCEPT !.pc = "overloaded"], 0) /\ global' = global
    BY <1>3 DEF TryGlobal
  <2>. QED
    BY <1>1, <2>1, ReturnKeeps
<1>. QED
  BY <1>2, <1>3

-----------------------------------------------------------------------------
(* Arrivals and departures                                                 *)

\* r, which holds no entry, moves to a place where none counts it.
Comes(r) ==
    /\ req' \in [Requests -> Request] /\ \A q \in Requests \ {r} : req'[q] = req[q]
    /\ req[r].pc \notin Holding
    /\ req'[r].pc \in {"found", "outside", "overloaded", "leaving"}

LEMMA SameCounts ==
  ASSUME NEW r \in Requests, NEW b, Comes(r), adm'[b] = adm[b], Counted(b), Lined(b)
  PROVE  Counted(b)' /\ Lined(b)'
<1>1. ASSUME NEW places \in {Permitted, Queued, {"waiting"}}
      PROVE  At(b, places)' = At(b, places)
  <2>1. req[r].pc \notin places /\ req'[r].pc \notin places
    BY DEF Comes, Holding, Acquiring, Permitted, Queued
  <2>2. \A q \in Requests : q \in At(b, places)' <=> q \in At(b, places)
    BY <2>1 DEF Comes, At
  <2>3. At(b, places)' \subseteq Requests /\ At(b, places) \subseteq Requests
    BY DEF At
  <2>. QED
    BY <2>2, <2>3
<1>2. /\ At(b, Permitted)' = At(b, Permitted) /\ At(b, Queued)' = At(b, Queued)
      /\ At(b, {"waiting"})' = At(b, {"waiting"})
  BY <1>1
<1>3. Counted(b)'
  BY <1>2 DEF Counted
<1>4. Lined(b)'
  BY <1>2 DEF Lined
<1>. QED
  BY <1>3, <1>4

LEMMA FreshCounts ==
  ASSUME NEW b, adm'[b] = Fresh, \A q \in Requests : req'[q].adm = b => req'[q].pc = "found"
  PROVE  Counted(b)' /\ Lined(b)'
<1>1. At(b, Permitted)' = {} /\ At(b, Queued)' = {} /\ At(b, {"waiting"})' = {}
  BY DEF At, Permitted, Queued
<1>2. adm'[b].free = MaxConcurrent /\ adm'[b].waiters = <<>> /\ adm'[b].queued = 0
  BY DEF Fresh
<1>3. Cardinality({}) = 0 /\ MaxConcurrent \in Nat /\ MaxQueue \in Nat
  BY FS_EmptySet, AdmissionBounds
<1>4. Counted(b)'
  BY <1>1, <1>2, <1>3 DEF Counted
<1>5. Lined(b)'
  <2>1. InLine(<<>>, {})
    BY DEF InLine, Distinct
  <2>. QED
    BY <1>1, <1>2, <2>1 DEF Lined
<1>. QED
  BY <1>4, <1>5

\* The map rearranged by an arrival: the entries kept are as they were, others are new.
LEMMA Rearranged ==
  ASSUME AdmissionInv, NEW r \in Requests, Comes(r), TypeOK', Separate', Gateway',
         \A q \in Requests : Attached(q)',
         \A b \in Used' : \/ b \in Used /\ adm'[b] = adm[b]
                          \/ adm'[b] = Fresh /\ \A q \in Requests : req'[q].adm = b
                                                                    => req'[q].pc = "found"
  PROVE  AdmissionInv'
<1>1. ASSUME NEW b \in Used'
      PROVE  (Counted(b) /\ Lined(b))'
  <2>1. CASE b \in Used /\ adm'[b] = adm[b]
    <3>1. Counted(b) /\ Lined(b)
      BY <2>1 DEF AdmissionInv
    <3>. QED
      BY <2>1, <3>1, SameCounts
  <2>2. CASE adm'[b] = Fresh /\ \A q \in Requests : req'[q].adm = b => req'[q].pc = "found"
    BY <2>2, FreshCounts
  <2>. QED
    BY <2>1, <2>2
<1>. QED
  BY <1>1 DEF AdmissionInv

\* A request without an entry stays without.
LEMMA StaysOut ==
  ASSUME AdmissionInv, NEW r \in Requests, req[r].pc \notin Holding,
         NEW place \in {"outside", "overloaded", "leaving"},
         req' = [req EXCEPT ![r] = [Outside EXCEPT !.pc = place]],
         adm' = adm, tenants' = tenants, global' \in Nat, Gateway'
  PROVE  AdmissionInv'
<1>1. Moves(r, None) /\ req'[r].pc = place
  BY GoesOut
<1>2. Comes(r)
  BY <1>1 DEF Comes, Moves
<1>3. TypeOK'
  BY <1>2 DEF AdmissionInv, TypeOK, Comes
<1>4. Separate' /\ Used' = Used
  BY DEF AdmissionInv, Separate, Used
<1>5. \A q \in Requests : Attached(q)'
  <2>1. Attached(r)'
    BY <1>1 DEF Moves, Attached, Holding, Acquiring
  <2>2. \A q \in Requests \ {r} : Attached(q)'
    BY <1>2 DEF AdmissionInv, Attached, Comes
  <2>. QED
    BY <2>1, <2>2
<1>. QED
  BY <1>2, <1>3, <1>4, <1>5, Rearranged

LEMMA RefuseKeeps ==
  ASSUME AdmissionInv, NEW r \in Requests, Refuse(r)
  PROVE  AdmissionInv'
<1>1. /\ req[r].pc = "overloaded" /\ req[r].pc \notin Holding
      /\ tenants' = tenants /\ global' = global /\ adm' = adm
  BY DEF Refuse, Holding, Acquiring
<1>2. req' = [req EXCEPT ![r] = [Outside EXCEPT !.pc = "outside"]]
  BY DEF Refuse, Outside
<1>3. Moves(r, None) /\ req'[r].pc = "outside"
  BY <1>2, GoesOut
<1>4. Gateway' /\ global' \in Nat
  BY <1>1, <1>3, GatewayAfter
<1>. QED
  BY <1>1, <1>2, <1>4, StaysOut

LEMMA LeaveKeeps ==
  ASSUME AdmissionInv, NEW r \in Requests, Leave(r)
  PROVE  AdmissionInv'
<1>1. /\ req[r].pc = "leaving" /\ req[r].pc \notin Holding
      /\ tenants' = tenants /\ global' = global + 1 /\ adm' = adm
  BY DEF Leave, Holding, Acquiring
<1>2. req' = [req EXCEPT ![r] = [Outside EXCEPT !.pc = "outside"]]
  BY DEF Leave, Outside
<1>3. Moves(r, None) /\ req'[r].pc = "outside"
  BY <1>2, GoesOut
<1>4. Gateway' /\ global' \in Nat
  <2>1. Inside' = Inside \ {r} /\ r \in Inside /\ Inside \in SUBSET Requests
    <3>1. \A s \in Requests : s \in Inside' <=> s # r /\ s \in Inside
      BY <1>3 DEF Inside, Moves
    <3>. QED
      BY <1>1, <3>1 DEF Inside
  <2>2. Cardinality(Inside') = Cardinality(Inside) - 1 /\ Cardinality(Inside) \in Nat
    BY <2>1, Leaves, RequestsFinite
  <2>3. global \in Nat /\ global + Cardinality(Inside) = MaxGlobalInflight
    BY DEF AdmissionInv, TypeOK, Gateway
  <2>4. global' \in Nat /\ global' + Cardinality(Inside') = MaxGlobalInflight
    BY <1>1, <2>2, <2>3
  <2>. QED
    BY <2>4 DEF Gateway
<1>. QED
  BY <1>1, <1>2, <1>4, StaysOut

-----------------------------------------------------------------------------
(* Finding or making an entry                                              *)

\* The eviction spares the tenants of the requests in progress.
LEMMA KeptHeld ==
  ASSUME AdmissionInv, NEW t
  PROVE  /\ Kept(t) \subseteq DOMAIN tenants
         /\ \A q \in Requests : req[q].pc \in Holding => req[q].tenant \in Kept(t)
<1>1. ASSUME NEW q \in Requests, req[q].pc \in Holding
      PROVE  req[q].tenant \in DOMAIN tenants /\ Busy(tenants[req[q].tenant])
  <2>1. PICK a : a = req[q].adm
    OBVIOUS
  <2>2. /\ a \in Admissions /\ adm[a] \in Entry /\ Counted(a)
        /\ req[q].tenant \in DOMAIN tenants /\ tenants[req[q].tenant] = a
    BY <1>1, <2>1, HeldEntry
  <2>3. CASE req[q].pc \in Acquiring
    <3>1. q \in At(a, Acquiring)
      BY <2>1, <2>3, AtMember
    <3>. QED
      BY <2>2, <3>1 DEF Busy
  <2>4. CASE req[q].pc = "running"
    <3>1. q \in At(a, Permitted) /\ At(a, Permitted) \in SUBSET Requests
      BY <2>1, <2>4, AtMember, AtSubset DEF Permitted
    <3>2. Cardinality(At(a, Permitted)) >= 1 /\ Cardinality(At(a, Permitted)) \in Nat
      BY <3>1, Leaves, RequestsFinite
    <3>3. adm[a].free + Cardinality(At(a, Permitted)) = MaxConcurrent /\ adm[a].free \in Nat
      BY <2>2 DEF Counted, Entry
    <3>4. adm[a].free # MaxConcurrent
      BY <3>2, <3>3
    <3>. QED
      BY <2>2, <3>4 DEF Busy
  <2>. QED
    BY <1>1, <2>3, <2>4 DEF Holding
<1>. QED
  BY <1>1 DEF Kept

\* There is always an entry nobody refers to.
LEMMA SomeUnreferenced ==
  ASSUME AdmissionInv, NEW r \in Requests
  PROVE  \E a \in Unreferenced : a \in Admissions \ Used
<1>. DEFINE D == DOMAIN tenants
            n == Cardinality(Requests)
            N == MaxTrackedTenants + n
<1>1. IsFiniteSet(D) /\ Cardinality(D) <= MaxTrackedTenants /\ tenants \in [D -> Admissions]
  BY DEF AdmissionInv, TypeOK
<1>2. IsFiniteSet(Used) /\ Cardinality(Used) <= Cardinality(D)
  <2>1. tenants \in Surjection(D, Used)
    BY <1>1 DEF Surjection, Used
  <2>. QED
    BY <1>1, <2>1, FS_Surjection
<1>3. MaxTrackedTenants \in Nat /\ n \in Nat /\ n >= 1
  <2>1. Requests \in SUBSET Requests
    OBVIOUS
  <2>. QED
    BY <2>1, Leaves, RequestsFinite, AdmissionBounds
<1>4. Cardinality(Admissions) = N
  <2>. HIDE DEF n
  <2>1. 1 \in Int /\ N \in Int /\ ~(1 > N) /\ N - 1 + 1 = N
    BY <1>3
  <2>2. Cardinality(1..N) = N
    BY <2>1, FS_Interval
  <2>. QED
    BY <2>2 DEF Admissions, n
<1>5. Cardinality(Used) \in Nat /\ Cardinality(D) \in Nat
  BY <1>1, <1>2, FS_CardinalityType
<1>6. Used # Admissions
  <2>. HIDE DEF n, D
  <2>1. Cardinality(Used) < N
    BY <1>1, <1>2, <1>3, <1>5
  <2>2. Cardinality(Used) # Cardinality(Admissions)
    BY <1>3, <1>4, <1>5, <2>1
  <2>. QED
    BY <2>2
<1>7. Used \subseteq Admissions
  BY <1>1 DEF Used
<1>8. PICK a \in Admissions : a \notin Used
  BY <1>6, <1>7
<1>9. a # None
  <2>. HIDE DEF n
  <2>. QED
    BY <1>3, <1>8 DEF Admissions, None
<1>10. \A q \in Requests : req[q].adm # a
  <2>1. \A q \in Requests : req[q].pc \in Holding => req[q].adm \in Used
    BY HeldEntry
  <2>. QED
    BY <1>8, <1>9, <2>1 DEF AdmissionInv, Attached
<1>11. a \in Unreferenced
  BY <1>8, <1>10 DEF Unreferenced, Used
<1>. QED
  BY <1>8, <1>11

\* The map after an arrival of tenant t: what is kept, and t with its entry a.
Mapped(kept, t, a) ==
    tenants' = [u \in kept \cup {t} |-> IF u = t THEN a ELSE tenants[u]]

LEMMA FindRefused ==
  ASSUME AdmissionInv, NEW r \in Requests, NEW t \in Tenants, Find(r, t),
         Full(Kept(t), t)
  PROVE  AdmissionInv'
<1>1. PICK kept : kept = Kept(t)
  OBVIOUS
<1>2. /\ req[r].pc = "outside" /\ req[r].pc \notin Holding /\ global' = global /\ adm' = adm
      /\ tenants' = [u \in kept |-> tenants[u]]
      /\ req' = [req EXCEPT ![r] = [Outside EXCEPT !.pc = "overloaded"]]
  BY <1>1 DEF Find, Holding, Acquiring
<1>3. Moves(r, None) /\ req'[r].pc = "overloaded"
  BY <1>2, GoesOut
<1>4. Comes(r)
  BY <1>2, <1>3 DEF Comes, Moves
<1>5. kept \subseteq DOMAIN tenants /\ \A q \in Requests : req[q].pc \in Holding => req[q].tenant \in kept
  BY <1>1, KeptHeld
<1>6. DOMAIN tenants' = kept /\ \A u \in kept : tenants'[u] = tenants[u]
  BY <1>2
<1>7. TypeOK'
  <2>1. IsFiniteSet(kept) /\ Cardinality(kept) <= Cardinality(DOMAIN tenants)
        /\ Cardinality(kept) \in Nat /\ Cardinality(DOMAIN tenants) \in Nat
    BY <1>5, FS_Subset, FS_CardinalityType DEF AdmissionInv, TypeOK
  <2>2. Cardinality(kept) <= MaxTrackedTenants
    BY <2>1, AdmissionBounds DEF AdmissionInv, TypeOK
  <2>3. DOMAIN tenants' \subseteq Tenants /\ tenants' \in [DOMAIN tenants' -> Admissions]
    BY <1>2, <1>5, <1>6 DEF AdmissionInv, TypeOK
  <2>. QED
    BY <1>2, <1>4, <1>6, <2>1, <2>2, <2>3 DEF AdmissionInv, TypeOK, Comes
<1>8. Separate' /\ Used' \subseteq Used
  BY <1>5, <1>6 DEF AdmissionInv, Separate, Used
<1>9. Gateway'
  BY <1>2, <1>3, GatewayAfter
<1>10. \A q \in Requests : Attached(q)'
  <2>1. Attached(r)'
    BY <1>3 DEF Moves, Attached, Holding, Acquiring
  <2>2. \A q \in Requests \ {r} : Attached(q)'
    BY <1>4, <1>5, <1>6 DEF AdmissionInv, Attached, Comes
  <2>. QED
    BY <2>1, <2>2
<1>. QED
  BY <1>2, <1>4, <1>7, <1>8, <1>9, <1>10, Rearranged

LEMMA FindEntry ==
  ASSUME AdmissionInv, NEW r \in Requests, NEW t \in Tenants, req[r].pc = "outside",
         NEW kept, kept = Kept(t), ~Full(kept, t), NEW a \in Admissions, Mapped(kept, t, a),
         \/ t \in kept /\ a = tenants[t] /\ adm' = adm
         \/ t \notin kept /\ a \notin Used /\ adm' = [adm EXCEPT ![a] = Fresh],
         req' = [req EXCEPT ![r] = [pc |-> "found", tenant |-> t, adm |-> a]],
         global' = global
  PROVE  AdmissionInv'
<1>1. kept \subseteq DOMAIN tenants /\ \A q \in Requests : req[q].pc \in Holding => req[q].tenant \in kept
  BY KeptHeld
<1>2. /\ DOMAIN tenants' = kept \cup {t} /\ tenants'[t] = a
      /\ \A u \in kept \ {t} : tenants'[u] = tenants[u]
  BY DEF Mapped
<1>3. \A u \in kept : tenants'[u] = tenants[u] \/ u = t
  BY <1>2
<1>4. /\ req \in [Requests -> Request] /\ adm \in [Admissions -> Entry]
      /\ tenants \in [DOMAIN tenants -> Admissions] /\ DOMAIN tenants \subseteq Tenants
      /\ IsFiniteSet(DOMAIN tenants) /\ Cardinality(DOMAIN tenants) <= MaxTrackedTenants
      /\ global \in Nat
  BY DEF AdmissionInv, TypeOK
<1>5. /\ req' \in [Requests -> Request] /\ \A q \in Requests \ {r} : req'[q] = req[q]
      /\ req'[r].pc = "found" /\ req'[r].tenant = t /\ req'[r].adm = a
  <2>1. [pc |-> "found", tenant |-> t, adm |-> a] \in Request
    BY DEF Request, Places, Holding, Acquiring
  <2>. QED
    BY <1>4, <2>1
<1>6. Comes(r)
  BY <1>5 DEF Comes, Holding, Acquiring
<1>7. IsFiniteSet(kept \cup {t}) /\ Cardinality(kept \cup {t}) <= MaxTrackedTenants
  <2>1. IsFiniteSet(kept) /\ Cardinality(kept) <= Cardinality(DOMAIN tenants)
        /\ Cardinality(kept) \in Nat /\ Cardinality(DOMAIN tenants) \in Nat
    BY <1>1, <1>4, FS_Subset, FS_CardinalityType
  <2>2. /\ IsFiniteSet(kept \cup {t})
        /\ Cardinality(kept \cup {t}) = IF t \in kept THEN Cardinality(kept) ELSE Cardinality(kept) + 1
    BY <2>1, FS_AddElement
  <2>3. t \in kept \/ Cardinality(kept) < MaxTrackedTenants
    BY <2>1, AdmissionBounds DEF Full
  <2>4. MaxTrackedTenants \in Nat
    BY AdmissionBounds
  <2>. QED
    BY <1>4, <2>1, <2>2, <2>3, <2>4
<1>8. adm' \in [Admissions -> Entry]
  <2>1. Fresh \in Entry
    BY AdmissionBounds DEF Fresh, Entry
  <2>. QED
    BY <1>4, <2>1
<1>9. tenants' \in [DOMAIN tenants' -> Admissions] /\ DOMAIN tenants' \subseteq Tenants
  <2>1. \A u \in kept \cup {t} : (IF u = t THEN a ELSE tenants[u]) \in Admissions
    BY <1>1, <1>4
  <2>. QED
    BY <1>1, <1>2, <1>4, <2>1 DEF Mapped
<1>10. TypeOK'
  BY <1>2, <1>4, <1>5, <1>7, <1>8, <1>9 DEF TypeOK
<1>11. Separate'
  <2>1. ASSUME NEW u \in kept \cup {t}, NEW v \in kept \cup {t}, tenants'[u] = tenants'[v]
        PROVE  u = v
    <3>1. CASE t \in kept
      <4>1. \A w \in kept \cup {t} : w \in DOMAIN tenants /\ tenants'[w] = tenants[w]
        BY <1>1, <1>2, <3>1
      <4>. QED
        BY <2>1, <4>1 DEF AdmissionInv, Separate
    <3>2. CASE t \notin kept
      <4>1. \A w \in kept : w # t /\ w \in DOMAIN tenants /\ tenants'[w] = tenants[w] /\ tenants[w] # a
        BY <1>1, <1>2, <3>2 DEF Used
      <4>2. CASE u \in kept /\ v \in kept
        BY <2>1, <4>1, <4>2 DEF AdmissionInv, Separate
      <4>3. CASE u = t /\ v \in kept
        BY <1>2, <2>1, <4>1, <4>3
      <4>4. CASE u \in kept /\ v = t
        BY <1>2, <2>1, <4>1, <4>4
      <4>. QED
        BY <4>2, <4>3, <4>4
    <3>. QED
      BY <3>1, <3>2
  <2>. QED
    BY <1>2, <2>1 DEF Separate
<1>12. Gateway'
  <2>1. Inside' = Inside
    <3>1. \A s \in Requests : s \in Inside' <=> s \in Inside
      BY <1>5 DEF Inside
    <3>. QED
      BY <3>1 DEF Inside
  <2>. QED
    BY <2>1 DEF AdmissionInv, Gateway
<1>13. \A q \in Requests : Attached(q)'
  <2>1. Attached(r)'
    BY <1>2, <1>5 DEF Attached, Holding, Acquiring
  <2>2. ASSUME NEW q \in Requests \ {r}
        PROVE  Attached(q)'
    <3>1. req'[q] = req[q] /\ Attached(q)
      BY <1>5 DEF AdmissionInv
    <3>2. CASE req[q].pc \notin Holding
      BY <3>1, <3>2 DEF Attached
    <3>3. CASE req[q].pc \in Holding
      <4>1. req[q].tenant \in kept /\ tenants[req[q].tenant] = req[q].adm
        BY <1>1, <3>1, <3>3 DEF Attached
      <4>2. tenants'[req[q].tenant] = tenants[req[q].tenant]
        BY <1>2, <4>1
      <4>. QED
        BY <1>2, <3>1, <3>3, <4>1, <4>2 DEF Attached
    <3>. QED
      BY <3>2, <3>3
  <2>. QED
    BY <2>1, <2>2
<1>14. ASSUME NEW b \in Used'
       PROVE  \/ b \in Used /\ adm'[b] = adm[b]
              \/ adm'[b] = Fresh /\ \A q \in Requests : req'[q].adm = b => req'[q].pc = "found"
  <2>1. b = a \/ (b \in Used /\ b \in Admissions)
    BY <1>1, <1>2, <1>4 DEF Used
  <2>2. CASE t \in kept
    BY <1>1, <2>1, <2>2 DEF Used
  <2>3. CASE t \notin kept /\ b # a
    BY <1>4, <2>1, <2>3
  <2>4. CASE t \notin kept /\ b = a
    <3>1. adm'[b] = Fresh /\ a \notin Used
      BY <1>4, <2>4
    <3>2. \A q \in Requests : req[q].adm # a
      <4>1. a # None
        BY RequestsFinite, AdmissionBounds DEF Admissions, None
      <4>2. \A q \in Requests : req[q].pc \in Holding => req[q].adm \in Used
        BY HeldEntry
      <4>. QED
        BY <3>1, <4>1, <4>2 DEF AdmissionInv, Attached
    <3>3. \A q \in Requests : req'[q].adm = a => q = r
      BY <1>5, <3>2
    <3>. QED
      BY <1>5, <2>4, <3>1, <3>3
  <2>. QED
    BY <2>2, <2>3, <2>4
<1>. QED
  BY <1>6, <1>10, <1>11, <1>12, <1>13, <1>14, Rearranged

LEMMA FindKeeps ==
  ASSUME AdmissionInv, NEW r \in Requests, NEW t \in Tenants, Find(r, t)
  PROVE  AdmissionInv'
<1>1. PICK kept : kept = Kept(t)
  OBVIOUS
<1>2. CASE Full(kept, t)
  BY <1>1, <1>2, FindRefused
<1>3. CASE ~Full(kept, t)
  <2>1. PICK b : b = CHOOSE c \in Unreferenced : TRUE
    OBVIOUS
  <2>2. b \in Unreferenced
    BY <2>1, SomeUnreferenced
  <2>3. b \in Admissions /\ b \notin Used
    BY <2>2 DEF Unreferenced, Used
  <2>4. PICK a : a = IF t \in kept THEN tenants[t] ELSE b
    OBVIOUS
  <2>5. /\ req[r].pc = "outside" /\ global' = global
        /\ tenants' = [u \in kept \cup {t} |-> IF u = t THEN a ELSE tenants[u]]
        /\ adm' = (IF t \in kept THEN adm ELSE [adm EXCEPT ![a] = Fresh])
        /\ req' = [req EXCEPT ![r] = [pc |-> "found", tenant |-> t, adm |-> a]]
    BY <1>1, <1>3, <2>1, <2>4 DEF Find
  <2>6. Mapped(kept, t, a)
    BY <2>5 DEF Mapped
  <2>7. kept \subseteq DOMAIN tenants
    BY <1>1, KeptHeld
  <2>8. a \in Admissions
    BY <2>3, <2>4, <2>7 DEF AdmissionInv, TypeOK
  <2>9. \/ t \in kept /\ a = tenants[t] /\ adm' = adm
        \/ t \notin kept /\ a \notin Used /\ adm' = [adm EXCEPT ![a] = Fresh]
    BY <2>3, <2>4, <2>5
  <2>. QED
    BY <1>1, <1>3, <2>5, <2>6, <2>8, <2>9, FindEntry
<1>. QED
  BY <1>2, <1>3

-----------------------------------------------------------------------------
(* The invariant                                                           *)

LEMMA InitAdmissionInv == Init => AdmissionInv
<1>. SUFFICES ASSUME Init PROVE AdmissionInv
  OBVIOUS
<1>1. DOMAIN tenants = {} /\ Used = {}
  BY DEF Init, Used
<1>2. Outside \in Request
  BY DEF Outside, Request, Places
<1>3. Fresh \in Entry /\ MaxTrackedTenants \in Nat /\ MaxGlobalInflight \in Nat
  BY AdmissionBounds DEF Fresh, Entry
<1>4. TypeOK
  <2>1. IsFiniteSet({}) /\ Cardinality({}) = 0
    BY FS_EmptySet
  <2>2. tenants \in [{} -> Admissions] /\ adm \in [Admissions -> Entry]
        /\ req \in [Requests -> Request] /\ global \in Nat
    BY <1>2, <1>3 DEF Init
  <2>. QED
    BY <1>1, <1>3, <2>1, <2>2 DEF TypeOK
<1>5. \A r \in Requests : Attached(r)
  BY DEF Init, Outside, Attached, Holding, Acquiring
<1>6. Gateway
  <2>1. Inside = {}
    BY DEF Init, Outside, Inside
  <2>2. Cardinality({}) = 0 /\ global = MaxGlobalInflight
    BY FS_EmptySet DEF Init
  <2>. QED
    BY <1>3, <2>1, <2>2 DEF Gateway
<1>. QED
  BY <1>1, <1>4, <1>5, <1>6 DEF AdmissionInv, Separate

LEMMA StepKeeps ==
  ASSUME AdmissionInv, NEW r \in Requests, Step(r)
  PROVE  AdmissionInv'
<1>1. CASE TryTenant(r)
  BY <1>1, TryTenantKeeps
<1>2. CASE Reserve(r)
  BY <1>2, ReserveKeeps
<1>3. CASE Enqueue(r)
  BY <1>3, EnqueueKeeps
<1>4. CASE Wake(r)
  BY <1>4, WakeKeeps
<1>5. CASE Abandon(r)
  BY <1>5, AbandonKeeps
<1>6. CASE AbandonGranted(r)
  BY <1>6, AbandonGrantedKeeps
<1>7. CASE TryGlobal(r)
  BY <1>7, TryGlobalKeeps
<1>8. CASE Finish(r)
  BY <1>8, FinishKeeps
<1>9. CASE Leave(r)
  BY <1>9, LeaveKeeps
<1>10. CASE Refuse(r)
  BY <1>10, RefuseKeeps
<1>. QED
  BY <1>1, <1>2, <1>3, <1>4, <1>5, <1>6, <1>7, <1>8, <1>9, <1>10 DEF Step

LEMMA StutterKeeps ==
  ASSUME AdmissionInv, UNCHANGED vars
  PROVE  AdmissionInv'
<1>1. tenants' = tenants /\ adm' = adm /\ global' = global /\ req' = req
  BY DEF vars
<1>2. TypeOK' /\ Separate' /\ Used' = Used
  BY <1>1 DEF AdmissionInv, TypeOK, Separate, Used
<1>3. \A r \in Requests : Attached(r)'
  BY <1>1 DEF AdmissionInv, Attached
<1>4. \A a \in Used : Counted(a)' /\ Lined(a)'
  <2>1. \A a, places : At(a, places)' = At(a, places)
    BY <1>1 DEF At
  <2>2. \A a : Counted(a)' = Counted(a)
    BY <1>1, <2>1 DEF Counted
  <2>3. \A a : Lined(a)' = Lined(a)
    BY <1>1, <2>1 DEF Lined
  <2>. QED
    BY <2>2, <2>3 DEF AdmissionInv
<1>5. Gateway'
  BY <1>1 DEF AdmissionInv, Gateway, Inside
<1>. QED
  BY <1>2, <1>3, <1>4, <1>5 DEF AdmissionInv

LEMMA NextAdmissionInv == AdmissionInv /\ [Next]_vars => AdmissionInv'
<1>. SUFFICES ASSUME AdmissionInv, [Next]_vars PROVE AdmissionInv'
  OBVIOUS
<1>1. CASE UNCHANGED vars
  BY <1>1, StutterKeeps
<1>2. ASSUME NEW r \in Requests, Step(r)
      PROVE  AdmissionInv'
  BY <1>2, StepKeeps
<1>3. ASSUME NEW r \in Requests, NEW t \in Tenants, Find(r, t)
      PROVE  AdmissionInv'
  BY <1>3, FindKeeps
<1>. QED
  BY <1>1, <1>2, <1>3 DEF Next

\* Through timeouts, disconnects, refusals and evictions, the numbers of every tracked
\* tenant stay those of the requests that are at its gate.
THEOREM AdmissionInvariant == Spec => []AdmissionInv
  BY InitAdmissionInv, NextAdmissionInv, PTL DEF Spec

-----------------------------------------------------------------------------
(* What it gives                                                           *)

\* No permit and no reservation is lost, and the line of a tenant is exactly those who
\* wait in it.
THEOREM NothingLost == Spec => []PermitsConserved
<1>1. ASSUME AdmissionInv
      PROVE  PermitsConserved
  <2>1. ASSUME NEW t \in DOMAIN tenants, NEW a, a = tenants[t]
        PROVE  /\ adm[a].free + Cardinality(At(a, Permitted)) = MaxConcurrent
               /\ adm[a].queued = Cardinality(At(a, Queued))
               /\ ToSet(adm[a].waiters) = At(a, {"waiting"})
    <3>1. a \in Used /\ Counted(a) /\ Lined(a) /\ adm[a] \in Entry
      BY <1>1, <2>1 DEF AdmissionInv, TypeOK, Used
    <3>2. adm[a].waiters \in Seq(Requests)
      BY <3>1 DEF Entry
    <3>3. \A i \in DOMAIN adm[a].waiters : adm[a].waiters[i] \in Requests
      BY <3>2
    <3>4. At(a, {"waiting"}) \subseteq Requests
      BY DEF At
    <3>5. ToSet(adm[a].waiters) = At(a, {"waiting"})
      BY <3>1, <3>3, <3>4 DEF Lined, InLine, ToSet
    <3>. QED
      BY <3>1, <3>5 DEF Counted
  <2>2. global + Cardinality(Inside) = MaxGlobalInflight
    BY <1>1 DEF AdmissionInv, Gateway
  <2>. QED
    BY <2>1, <2>2 DEF PermitsConserved, Inside
<1>. QED
  BY <1>1, AdmissionInvariant, PTL

\* A tenant's requests beyond its gate, and those waiting at it, stay within its limits,
\* though its entry may have been evicted and made anew between two of them.
THEOREM LimitsKept == Spec => []TenantLimits
<1>1. ASSUME AdmissionInv
      PROVE  TenantLimits
  <2>1. ASSUME NEW t \in Tenants, NEW places, places \subseteq Holding, NEW n \in Nat,
               \A a \in Used : Cardinality(At(a, places)) <= n
        PROVE  Cardinality(OfTenant(t, places)) <= n
    <3>1. CASE OfTenant(t, places) = {}
      BY <2>1, <3>1, FS_EmptySet
    <3>2. CASE OfTenant(t, places) # {}
      <4>1. ASSUME NEW q \in OfTenant(t, places)
            PROVE  t \in DOMAIN tenants /\ q \in At(tenants[t], places)
        <5>1. q \in Requests /\ req[q].pc \in Holding /\ req[q].pc \in places /\ req[q].tenant = t
          BY <2>1, <4>1 DEF OfTenant
        <5>2. t \in DOMAIN tenants /\ tenants[t] = req[q].adm
          BY <1>1, <5>1 DEF AdmissionInv, Attached
        <5>. QED
          BY <5>1, <5>2, AtMember
      <4>2. t \in DOMAIN tenants
        BY <3>2, <4>1
      <4>3. PICK a : a = tenants[t]
        OBVIOUS
      <4>4. a \in Used /\ OfTenant(t, places) \in SUBSET At(a, places)
        BY <4>1, <4>2, <4>3 DEF Used
      <4>5. At(a, places) \in SUBSET Requests /\ OfTenant(t, places) \in SUBSET Requests
        BY AtSubset DEF OfTenant
      <4>6. IsFiniteSet(At(a, places)) /\ Cardinality(At(a, places)) \in Nat
            /\ Cardinality(OfTenant(t, places)) \in Nat
        BY <4>5, RequestsFinite
      <4>7. Cardinality(OfTenant(t, places)) <= Cardinality(At(a, places))
        BY <4>4, <4>6, FS_Subset
      <4>8. Cardinality(At(a, places)) <= n
        BY <2>1, <4>4
      <4>. QED
        BY <4>6, <4>7, <4>8
    <3>. QED
      BY <3>1, <3>2
  <2>2. ASSUME NEW a \in Used
        PROVE  Cardinality(At(a, Permitted)) <= MaxConcurrent /\ Cardinality(At(a, Queued)) <= MaxQueue
    <3>1. Counted(a) /\ adm[a] \in Entry
      BY <1>1, <2>2 DEF AdmissionInv, TypeOK, Used
    <3>2. adm[a].free \in Nat /\ MaxConcurrent \in Nat
      BY <3>1, AdmissionBounds DEF Entry
    <3>3. Cardinality(At(a, Permitted)) \in Nat
      BY AtSubset, RequestsFinite
    <3>. QED
      BY <3>1, <3>2, <3>3 DEF Counted
  <2>3. Permitted \subseteq Holding /\ Queued \subseteq Holding /\ MaxConcurrent \in Nat /\ MaxQueue \in Nat
    BY AdmissionBounds DEF Permitted, Queued, Holding, Acquiring
  <2>4. TenantConcurrency
    BY <2>1, <2>2, <2>3 DEF TenantConcurrency
  <2>5. QueueBounded
    BY <2>1, <2>2, <2>3 DEF QueueBounded
  <2>. QED
    BY <2>4, <2>5 DEF TenantLimits
<1>. QED
  BY <1>1, AdmissionInvariant, PTL

\* Only an arrival is refused at the door.
LEMMA OnlyFindRefuses ==
  ASSUME AdmissionInv, NEW r \in Requests, [Next]_vars,
         req[r].pc = "outside", req'[r].pc = "overloaded"
  PROVE  \E t \in Tenants : Find(r, t) /\ Full(Kept(t), t)
<1>1. req \in [Requests -> Request]
  BY DEF AdmissionInv, TypeOK
<1>2. CASE UNCHANGED vars
  BY <1>2 DEF vars
<1>3. ASSUME NEW q \in Requests, Step(q), q = r
      PROVE  FALSE
  BY <1>3 DEF Step, TryTenant, Reserve, Enqueue, Wake, Abandon, AbandonGranted, TryGlobal,
     Finish, Leave, Refuse
<1>4. ASSUME NEW q \in Requests, Step(q), q # r
      PROVE  FALSE
  <2>1. ASSUME NEW x, req' = [req EXCEPT ![q] = x]
        PROVE  FALSE
    BY <1>1, <1>4, <2>1
  <2>2. ASSUME NEW place, Goto(q, place)
        PROVE  FALSE
    BY <1>1, <1>4, <2>2 DEF Goto
  <2>3. ASSUME NEW x, NEW h, HandsTo(q, x, h)
        PROVE  FALSE
    <3>. DEFINE m == [req EXCEPT ![q] = x]
    <3>1. req' = [m EXCEPT ![h].pc = "granted"]
      BY <2>3 DEF HandsTo
    <3>2. m[r] = req[r] /\ DOMAIN m = Requests
      BY <1>1, <1>4
    <3>. HIDE DEF m
    <3>3. CASE h = r
      <4>1. req'[r] = [req[r] EXCEPT !.pc = "granted"]
        BY <3>1, <3>2, <3>3
      <4>2. req'[r].pc = "granted"
        BY <1>1, <4>1 DEF Request
      <4>. QED
        BY <4>2
    <3>4. CASE h # r
      BY <3>1, <3>2, <3>4
    <3>. QED
      BY <3>3, <3>4
  <2>4. ASSUME NEW x, NEW left, ReturnPermit(q, x, left)
        PROVE  FALSE
    <3>1. req' = [req EXCEPT ![q] = x] \/ \E h : HandsTo(q, x, h)
      BY <2>4 DEF ReturnPermit, HandsTo
    <3>. QED
      BY <2>1, <2>3, <3>1
  <2>5. CASE TryTenant(q) \/ Reserve(q) \/ Enqueue(q) \/ Wake(q) \/ Abandon(q)
    BY <2>1, <2>2, <2>5 DEF TryTenant, Reserve, Enqueue, Wake, Abandon
  <2>6. CASE AbandonGranted(q) \/ TryGlobal(q) \/ Finish(q) \/ Leave(q) \/ Refuse(q)
    BY <2>1, <2>2, <2>4, <2>6 DEF AbandonGranted, TryGlobal, Finish, Leave, Refuse
  <2>. QED
    BY <1>4, <2>5, <2>6 DEF Step
<1>5. ASSUME NEW q \in Requests, NEW t \in Tenants, Find(q, t), ~(q = r /\ Full(Kept(t), t))
      PROVE  FALSE
  <2>1. CASE q # r
    BY <1>1, <1>5, <2>1 DEF Find
  <2>2. CASE q = r /\ ~Full(Kept(t), t)
    BY <1>1, <1>5, <2>2 DEF Find
  <2>. QED
    BY <1>5, <2>1, <2>2
<1>. QED
  BY <1>2, <1>3, <1>4, <1>5 DEF Next

\* A busy tenant has a request in progress.
LEMMA BusyHasRequest ==
  ASSUME AdmissionInv, NEW u \in DOMAIN tenants, Busy(tenants[u])
  PROVE  OfTenant(u, Holding) # {}
<1>1. PICK a : a = tenants[u]
  OBVIOUS
<1>2. a \in Used /\ Counted(a) /\ adm[a] \in Entry
  BY <1>1 DEF AdmissionInv, TypeOK, Used
<1>3. adm[a].free \in Nat /\ adm[a].queued \in Nat /\ MaxConcurrent \in Nat
  BY <1>2, AdmissionBounds DEF Entry
<1>4. At(a, Acquiring) # {} \/ At(a, Queued) # {} \/ At(a, Permitted) # {}
  <2>1. Cardinality({}) = 0
    BY FS_EmptySet
  <2>2. At(a, Queued) = {} => adm[a].queued = 0
    BY <1>2, <2>1 DEF Counted
  <2>3. At(a, Permitted) = {} => adm[a].free = MaxConcurrent
    BY <1>2, <1>3, <2>1 DEF Counted
  <2>. QED
    BY <1>1, <1>3, <2>2, <2>3 DEF Busy
<1>5. PICK q \in Requests : req[q].adm = a /\ req[q].pc \in Holding
  BY <1>4 DEF At, Holding, Acquiring, Queued, Permitted
<1>6. req[q].tenant \in DOMAIN tenants /\ tenants[req[q].tenant] = tenants[u]
  BY <1>1, <1>5, HeldEntry
<1>7. req[q].tenant = u
  BY <1>6 DEF AdmissionInv, Separate
<1>. QED
  BY <1>5, <1>7 DEF OfTenant

\* A tenant is turned away for cardinality only while every tracked tenant has a request
\* in progress, and never because of entries nobody uses.
THEOREM RefusalsJustified == Spec => RefusalJustified
<1>1. ASSUME AdmissionInv, [Next]_vars, NEW r \in Requests,
             req[r].pc = "outside", req'[r].pc = "overloaded", NEW u \in DOMAIN tenants
      PROVE  OfTenant(u, Acquiring \cup {"running"}) # {}
  <2>1. PICK t \in Tenants : Full(Kept(t), t)
    BY <1>1, OnlyFindRefuses
  <2>2. PICK kept : kept = Kept(t)
    OBVIOUS
  <2>3. /\ IsFiniteSet(DOMAIN tenants) /\ Cardinality(DOMAIN tenants) <= MaxTrackedTenants
        /\ kept \in SUBSET DOMAIN tenants /\ MaxTrackedTenants \in Nat
    BY <1>1, <2>2, KeptHeld, AdmissionBounds DEF AdmissionInv, TypeOK
  <2>4. Full(DOMAIN tenants, t)
    BY <2>1 DEF Kept
  <2>5. kept = {v \in DOMAIN tenants : Busy(tenants[v])}
    BY <2>2, <2>4 DEF Kept
  <2>6. kept = DOMAIN tenants
    <3>1. /\ Cardinality(kept) \in Nat /\ Cardinality(DOMAIN tenants) \in Nat
          /\ Cardinality(kept) <= Cardinality(DOMAIN tenants)
          /\ (Cardinality(DOMAIN tenants) = Cardinality(kept) => DOMAIN tenants = kept)
      BY <2>3, FS_Subset, FS_CardinalityType
    <3>2. Cardinality(kept) >= MaxTrackedTenants
      BY <2>1, <2>2 DEF Full
    <3>3. Cardinality(DOMAIN tenants) = Cardinality(kept)
      BY <2>3, <3>1, <3>2
    <3>. QED
      BY <3>1, <3>3
  <2>7. Busy(tenants[u])
    BY <1>1, <2>5, <2>6
  <2>. QED
    BY <1>1, <2>7, BusyHasRequest DEF Holding
<1>2. AdmissionInv /\ [Next]_vars =>
        [\A r \in Requests :
            req[r].pc = "outside" /\ req'[r].pc = "overloaded" =>
                \A t \in DOMAIN tenants :
                    OfTenant(t, Acquiring \cup {"running"}) # {}]_vars
  BY <1>1
<1>. QED
  BY <1>2, AdmissionInvariant, PTL DEF Spec, RefusalJustified

-----------------------------------------------------------------------------
(* The circuit breaker.                                                    *)

BreakerTypes ==
    /\ state \in {"closed", "open", "half_open"}
    /\ failures \in 0 .. OpenThreshold
    /\ successes \in Nat
    /\ age \in 0 .. OpenInterval \cup {Nobody}
    /\ tripped \in 0 .. OpenInterval
    /\ succeeded \in 0 .. RecoveryThreshold

\* The counters of the breaker are what the histories say they are: the failures in any
\* state, the successes in a probe; and an open breaker was opened no later than its
\* clock says, which every further failure sets back.
BreakerInv ==
    /\ BreakerTypes
    /\ failed = failures
    /\ state = "half_open" => successes = succeeded /\ successes < RecoveryThreshold
    /\ state = "open" => age # Nobody /\ age <= tripped

LEMMA BreakerStarts ==
  ASSUME Breaker!BreakerThresholds, Breaker!Init
  PROVE  BreakerInv
BY DEF Breaker!BreakerThresholds, Breaker!Init, BreakerInv, BreakerTypes

LEMMA BreakerNext ==
  ASSUME Breaker!BreakerThresholds, BreakerInv, [Breaker!Next]_(Breaker!vars)
  PROVE  BreakerInv'
<1>1. CASE Breaker!State
  BY <1>1 DEF Breaker!BreakerThresholds, BreakerInv, BreakerTypes, Breaker!State,
              Breaker!Elapsed
<1>2. CASE Breaker!RecordFailure
  BY <1>2 DEF Breaker!BreakerThresholds, BreakerInv, BreakerTypes, Breaker!RecordFailure,
              Breaker!Upto
<1>3. CASE Breaker!RecordSuccess
  BY <1>3 DEF Breaker!BreakerThresholds, BreakerInv, BreakerTypes, Breaker!RecordSuccess,
              Breaker!Upto
<1>4. CASE Breaker!Tick
  BY <1>4 DEF Breaker!BreakerThresholds, BreakerInv, BreakerTypes, Breaker!Tick, Breaker!Upto
<1>5. CASE UNCHANGED Breaker!vars
  BY <1>5 DEF BreakerInv, BreakerTypes, Breaker!vars
<1>. QED
  BY <1>1, <1>2, <1>3, <1>4, <1>5 DEF Breaker!Next

\* What a step of the breaker may do to its state.
BreakerMoves ==
    /\ state # "open" /\ state' = "open" => failed' = OpenThreshold
    /\ state = "open" /\ state' # "open" => state' = "half_open" /\ tripped = OpenInterval
    /\ state # "closed" /\ state' = "closed" => succeeded' = RecoveryThreshold

LEMMA BreakerStep ==
  ASSUME Breaker!BreakerThresholds, BreakerInv, Breaker!Next
  PROVE  BreakerMoves
<1>1. CASE Breaker!State
  BY <1>1 DEF Breaker!BreakerThresholds, BreakerInv, BreakerTypes, BreakerMoves, Breaker!State,
              Breaker!Elapsed
<1>2. CASE Breaker!RecordFailure
  BY <1>2 DEF Breaker!BreakerThresholds, BreakerInv, BreakerTypes, BreakerMoves,
              Breaker!RecordFailure, Breaker!Upto
<1>3. CASE Breaker!RecordSuccess
  BY <1>3 DEF Breaker!BreakerThresholds, BreakerInv, BreakerTypes, BreakerMoves,
              Breaker!RecordSuccess, Breaker!Upto
<1>4. CASE Breaker!Tick
  BY <1>4 DEF BreakerMoves, Breaker!Tick
<1>. QED
  BY <1>1, <1>2, <1>3, <1>4 DEF Breaker!Next

\* runtime.rs: for any thresholds and any order of outcomes and of calls of `state', the
\* breaker opens on a run of failures alone, is probed only after its interval, and
\* closes on successes of one probe alone.
THEOREM OpensAndCloses == Breaker!Spec => Hysteresis
<1>1. Breaker!BreakerThresholds
  BY RuntimeConstants DEF Breaker!BreakerThresholds
<1>2. Breaker!Init => BreakerInv
  BY <1>1, BreakerStarts
<1>3. BreakerInv /\ [Breaker!Next]_(Breaker!vars) => BreakerInv'
  BY <1>1, BreakerNext
<1>4. BreakerInv /\ [Breaker!Next]_(Breaker!vars) => [BreakerMoves]_(Breaker!vars)
  BY <1>1, BreakerStep
<1>. QED
  BY <1>2, <1>3, <1>4, PTL DEF Breaker!Spec, Hysteresis, Breaker!Hysteresis, BreakerMoves

-----------------------------------------------------------------------------
(* The fair queue.                                                         *)

\* A tenant's queue: items that cost something, the first more than was saved for it.
Backlog == [tenant : QueueTenants, deficit : Nat, items : Seq(Nat)]
Waiting(q) ==
    /\ q.items # << >>
    /\ \A k \in 1 .. Len(q.items) : 1 <= q.items[k] /\ q.items[k] <= MaxCost
    /\ q.deficit < q.items[1]

\* Queues of as many tenants.
Lanes(Q) ==
    /\ Q \in Seq(Backlog)
    /\ \A i \in 1 .. Len(Q) : Waiting(Q[i])
    /\ \A i, j \in 1 .. Len(Q) : Q[i].tenant = Q[j].tenant => i = j

\* What tenant i was given: what it was served, and what it saved since it held d.
Given(q, S, d) == S[q.tenant] + q.deficit - d[q.tenant]

\* All tenants were given the same, but for those behind the n-th, who were visited once
\* more in this round.
Rounds(Q, S, d, m, n) ==
    /\ d \in [QueueTenants -> 0 .. MaxCost - 1]
    /\ m \in Int /\ n \in 0 .. Len(Q)
    /\ \A i \in 1 .. Len(Q) : Given(Q[i], S, d) = IF i <= n THEN m ELSE m + 1

Balanced(Q, S) == \E d, m, n : Rounds(Q, S, d, m, n)

\* Of the tenants that wait one was passed over by every empty call.
PassedOver(Q, b) == b > 0 => \E i \in 1 .. Len(Q) : b <= Q[i].deficit

QueueInv ==
    /\ Lanes(queues)
    /\ served \in [QueueTenants -> Nat]
    /\ Balanced(queues, served)
    /\ barren \in Nat /\ PassedOver(queues, barren)

LEMMA CostBounds == MaxCost \in Nat /\ MaxCost >= 1 /\ 2 * MaxCost \in Nat
BY RuntimeConstants DEF Queue!FairQueueBounds

LEMMA LanesFacts ==
  ASSUME NEW Q, Lanes(Q)
  PROVE  /\ Len(Q) \in Nat /\ DOMAIN Q = 1 .. Len(Q)
         /\ Q = << >> <=> Len(Q) = 0
         /\ \A i \in 1 .. Len(Q) :
              /\ Q[i] \in Backlog
              /\ Q[i].tenant \in QueueTenants
              /\ Q[i].deficit \in 0 .. MaxCost - 1
              /\ Head(Q[i].items) = Q[i].items[1]
              /\ Q[i].items[1] \in Nat
              /\ Q[i].deficit < Q[i].items[1] /\ Q[i].items[1] <= MaxCost
              /\ Len(Q[i].items) \in Nat /\ Len(Q[i].items) >= 1
<1>1. Len(Q) \in Nat /\ DOMAIN Q = 1 .. Len(Q) /\ (Q = << >> <=> Len(Q) = 0)
  BY DEF Lanes
<1>2. ASSUME NEW i \in 1 .. Len(Q)
      PROVE  /\ Q[i] \in Backlog
             /\ Q[i].tenant \in QueueTenants
             /\ Q[i].deficit \in 0 .. MaxCost - 1
             /\ Head(Q[i].items) = Q[i].items[1]
             /\ Q[i].items[1] \in Nat
             /\ Q[i].deficit < Q[i].items[1] /\ Q[i].items[1] <= MaxCost
             /\ Len(Q[i].items) \in Nat /\ Len(Q[i].items) >= 1
  <2>1. Q[i] \in Backlog /\ Waiting(Q[i])
    BY <1>1, <1>2 DEF Lanes
  <2>2. PICK s : s = Q[i].items
    OBVIOUS
  <2>3. s \in Seq(Nat) /\ s # << >> /\ Q[i].deficit \in Nat /\ Q[i].tenant \in QueueTenants
    BY <2>1, <2>2 DEF Backlog, Waiting
  <2>4. Len(s) \in Nat /\ Len(s) >= 1 /\ s[1] \in Nat /\ Head(s) = s[1]
    BY <2>3
  <2>5. Q[i].deficit < s[1] /\ s[1] <= MaxCost
    BY <2>1, <2>2, <2>4 DEF Waiting
  <2>. QED
    BY <2>1, <2>2, <2>3, <2>4, <2>5, CostBounds
<1>. QED
  BY <1>1, <1>2

\* Any nonempty set of naturals has a least element.
LEMMA LeastOf ==
  ASSUME NEW T \in SUBSET Nat, T # {}
  PROVE  Queue!Min(T) \in T /\ \A x \in T : Queue!Min(T) <= x
<1>1. PICK R : R = {ss \in Nat \X Nat : ss[1] < ss[2]}
  OBVIOUS
<1>2. OpToRel(<, Nat) = R
  BY <1>1, Zenon DEF OpToRel
<1>3. IsWellFoundedOn(R, Nat)
  BY <1>2, NatLessThanWellFounded, Zenon
<1>4. PICK x \in T : \A y \in T : ~(<<y, x>> \in R)
  BY <1>3, WFMin
<1>5. ASSUME NEW y \in T PROVE x <= y
  <2>1. x \in Nat /\ y \in Nat
    OBVIOUS
  <2>2. <<y, x>> \in Nat \X Nat /\ <<y, x>>[1] = y /\ <<y, x>>[2] = x
    BY <2>1
  <2>3. ~(y < x)
    BY <1>1, <1>4, <2>2, Zenon
  <2>. QED
    BY <2>1, <2>3
<1>. QED
  BY <1>5 DEF Queue!Min

\* Tenants that wait were served the same, up to one unit and what they had saved.
LEMMA BalancedIsEven ==
  ASSUME NEW Q, NEW S \in [QueueTenants -> Nat], Lanes(Q), Balanced(Q, S),
         NEW i \in 1 .. Len(Q), NEW j \in 1 .. Len(Q)
  PROVE  S[Q[i].tenant] - S[Q[j].tenant] <= 2 * MaxCost - 1
<1>1. PICK d, m, n : Rounds(Q, S, d, m, n)
  BY DEF Balanced
<1>2. Q[i].tenant \in QueueTenants /\ Q[j].tenant \in QueueTenants
      /\ Q[i].deficit \in 0 .. MaxCost - 1 /\ Q[j].deficit \in 0 .. MaxCost - 1
  BY LanesFacts
<1>3. PICK si, sj, ei, ej, di, dj :
         /\ si = S[Q[i].tenant] /\ sj = S[Q[j].tenant]
         /\ ei = Q[i].deficit /\ ej = Q[j].deficit
         /\ di = d[Q[i].tenant] /\ dj = d[Q[j].tenant]
  OBVIOUS
<1>4. si \in Nat /\ sj \in Nat /\ ei \in 0 .. MaxCost - 1 /\ ej \in 0 .. MaxCost - 1
      /\ di \in 0 .. MaxCost - 1 /\ dj \in 0 .. MaxCost - 1
  BY <1>1, <1>2, <1>3 DEF Rounds
<1>5. m \in Int /\ si + ei - di \in {m, m + 1} /\ sj + ej - dj \in {m, m + 1}
  BY <1>1, <1>3 DEF Rounds, Given
<1>6. si - sj <= 2 * MaxCost - 1
  BY <1>4, <1>5, CostBounds
<1>. QED
  BY <1>3, <1>6

\* When the set of tenants changes, the count begins anew.
LEMMA CountAnew ==
  ASSUME NEW Q, Lanes(Q)
  PROVE  Balanced(Q, [t \in QueueTenants |-> 0])
<1>1. PICK S : S = [t \in QueueTenants |-> 0]
  OBVIOUS
<1>2. PICK d : d = [t \in QueueTenants |->
                      IF \E i \in 1 .. Len(Q) : Q[i].tenant = t
                      THEN Q[CHOOSE i \in 1 .. Len(Q) : Q[i].tenant = t].deficit ELSE 0]
  OBVIOUS
<1>3. \A i \in 1 .. Len(Q) : d[Q[i].tenant] = Q[i].deficit
  <2>. SUFFICES ASSUME NEW i \in 1 .. Len(Q) PROVE d[Q[i].tenant] = Q[i].deficit
    OBVIOUS
  <2>1. Q[i].tenant \in QueueTenants
    BY LanesFacts
  <2>2. PICK k : k = CHOOSE j \in 1 .. Len(Q) : Q[j].tenant = Q[i].tenant
    OBVIOUS
  <2>3. k \in 1 .. Len(Q) /\ Q[k].tenant = Q[i].tenant
    BY <2>2
  <2>4. k = i
    BY <2>3 DEF Lanes
  <2>. QED
    BY <1>2, <2>1, <2>2, <2>4
<1>4. d \in [QueueTenants -> 0 .. MaxCost - 1]
  <2>. SUFFICES ASSUME NEW t \in QueueTenants PROVE d[t] \in 0 .. MaxCost - 1
    BY <1>2
  <2>1. CASE \E i \in 1 .. Len(Q) : Q[i].tenant = t
    BY <1>3, <2>1, LanesFacts
  <2>2. CASE ~\E i \in 1 .. Len(Q) : Q[i].tenant = t
    BY <1>2, <2>2, CostBounds
  <2>. QED
    BY <2>1, <2>2
<1>5. \A i \in 1 .. Len(Q) : Given(Q[i], S, d) = 0
  <2>. SUFFICES ASSUME NEW i \in 1 .. Len(Q) PROVE Given(Q[i], S, d) = 0
    OBVIOUS
  <2>1. Q[i].tenant \in QueueTenants /\ Q[i].deficit \in Nat
    BY LanesFacts, CostBounds
  <2>2. S[Q[i].tenant] = 0 /\ d[Q[i].tenant] = Q[i].deficit
    BY <1>1, <1>3, <2>1
  <2>. QED
    BY <2>1, <2>2 DEF Given
<1>6. PICK m, n : m = 0 /\ n = Len(Q)
  OBVIOUS
<1>7. Rounds(Q, S, d, m, n)
  BY <1>4, <1>5, <1>6, LanesFacts DEF Rounds
<1>. QED
  BY <1>1, <1>7 DEF Balanced

\* The histories are relative to the tenant that was served least: no difference between
\* tenants changes, and none is so large that it is cut off.
LEMMA RelativeKeeps ==
  ASSUME NEW Q, NEW S \in [QueueTenants -> Nat], NEW before, Lanes(Q),
         before = Queue!Present(Q) => Balanced(Q, S)
  PROVE  /\ Queue!Relative(S, before, Queue!Present(Q)) \in [QueueTenants -> Nat]
         /\ Balanced(Q, Queue!Relative(S, before, Queue!Present(Q)))
<1>1. PICK after : after = Queue!Present(Q)
  OBVIOUS
<1>2. after = {Q[i].tenant : i \in 1 .. Len(Q)}
  BY <1>1, LanesFacts DEF Queue!Present
<1>3. CASE after = {} \/ after # before
  <2>1. Queue!Relative(S, before, after) = [t \in QueueTenants |-> 0]
    BY <1>3 DEF Queue!Relative
  <2>. QED
    BY <1>1, <2>1, CountAnew
<1>4. CASE after # {} /\ after = before
  <2>1. PICK least : least = Queue!Min({S[t] : t \in after})
    OBVIOUS
  <2>2. PICK T : T = {S[t] : t \in after}
    OBVIOUS
  <2>3. after \subseteq QueueTenants
    BY <1>2, LanesFacts
  <2>4. T \in SUBSET Nat /\ T # {}
    BY <1>4, <2>2, <2>3
  <2>5. least \in T /\ \A x \in T : least <= x
    BY <2>1, <2>2, <2>4, LeastOf
  <2>6. PICK k \in 1 .. Len(Q) : least = S[Q[k].tenant]
    BY <1>2, <2>2, <2>5
  <2>7. least \in Nat
    BY <2>4, <2>5
  <2>8. Balanced(Q, S)
    BY <1>1, <1>4
  <2>9. PICK R : R = Queue!Relative(S, before, after)
    OBVIOUS
  <2>10. R = [t \in QueueTenants |->
                IF t \in after THEN Queue!Capped(S[t] - least, 2 * MaxCost) ELSE 0]
    BY <1>4, <2>1, <2>9 DEF Queue!Relative
  <2>11. ASSUME NEW i \in 1 .. Len(Q) PROVE R[Q[i].tenant] = S[Q[i].tenant] - least
    <3>1. PICK t : t = Q[i].tenant
      OBVIOUS
    <3>2. t \in after /\ t \in QueueTenants /\ S[t] \in Nat
      BY <1>2, <2>3, <3>1
    <3>3. S[t] - S[Q[k].tenant] <= 2 * MaxCost - 1
      BY <2>8, <3>1, BalancedIsEven
    <3>4. PICK x : x = S[t] - least
      OBVIOUS
    <3>5. x \in Int /\ x <= 2 * MaxCost
      BY <2>6, <2>7, <3>2, <3>3, <3>4, CostBounds
    <3>6. Queue!Capped(x, 2 * MaxCost) = x
      BY <3>5, CostBounds DEF Queue!Capped
    <3>. QED
      BY <2>10, <3>1, <3>2, <3>4, <3>6
  <2>12. ASSUME NEW t \in QueueTenants PROVE R[t] \in Nat
    <3>1. CASE t \in after
      <4>1. PICK i \in 1 .. Len(Q) : t = Q[i].tenant
        BY <1>2, <3>1
      <4>2. S[t] \in T /\ S[t] \in Nat
        BY <2>2, <3>1
      <4>3. least <= S[t]
        BY <2>5, <4>2
      <4>. QED
        BY <2>7, <2>11, <4>1, <4>2, <4>3
    <3>2. CASE t \notin after
      BY <2>10, <3>2
    <3>. QED
      BY <3>1, <3>2
  <2>13. R \in [QueueTenants -> Nat]
    BY <2>10, <2>12
  <2>14. PICK d, m, n : Rounds(Q, S, d, m, n)
    BY <2>8 DEF Balanced
  <2>15. PICK m1 : m1 = m - least
    OBVIOUS
  <2>16. m \in Int /\ m1 \in Int /\ m1 + 1 = m + 1 - least
    BY <2>7, <2>14, <2>15 DEF Rounds
  <2>17. ASSUME NEW i \in 1 .. Len(Q)
         PROVE  Given(Q[i], R, d) = IF i <= n THEN m1 ELSE m1 + 1
    <3>1. PICK s, e, o : s = S[Q[i].tenant] /\ e = Q[i].deficit /\ o = d[Q[i].tenant]
      OBVIOUS
    <3>2. Q[i].tenant \in QueueTenants /\ Q[i].deficit \in 0 .. MaxCost - 1
      BY LanesFacts
    <3>3. d \in [QueueTenants -> 0 .. MaxCost - 1]
      BY <2>14 DEF Rounds
    <3>4. s \in Nat /\ e \in Int /\ o \in Int
      BY <3>1, <3>2, <3>3, CostBounds
    <3>5. s + e - o = IF i <= n THEN m ELSE m + 1
      BY <2>14, <3>1 DEF Rounds, Given
    <3>6. Given(Q[i], R, d) = s - least + e - o
      BY <2>11, <3>1 DEF Given
    <3>. QED
      BY <2>7, <2>15, <2>16, <3>4, <3>5, <3>6
  <2>18. Rounds(Q, R, d, m1, n)
    BY <2>14, <2>16, <2>17 DEF Rounds
  <2>. QED
    BY <1>1, <2>9, <2>13, <2>18 DEF Balanced
<1>. QED
  BY <1>3, <1>4

-----------------------------------------------------------------------------
(* The fair queue: what its steps do.                                      *)

\* Tenant t has a queue in Q.
LEMMA PresentIn ==
  ASSUME NEW Q, Lanes(Q), NEW t
  PROVE  t \in Queue!Present(Q) <=> \E i \in 1 .. Len(Q) : Q[i].tenant = t
BY LanesFacts DEF Queue!Present

LEMMA FunctionIsLine ==
  ASSUME NEW n \in Nat, NEW X, NEW f \in [1 .. n -> X]
  PROVE  f \in Seq(X) /\ Len(f) = n
<1>1. f \in Seq(X)
  BY SeqDef, Zenon
<1>2. DOMAIN f = 1 .. n /\ DOMAIN f = 1 .. Len(f) /\ Len(f) \in Nat
  BY <1>1
<1>. QED
  BY <1>1, <1>2

LEMMA ItemAppended ==
  ASSUME NEW q \in Backlog, Waiting(q), NEW cost \in 1 .. MaxCost
  PROVE  /\ [q EXCEPT !.items = Append(@, cost)] \in Backlog
         /\ Waiting([q EXCEPT !.items = Append(@, cost)])
<1>1. PICK s : s = q.items
  OBVIOUS
<1>2. PICK p : p = [q EXCEPT !.items = Append(@, cost)]
  OBVIOUS
<1>3. s \in Seq(Nat) /\ s # << >> /\ cost \in Nat /\ cost \in Int /\ MaxCost \in Nat
  BY <1>1, CostBounds DEF Backlog, Waiting
<1>4. /\ Append(s, cost) \in Seq(Nat) /\ Append(s, cost) # << >>
      /\ Len(Append(s, cost)) = Len(s) + 1 /\ Len(s) \in Nat /\ Len(s) >= 1
      /\ \A k \in 1 .. Len(s) : Append(s, cost)[k] = s[k]
      /\ Append(s, cost)[Len(s) + 1] = cost
  BY <1>3
<1>5. p.items = Append(s, cost) /\ p.deficit = q.deficit /\ p.tenant = q.tenant /\ p \in Backlog
  BY <1>1, <1>2, <1>4 DEF Backlog
<1>6. \A k \in 1 .. Len(s) : 1 <= s[k] /\ s[k] <= MaxCost
  BY <1>1 DEF Waiting
<1>7. ASSUME NEW k \in 1 .. Len(p.items) PROVE 1 <= p.items[k] /\ p.items[k] <= MaxCost
  <2>1. CASE k \in 1 .. Len(s)
    BY <1>4, <1>5, <1>6, <2>1
  <2>2. CASE k = Len(s) + 1
    BY <1>4, <1>5, <2>2
  <2>. QED
    BY <1>4, <1>5, <2>1, <2>2
<1>8. p.deficit < p.items[1]
  BY <1>1, <1>4, <1>5 DEF Waiting
<1>. QED
  BY <1>2, <1>4, <1>5, <1>7, <1>8 DEF Waiting

\* An item joins the queue of its tenant, behind all others.
LEMMA PushedOld ==
  ASSUME NEW Q, Q = queues, Lanes(Q), NEW t \in Queue!Present(Q), NEW cost \in 1 .. MaxCost,
         NEW P, P = Queue!Pushed(t, cost)
  PROVE  /\ Lanes(P) /\ Len(P) = Len(Q)
         /\ \A i \in 1 .. Len(Q) : P[i].tenant = Q[i].tenant /\ P[i].deficit = Q[i].deficit
<1>0. P = [i \in DOMAIN Q |->
             IF Q[i].tenant = t THEN [Q[i] EXCEPT !.items = Append(@, cost)] ELSE Q[i]]
  BY DEF Queue!Pushed
<1>1. DOMAIN Q = 1 .. Len(Q) /\ Len(Q) \in Nat
  BY LanesFacts
<1>2. ASSUME NEW i \in 1 .. Len(Q)
      PROVE  /\ P[i] \in Backlog /\ Waiting(P[i])
             /\ P[i].tenant = Q[i].tenant /\ P[i].deficit = Q[i].deficit
  <2>1. Q[i] \in Backlog /\ Waiting(Q[i])
    BY LanesFacts DEF Lanes
  <2>2. CASE Q[i].tenant = t
    <3>1. P[i] = [Q[i] EXCEPT !.items = Append(@, cost)]
      BY <1>0, <1>1, <2>2
    <3>2. PICK q : q = Q[i]
      OBVIOUS
    <3>3. q \in Backlog /\ Waiting(q) /\ P[i] = [q EXCEPT !.items = Append(@, cost)]
      BY <2>1, <3>1, <3>2
    <3>4. P[i] \in Backlog /\ Waiting(P[i])
      BY <3>3, ItemAppended
    <3>5. P[i].tenant = q.tenant /\ P[i].deficit = q.deficit
      BY <3>3 DEF Backlog
    <3>. QED
      BY <3>2, <3>4, <3>5
  <2>3. CASE Q[i].tenant # t
    <3>1. P[i] = Q[i]
      BY <1>0, <1>1, <2>3
    <3>. QED
      BY <2>1, <3>1
  <2>. QED
    BY <2>2, <2>3
<1>3. P \in [1 .. Len(Q) -> Backlog]
  BY <1>0, <1>1, <1>2
<1>4. P \in Seq(Backlog) /\ Len(P) = Len(Q)
  BY <1>1, <1>3, FunctionIsLine
<1>5. \A i, j \in 1 .. Len(Q) : P[i].tenant = P[j].tenant => i = j
  BY <1>2 DEF Lanes
<1>6. Lanes(P)
  BY <1>2, <1>4, <1>5 DEF Lanes
<1>. QED
  BY <1>2, <1>4, <1>6

\* A tenant that had nothing to do gets a queue, behind all others.
LEMMA PushedNew ==
  ASSUME NEW Q, Q = queues, Lanes(Q), NEW t \in QueueTenants, t \notin Queue!Present(Q),
         NEW cost \in 1 .. MaxCost, NEW P, P = Queue!Pushed(t, cost)
  PROVE  /\ Lanes(P) /\ Len(P) = Len(Q) + 1 /\ P[Len(Q) + 1].tenant = t
         /\ \A i \in 1 .. Len(Q) : P[i] = Q[i]
<1>0. /\ P = Append(Q, [tenant |-> t, deficit |-> 0, items |-> <<cost>>])
      /\ \A i \in 1 .. Len(Q) : Q[i].tenant # t
  BY PresentIn DEF Queue!Pushed
<1>1. PICK q : q = [tenant |-> t, deficit |-> 0, items |-> <<cost>>]
  OBVIOUS
<1>2. q \in Backlog /\ Waiting(q) /\ q.tenant = t
  <2>1. <<cost>> \in Seq(Nat) /\ <<cost>> # << >> /\ Len(<<cost>>) = 1 /\ <<cost>>[1] = cost
    BY CostBounds
  <2>2. q.items = <<cost>> /\ q.deficit = 0 /\ q.tenant = t
    BY <1>1
  <2>3. \A k \in 1 .. 1 : k = 1
    OBVIOUS
  <2>4. 1 <= cost /\ cost <= MaxCost /\ cost \in Nat
    BY CostBounds
  <2>. QED
    BY <1>1, <2>1, <2>2, <2>3, <2>4 DEF Backlog, Waiting
<1>3. Q \in Seq(Backlog)
  BY DEF Lanes
<1>4. /\ P \in Seq(Backlog) /\ Len(P) = Len(Q) + 1 /\ P[Len(Q) + 1] = q
      /\ \A i \in 1 .. Len(Q) : P[i] = Q[i]
  BY <1>0, <1>1, <1>2, <1>3
<1>5. Len(Q) \in Nat
  BY <1>3
<1>6. ASSUME NEW i \in 1 .. Len(P) PROVE Waiting(P[i])
  BY <1>2, <1>4, <1>5, <1>6 DEF Lanes
<1>7. ASSUME NEW i \in 1 .. Len(P), NEW j \in 1 .. Len(P), P[i].tenant = P[j].tenant
      PROVE  i = j
  <2>1. CASE i \in 1 .. Len(Q) /\ j \in 1 .. Len(Q)
    BY <1>4, <1>7, <2>1 DEF Lanes
  <2>2. CASE i \in 1 .. Len(Q) /\ j = Len(Q) + 1
    BY <1>0, <1>2, <1>4, <1>7, <2>2
  <2>3. CASE j \in 1 .. Len(Q) /\ i = Len(Q) + 1
    BY <1>0, <1>2, <1>4, <1>7, <2>3
  <2>. QED
    BY <1>4, <1>5, <2>1, <2>2, <2>3
<1>8. Lanes(P)
  BY <1>4, <1>6, <1>7 DEF Lanes
<1>. QED
  BY <1>2, <1>4, <1>8

LEMMA PushKeeps ==
  ASSUME QueueInv, NEW t \in QueueTenants, NEW c \in 0 .. MaxCost + 1, Queue!Push(t, c)
  PROVE  QueueInv'
<1>1. PICK cost : cost = Queue!Charged(c)
  OBVIOUS
<1>2. cost \in 1 .. MaxCost
  BY <1>1, CostBounds DEF Queue!Push, Queue!Accepts, Queue!Charged
<1>3. PICK Q, P, S, R : Q = queues /\ P = queues' /\ S = served /\ R = served'
  OBVIOUS
<1>9. barren \in Nat
  BY DEF QueueInv
<1>4. Lanes(Q) /\ S \in [QueueTenants -> Nat] /\ Balanced(Q, S) /\ PassedOver(Q, barren)
  BY <1>3 DEF QueueInv
<1>5. P = Queue!Pushed(t, cost) /\ R = Queue!Relative(S, Queue!Present(Q), Queue!Present(P))
      /\ barren' = barren
  BY <1>1, <1>3 DEF Queue!Push
<1>6. DOMAIN Q = 1 .. Len(Q) /\ Len(Q) \in Nat
  BY <1>4, LanesFacts
<1>7. CASE t \in Queue!Present(Q)
  <2>2. /\ Lanes(P) /\ Len(P) = Len(Q)
        /\ \A i \in 1 .. Len(Q) : P[i].tenant = Q[i].tenant /\ P[i].deficit = Q[i].deficit
    BY <1>2, <1>3, <1>4, <1>5, <1>7, PushedOld
  <2>3. Balanced(P, S)
    <3>1. PICK d, m, n : Rounds(Q, S, d, m, n)
      BY <1>4 DEF Balanced
    <3>2. Rounds(P, S, d, m, n)
      BY <2>2, <3>1 DEF Rounds, Given
    <3>. QED
      BY <3>2 DEF Balanced
  <2>4. PassedOver(P, barren)
    BY <1>4, <2>2 DEF PassedOver
  <2>5. R \in [QueueTenants -> Nat] /\ Balanced(P, R)
    BY <1>4, <1>5, <2>2, <2>3, RelativeKeeps
  <2>. QED
    BY <1>3, <1>5, <1>9, <2>2, <2>4, <2>5 DEF QueueInv
<1>8. CASE t \notin Queue!Present(Q)
  <2>3. /\ Lanes(P) /\ Len(P) = Len(Q) + 1 /\ P[Len(Q) + 1].tenant = t
        /\ \A i \in 1 .. Len(Q) : P[i] = Q[i]
    BY <1>2, <1>3, <1>4, <1>5, <1>8, PushedNew
  <2>4. t \in Queue!Present(P)
    <3>1. Len(Q) + 1 \in 1 .. Len(P)
      BY <1>6, <2>3
    <3>. QED
      BY <2>3, <3>1, PresentIn
  <2>5. Queue!Present(Q) # Queue!Present(P)
    BY <1>8, <2>4
  <2>6. PassedOver(P, barren)
    BY <1>4, <1>6, <2>3 DEF PassedOver
  <2>7. R \in [QueueTenants -> Nat] /\ Balanced(P, R)
    BY <1>4, <1>5, <2>3, <2>5, RelativeKeeps
  <2>. QED
    BY <1>3, <1>5, <1>9, <2>3, <2>6, <2>7 DEF QueueInv
<1>. QED
  BY <1>7, <1>8

\* A visit pays for no item yet.
LEMMA VisitedWaits ==
  ASSUME NEW q \in Backlog, Waiting(q), ~Queue!CanPay(q)
  PROVE  /\ Queue!Visited(q) \in Backlog /\ Waiting(Queue!Visited(q))
         /\ Queue!Visited(q).tenant = q.tenant
         /\ Queue!Visited(q).deficit = q.deficit + 1
<1>1. PICK p : p = Queue!Visited(q)
  OBVIOUS
<1>2. PICK s : s = q.items
  OBVIOUS
<1>3. p.tenant = q.tenant /\ p.deficit = q.deficit + 1 /\ p.items = s /\ p \in Backlog
  BY <1>1, <1>2 DEF Queue!Visited, Backlog
<1>4. s \in Seq(Nat) /\ s # << >> /\ q.deficit \in Nat
  BY <1>2 DEF Backlog, Waiting
<1>5. Head(s) = s[1] /\ s[1] \in Nat
  BY <1>4
<1>6. q.deficit + 1 < s[1]
  BY <1>2, <1>4, <1>5 DEF Queue!CanPay, Queue!Cost
<1>. QED
  BY <1>1, <1>2, <1>3, <1>6 DEF Waiting

\* A visit that pays for the first item pays for it exactly.
LEMMA PaidWaits ==
  ASSUME NEW q \in Backlog, Waiting(q), Queue!CanPay(q)
  PROVE  /\ Queue!Cost(q) = q.deficit + 1
         /\ Queue!Paid(q) \in Backlog
         /\ Queue!Paid(q).tenant = q.tenant /\ Queue!Paid(q).deficit = 0
         /\ Queue!Paid(q).items # << >> => Waiting(Queue!Paid(q))
<1>1. PICK s, e : s = q.items /\ e = q.deficit
  OBVIOUS
<1>2. s \in Seq(Nat) /\ s # << >> /\ e \in Nat
  BY <1>1 DEF Backlog, Waiting
<1>3. Head(s) = s[1] /\ s[1] \in Nat /\ Len(s) \in Nat
  BY <1>2
<1>4. e < s[1] /\ Queue!Cost(q) = s[1]
  BY <1>1, <1>3 DEF Waiting, Queue!Cost
<1>5. s[1] <= e + 1
  BY <1>1, <1>4 DEF Queue!CanPay
<1>6. Queue!Cost(q) = e + 1
  BY <1>2, <1>3, <1>4, <1>5
<1>7. PICK p : p = Queue!Paid(q)
  OBVIOUS
<1>8. PICK v, c, a : v = Queue!Visited(q) /\ c = Queue!Cost(q) /\ a = e + 1
  OBVIOUS
<1>12. v = [tenant |-> q.tenant, deficit |-> a, items |-> s] /\ c \in Nat /\ a \in Nat /\ c = a
  BY <1>1, <1>2, <1>6, <1>8 DEF Queue!Visited, Backlog
<1>13. p = [v EXCEPT !.items = Tail(@), !.deficit = @ - c]
  BY <1>7, <1>8 DEF Queue!Paid
<1>15. PICK w : w = [v EXCEPT !.items = Tail(@)]
  OBVIOUS
<1>16. w = [tenant |-> q.tenant, deficit |-> a, items |-> Tail(s)]
  BY <1>12, <1>15
<1>17. p = [w EXCEPT !.deficit = @ - c]
  BY <1>13, <1>15
<1>14. p = [tenant |-> q.tenant, deficit |-> a - c, items |-> Tail(s)]
  BY <1>12, <1>16, <1>17
<1>9. p.tenant = q.tenant /\ p.deficit = 0 /\ p.items = Tail(s)
  BY <1>12, <1>14
<1>10. p \in Backlog
  BY <1>2, <1>9, <1>14 DEF Backlog
<1>11. ASSUME Tail(s) # << >> PROVE Waiting(p)
  <2>1. /\ Tail(s) \in Seq(Nat) /\ Len(Tail(s)) = Len(s) - 1
        /\ \A k \in 1 .. Len(Tail(s)) : Tail(s)[k] = s[k + 1]
    BY <1>2
  <2>2. Len(Tail(s)) >= 1
    BY <1>11, <2>1
  <2>3. ASSUME NEW k \in 1 .. Len(Tail(s)) PROVE 1 <= Tail(s)[k] /\ Tail(s)[k] <= MaxCost
    <3>1. k + 1 \in 1 .. Len(s)
      BY <1>3, <2>1
    <3>. QED
      BY <1>1, <2>1, <3>1 DEF Waiting
  <2>5. 1 \in 1 .. Len(Tail(s)) /\ Len(Tail(s)) \in Nat
    BY <2>1, <2>2
  <2>6. PICK u : u = Tail(s)
    OBVIOUS
  <2>7. u[1] \in Nat
    BY <2>1, <2>5, <2>6
  <2>4. Tail(s)[1] \in Nat /\ 1 <= Tail(s)[1]
    BY <2>3, <2>5, <2>6, <2>7
  <2>. QED
    BY <1>9, <1>11, <2>3, <2>4 DEF Waiting
<1>. QED
  BY <1>1, <1>6, <1>7, <1>9, <1>10, <1>11

\* The place in the line of old from which the k-th came when i were visited.
From(k, i, len) == IF k <= len - i THEN i + k ELSE k - (len - i)

\* The line after the visit of tenant i, and what that left each of its tenants with.
Moved(Q, i) ==
    Queue!Rotated([j \in 1 .. i - 1 |-> Queue!Visited(Q[j])],
                  Queue!Paid(Q[i]), SubSeq(Q, i + 1, Len(Q)))

Turned(P, Q, i) ==
    \A k \in 1 .. Len(P) :
        /\ P[k].tenant = Q[From(k, i, Len(Q))].tenant
        /\ k <= Len(Q) - i => P[k].deficit = Q[From(k, i, Len(Q))].deficit
        /\ k > Len(Q) - i /\ k < Len(Q) => P[k].deficit = Q[From(k, i, Len(Q))].deficit + 1
        /\ k = Len(Q) => P[k].deficit = 0

PaysFirst(Q, i) ==
    Queue!CanPay(Q[i]) /\ \A j \in 1 .. i - 1 : ~Queue!CanPay(Q[j])

LEMMA RotationIsLanes ==
  ASSUME NEW Q, Lanes(Q), NEW i \in 1 .. Len(Q), NEW P \in Seq(Backlog), Len(P) <= Len(Q),
         \A k \in 1 .. Len(P) : /\ Waiting(P[k])
                                /\ P[k].tenant = Q[From(k, i, Len(Q))].tenant
  PROVE  Lanes(P)
<1>1. Len(Q) \in Nat /\ Len(P) \in Nat
  BY LanesFacts
<1>2. ASSUME NEW j \in 1 .. Len(P), NEW k \in 1 .. Len(P), P[j].tenant = P[k].tenant
      PROVE  j = k
  <2>1. PICK a, b : a = From(j, i, Len(Q)) /\ b = From(k, i, Len(Q))
    OBVIOUS
  <2>2. a \in 1 .. Len(Q) /\ b \in 1 .. Len(Q)
    BY <1>1, <2>1 DEF From
  <2>3. a = b
    BY <1>2, <2>1, <2>2 DEF Lanes
  <2>. QED
    BY <1>1, <2>1, <2>2, <2>3 DEF From
<1>. QED
  BY <1>2 DEF Lanes

\* Queue i can pay: those in front of it go behind the others, and it follows them
\* unless it is empty.
LEMMA Rotates ==
  ASSUME NEW Q, Q = queues, Lanes(Q), NEW i \in 1 .. Len(Q), PaysFirst(Q, i),
         NEW P, P = Moved(Q, i)
  PROVE  Lanes(P) /\ Len(P) \in {Len(Q) - 1, Len(Q)} /\ Turned(P, Q, i)
<1>0. Queue!CanPay(Q[i]) /\ \A j \in 1 .. i - 1 : ~Queue!CanPay(Q[j])
  BY DEF PaysFirst
<1>1. PICK N, A, B, C, p :
         /\ N = Len(Q) /\ A = SubSeq(Q, i + 1, N) /\ p = Queue!Paid(Q[i])
         /\ B = [j \in 1 .. i - 1 |-> Queue!Visited(Q[j])]
         /\ C = IF p.items = << >> THEN << >> ELSE <<p>>
  OBVIOUS
<1>2. N \in Nat /\ i \in Nat /\ 1 <= i /\ i <= N /\ i - 1 \in Nat /\ N - i \in Nat
  BY <1>1, LanesFacts
<1>3. \A j \in 1 .. N : Q[j] \in Backlog /\ Waiting(Q[j])
  BY <1>1, LanesFacts DEF Lanes
<1>4. /\ p \in Backlog /\ p.tenant = Q[i].tenant /\ p.deficit = 0
      /\ p.items # << >> => Waiting(p)
  BY <1>0, <1>1, <1>2, <1>3, PaidWaits
<1>5. /\ A \in Seq(Backlog) /\ Len(A) = N - i
      /\ \A k \in 1 .. N - i : A[k] = Q[i + k]
  <2>1. i + 1 \in Int /\ N \in Int /\ \A j \in i + 1 .. N : Q[j] \in Backlog
    BY <1>2, <1>3
  <2>2. /\ A \in Seq(Backlog) /\ Len(A) = (IF i + 1 <= N THEN N - (i + 1) + 1 ELSE 0)
        /\ \A k \in 1 .. N - (i + 1) + 1 : A[k] = Q[i + 1 + k - 1]
    BY ONLY <1>1, <2>1, SubSeqProperties
  <2>3. N - (i + 1) + 1 = N - i /\ \A k \in 1 .. N - i : i + 1 + k - 1 = i + k
    BY <1>2
  <2>4. (IF i + 1 <= N THEN N - (i + 1) + 1 ELSE 0) = N - i
    BY <1>2
  <2>5. \A k \in 1 .. N - i : A[k] = Q[i + 1 + k - 1]
    BY <2>2, <2>3
  <2>. QED
    BY <2>2, <2>3, <2>4, <2>5, Zenon
<1>6. /\ B \in Seq(Backlog) /\ Len(B) = i - 1
      /\ \A k \in 1 .. i - 1 : B[k] \in Backlog /\ Waiting(B[k])
                               /\ B[k].tenant = Q[k].tenant
                               /\ B[k].deficit = Q[k].deficit + 1
  <2>1. ASSUME NEW k \in 1 .. i - 1
        PROVE  /\ B[k] \in Backlog /\ Waiting(B[k]) /\ B[k].tenant = Q[k].tenant
               /\ B[k].deficit = Q[k].deficit + 1
    <3>1. B[k] = Queue!Visited(Q[k])
      BY <1>1
    <3>2. k \in 1 .. N
      BY <1>2
    <3>. QED
      BY <1>0, <1>3, <3>1, <3>2, VisitedWaits
  <2>2. B \in [1 .. i - 1 -> Backlog]
    BY <1>1, <2>1
  <2>3. B \in Seq(Backlog) /\ Len(B) = i - 1
    BY <1>2, <2>2, FunctionIsLine
  <2>. QED
    BY <2>1, <2>3
<1>7. PICK M : M = IF p.items = << >> THEN 0 ELSE 1
  OBVIOUS
<1>8. C \in Seq(Backlog) /\ Len(C) = M /\ (M = 1 => C[1] = p)
  <2>1. CASE p.items = << >>
    BY <1>1, <1>7, <2>1
  <2>2. CASE p.items # << >>
    BY <1>1, <1>4, <1>7, <2>2
  <2>. QED
    BY <2>1, <2>2
<1>9. PICK AB : AB = A \o B
  OBVIOUS
<1>10. P = AB \o C
  BY <1>1, <1>9 DEF Moved, Queue!Rotated
<1>11. AB \in Seq(Backlog) /\ Len(AB) = N - 1
       /\ (\A k \in 1 .. N - i : AB[k] = A[k])
       /\ (\A k \in N - i + 1 .. N - 1 : AB[k] = B[k - (N - i)])
  <2>3. /\ AB \in Seq(Backlog) /\ Len(AB) = Len(A) + Len(B)
        /\ \A k \in 1 .. Len(A) + Len(B) :
              AB[k] = IF k <= Len(A) THEN A[k] ELSE B[k - Len(A)]
    BY <1>5, <1>6, <1>9, ConcatProperties
  <2>1. AB \in Seq(Backlog) /\ Len(AB) = N - i + (i - 1)
        /\ \A k \in 1 .. N - i + (i - 1) : AB[k] = IF k <= N - i THEN A[k] ELSE B[k - (N - i)]
    BY <1>5, <1>6, <2>3, Zenon
  <2>2. N - i + (i - 1) = N - 1 /\ (\A k \in 1 .. N - i : k \in 1 .. N - 1 /\ k <= N - i)
        /\ \A k \in N - i + 1 .. N - 1 : k \in 1 .. N - 1 /\ ~(k <= N - i)
    BY <1>2
  <2>. QED
    BY <2>1, <2>2
<1>12. /\ P \in Seq(Backlog) /\ Len(P) = N - 1 + M
       /\ \A k \in 1 .. N - 1 : P[k] = AB[k]
       /\ M = 1 => P[N] = p
  <2>6. AB \in Seq(Backlog) /\ C \in Seq(Backlog)
    BY <1>8, <1>11
  <2>5. /\ P \in Seq(Backlog) /\ Len(P) = Len(AB) + Len(C)
        /\ \A k \in 1 .. Len(AB) + Len(C) :
              P[k] = IF k <= Len(AB) THEN AB[k] ELSE C[k - Len(AB)]
    BY ONLY <1>10, <2>6, ConcatProperties
  <2>1. P \in Seq(Backlog) /\ Len(P) = N - 1 + M
        /\ \A k \in 1 .. N - 1 + M : P[k] = IF k <= N - 1 THEN AB[k] ELSE C[k - (N - 1)]
    BY <1>8, <1>11, <2>5, Zenon
  <2>2. M \in {0, 1}
    BY <1>7
  <2>3. \A k \in 1 .. N - 1 : k \in 1 .. N - 1 + M /\ k <= N - 1
    BY <1>2, <2>2
  <2>4. M = 1 => N \in 1 .. N - 1 + M /\ ~(N <= N - 1) /\ N - (N - 1) = 1
    BY <1>2
  <2>. QED
    BY <1>8, <2>1, <2>3, <2>4
<1>13. ASSUME NEW k \in 1 .. Len(P)
       PROVE  /\ Waiting(P[k])
              /\ P[k].tenant = Q[From(k, i, N)].tenant
              /\ k <= N - i => P[k].deficit = Q[From(k, i, N)].deficit
              /\ k > N - i /\ k < N => P[k].deficit = Q[From(k, i, N)].deficit + 1
              /\ k = N => P[k].deficit = 0
  <2>1. CASE k <= N - i
    <3>1. k \in 1 .. N - i /\ k \in 1 .. N - 1 /\ i + k \in 1 .. N /\ k < N
      BY <1>2, <2>1
    <3>2. P[k] = Q[i + k] /\ From(k, i, N) = i + k
      BY <1>5, <1>11, <1>12, <2>1, <3>1 DEF From
    <3>. QED
      BY <1>2, <1>3, <2>1, <3>1, <3>2
  <2>2. CASE k > N - i /\ k < N
    <3>1. k \in N - i + 1 .. N - 1 /\ k \in 1 .. N - 1 /\ k - (N - i) \in 1 .. i - 1
      BY <1>2, <2>2
    <3>2. From(k, i, N) = k - (N - i)
      BY <1>2, <2>2 DEF From
    <3>3. P[k] = AB[k] /\ AB[k] = B[k - (N - i)]
      BY <1>11, <1>12, <3>1
    <3>4. PICK j : j = k - (N - i)
      OBVIOUS
    <3>5. Waiting(B[j]) /\ B[j].tenant = Q[j].tenant /\ B[j].deficit = Q[j].deficit + 1
      BY <1>6, <3>1, <3>4
    <3>6. ~(k <= N - i) /\ k # N
      BY <1>2, <2>2
    <3>. QED
      BY <2>2, <3>2, <3>3, <3>4, <3>5, <3>6
  <2>3. CASE k = N
    <3>1. M = 1 /\ p.items # << >>
      BY <1>2, <1>7, <1>12, <2>3
    <3>2. P[k] = p /\ From(k, i, N) = i
      BY <1>2, <1>12, <2>3, <3>1 DEF From
    <3>. QED
      BY <1>2, <1>4, <2>3, <3>1, <3>2
  <2>4. k \in Nat /\ k <= N
    BY <1>2, <1>7, <1>12
  <2>. QED
    BY <1>2, <2>1, <2>2, <2>3, <2>4
<1>14. Len(P) = (IF p.items = << >> THEN N - 1 ELSE N) /\ Len(P) <= N
  BY <1>2, <1>7, <1>12
<1>15. Lanes(P)
  BY <1>1, <1>12, <1>13, <1>14, RotationIsLanes
<1>16. Turned(P, Q, i)
  BY <1>1, <1>13 DEF Turned
<1>. QED
  BY <1>1, <1>14, <1>15, <1>16

\* What a tenant was served and what it saved grow by one on each visit.
LEMMA RotationBalanced ==
  ASSUME NEW Q, Lanes(Q), NEW P, Lanes(P), NEW i \in 1 .. Len(Q), Len(P) = Len(Q),
         NEW S \in [QueueTenants -> Nat], Balanced(Q, S),
         NEW R \in [QueueTenants -> Nat], R[Q[i].tenant] = S[Q[i].tenant] + Q[i].deficit + 1,
         \A t \in QueueTenants : t # Q[i].tenant => R[t] = S[t], Turned(P, Q, i)
  PROVE  Balanced(P, R)
<1>0. \A k \in 1 .. Len(P) :
        /\ P[k].tenant = Q[From(k, i, Len(Q))].tenant
        /\ k <= Len(Q) - i => P[k].deficit = Q[From(k, i, Len(Q))].deficit
        /\ k > Len(Q) - i /\ k < Len(Q) => P[k].deficit = Q[From(k, i, Len(Q))].deficit + 1
        /\ k = Len(Q) => P[k].deficit = 0
  BY DEF Turned
<1>1. PICK d, m, n : Rounds(Q, S, d, m, n)
  BY DEF Balanced
<1>2. PICK N : N = Len(Q)
  OBVIOUS
<1>3. N \in Nat /\ i \in 1 .. N /\ m \in Int /\ n \in 0 .. N /\ N - i \in Nat
  BY <1>1, <1>2, LanesFacts DEF Rounds
<1>4. ASSUME NEW k \in 1 .. N
      PROVE  Given(P[k], R, d) = IF k <= N - i THEN Given(Q[i + k], S, d)
                                 ELSE Given(Q[k - (N - i)], S, d) + 1
  <2>1. PICK j : j = From(k, i, N)
    OBVIOUS
  <2>2. j \in 1 .. N /\ (j = i <=> k = N)
    BY <1>3, <2>1 DEF From
  <2>3. PICK t, e, o, s : t = Q[j].tenant /\ e = Q[j].deficit /\ o = d[Q[j].tenant]
                          /\ s = S[Q[j].tenant]
    OBVIOUS
  <2>4. t \in QueueTenants /\ e \in 0 .. MaxCost - 1
    BY <1>2, <2>2, <2>3, LanesFacts
  <2>5. o \in 0 .. MaxCost - 1 /\ s \in Nat
    BY <1>1, <2>3, <2>4 DEF Rounds
  <2>6. P[k].tenant = t /\ Given(P[k], R, d) = R[t] + P[k].deficit - o
        /\ Given(Q[j], S, d) = s + e - o
    BY <1>0, <1>2, <1>3, <2>1, <2>3 DEF Given
  <2>7. CASE k <= N - i
    <3>1. j = i + k /\ j # i /\ P[k].deficit = e
      BY <1>0, <1>2, <1>3, <2>1, <2>2, <2>3, <2>7 DEF From
    <3>2. t # Q[i].tenant
      BY <1>2, <1>3, <2>2, <2>3, <3>1 DEF Lanes
    <3>3. R[t] = s
      BY <2>3, <2>4, <3>2
    <3>. QED
      BY <2>6, <2>7, <3>1, <3>3
  <2>8. CASE k > N - i /\ k < N
    <3>1. j = k - (N - i) /\ j # i /\ P[k].deficit = e + 1
      BY <1>0, <1>2, <1>3, <2>1, <2>2, <2>3, <2>8 DEF From
    <3>2. t # Q[i].tenant
      BY <1>2, <1>3, <2>2, <2>3, <3>1 DEF Lanes
    <3>3. R[t] = s
      BY <2>3, <2>4, <3>2
    <3>4. s + (e + 1) - o = s + e - o + 1
      BY <2>4, <2>5, CostBounds
    <3>. QED
      BY <1>3, <2>6, <2>8, <3>1, <3>3, <3>4
  <2>9. CASE k = N
    <3>3. j = i /\ k - (N - i) = i
      BY <1>3, <2>2, <2>9
    <3>5. P[k].deficit = 0
      BY <1>0, <1>2, <2>9
    <3>1. j = i /\ k - (N - i) = i /\ P[k].deficit = 0
      BY <3>3, <3>5
    <3>2. R[t] = s + e + 1
      BY <2>3, <3>1
    <3>4. s + e + 1 + 0 - o = s + e - o + 1
      BY <2>4, <2>5, CostBounds
    <3>. QED
      BY <1>3, <2>6, <2>9, <3>1, <3>2, <3>4
  <2>. QED
    BY <1>3, <2>7, <2>8, <2>9
<1>5. ASSUME NEW k \in 1 .. N PROVE Given(Q[k], S, d) = IF k <= n THEN m ELSE m + 1
  BY <1>1, <1>2 DEF Rounds
<1>6. CASE i <= n
  <2>1. PICK n1 : n1 = n - i
    OBVIOUS
  <2>2. n1 \in 0 .. N
    BY <1>3, <1>6, <2>1
  <2>3. ASSUME NEW k \in 1 .. N PROVE Given(P[k], R, d) = IF k <= n1 THEN m ELSE m + 1
    <3>1. CASE k <= N - i
      <4>1. i + k \in 1 .. N
        BY <1>3, <3>1
      <4>2. Given(P[k], R, d) = Given(Q[i + k], S, d)
        BY <1>4, <3>1
      <4>3. Given(Q[i + k], S, d) = IF i + k <= n THEN m ELSE m + 1
        BY <1>5, <4>1
      <4>4. i + k <= n <=> k <= n1
        BY <1>3, <2>1
      <4>. QED
        BY <4>2, <4>3, <4>4
    <3>2. CASE ~(k <= N - i)
      <4>1. k - (N - i) \in 1 .. N /\ k - (N - i) <= n /\ ~(k <= n1)
        BY <1>3, <1>6, <2>1, <3>2
      <4>2. Given(P[k], R, d) = Given(Q[k - (N - i)], S, d) + 1
        BY <1>4, <3>2
      <4>3. Given(Q[k - (N - i)], S, d) = m
        BY <1>5, <4>1
      <4>. QED
        BY <4>1, <4>2, <4>3
    <3>. QED
      BY <3>1, <3>2
  <2>4. Rounds(P, R, d, m, n1)
    BY <1>1, <1>2, <1>3, <2>2, <2>3 DEF Rounds
  <2>. QED
    BY <2>4 DEF Balanced
<1>7. CASE ~(i <= n)
  <2>1. PICK n1, m1 : n1 = N - i + n /\ m1 = m + 1
    OBVIOUS
  <2>2. n1 \in 0 .. N /\ m1 \in Int
    BY <1>3, <1>7, <2>1
  <2>3. ASSUME NEW k \in 1 .. N PROVE Given(P[k], R, d) = IF k <= n1 THEN m1 ELSE m1 + 1
    <3>1. CASE k <= N - i
      <4>1. i + k \in 1 .. N /\ ~(i + k <= n) /\ k <= n1
        BY <1>3, <1>7, <2>1, <3>1
      <4>2. Given(P[k], R, d) = Given(Q[i + k], S, d)
        BY <1>4, <3>1
      <4>3. Given(Q[i + k], S, d) = m + 1
        BY <1>5, <4>1
      <4>. QED
        BY <2>1, <4>1, <4>2, <4>3
    <3>2. CASE ~(k <= N - i)
      <4>1. k - (N - i) \in 1 .. N /\ (k - (N - i) <= n <=> k <= n1)
        BY <1>3, <2>1, <3>2
      <4>2. Given(P[k], R, d) = Given(Q[k - (N - i)], S, d) + 1
        BY <1>4, <3>2
      <4>3. Given(Q[k - (N - i)], S, d) = IF k - (N - i) <= n THEN m ELSE m + 1
        BY <1>5, <4>1
      <4>. QED
        BY <2>1, <4>1, <4>2, <4>3
    <3>. QED
      BY <3>1, <3>2
  <2>4. Rounds(P, R, d, m1, n1)
    BY <1>1, <1>2, <1>3, <2>2, <2>3 DEF Rounds
  <2>. QED
    BY <2>4 DEF Balanced
<1>. QED
  BY <1>6, <1>7

LEMMA PopSomeKeeps ==
  ASSUME QueueInv, Queue!PopSome
  PROVE  QueueInv'
<1>1. PICK Q, P, S, R : Q = queues /\ P = queues' /\ S = served /\ R = served'
  OBVIOUS
<1>2. Lanes(Q) /\ S \in [QueueTenants -> Nat] /\ Balanced(Q, S)
  BY <1>1 DEF QueueInv
<1>3. DOMAIN Q = 1 .. Len(Q) /\ Len(Q) \in Nat
  BY <1>2, LanesFacts
<1>4. PICK i \in 1 .. Len(Q) :
         /\ PaysFirst(Q, i) /\ P = Moved(Q, i)
         /\ R = Queue!Relative([S EXCEPT ![Q[i].tenant] = @ + Queue!Cost(Q[i])],
                               Queue!Present(Q), Queue!Present(P))
         /\ barren' = 0
  BY <1>1, <1>3, Zenon DEF Queue!PopSome, PaysFirst, Moved
<1>5. Lanes(P) /\ Len(P) \in {Len(Q) - 1, Len(Q)} /\ Turned(P, Q, i)
  BY <1>1, <1>2, <1>4, Rotates
<1>6. PICK t, q, s : t = Q[i].tenant /\ q = Q[i] /\ s = S[t]
  OBVIOUS
<1>7. q \in Backlog /\ t \in QueueTenants /\ q.deficit \in 0 .. MaxCost - 1
  BY <1>2, <1>4, <1>6, LanesFacts
<1>8. Waiting(q) /\ Queue!CanPay(q) /\ q.deficit \in Nat /\ s \in Nat
  BY <1>2, <1>4, <1>6, <1>7, CostBounds DEF Lanes, PaysFirst
<1>9. Queue!Cost(q) = q.deficit + 1
  BY <1>7, <1>8, PaidWaits
<1>10. PICK T : T = [S EXCEPT ![t] = s + q.deficit + 1]
  OBVIOUS
<1>11. /\ T \in [QueueTenants -> Nat] /\ T[Q[i].tenant] = S[Q[i].tenant] + Q[i].deficit + 1
       /\ \A u \in QueueTenants : u # Q[i].tenant => T[u] = S[u]
  BY <1>2, <1>6, <1>7, <1>8, <1>10
<1>12. ASSUME Queue!Present(Q) = Queue!Present(P) PROVE Balanced(P, T)
  <2>1. t \in Queue!Present(Q)
    BY <1>2, <1>4, <1>6, PresentIn
  <2>2. PICK k \in 1 .. Len(P) : P[k].tenant = t
    BY <1>5, <1>12, <2>1, PresentIn
  <2>3. PICK j, N : j = From(k, i, N) /\ N = Len(Q)
    OBVIOUS
  <2>4. N \in Nat /\ i \in 1 .. N /\ Len(P) \in {N - 1, N}
    BY <1>3, <1>4, <1>5, <2>3
  <2>5. j \in 1 .. N /\ (j = i => k = N)
    BY <2>3, <2>4 DEF From
  <2>6. Q[j].tenant = Q[i].tenant
    BY <1>5, <1>6, <2>2, <2>3 DEF Turned
  <2>7. j = i
    BY <1>2, <2>3, <2>4, <2>5, <2>6 DEF Lanes
  <2>8. Len(P) = Len(Q)
    BY <2>3, <2>4, <2>5, <2>7
  <2>. QED
    BY <1>2, <1>4, <1>5, <1>11, <2>8, RotationBalanced
<1>13. R = Queue!Relative(T, Queue!Present(Q), Queue!Present(P))
  <2>1. S[t] + Queue!Cost(q) = s + q.deficit + 1
    BY <1>6, <1>8, <1>9
  <2>2. T = [S EXCEPT ![t] = @ + Queue!Cost(q)]
    BY <1>10, <2>1, Zenon
  <2>. QED
    BY <1>4, <1>6, <2>2
<1>14. R \in [QueueTenants -> Nat] /\ Balanced(P, R)
  BY <1>5, <1>11, <1>12, <1>13, RelativeKeeps
<1>15. barren' \in Nat /\ PassedOver(P, barren')
  BY <1>4 DEF PassedOver
<1>. QED
  BY <1>1, <1>5, <1>14, <1>15 DEF QueueInv

LEMMA PopNoneKeeps ==
  ASSUME QueueInv, Queue!PopNone
  PROVE  QueueInv'
<1>1. PICK Q, P, S : Q = queues /\ P = queues' /\ S = served
  OBVIOUS
<1>2. Lanes(Q) /\ S \in [QueueTenants -> Nat] /\ Balanced(Q, S) /\ PassedOver(Q, barren)
      /\ barren \in Nat
  BY <1>1 DEF QueueInv
<1>3. DOMAIN Q = 1 .. Len(Q) /\ Len(Q) \in Nat /\ (Q = << >> <=> Len(Q) = 0)
  BY <1>2, LanesFacts
<1>4. /\ Len(Q) >= 1 /\ \A i \in 1 .. Len(Q) : ~Queue!CanPay(Q[i])
      /\ P = [i \in 1 .. Len(Q) |-> Queue!Visited(Q[i])]
      /\ barren' = Queue!Capped(barren + 1, MaxCost) /\ served' = S
  BY <1>1, <1>3 DEF Queue!PopNone
<1>5. ASSUME NEW i \in 1 .. Len(Q)
      PROVE  /\ P[i] \in Backlog /\ Waiting(P[i])
             /\ P[i].tenant = Q[i].tenant /\ P[i].deficit = Q[i].deficit + 1
  <2>1. Q[i] \in Backlog /\ Waiting(Q[i]) /\ ~Queue!CanPay(Q[i])
    BY <1>2, <1>4, LanesFacts DEF Lanes
  <2>2. P[i] = Queue!Visited(Q[i])
    BY <1>4
  <2>. QED
    BY <2>1, <2>2, VisitedWaits
<1>6. P \in [1 .. Len(Q) -> Backlog]
  BY <1>4, <1>5
<1>7. P \in Seq(Backlog) /\ Len(P) = Len(Q)
  BY <1>3, <1>6, FunctionIsLine
<1>8. \A i, j \in 1 .. Len(Q) : P[i].tenant = P[j].tenant => i = j
  BY <1>2, <1>5 DEF Lanes
<1>9. Lanes(P)
  BY <1>5, <1>7, <1>8 DEF Lanes
<1>10. Balanced(P, S)
  <2>1. PICK d, m, n : Rounds(Q, S, d, m, n)
    BY <1>2 DEF Balanced
  <2>2. PICK m1 : m1 = m + 1
    OBVIOUS
  <2>3. m \in Int /\ m1 \in Int
    BY <2>1, <2>2 DEF Rounds
  <2>4. ASSUME NEW i \in 1 .. Len(P)
        PROVE  Given(P[i], S, d) = IF i <= n THEN m1 ELSE m1 + 1
    <3>1. PICK t, s, e, o : t = Q[i].tenant /\ s = S[t] /\ e = Q[i].deficit /\ o = d[t]
      OBVIOUS
    <3>2. t \in QueueTenants /\ e \in 0 .. MaxCost - 1
      BY <1>2, <1>7, <3>1, LanesFacts
    <3>3. s \in Nat /\ o \in 0 .. MaxCost - 1
      BY <1>2, <2>1, <3>1, <3>2 DEF Rounds
    <3>4. Given(P[i], S, d) = s + (e + 1) - o
      BY <1>5, <1>7, <3>1 DEF Given
    <3>5. s + e - o = IF i <= n THEN m ELSE m + 1
      BY <1>7, <2>1, <3>1 DEF Rounds, Given
    <3>. QED
      BY <2>2, <2>3, <3>2, <3>3, <3>4, <3>5, CostBounds
  <2>5. Rounds(P, S, d, m1, n)
    BY <1>7, <2>1, <2>3, <2>4 DEF Rounds
  <2>. QED
    BY <2>5 DEF Balanced
<1>11. barren' \in Nat /\ PassedOver(P, barren')
  <2>1. barren' \in Nat /\ barren' <= barren + 1
    BY <1>2, <1>4, CostBounds DEF Queue!Capped
  <2>2. PICK i \in 1 .. Len(Q) : barren <= Q[i].deficit
    <3>1. CASE barren > 0
      BY <1>2, <3>1 DEF PassedOver
    <3>2. CASE barren = 0
      <4>1. PICK i : i = 1
        OBVIOUS
      <4>2. i \in 1 .. Len(Q) /\ Q[i].deficit \in Nat
        BY <1>2, <1>3, <1>4, <4>1, LanesFacts, CostBounds
      <4>. QED
        BY <3>2, <4>2
    <3>. QED
      BY <1>2, <3>1, <3>2
  <2>3. Q[i].deficit \in Nat /\ P[i].deficit = Q[i].deficit + 1 /\ i \in 1 .. Len(P)
    BY <1>2, <1>5, <1>7, LanesFacts, CostBounds
  <2>4. barren' <= P[i].deficit
    BY <1>2, <2>1, <2>2, <2>3
  <2>. QED
    BY <2>1, <2>3, <2>4 DEF PassedOver
<1>. QED
  BY <1>1, <1>2, <1>4, <1>9, <1>10, <1>11 DEF QueueInv

LEMMA QueueStarts ==
  ASSUME Queue!Init
  PROVE  QueueInv
<1>1. PICK Q : Q = << >>
  OBVIOUS
<1>2. Q \in Seq(Backlog) /\ Len(Q) = 0
  BY <1>1
<1>3. Lanes(Q)
  BY <1>2 DEF Lanes
<1>4. served = [t \in QueueTenants |-> 0] /\ queues = Q /\ barren = 0
  BY <1>1 DEF Queue!Init
<1>5. Balanced(Q, served)
  BY <1>3, <1>4, CountAnew
<1>. QED
  BY <1>3, <1>4, <1>5 DEF QueueInv, PassedOver

LEMMA QueueNext ==
  ASSUME QueueInv, [Queue!Next]_(Queue!vars)
  PROVE  QueueInv'
<1>1. CASE UNCHANGED Queue!vars
  BY <1>1 DEF Queue!vars, QueueInv
<1>. QED
  BY <1>1, PopSomeKeeps, PopNoneKeeps, PushKeeps DEF Queue!Next, Queue!Pop

\* runtime.rs: for any number of tenants, any costs and any order of `push' and `pop',
\* tenants that wait are served the same cost up to 2 * MaxCost - 1, no tenant saves for
\* more than one item, and `pop' returns nothing fewer than MaxCost times in a row.
THEOREM ServesFairly == Queue!Spec => []Fair
<1>1. QueueInv => Fair
  <2>. SUFFICES ASSUME QueueInv PROVE Fair
    OBVIOUS
  <2>1. PICK Q, S : Q = queues /\ S = served
    OBVIOUS
  <2>2. Lanes(Q) /\ S \in [QueueTenants -> Nat] /\ Balanced(Q, S) /\ PassedOver(Q, barren)
        /\ barren \in Nat
    BY <2>1 DEF QueueInv
  <2>3. Queue!Even
    <3>. SUFFICES ASSUME NEW t \in Queue!Present(Q), NEW u \in Queue!Present(Q)
                  PROVE  S[t] - S[u] <= 2 * MaxCost - 1
      BY <2>1 DEF Queue!Even
    <3>1. PICK i \in 1 .. Len(Q), j \in 1 .. Len(Q) : Q[i].tenant = t /\ Q[j].tenant = u
      BY <2>2, PresentIn
    <3>. QED
      BY <2>2, <3>1, BalancedIsEven
  <2>4. Queue!NoSavings
    <3>. SUFFICES ASSUME NEW i \in DOMAIN Q PROVE Q[i].deficit < Queue!Cost(Q[i])
      BY <2>1 DEF Queue!NoSavings
    <3>. QED
      BY <2>2, LanesFacts DEF Queue!Cost
  <2>5. Queue!Progresses
    <3>1. CASE barren > 0
      <4>1. PICK i \in 1 .. Len(Q) : barren <= Q[i].deficit
        BY <2>2, <3>1 DEF PassedOver
      <4>2. Q[i].deficit \in 0 .. MaxCost - 1
        BY <2>2, LanesFacts
      <4>. QED
        BY <2>2, <4>1, <4>2, CostBounds DEF Queue!Progresses
    <3>2. CASE barren = 0
      BY <3>2, CostBounds DEF Queue!Progresses
    <3>. QED
      BY <2>2, <3>1, <3>2
  <2>. QED
    BY <2>3, <2>4, <2>5 DEF Fair, Queue!Fair
<1>. QED
  BY <1>1, QueueStarts, QueueNext, PTL DEF Queue!Spec

-----------------------------------------------------------------------------
(* The three parts in one exploration.                                     *)

LEMMA PartsRun == RuntimeSpec => Spec /\ Queue!Spec /\ Breaker!Spec
<1>1. RuntimeInit => Init /\ Queue!Init /\ Breaker!Init
  BY DEF RuntimeInit
<1>2. ASSUME [AdmissionSteps \/ QueueSteps \/ BreakerSteps]_RuntimeVars
      PROVE  [Next]_vars /\ [Queue!Next]_(Queue!vars) /\ [Breaker!Next]_(Breaker!vars)
  <2>1. CASE AdmissionSteps
    BY <2>1 DEF AdmissionSteps, queue, breaker, Queue!vars, Breaker!vars
  <2>2. CASE QueueSteps
    BY <2>2 DEF QueueSteps, queue, breaker, Queue!vars, Breaker!vars
  <2>3. CASE BreakerSteps
    BY <2>3 DEF BreakerSteps, queue, breaker, Queue!vars, Breaker!vars
  <2>4. CASE UNCHANGED RuntimeVars
    BY <2>4 DEF RuntimeVars, vars, queue, breaker, Queue!vars, Breaker!vars
  <2>. QED
    BY <1>2, <2>1, <2>2, <2>3, <2>4
<1>. QED
  BY <1>1, <1>2, PTL DEF RuntimeSpec, Spec, Queue!Spec, Breaker!Spec

\* What was proved of each part holds in the exploration of all three.
THEOREM RuntimeKept ==
  RuntimeSpec => /\ []TenantLimits /\ []PermitsConserved /\ RefusalJustified
                 /\ []Fair /\ Hysteresis
BY PartsRun, LimitsKept, NothingLost, RefusalsJustified, ServesFairly, OpensAndCloses, PTL
=============================================================================
