--------------------------- MODULE PlanningProofs ---------------------------
(***************************************************************************)
(* Proofs about MCPlanning, for every set of contexts, candidates,         *)
(* providers and budgets: what holds of one hop of a context holds of any  *)
(* number of them; what the planner decides verifies, and what verifies is *)
(* the best; a request reaches the best provider that it can afford.       *)
(***************************************************************************)
EXTENDS MCPlanning, FiniteSetTheorems, SequenceTheorems, FunctionTheorems,
        WellFoundedInduction, TLAPS

\* IsContext as membership of a set of records.
Context ==
    [principal : Principals, delegation : Seq(Link), scope : Scopes, class : Classes,
     bound : Bounds, budget : [Budgets -> Nat], journal : [Journals -> Seq(Digests)]]

LEMMA ContextIsRecord == \A c : IsContext(c) => c \in Context
  BY DEF IsContext, Context

LEMMA ContextsAreRecords == Contexts \subseteq Context
  BY ConservationConstants, ContextIsRecord

-----------------------------------------------------------------------------
(* Prefixes, position by position                                          *)

LEMMA PrefixAt ==
  ASSUME NEW S, NEW s \in Seq(S), NEW t \in Seq(S)
  PROVE  IsPrefix(s, t) <=> Len(s) <= Len(t) /\ \A i \in 1..Len(s) : s[i] = t[i]
<1>1. SubSeq(s, 1, Len(s)) = s
  OBVIOUS
<1>2. ASSUME Len(s) <= Len(t)
      PROVE  /\ SubSeq(t, 1, Len(s)) \in Seq(S)
             /\ Len(SubSeq(t, 1, Len(s))) = Len(s)
             /\ \A i \in 1..Len(s) : SubSeq(t, 1, Len(s))[i] = t[i]
  BY <1>2
<1>3. ASSUME Len(s) <= Len(t), \A i \in 1..Len(s) : s[i] = t[i]
      PROVE  s = SubSeq(t, 1, Len(s))
  BY <1>2, <1>3
<1>. QED
  BY <1>1, <1>2, <1>3 DEF IsPrefix

LEMMA PrefixTransitive ==
  ASSUME NEW S, NEW s \in Seq(S), NEW t \in Seq(S), NEW u \in Seq(S),
         IsPrefix(s, t), IsPrefix(t, u)
  PROVE  IsPrefix(s, u)
<1>1. Len(s) <= Len(t) /\ \A i \in 1..Len(s) : s[i] = t[i]
  BY PrefixAt
<1>2. Len(t) <= Len(u) /\ \A i \in 1..Len(t) : t[i] = u[i]
  BY PrefixAt
<1>3. Len(s) <= Len(u) /\ \A i \in 1..Len(s) : s[i] = u[i]
  BY <1>1, <1>2
<1>. QED
  BY <1>3, PrefixAt

LEMMA PrefixOfConcat ==
  ASSUME NEW S, NEW s \in Seq(S), NEW t \in Seq(S)
  PROVE  IsPrefix(s, s \o t)
<1>1. s \o t \in Seq(S) /\ Len(s) <= Len(s \o t) /\ \A i \in 1..Len(s) : s[i] = (s \o t)[i]
  OBVIOUS
<1>. QED
  BY <1>1, PrefixAt

-----------------------------------------------------------------------------
(* Chains of delegation, position by position                              *)

LEMMA SeenAt ==
  ASSUME NEW s \in Context, NEW p
  PROVE  p \in Seen(s) <=>
            \/ p = s.principal
            \/ \E i \in DOMAIN s.delegation :
                  p = s.delegation[i].from \/ p = s.delegation[i].to
  BY DEF Seen

\* What valid_delegation_extension asks of the links that t adds to those of s.
Passed(s, t) ==
    LET n == Len(s.delegation) d == t.delegation IN
    \A j \in (n + 1)..Len(d) :
        /\ d[j].from = IF j = n + 1 THEN s.principal ELSE d[j - 1].to
        /\ d[j].scope \subseteq IF j = n + 1 THEN s.scope ELSE d[j - 1].scope
        /\ d[j].to \notin Seen(s)
        /\ \A k \in (n + 1)..(j - 1) : d[j].to # d[k].to

\* And of its principal and its scope.
Reaches(s, t) ==
    LET n == Len(s.delegation) d == t.delegation IN
    /\ n <= Len(d) /\ \A i \in 1..n : s.delegation[i] = d[i]
    /\ Passed(s, t)
    /\ Len(d) = n => t.principal = s.principal
    /\ Len(d) > n => t.principal = d[Len(d)].to /\ t.scope \subseteq d[Len(d)].scope

LEMMA ExtensionAt ==
  ASSUME NEW s \in Context, NEW t \in Context, Len(s.delegation) <= Len(t.delegation)
  PROVE  /\ Extension(s, t) \in Seq(Link)
         /\ Len(Extension(s, t)) = Len(t.delegation) - Len(s.delegation)
         /\ DOMAIN Extension(s, t) = 1..(Len(t.delegation) - Len(s.delegation))
         /\ \A i \in 1..(Len(t.delegation) - Len(s.delegation)) :
                Extension(s, t)[i] = t.delegation[Len(s.delegation) + i]
  BY DEF Extension, Context

\* The links of an extension, as valid_delegation_extension walks through them.
Chained(s, extension) ==
    \A i \in DOMAIN extension :
        /\ extension[i].from = Holder(s, extension, i)
        /\ extension[i].scope \subseteq Held(s, extension, i)
        /\ extension[i].to \notin Seen(s)
        /\ \A j \in 1..(i - 1) : extension[i].to # extension[j].to

LEMMA ChainedAt ==
  ASSUME NEW s \in Context, NEW t \in Context, Len(s.delegation) <= Len(t.delegation)
  PROVE  Chained(s, Extension(s, t)) <=> Passed(s, t)
<1>. DEFINE n == Len(s.delegation)
            d == t.delegation
            e == Extension(s, t)
<1>1. n \in Nat /\ Len(d) \in Nat /\ n <= Len(d)
  BY DEF Context
<1>2. DOMAIN e = 1..(Len(d) - n) /\ \A i \in 1..(Len(d) - n) : e[i] = d[n + i]
  BY ExtensionAt
<1>. HIDE DEF n, d, e
<1>3. ASSUME Chained(s, e), NEW j \in (n + 1)..Len(d)
      PROVE  /\ d[j].from = IF j = n + 1 THEN s.principal ELSE d[j - 1].to
             /\ d[j].scope \subseteq IF j = n + 1 THEN s.scope ELSE d[j - 1].scope
             /\ d[j].to \notin Seen(s)
             /\ \A k \in (n + 1)..(j - 1) : d[j].to # d[k].to
  <2>1. j - n \in DOMAIN e /\ e[j - n] = d[j]
    BY <1>1, <1>2
  <2>2. j # n + 1 => e[j - n - 1] = d[j - 1]
    BY <1>1, <1>2
  <2>3. \A k \in (n + 1)..(j - 1) : k - n \in 1..(j - n - 1) /\ e[k - n] = d[k]
    BY <1>1, <1>2
  <2>4. /\ e[j - n].from = Holder(s, e, j - n)
        /\ e[j - n].scope \subseteq Held(s, e, j - n)
        /\ e[j - n].to \notin Seen(s)
        /\ \A k \in 1..(j - n - 1) : e[j - n].to # e[k].to
    BY <1>3, <2>1 DEF Chained
  <2>5. j - n = 1 <=> j = n + 1
    BY <1>1
  <2>6. d[j].from = IF j = n + 1 THEN s.principal ELSE d[j - 1].to
    BY <2>1, <2>2, <2>4, <2>5 DEF Holder
  <2>7. d[j].scope \subseteq IF j = n + 1 THEN s.scope ELSE d[j - 1].scope
    BY <2>1, <2>2, <2>4, <2>5 DEF Held
  <2>8. d[j].to \notin Seen(s) /\ \A k \in (n + 1)..(j - 1) : d[j].to # d[k].to
    BY <2>1, <2>3, <2>4
  <2>. QED
    BY <2>6, <2>7, <2>8
<1>4. ASSUME Passed(s, t), NEW i \in DOMAIN e
      PROVE  /\ e[i].from = Holder(s, e, i)
             /\ e[i].scope \subseteq Held(s, e, i)
             /\ e[i].to \notin Seen(s)
             /\ \A j \in 1..(i - 1) : e[i].to # e[j].to
  <2>1. PICK k \in (n + 1)..Len(d) : k = n + i
    BY <1>1, <1>2
  <2>2. e[i] = d[k] /\ (i # 1 => e[i - 1] = d[k - 1])
    BY <1>1, <1>2, <2>1
  <2>3. \A j \in 1..(i - 1) : n + j \in (n + 1)..(k - 1) /\ e[j] = d[n + j]
    BY <1>1, <1>2, <2>1
  <2>4. /\ d[k].from = IF k = n + 1 THEN s.principal ELSE d[k - 1].to
        /\ d[k].scope \subseteq IF k = n + 1 THEN s.scope ELSE d[k - 1].scope
        /\ d[k].to \notin Seen(s)
        /\ \A j \in (n + 1)..(k - 1) : d[k].to # d[j].to
    BY <1>4 DEF Passed, n, d
  <2>5. k = n + 1 <=> i = 1
    BY <1>1, <1>2, <2>1
  <2>6. e[i].from = Holder(s, e, i)
    BY <2>2, <2>4, <2>5 DEF Holder
  <2>7. e[i].scope \subseteq Held(s, e, i)
    BY <2>2, <2>4, <2>5 DEF Held
  <2>8. e[i].to \notin Seen(s) /\ \A j \in 1..(i - 1) : e[i].to # e[j].to
    BY <2>2, <2>3, <2>4
  <2>. QED
    BY <2>6, <2>7, <2>8
<1>. QED
  BY <1>3, <1>4 DEF Chained, Passed, n, d, e

\* What conserve accepts was delegated, by this hop, to the principal that acts next.
LEMMA ConservesReaches ==
  ASSUME NEW s \in Context, NEW t \in Context, Conserves(s, t)
  PROVE  Reaches(s, t)
<1>1. /\ Len(s.delegation) <= Len(t.delegation)
      /\ \A i \in 1..Len(s.delegation) : s.delegation[i] = t.delegation[i]
  <2>1. s.delegation \in Seq(Link) /\ t.delegation \in Seq(Link)
    BY DEF Context
  <2>2. IsPrefix(s.delegation, t.delegation)
    BY DEF Conserves, AppendOnly
  <2>. QED
    BY <2>1, <2>2, PrefixAt
<1>2. Len(s.delegation) \in Nat /\ Len(t.delegation) \in Nat
  BY DEF Context
<1>3. CASE Len(t.delegation) = Len(s.delegation)
  <2>1. Extension(s, t) = <<>>
    <3>1. Extension(s, t) \in Seq(Link)
      BY <1>1, ExtensionAt
    <3>2. Len(Extension(s, t)) = 0
      <4>1. Len(Extension(s, t)) = Len(t.delegation) - Len(s.delegation)
        BY <1>1, ExtensionAt
      <4>. QED
        BY <1>2, <1>3, <4>1
    <3>. QED
      BY <3>1, <3>2
  <2>2. t.principal = s.principal
    BY <2>1 DEF Conserves, ValidExtension
  <2>3. Passed(s, t)
    BY <1>2, <1>3 DEF Passed
  <2>. QED
    BY <1>1, <1>2, <1>3, <2>2, <2>3 DEF Reaches
<1>4. CASE Len(t.delegation) > Len(s.delegation)
  <2>1. ValidExtension(s, t)
    BY <1>4 DEF Conserves, AppendOnly
  <2>2. Passed(s, t)
    BY <1>1, <2>1, ChainedAt DEF ValidExtension, Chained
  <2>3. Last(Extension(s, t)) = t.delegation[Len(t.delegation)]
    <3>. DEFINE n == Len(s.delegation)
                m == Len(t.delegation)
    <3>1. m - n \in 1..(m - n) /\ n + (m - n) = m
      BY <1>2, <1>4
    <3>2. Len(Extension(s, t)) = m - n
      BY <1>1, ExtensionAt
    <3>3. \A i \in 1..(m - n) : Extension(s, t)[i] = t.delegation[n + i]
      BY <1>1, ExtensionAt
    <3>4. Extension(s, t)[m - n] = t.delegation[m]
      BY <3>1, <3>3
    <3>. QED
      BY <3>2, <3>4 DEF Last
  <2>4. t.principal = t.delegation[Len(t.delegation)].to
        /\ t.scope \subseteq t.delegation[Len(t.delegation)].scope
    BY <2>1, <2>3 DEF ValidExtension
  <2>. QED
    BY <1>1, <1>2, <1>4, <2>2, <2>4 DEF Reaches
<1>. QED
  BY <1>1, <1>2, <1>3, <1>4

\* Chains of delegation join: what is passed on from s to t and from t to u is passed on
\* from s to u.  Nobody who had the request on the way to t is given it by u.
LEMMA ReachesTransitive ==
  ASSUME NEW s \in Context, NEW t \in Context, NEW u \in Context,
         Reaches(s, t), Reaches(t, u), t.scope \subseteq s.scope, u.scope \subseteq t.scope
  PROVE  Reaches(s, u)
<1>. DEFINE n == Len(s.delegation)
            m == Len(t.delegation)
            d == u.delegation
<1>1. n \in Nat /\ m \in Nat /\ Len(d) \in Nat /\ n <= m /\ m <= Len(d)
  BY DEF Reaches, Context
<1>2. /\ \A i \in 1..n : s.delegation[i] = d[i]
      /\ \A i \in 1..m : t.delegation[i] = d[i]
  BY <1>1 DEF Reaches
<1>3. ASSUME NEW p, p \notin Seen(t)
      PROVE  p \notin Seen(s) /\ \A k \in (n + 1)..m : p # d[k].to
  <2>1. DOMAIN t.delegation = 1..m /\ DOMAIN s.delegation = 1..n
    BY DEF Context
  <2>2. \A k \in 1..m : p # d[k].from /\ p # d[k].to
    BY <1>2, <1>3, <2>1, SeenAt
  <2>3. p # s.principal
    <3>1. CASE m = n
      BY <1>1, <1>3, <3>1, SeenAt DEF Reaches
    <3>2. CASE m > n
      <4>1. n + 1 \in 1..m /\ n + 1 \in (n + 1)..m
        BY <1>1, <3>2
      <4>2. \A j \in (n + 1)..m :
                t.delegation[j].from = IF j = n + 1 THEN s.principal ELSE t.delegation[j - 1].to
        BY DEF Reaches, Passed
      <4>3. t.delegation[n + 1].from = s.principal
        BY <4>1, <4>2
      <4>4. d[n + 1].from = s.principal
        BY <1>2, <4>1, <4>3
      <4>. QED
        BY <2>2, <4>1, <4>4
    <3>. QED
      BY <1>1, <3>1, <3>2
  <2>4. \A i \in 1..n : p # s.delegation[i].from /\ p # s.delegation[i].to
    BY <1>1, <1>2, <2>2
  <2>. QED
    BY <1>1, <2>1, <2>2, <2>3, <2>4, SeenAt
<1>4. ASSUME NEW j \in (n + 1)..Len(d)
      PROVE  /\ d[j].from = IF j = n + 1 THEN s.principal ELSE d[j - 1].to
             /\ d[j].scope \subseteq IF j = n + 1 THEN s.scope ELSE d[j - 1].scope
             /\ d[j].to \notin Seen(s)
             /\ \A k \in (n + 1)..(j - 1) : d[j].to # d[k].to
  <2>1. CASE j <= m
    <3>1. /\ t.delegation[j] = d[j]
          /\ j # n + 1 => t.delegation[j - 1] = d[j - 1]
          /\ \A k \in (n + 1)..(j - 1) : t.delegation[k] = d[k]
      <4>1. j \in 1..m /\ (j # n + 1 => j - 1 \in 1..m) /\ (n + 1)..(j - 1) \subseteq 1..m
        BY <1>1, <2>1
      <4>. QED
        BY <1>2, <4>1
    <3>2. j \in (n + 1)..m
      BY <1>1, <2>1
    <3>3. /\ t.delegation[j].from = IF j = n + 1 THEN s.principal ELSE t.delegation[j - 1].to
          /\ t.delegation[j].scope \subseteq
                IF j = n + 1 THEN s.scope ELSE t.delegation[j - 1].scope
          /\ t.delegation[j].to \notin Seen(s)
          /\ \A k \in (n + 1)..(j - 1) : t.delegation[j].to # t.delegation[k].to
      BY <3>2 DEF Reaches, Passed
    <3>. QED
      BY <3>1, <3>3
  <2>2. CASE j > m
    <3>1. j \in (m + 1)..Len(d)
      BY <1>1, <2>2
    <3>2. /\ d[j].from = IF j = m + 1 THEN t.principal ELSE d[j - 1].to
          /\ d[j].scope \subseteq IF j = m + 1 THEN t.scope ELSE d[j - 1].scope
          /\ d[j].to \notin Seen(t)
          /\ \A k \in (m + 1)..(j - 1) : d[j].to # d[k].to
      BY <3>1 DEF Reaches, Passed
    <3>3. d[j].to \notin Seen(s) /\ \A k \in (n + 1)..(j - 1) : d[j].to # d[k].to
      BY <1>1, <1>3, <3>2
    <3>4. CASE j > m + 1
      BY <1>1, <3>2, <3>3, <3>4
    <3>5. CASE j = m + 1 /\ m = n
      <4>1. t.principal = s.principal
        BY <3>5 DEF Reaches
      <4>. QED
        BY <1>1, <3>2, <3>3, <3>5, <4>1
    <3>6. CASE j = m + 1 /\ m > n
      <4>1. t.principal = d[m].to /\ t.scope \subseteq d[m].scope
        BY <1>1, <1>2, <3>6 DEF Reaches
      <4>2. j # n + 1 /\ j - 1 = m
        BY <1>1, <3>6
      <4>. QED
        BY <3>2, <3>3, <3>6, <4>1, <4>2
    <3>. QED
      BY <1>1, <2>2, <3>4, <3>5, <3>6
  <2>. QED
    BY <1>1, <2>1, <2>2
<1>5. Passed(s, u)
  BY <1>4 DEF Passed
<1>6. Len(d) = n => u.principal = s.principal
  BY <1>1 DEF Reaches
<1>7. Len(d) > n => u.principal = d[Len(d)].to /\ u.scope \subseteq d[Len(d)].scope
  <2>1. CASE Len(d) > m
    BY <2>1 DEF Reaches
  <2>2. CASE Len(d) = m /\ m > n
    <3>1. t.principal = d[m].to /\ t.scope \subseteq d[m].scope
      BY <1>1, <1>2, <2>2 DEF Reaches
    <3>. QED
      BY <2>2, <3>1 DEF Reaches
  <2>. QED
    BY <1>1, <2>1, <2>2
<1>. QED
  BY <1>1, <1>2, <1>5, <1>6, <1>7 DEF Reaches

-----------------------------------------------------------------------------
(* The invariants                                                          *)

\* What a debit writes is a sequence of digests.
LEMMA EntriesType ==
  ASSUME NEW j \in Journals, NEW cost \in [Budgets -> 0..MaxCost], NEW digest \in Digests
  PROVE  Entries(j, cost, digest) \in Seq(Digests)
<1>1. cost["retries"] \in Nat
  BY ConservationConstants
<1>2. [i \in 1..cost["retries"] |-> digest] \in Seq(Digests)
  BY <1>1
<1>. QED
  BY <1>2 DEF Entries

\* A debit lowers budgets, adds to journals and leaves everything else alone.
LEMMA DebitEffect ==
  ASSUME context \in Context,
         NEW cost \in [Budgets -> 0..MaxCost], NEW digest \in Digests, Debit(cost, digest)
  PROVE  /\ context' \in Context
         /\ origin' = origin
         /\ context'.principal = context.principal
         /\ context'.delegation = context.delegation
         /\ context'.scope = context.scope
         /\ context'.class = context.class
         /\ context'.bound = context.bound
         /\ \A b \in Budgets : context'.budget[b] <= context.budget[b]
         /\ \A j \in Journals : IsPrefix(context.journal[j], context'.journal[j])
         /\ context'.journal["causal_observations"] = context.journal["causal_observations"]
<1>. DEFINE allowance == [b \in Budgets |-> context.budget[b] - cost[b]]
            journal == [j \in Journals |-> context.journal[j] \o Entries(j, cost, digest)]
<1>1. /\ context' = [context EXCEPT !.budget = allowance, !.journal = journal]
      /\ \A b \in Budgets : cost[b] <= context.budget[b]
      /\ origin' = origin
  BY DEF Debit
<1>2. \A b \in Budgets : /\ cost[b] \in Nat /\ context.budget[b] \in Nat
                         /\ context.budget[b] - cost[b] \in Nat
                         /\ context.budget[b] - cost[b] <= context.budget[b]
  BY <1>1, ConservationConstants DEF Context
<1>3. \A j \in Journals : context.journal[j] \in Seq(Digests)
  BY DEF Context
<1>4. \A j \in Journals : /\ context.journal[j] \o Entries(j, cost, digest) \in Seq(Digests)
                          /\ IsPrefix(context.journal[j],
                                      context.journal[j] \o Entries(j, cost, digest))
  BY <1>3, EntriesType, PrefixOfConcat
<1>5. context.journal["causal_observations"]
         \o Entries("causal_observations", cost, digest)
       = context.journal["causal_observations"]
  <2>1. Entries("causal_observations", cost, digest) = <<>>
    BY DEF Entries
  <2>2. context.journal["causal_observations"] \in Seq(Digests)
    BY <1>3, ConservationConstants
  <2>. QED
    BY <2>1, <2>2
<1>6. allowance \in [Budgets -> Nat] /\ journal \in [Journals -> Seq(Digests)]
  BY <1>2, <1>4
<1>7. /\ context'.budget = allowance
      /\ context'.journal = journal
      /\ context'.principal = context.principal
      /\ context'.delegation = context.delegation
      /\ context'.scope = context.scope
      /\ context'.class = context.class
      /\ context'.bound = context.bound
      /\ context' = [principal |-> context.principal, delegation |-> context.delegation,
                     scope |-> context.scope, class |-> context.class,
                     bound |-> context.bound, budget |-> allowance, journal |-> journal]
  <2>. HIDE DEF allowance, journal
  <2>. QED
    BY <1>1 DEF Context
<1>8. context' \in Context
  <2>. HIDE DEF allowance, journal
  <2>. QED
    BY <1>6, <1>7 DEF Context
<1>. QED
  BY <1>1, <1>2, <1>4, <1>5, <1>7, <1>8, ConservationConstants

TypeOK == origin \in Context /\ context \in Context

LEMMA InitType == Init => TypeOK
  BY ContextsAreRecords DEF Init, TypeOK

LEMMA NextType == TypeOK /\ [Next]_vars => TypeOK'
  BY ContextsAreRecords, DebitEffect DEF Next, Translate, vars, TypeOK

\* A hop gains nothing on the context that it starts from, and so on none before.
LEMMA TranslateGainsNothing ==
  ASSUME TypeOK, NothingGained, NEW target \in Contexts, Translate(target)
  PROVE  NothingGained'
<1>1. origin' = origin /\ context' = target /\ Conserves(context, target)
  BY DEF Translate
<1>2. target \in Context
  BY ContextsAreRecords
<1>3. target.scope \subseteq origin.scope
  BY <1>1 DEF Conserves, Monotone, NothingGained
<1>4. \A b \in Budgets : target.budget[b] <= origin.budget[b]
  <2>. SUFFICES ASSUME NEW b \in Budgets PROVE target.budget[b] <= origin.budget[b]
    OBVIOUS
  <2>1. target.budget[b] <= context.budget[b] /\ context.budget[b] <= origin.budget[b]
    BY <1>1 DEF Conserves, Monotone, NothingGained
  <2>2. {target.budget[b], context.budget[b], origin.budget[b]} \subseteq Nat
    BY <1>2 DEF TypeOK, Context
  <2>. QED
    BY <2>1, <2>2
<1>5. target.class >= origin.class
  <2>1. target.class >= context.class /\ context.class >= origin.class
    BY <1>1 DEF Conserves, Monotone, NothingGained
  <2>2. {target.class, context.class, origin.class} \subseteq Nat
    BY <1>2, ConservationConstants DEF TypeOK, Context
  <2>. QED
    BY <2>1, <2>2
<1>6. target.bound = origin.bound
  BY <1>1 DEF Conserves, BoundAlike, NothingGained
<1>7. \A j \in Journals : IsPrefix(origin.journal[j], target.journal[j])
  <2>. SUFFICES ASSUME NEW j \in Journals PROVE IsPrefix(origin.journal[j], target.journal[j])
    OBVIOUS
  <2>1. IsPrefix(origin.journal[j], context.journal[j])
    BY DEF NothingGained
  <2>2. IsPrefix(context.journal[j], target.journal[j])
    BY <1>1 DEF Conserves, AppendOnly
  <2>3. {origin.journal[j], context.journal[j], target.journal[j]} \subseteq Seq(Digests)
    BY <1>2 DEF TypeOK, Context
  <2>. QED
    BY <2>1, <2>2, <2>3, PrefixTransitive
<1>8. IsInjective(target.journal["causal_observations"])
  BY <1>1 DEF Conserves, Acyclic
<1>. QED
  BY <1>1, <1>3, <1>4, <1>5, <1>6, <1>7, <1>8 DEF NothingGained

LEMMA DebitGainsNothing ==
  ASSUME TypeOK, NothingGained,
         NEW cost \in [Budgets -> 0..MaxCost], NEW digest \in Digests, Debit(cost, digest)
  PROVE  NothingGained'
<1>0. /\ context' \in Context
      /\ origin' = origin
      /\ context'.scope = context.scope
      /\ context'.class = context.class
      /\ context'.bound = context.bound
      /\ \A b \in Budgets : context'.budget[b] <= context.budget[b]
      /\ \A j \in Journals : IsPrefix(context.journal[j], context'.journal[j])
      /\ context'.journal["causal_observations"] = context.journal["causal_observations"]
  BY DebitEffect DEF TypeOK
<1>1. \A b \in Budgets : context'.budget[b] <= origin.budget[b]
  <2>. SUFFICES ASSUME NEW b \in Budgets PROVE context'.budget[b] <= origin.budget[b]
    OBVIOUS
  <2>1. context'.budget[b] <= context.budget[b] /\ context.budget[b] <= origin.budget[b]
    BY <1>0 DEF NothingGained
  <2>2. {context'.budget[b], context.budget[b], origin.budget[b]} \subseteq Nat
    BY <1>0 DEF TypeOK, Context
  <2>. QED
    BY <2>1, <2>2
<1>2. \A j \in Journals : IsPrefix(origin.journal[j], context'.journal[j])
  <2>. SUFFICES ASSUME NEW j \in Journals
                PROVE  IsPrefix(origin.journal[j], context'.journal[j])
    OBVIOUS
  <2>1. IsPrefix(origin.journal[j], context.journal[j])
    BY DEF NothingGained
  <2>2. IsPrefix(context.journal[j], context'.journal[j])
    BY <1>0
  <2>3. {origin.journal[j], context.journal[j], context'.journal[j]} \subseteq Seq(Digests)
    BY <1>0 DEF TypeOK, Context
  <2>. QED
    BY <2>1, <2>2, <2>3, PrefixTransitive
<1>. QED
  BY <1>0, <1>1, <1>2 DEF NothingGained

LEMMA InitGainsNothing == TypeOK /\ Init => NothingGained
<1>. SUFFICES ASSUME TypeOK, Init PROVE NothingGained
  OBVIOUS
<1>1. \A j \in Journals : context.journal[j] \in Seq(Digests)
  BY DEF TypeOK, Context
<1>2. \A j \in Journals : IsPrefix(context.journal[j], context.journal[j])
  BY <1>1, PrefixAt
<1>3. \A b \in Budgets : context.budget[b] \in Nat
  BY DEF TypeOK, Context
<1>4. context.class \in Nat
  BY ConservationConstants DEF TypeOK, Context
<1>. QED
  BY <1>2, <1>3, <1>4 DEF Init, NothingGained

LEMMA NextGainsNothing == TypeOK /\ NothingGained /\ [Next]_vars => NothingGained'
<1>. SUFFICES ASSUME TypeOK, NothingGained, [Next]_vars PROVE NothingGained'
  OBVIOUS
<1>1. CASE UNCHANGED vars
  BY <1>1 DEF vars, NothingGained
<1>2. CASE Next
  BY <1>2, DebitGainsNothing, TranslateGainsNothing DEF Next
<1>. QED
  BY <1>1, <1>2

\* Over any number of hops and debits, with any contexts, nothing is gained.
THEOREM GainsNothing == Spec => []NothingGained
  BY InitType, NextType, InitGainsNothing, NextGainsNothing, PTL DEF Spec

-----------------------------------------------------------------------------
LEMMA InitReaches == TypeOK /\ Init => Reaches(origin, context)
  BY DEF Init, TypeOK, Context, Reaches, Passed

LEMMA NextReaches ==
  TypeOK /\ NothingGained /\ Reaches(origin, context) /\ [Next]_vars
    => Reaches(origin, context)'
<1>. SUFFICES ASSUME TypeOK, NothingGained, Reaches(origin, context), [Next]_vars
              PROVE  Reaches(origin, context)'
  OBVIOUS
<1>1. CASE UNCHANGED vars
  BY <1>1 DEF vars
<1>2. ASSUME NEW cost \in [Budgets -> 0..MaxCost], NEW digest \in Digests, Debit(cost, digest)
      PROVE  Reaches(origin, context)'
  <2>1. /\ origin' = origin
        /\ context'.principal = context.principal
        /\ context'.delegation = context.delegation
        /\ context'.scope = context.scope
    BY <1>2, DebitEffect DEF TypeOK
  <2>. QED
    BY <2>1 DEF Reaches, Passed
<1>3. ASSUME NEW target \in Contexts, Translate(target)
      PROVE  Reaches(origin, context)'
  <2>1. origin' = origin /\ context' = target /\ Conserves(context, target)
    BY <1>3 DEF Translate
  <2>2. target \in Context
    BY ContextsAreRecords
  <2>3. Reaches(context, target)
    BY <2>1, <2>2, ConservesReaches DEF TypeOK
  <2>4. context.scope \subseteq origin.scope /\ target.scope \subseteq context.scope
    BY <2>1 DEF NothingGained, Conserves, Monotone
  <2>5. Reaches(origin, target)
    BY <2>2, <2>3, <2>4, ReachesTransitive DEF TypeOK
  <2>. QED
    BY <2>1, <2>5
<1>. QED
  BY <1>1, <1>2, <1>3 DEF Next

LEMMA ReachesDelegated == TypeOK /\ Reaches(origin, context) => Delegated
<1>. SUFFICES ASSUME TypeOK, Reaches(origin, context) PROVE Delegated
  OBVIOUS
<1>. DEFINE n == Len(origin.delegation)
            m == Len(context.delegation)
<1>1. n \in Nat /\ m \in Nat /\ n <= m
  BY DEF TypeOK, Context, Reaches
<1>2. IsPrefix(origin.delegation, context.delegation)
  <2>1. origin.delegation \in Seq(Link) /\ context.delegation \in Seq(Link)
    BY DEF TypeOK, Context
  <2>. QED
    BY <2>1, PrefixAt DEF Reaches
<1>3. Chained(origin, Added)
  BY <1>1, ChainedAt DEF TypeOK, Reaches, Added
<1>4. Added \in Seq(Link) /\ Len(Added) = m - n
  BY <1>1, ExtensionAt DEF TypeOK, Added
<1>5. Added = <<>> => context.principal = origin.principal
  <2>. SUFFICES ASSUME Added = <<>> PROVE context.principal = origin.principal
    OBVIOUS
  <2>1. m = n
    BY <1>1, <1>4
  <2>. QED
    BY <2>1 DEF Reaches
<1>6. Added # <<>> => /\ context.principal = Last(Added).to
                      /\ context.scope \subseteq Last(Added).scope
  <2>. SUFFICES ASSUME Added # <<>>
                PROVE  /\ context.principal = Last(Added).to
                       /\ context.scope \subseteq Last(Added).scope
    OBVIOUS
  <2>1. Len(Added) # 0
    BY <1>4
  <2>2. m > n /\ m - n \in 1..(m - n) /\ n + (m - n) = m
    BY <1>1, <1>4, <2>1
  <2>3. \A i \in 1..(m - n) : Added[i] = context.delegation[n + i]
    BY <1>1, ExtensionAt DEF TypeOK, Added
  <2>4. Added[m - n] = context.delegation[m]
    BY <2>2, <2>3
  <2>5. Last(Added) = context.delegation[m]
    BY <1>4, <2>4 DEF Last
  <2>. QED
    BY <2>2, <2>5 DEF Reaches
<1>. QED
  BY <1>2, <1>3, <1>5, <1>6 DEF Delegated, Chained

\* However many hops there were, the principal that acts was delegated to, link by link,
\* by the one that the request came with, and nobody had the request twice.
THEOREM DelegationKept == Spec => []Delegated
  BY InitType, NextType, InitGainsNothing, NextGainsNothing, InitReaches, NextReaches,
     ReachesDelegated, PTL DEF Spec
-----------------------------------------------------------------------------
(* Least elements                                                          *)

LEMMA LeastNatural ==
  ASSUME NEW T \in SUBSET Nat, T # {}
  PROVE  \E x \in T : \A y \in T : x <= y
<1>1. PICK R : R = {ss \in Nat \X Nat : ss[1] < ss[2]}
  OBVIOUS
<1>2. OpToRel(<, Nat) = R
  BY <1>1, Zenon DEF OpToRel
<1>3. IsWellFoundedOn(R, Nat)
  BY <1>2, NatLessThanWellFounded, Zenon
<1>4. PICK x \in T : \A y \in T : ~(<<y, x>> \in R)
  BY <1>3, WFMin
<1>5. ASSUME NEW y \in T PROVE x <= y
  <2>1. x \in Nat /\ y \in Nat
    OBVIOUS
  <2>2. <<y, x>> \in Nat \X Nat /\ <<y, x>>[1] = y /\ <<y, x>>[2] = x
    BY <2>1
  <2>3. ~(y < x)
    BY <1>1, <1>4, <2>2, Zenon
  <2>. QED
    BY <2>1, <2>3
<1>. QED
  BY <1>5

\* The order of (score, route id).
Sooner(a, b) == a[1] < b[1] \/ (a[1] = b[1] /\ a[2] < b[2])
Soonest(R) == CHOOSE a \in R : \A b \in R \ {a} : Sooner(a, b)

LEMMA SoonestOf ==
  ASSUME NEW R \in SUBSET (Nat \X Nat), R # {}
  PROVE  Soonest(R) \in R /\ \A b \in R \ {Soonest(R)} : Sooner(Soonest(R), b)
<1>1. PICK T : T = {a[1] : a \in R}
  OBVIOUS
<1>2. T \in SUBSET Nat /\ T # {}
  BY <1>1
<1>3. PICK x \in T : \A z \in T : x <= z
  BY <1>2, LeastNatural
<1>4. PICK U : U = {a[2] : a \in {b \in R : b[1] = x}}
  OBVIOUS
<1>5. U \in SUBSET Nat /\ U # {}
  BY <1>1, <1>4
<1>6. PICK y \in U : \A z \in U : y <= z
  BY <1>5, LeastNatural
<1>7. PICK a \in R : a[1] = x /\ a[2] = y
  BY <1>4
<1>8. ASSUME NEW b \in R \ {a} PROVE Sooner(a, b)
  <2>1. a \in Nat \X Nat /\ b \in Nat \X Nat /\ b[1] \in T
    BY <1>1
  <2>2. a[1] <= b[1] /\ (b[1] = a[1] => a[2] <= b[2])
    BY <1>3, <1>4, <1>6, <1>7, <2>1
  <2>3. a[1] # b[1] \/ a[2] # b[2]
    BY <2>1
  <2>. QED
    BY <2>1, <2>2, <2>3 DEF Sooner
<1>. QED
  BY <1>8, Zenon DEF Soonest

LEMMA FirstIsSoonest ==
  /\ \A R : Planner!First(R) = Soonest(R) /\ Broker!First(R) = Soonest(R)
  /\ \A a, b : (Planner!Before(a, b) <=> Sooner(a, b)) /\ (Broker!Before(a, b) <=> Sooner(a, b))
<1>1. \A a, b : (Planner!Before(a, b) <=> Sooner(a, b)) /\ (Broker!Before(a, b) <=> Sooner(a, b))
  BY Zenon DEF Sooner, Planner!Before, Broker!Before
<1>2. ASSUME NEW R PROVE Planner!First(R) = Soonest(R) /\ Broker!First(R) = Soonest(R)
  BY Zenon DEF Soonest, Sooner, Planner!First, Broker!First, Planner!Before, Broker!Before
<1>. QED
  BY <1>1, <1>2

-----------------------------------------------------------------------------
(* Sums of a function over a finite set                                    *)

Some(s) == CHOOSE x \in s : TRUE
Plus(f, g, s) == IF s = {} THEN 0 ELSE f[Some(s)] + g[s \ {Some(s)}]
Small(D, n) == {s \in SUBSET D : Cardinality(s) <= n}
SumsUpto(f, n, g) == g = [s \in Small(DOMAIN f, n) |-> Plus(f, g, s)]
Adds(f, g) == g = [s \in SUBSET DOMAIN f |-> Plus(f, g, s)]
Sums(f) == CHOOSE g : Adds(f, g)

\* ScoreTerms::total is the sum over all terms.
LEMMA TotalIsSum ==
  \A f : Planner!Total(f) = Sums(f)[DOMAIN f] /\ Broker!Total(f) = Sums(f)[DOMAIN f]
<1>1. ASSUME NEW f PROVE Planner!Total(f) = Sums(f)[DOMAIN f]
  BY Zenon DEF Sums, Adds, Plus, Some, Planner!Total, Planner!SumFunction,
     Planner!SumFunctionOnSet, Planner!FoldFunctionOnSet, Planner!MapThenFoldSet
<1>2. ASSUME NEW f PROVE Broker!Total(f) = Sums(f)[DOMAIN f]
  BY Zenon DEF Sums, Adds, Plus, Some, Broker!Total, Broker!SumFunction,
     Broker!SumFunctionOnSet, Broker!FoldFunctionOnSet, Broker!MapThenFoldSet
<1>. QED
  BY <1>1, <1>2

LEMMA AnyOf ==
  ASSUME NEW s, IsFiniteSet(s), s # {}
  PROVE  /\ Some(s) \in s /\ IsFiniteSet(s \ {Some(s)})
         /\ Cardinality(s) \in Nat /\ Cardinality(s) >= 1
         /\ Cardinality(s \ {Some(s)}) = Cardinality(s) - 1
<1>1. Some(s) \in s
  BY DEF Some
<1>2. IsFiniteSet(s \ {Some(s)}) /\ Cardinality(s \ {Some(s)}) = Cardinality(s) - 1
  BY <1>1, FS_RemoveElement
<1>3. Cardinality(s) \in Nat /\ Cardinality(s) # 0
  BY FS_CardinalityType, FS_EmptySet
<1>. QED
  BY <1>1, <1>2, <1>3

\* The sums over ever larger subsets.
LEMMA SumsExist ==
  ASSUME NEW D, IsFiniteSet(D), NEW f \in [D -> Nat]
  PROVE  \E g : Adds(f, g)
<1>1. PICK B : B = {n \in Nat : ~\E g : SumsUpto(f, n, g)}
  OBVIOUS
<1>2. DOMAIN f = D /\ \A s \in SUBSET D : IsFiniteSet(s) /\ Cardinality(s) \in Nat
  BY FS_Subset, FS_CardinalityType
<1>3. B = {}
  <2>. SUFFICES ASSUME B # {} PROVE FALSE
    OBVIOUS
  <2>1. PICK m \in B : \A n \in B : m <= n
    BY <1>1, LeastNatural
  <2>2. m \in Nat /\ ~\E g : SumsUpto(f, m, g)
    BY <1>1
  <2>3. CASE m = 0
    <3>1. PICK g : g = [s \in Small(D, 0) |-> 0]
      OBVIOUS
    <3>2. \A s \in Small(D, 0) : s = {}
      <4>. SUFFICES ASSUME NEW s \in Small(D, 0) PROVE s = {}
        OBVIOUS
      <4>1. IsFiniteSet(s) /\ Cardinality(s) \in Nat /\ Cardinality(s) <= 0
        BY <1>2 DEF Small
      <4>. QED
        BY <4>1, FS_EmptySet
    <3>3. \A s \in Small(D, 0) : Plus(f, g, s) = 0
      BY <3>2 DEF Plus
    <3>4. g = [s \in Small(D, 0) |-> Plus(f, g, s)]
      BY <3>1, <3>3
    <3>. QED
      BY <1>2, <2>2, <2>3, <3>4 DEF SumsUpto
  <2>4. CASE m # 0
    <3>1. PICK n : n = m - 1
      OBVIOUS
    <3>2. n \in Nat /\ n \notin B
      BY <2>1, <2>2, <2>4, <3>1
    <3>3. PICK g : SumsUpto(f, n, g)
      BY <1>1, <3>2
    <3>4. \A s \in Small(D, n) : g[s] = Plus(f, g, s)
      BY <1>2, <3>3 DEF SumsUpto
    <3>5. PICK h : h = [s \in Small(D, m) |-> Plus(f, g, s)]
      OBVIOUS
    <3>6. ASSUME NEW s \in Small(D, m) PROVE Plus(f, g, s) = Plus(f, h, s)
      <4>1. CASE s = {}
        BY <4>1 DEF Plus
      <4>2. CASE s # {}
        <5>1. PICK r : r = s \ {Some(s)}
          OBVIOUS
        <5>2. IsFiniteSet(s) /\ Cardinality(s) \in Nat /\ Cardinality(s) <= m
          BY <1>2 DEF Small
        <5>3. r \in SUBSET D /\ Cardinality(r) = Cardinality(s) - 1
          BY <4>2, <5>1, <5>2, AnyOf DEF Small
        <5>4. r \in Small(D, n) /\ r \in Small(D, m)
          BY <2>2, <3>1, <5>2, <5>3 DEF Small
        <5>5. g[r] = h[r]
          BY <3>4, <3>5, <5>4
        <5>. QED
          BY <4>2, <5>1, <5>5 DEF Plus
      <4>. QED
        BY <4>1, <4>2
    <3>7. h = [s \in Small(D, m) |-> Plus(f, h, s)]
      BY <3>5, <3>6
    <3>. QED
      BY <1>2, <2>2, <3>7 DEF SumsUpto
  <2>. QED
    BY <2>3, <2>4
<1>4. PICK n : n = Cardinality(D)
  OBVIOUS
<1>5. n \in Nat /\ Small(D, n) = SUBSET D
  <2>1. \A s \in SUBSET D : Cardinality(s) <= n
    BY <1>4, FS_Subset
  <2>. QED
    BY <1>2, <1>4, <2>1 DEF Small
<1>6. PICK g : SumsUpto(f, n, g)
  BY <1>1, <1>3, <1>5
<1>. QED
  BY <1>2, <1>5, <1>6 DEF SumsUpto, Adds

LEMMA SumAdds ==
  ASSUME NEW D, IsFiniteSet(D), NEW f \in [D -> Nat], NEW s \in SUBSET D
  PROVE  Sums(f)[s] = IF s = {} THEN 0 ELSE f[Some(s)] + Sums(f)[s \ {Some(s)}]
<1>1. Adds(f, Sums(f))
  BY SumsExist, Zenon DEF Sums
<1>2. PICK g : g = Sums(f)
  OBVIOUS
<1>3. g = [r \in SUBSET D |-> Plus(f, g, r)]
  BY <1>1, <1>2 DEF Adds
<1>4. g[s] = Plus(f, g, s)
  BY <1>3
<1>. QED
  BY <1>2, <1>4, Zenon DEF Plus

LEMMA SumIsNatural ==
  ASSUME NEW D, IsFiniteSet(D), NEW f \in [D -> Nat], NEW s \in SUBSET D
  PROVE  Sums(f)[s] \in Nat
<1>1. PICK B : B = {n \in Nat : \E r \in SUBSET D : Cardinality(r) = n /\ Sums(f)[r] \notin Nat}
  OBVIOUS
<1>2. \A r \in SUBSET D : IsFiniteSet(r) /\ Cardinality(r) \in Nat
  BY FS_Subset, FS_CardinalityType
<1>3. B = {}
  <2>. SUFFICES ASSUME B # {} PROVE FALSE
    OBVIOUS
  <2>1. PICK m \in B : \A n \in B : m <= n
    BY <1>1, LeastNatural
  <2>2. PICK r \in SUBSET D : Cardinality(r) = m /\ Sums(f)[r] \notin Nat
    BY <1>1
  <2>3. r # {}
    <3>1. Sums(f)[r] = IF r = {} THEN 0 ELSE f[Some(r)] + Sums(f)[r \ {Some(r)}]
      BY SumAdds
    <3>. QED
      BY <2>2, <3>1
  <2>4. PICK q, x : q = r \ {Some(r)} /\ x = Some(r)
    OBVIOUS
  <2>5. x \in D /\ q \in SUBSET D /\ Cardinality(q) = m - 1 /\ m \in Nat
    BY <1>2, <2>2, <2>3, <2>4, AnyOf
  <2>6. Cardinality(q) \notin B
    BY <2>1, <2>5
  <2>7. Sums(f)[q] \in Nat
    BY <1>1, <1>2, <2>5, <2>6
  <2>8. Sums(f)[r] = f[x] + Sums(f)[q]
    BY <2>3, <2>4, SumAdds
  <2>9. f[x] \in Nat
    BY <2>5
  <2>. QED
    BY <2>2, <2>7, <2>8, <2>9
<1>. QED
  BY <1>1, <1>2, <1>3
-----------------------------------------------------------------------------
(* Numbers in order                                                        *)

Under(S, n) == {m \in S : m < n}
InOrder(S) ==
    [i \in 1..Cardinality(S) |-> CHOOSE n \in S : Cardinality(Under(S, n)) = i - 1]

LEMMA AscendingIsInOrder ==
  \A S : Planner!Ascending(S) = InOrder(S) /\ Broker!Ascending(S) = InOrder(S)
<1>1. ASSUME NEW S PROVE Planner!Ascending(S) = InOrder(S)
  BY Zenon DEF InOrder, Under, Planner!Ascending, Planner!Cardinality, Cardinality
<1>2. ASSUME NEW S PROVE Broker!Ascending(S) = InOrder(S)
  BY Zenon DEF InOrder, Under, Broker!Ascending, Broker!Cardinality, Cardinality
<1>. QED
  BY <1>1, <1>2

LEMMA UnderGrows ==
  ASSUME NEW S \in SUBSET Nat, IsFiniteSet(S), NEW m \in S, NEW n \in S
  PROVE  /\ Cardinality(Under(S, m)) \in Nat
         /\ Cardinality(Under(S, m)) < Cardinality(S)
         /\ m < n <=> Cardinality(Under(S, m)) < Cardinality(Under(S, n))
<1>1. ASSUME NEW x \in S
      PROVE  /\ Under(S, x) \in SUBSET S /\ x \notin Under(S, x)
             /\ IsFiniteSet(Under(S, x)) /\ Cardinality(Under(S, x)) \in Nat
  <2>1. Under(S, x) \in SUBSET S /\ x \notin Under(S, x)
    BY DEF Under
  <2>. QED
    BY <2>1, FS_Subset, FS_CardinalityType
<1>2. ASSUME NEW x \in S, NEW y \in S, x < y
      PROVE  Cardinality(Under(S, x)) < Cardinality(Under(S, y))
  <2>1. PICK A, B : A = Under(S, x) /\ B = Under(S, y)
    OBVIOUS
  <2>2. A \in SUBSET B /\ x \in B /\ x \notin A
    <3>1. x \in Nat /\ y \in Nat /\ ~(x < x)
      OBVIOUS
    <3>2. ASSUME NEW z \in S, z < x PROVE z < y
      <4>. z \in Nat
        OBVIOUS
      <4>. QED
        BY <1>2, <3>1, <3>2
    <3>3. A \in SUBSET B
      BY <2>1, <3>2, Zenon DEF Under
    <3>4. x \in B
      BY <1>2, <2>1, Zenon DEF Under
    <3>5. x \notin A
      BY <2>1, <3>1, Zenon DEF Under
    <3>. QED
      BY <3>3, <3>4, <3>5
  <2>3. IsFiniteSet(B) /\ Cardinality(A) \in Nat /\ Cardinality(B) \in Nat
    BY <1>1, <2>1
  <2>4. Cardinality(A) <= Cardinality(B) /\ (Cardinality(A) = Cardinality(B) => A = B)
    BY <2>2, <2>3, FS_Subset
  <2>. QED
    BY <2>1, <2>2, <2>3, <2>4
<1>3. Cardinality(Under(S, m)) < Cardinality(S)
  <2>1. PICK A : A = Under(S, m)
    OBVIOUS
  <2>2. A \in SUBSET S /\ A # S /\ Cardinality(A) \in Nat /\ Cardinality(S) \in Nat
    BY <1>1, <2>1, FS_CardinalityType
  <2>3. Cardinality(A) <= Cardinality(S) /\ (Cardinality(A) = Cardinality(S) => A = S)
    BY <2>2, FS_Subset
  <2>. QED
    BY <2>1, <2>2, <2>3
<1>4. PICK a, b : a = Cardinality(Under(S, m)) /\ b = Cardinality(Under(S, n))
  OBVIOUS
<1>5. a \in Nat /\ b \in Nat
  BY <1>1, <1>4
<1>6. m \in Nat /\ n \in Nat /\ (m < n => a < b) /\ (n < m => b < a) /\ (m = n => a = b)
  BY <1>2, <1>4
<1>. QED
  BY <1>3, <1>4, <1>5, <1>6

LEMMA InOrderFacts ==
  ASSUME NEW S \in SUBSET Nat, IsFiniteSet(S), NEW A, A = InOrder(S)
  PROVE  /\ Cardinality(S) \in Nat
         /\ A \in [1..Cardinality(S) -> S]
         /\ \A i, j \in 1..Cardinality(S) : i < j => A[i] < A[j]
         /\ \A n \in S : \E i \in 1..Cardinality(S) : A[i] = n
<1>1. PICK N : N = Cardinality(S)
  OBVIOUS
<1>2. N \in Nat
  BY <1>1, FS_CardinalityType
<1>3. PICK r : r = [n \in S |-> Cardinality(Under(S, n)) + 1]
  OBVIOUS
<1>4. /\ r \in [S -> 1..N]
      /\ \A n \in S : Cardinality(Under(S, n)) \in Nat /\ Cardinality(Under(S, n)) < N
  BY <1>1, <1>2, <1>3, UnderGrows
<1>5. \A m, n \in S : m < n => r[m] < r[n]
  BY <1>3, <1>4, UnderGrows
<1>6. \A m, n \in S : r[m] = r[n] => m = n
  <2>. SUFFICES ASSUME NEW m \in S, NEW n \in S, r[m] = r[n] PROVE m = n
    OBVIOUS
  <2>1. m \in Nat /\ n \in Nat /\ r[m] \in Nat /\ r[n] \in Nat
    BY <1>4
  <2>. QED
    BY <1>5, <2>1
<1>7. \A i \in 1..N : \E n \in S : r[n] = i
  <2>1. r \in Injection(S, 1..N)
    BY <1>4, <1>6, Fun_IsInj
  <2>2. IsFiniteSet(1..N) /\ Cardinality(1..N) = N
    BY <1>2, FS_Interval
  <2>3. r \in Surjection(S, 1..N)
    BY <1>1, <2>1, <2>2, FS_Injection
  <2>. QED
    BY <2>3, Fun_SurjectionProperties
<1>8. ASSUME NEW i \in 1..N PROVE A[i] \in S /\ r[A[i]] = i
  <2>1. PICK n \in S : r[n] = i
    BY <1>7
  <2>2. \E x \in S : Cardinality(Under(S, x)) = i - 1
    BY <1>3, <1>4, <2>1
  <2>3. A[i] = CHOOSE x \in S : Cardinality(Under(S, x)) = i - 1
    BY <1>1 DEF InOrder
  <2>4. A[i] \in S /\ Cardinality(Under(S, A[i])) = i - 1
    BY <2>2, <2>3
  <2>. QED
    BY <1>3, <2>4
<1>9. A \in [1..N -> S]
  <2>1. A = [i \in 1..N |-> A[i]]
    BY <1>1 DEF InOrder
  <2>. QED
    BY <1>8, <2>1
<1>10. ASSUME NEW i \in 1..N, NEW j \in 1..N, i < j PROVE A[i] < A[j]
  <2>1. A[i] \in S /\ A[j] \in S /\ r[A[i]] < r[A[j]] /\ r[A[i]] \in Nat /\ r[A[j]] \in Nat
    BY <1>8, <1>10
  <2>2. PICK x, y : x = A[i] /\ y = A[j]
    OBVIOUS
  <2>3. x \in Nat /\ y \in Nat /\ r[x] \in Nat /\ r[y] \in Nat /\ r[x] < r[y]
        /\ (y < x => r[y] < r[x])
    BY <1>5, <2>1, <2>2
  <2>. QED
    BY <2>2, <2>3
<1>11. ASSUME NEW n \in S PROVE \E i \in 1..N : A[i] = n
  <2>1. r[n] \in 1..N
    BY <1>4
  <2>2. A[r[n]] \in S /\ r[A[r[n]]] = r[n]
    BY <1>8, <2>1
  <2>3. A[r[n]] = n
    BY <1>6, <2>2
  <2>. QED
    BY <2>1, <2>3
<1>. QED
  BY <1>1, <1>2, <1>9, <1>10, <1>11

-----------------------------------------------------------------------------
(* Rising sequences: what validate_explanations looks at                   *)

LEMMA RisingIsStrict ==
  ASSUME NEW n \in Nat, NEW x, \A i \in 1..n : x[i] \in Nat,
         \A i \in 1..(n - 1) : x[i] < x[i + 1]
  PROVE  \A i, j \in 1..n : i < j => x[i] < x[j]
<1>1. PICK B : B = {j \in Nat : j \in 1..n /\ \E i \in 1..n : i < j /\ ~(x[i] < x[j])}
  OBVIOUS
<1>2. B = {}
  <2>. SUFFICES ASSUME B # {} PROVE FALSE
    OBVIOUS
  <2>1. PICK j \in B : \A k \in B : j <= k
    BY <1>1, LeastNatural
  <2>2. PICK i \in 1..n : i < j /\ ~(x[i] < x[j])
    BY <1>1, <2>1
  <2>3. PICK k : k = j - 1
    OBVIOUS
  <2>4. k \in 1..(n - 1) /\ k \in Nat /\ k \in 1..n /\ j = k + 1 /\ i <= k /\ ~(j <= k) /\ j \in 1..n
    BY <1>1, <2>1, <2>2, <2>3
  <2>5. x[k] < x[j]
    BY <2>4
  <2>6. CASE i = k
    BY <2>2, <2>5, <2>6
  <2>7. CASE i # k
    <3>1. k \notin B
      BY <2>1, <2>4
    <3>2. x[i] < x[k]
      BY <1>1, <2>4, <2>7, <3>1
    <3>3. x[i] \in Nat /\ x[k] \in Nat /\ x[j] \in Nat
      BY <2>4
    <3>. QED
      BY <2>2, <2>5, <3>2, <3>3
  <2>. QED
    BY <2>6, <2>7
<1>. QED
  BY <1>1, <1>2

-----------------------------------------------------------------------------
(* Values of the planner                                                   *)

RouteTerm == RouteMetrics \cup {Loss}
RouteCandidate ==
    [id : Nat, allowed : BOOLEAN, rejections : Seq(Nat), metric : [RouteMetrics -> Nat],
     loss : Nat]
RouteExplanation ==
    [id : Nat, allowed : BOOLEAN, rejections : Seq(Nat), terms : [RouteTerm -> Nat] \cup {<<>>}]

LEMMA RouteConstants ==
  /\ RouteLimit \in Nat \ {0} /\ IsFiniteSet(RouteTerm) /\ Loss \in RouteTerm
  /\ Pool \subseteq RouteCandidate /\ Edits \subseteq RouteExplanation
  /\ WeightPool \subseteq [RouteTerm -> Nat]
  /\ Planner!Terms = RouteTerm /\ Planner!NoTerms = <<>> /\ MaxCandidates \in Nat
<1>1. Planner!IsFiniteSet(RouteMetrics) <=> IsFiniteSet(RouteMetrics)
  BY Zenon DEF Planner!IsFiniteSet, IsFiniteSet
<1>2. IsFiniteSet(RouteMetrics) /\ RouteLimit \in Nat \ {0} /\ MaxCandidates \in Nat
  BY <1>1, PlanningConstants DEF Planner!RouteValues, Planner!RouteBounds
<1>3. IsFiniteSet(RouteTerm)
  BY <1>2, FS_AddElement DEF RouteTerm
<1>4. Planner!Terms = RouteTerm /\ Planner!NoTerms = <<>> /\ Loss \in RouteTerm
  BY DEF Planner!Terms, RouteTerm, Planner!NoTerms
<1>5. Pool \subseteq RouteCandidate /\ Edits \subseteq RouteExplanation
      /\ WeightPool \subseteq [RouteTerm -> Nat]
  BY <1>4, PlanningConstants DEF Planner!RouteValues, RouteCandidate, RouteExplanation
<1>. QED
  BY <1>2, <1>3, <1>4, <1>5

LEMMA ProductBound ==
  ASSUME NEW a \in Nat, NEW b \in Nat, NEW m \in Nat, a <= m, b <= m
  PROVE  a * b \in Nat /\ a * b <= m * m
<1>1. a * b \in Nat /\ a * m \in Nat /\ m * m \in Nat
  OBVIOUS
<1>2. a * b <= a * m
  OBVIOUS
<1>3. a * m <= m * m
  OBVIOUS
<1>. QED
  BY <1>1, <1>2, <1>3

LEMMA NoTermsHasNone ==
  ASSUME NEW f \in [RouteTerm -> Nat]
  PROVE  f # <<>>
<1>1. DOMAIN f = RouteTerm /\ Loss \in RouteTerm
  BY RouteConstants
<1>2. DOMAIN <<>> = {}
  OBVIOUS
<1>. QED
  BY <1>1, <1>2

\* A score within the bounds of validate_scored_candidate can be totalled.
LEMMA ScoreIsInRange ==
  ASSUME NEW c \in RouteCandidate, NEW w \in [RouteTerm -> Nat]
  PROVE  /\ Planner!Score(c, w) \in [RouteTerm -> Nat]
         /\ Planner!Total(Planner!Score(c, w)) \in Nat
         /\ /\ \A t \in RouteTerm : w[t] <= RouteLimit
            /\ c.loss <= RouteLimit
            /\ \A t \in RouteMetrics : c.metric[t] <= RouteLimit
            => Planner!InRange(Planner!Score(c, w))
<1>1. PICK s : s = Planner!Score(c, w)
  OBVIOUS
<1>2. PICK v : v = [t \in RouteTerm |-> IF t = Loss THEN c.loss ELSE c.metric[t]]
  OBVIOUS
<1>3. v \in [RouteTerm -> Nat]
  <2>1. c.loss \in Nat /\ c.metric \in [RouteMetrics -> Nat]
    BY DEF RouteCandidate
  <2>. QED
    BY <1>2, <2>1 DEF RouteTerm
<1>4. s = [t \in RouteTerm |-> w[t] * v[t]]
  <2>1. s = [t \in RouteTerm |-> w[t] * (IF t = Loss THEN c.loss ELSE c.metric[t])]
    BY <1>1, RouteConstants, Zenon DEF Planner!Score
  <2>. QED
    BY <1>2, <2>1
<1>5. s \in [RouteTerm -> Nat]
  BY <1>3, <1>4
<1>6. Planner!Total(s) \in Nat
  <2>1. DOMAIN s = RouteTerm
    BY <1>5
  <2>. QED
    BY <1>5, <2>1, TotalIsSum, SumIsNatural, RouteConstants
<1>7. ASSUME \A t \in RouteTerm : w[t] <= RouteLimit, c.loss <= RouteLimit,
             \A t \in RouteMetrics : c.metric[t] <= RouteLimit
      PROVE  Planner!InRange(s)
  <2>1. ASSUME NEW t \in RouteTerm PROVE s[t] <= RouteLimit * RouteLimit
    <3>1. v[t] <= RouteLimit
      BY <1>2, <1>7 DEF RouteTerm
    <3>2. PICK a, b : a = w[t] /\ b = v[t]
      OBVIOUS
    <3>3. a \in Nat /\ b \in Nat /\ a <= RouteLimit /\ b <= RouteLimit /\ s[t] = a * b
      BY <1>3, <1>4, <1>7, <3>1, <3>2
    <3>. QED
      BY <3>3, ProductBound, RouteConstants
  <2>2. DOMAIN s = RouteTerm
    BY <1>5
  <2>. QED
    BY <2>1, <2>2, Zenon DEF Planner!InRange, Planner!MaxTerm
<1>. QED
  BY <1>1, <1>5, <1>6, <1>7

-----------------------------------------------------------------------------
(* Candidates in the order of their ids                                    *)

Ids(S) == {c.id : c \in S}
With(S, n) == CHOOSE c \in S : c.id = n

\* What SortedById gives for the set of the candidates.
Sorted(S, s) ==
    s = [i \in 1..Cardinality(Ids(S)) |-> With(S, InOrder(Ids(S))[i])]

LEMMA SortedFacts ==
  ASSUME NEW S, IsFiniteSet(S), \A c \in S : c.id \in Nat, NEW s, Sorted(S, s)
  PROVE  /\ Cardinality(Ids(S)) \in Nat
         /\ s \in [1..Cardinality(Ids(S)) -> S]
         /\ \A i, j \in 1..Cardinality(Ids(S)) : i < j => s[i].id < s[j].id
         /\ \A c \in S : \E i \in 1..Cardinality(Ids(S)) : s[i].id = c.id
<1>1. Ids(S) \in SUBSET Nat /\ IsFiniteSet(Ids(S))
  <2>1. PICK f : f = [c \in S |-> c.id]
    OBVIOUS
  <2>2. f \in Surjection(S, Ids(S))
    BY <2>1, Fun_IsSurj DEF Ids
  <2>. QED
    BY <2>1, <2>2, FS_Surjection DEF Ids
<1>2. PICK A, N : A = InOrder(Ids(S)) /\ N = Cardinality(Ids(S))
  OBVIOUS
<1>3. /\ N \in Nat /\ A \in [1..N -> Ids(S)]
      /\ \A i, j \in 1..N : i < j => A[i] < A[j]
      /\ \A n \in Ids(S) : \E i \in 1..N : A[i] = n
  BY <1>1, <1>2, InOrderFacts
<1>4. ASSUME NEW i \in 1..N PROVE s[i] \in S /\ s[i].id = A[i]
  <2>1. A[i] \in Ids(S)
    BY <1>3
  <2>2. s[i] = With(S, A[i])
    BY <1>2 DEF Sorted
  <2>. QED
    BY <2>1, <2>2 DEF With, Ids
<1>5. s \in [1..N -> S]
  <2>1. s = [i \in 1..N |-> s[i]]
    BY <1>2 DEF Sorted
  <2>. QED
    BY <1>4, <2>1
<1>6. \A i, j \in 1..N : i < j => s[i].id < s[j].id
  BY <1>3, <1>4
<1>7. ASSUME NEW c \in S PROVE \E i \in 1..N : s[i].id = c.id
  <2>1. c.id \in Ids(S)
    BY DEF Ids
  <2>. QED
    BY <1>3, <1>4, <2>1
<1>. QED
  BY <1>2, <1>3, <1>5, <1>6, <1>7

Items(s) == {s[i] : i \in DOMAIN s}

LEMMA SortedByIdIs ==
  ASSUME NEW cs
  PROVE  /\ IsFiniteSet(Items(cs)) /\ (\A c \in Items(cs) : c.id \in Nat) =>
              Sorted(Items(cs), Planner!SortedById(cs)) /\ Sorted(Items(cs), Broker!SortedById(cs))
         /\ Planner!ToSet(cs) = Items(cs) /\ Broker!ToSet(cs) = Items(cs)
<1>1. Planner!ToSet(cs) = Items(cs) /\ Broker!ToSet(cs) = Items(cs)
  BY Zenon DEF Planner!ToSet, Broker!ToSet, Items
<1>2. PICK S, A : S = Items(cs) /\ A = InOrder(Ids(S))
  OBVIOUS
<1>3. /\ Planner!Ascending(Ids(Planner!ToSet(cs))) = A
      /\ Broker!Ascending(Ids(Broker!ToSet(cs))) = A
  BY <1>1, <1>2, AscendingIsInOrder
<1>5. Planner!SortedById(cs) = [i \in DOMAIN A |-> CHOOSE c \in Planner!ToSet(cs) : c.id = A[i]]
      /\ Broker!SortedById(cs) = [i \in DOMAIN A |-> CHOOSE c \in Broker!ToSet(cs) : c.id = A[i]]
  <2>1. Planner!SortedById(cs) =
          [i \in DOMAIN Planner!Ascending(Ids(Planner!ToSet(cs))) |->
              CHOOSE c \in Planner!ToSet(cs) :
                  c.id = Planner!Ascending(Ids(Planner!ToSet(cs)))[i]]
    BY Zenon DEF Planner!SortedById, Ids
  <2>2. Broker!SortedById(cs) =
          [i \in DOMAIN Broker!Ascending(Ids(Broker!ToSet(cs))) |->
              CHOOSE c \in Broker!ToSet(cs) :
                  c.id = Broker!Ascending(Ids(Broker!ToSet(cs)))[i]]
    BY Zenon DEF Broker!SortedById, Ids
  <2>. QED
    BY ONLY <1>3, <2>1, <2>2
<1>6. Planner!SortedById(cs) = [i \in DOMAIN A |-> With(S, A[i])]
      /\ Broker!SortedById(cs) = [i \in DOMAIN A |-> With(S, A[i])]
  BY <1>1, <1>2, <1>5 DEF With
<1>4. DOMAIN A = 1..Cardinality(Ids(S))
  BY <1>2 DEF InOrder
<1>. QED
  BY <1>1, <1>2, <1>4, <1>6, Zenon DEF Sorted

-----------------------------------------------------------------------------
(* Decisions                                                               *)

DecisionFields == {"status", "version", "selected", "explained", "score", "candidates", "digest"}
IsDecision(d) ==
    /\ DOMAIN d = DecisionFields
    /\ d.status \in {"selected", "denied"} /\ d.candidates \in Seq(RouteExplanation)

LEMMA SealedFacts ==
  ASSUME NEW d, DOMAIN d = DecisionFields
  PROVE  /\ DOMAIN Planner!Sealed(d) = DecisionFields
         /\ \A x \in DecisionFields \ {"digest"} : Planner!Sealed(d)[x] = d[x]
         /\ Planner!Sealed(d).digest = Planner!Content(d)
         /\ Planner!Content(Planner!Sealed(d)) = Planner!Content(d)
<1>1. PICK b : b = Planner!Content(d)
  OBVIOUS
<1>2. PICK f : f = Planner!Sealed(d)
  OBVIOUS
<1>3. f = [d EXCEPT !.digest = b]
  BY <1>1, <1>2, Zenon DEF Planner!Sealed
<1>4. b = [d EXCEPT !.digest = <<>>]
  BY <1>1, Zenon DEF Planner!Content
<1>5. DOMAIN f = DecisionFields /\ (\A x \in DecisionFields \ {"digest"} : f[x] = d[x]) /\ f.digest = b
  BY <1>3 DEF DecisionFields
<1>6. Planner!Content(f) = [f EXCEPT !.digest = <<>>]
  BY Zenon DEF Planner!Content
<1>7. [f EXCEPT !.digest = <<>>] = b
  BY <1>4, <1>5
<1>. QED
  BY <1>1, <1>2, <1>5, <1>6, <1>7

LEMMA DecisionIs ==
  ASSUME NEW e, NEW ch, NEW d, d = Planner!Decision(e, ch)
  PROVE  /\ DOMAIN d = DecisionFields /\ d.version = 1 /\ d.candidates = e
         /\ d.digest = Planner!Content(d) /\ d # Planner!Failed
         /\ ch = <<>> => d.status = "denied" /\ d.selected = 0
         /\ ch # <<>> => d.status = "selected" /\ d.selected = ch[2] /\ d.explained = ch[2]
                         /\ d.score = ch[1]
<1>1. PICK st, sel, sc :
        /\ st = (IF ch = <<>> THEN "denied" ELSE "selected")
        /\ sel = (IF ch = <<>> THEN 0 ELSE ch[2])
        /\ sc = (IF ch = <<>> THEN 0 ELSE ch[1])
  OBVIOUS
<1>2. PICK r : r = [status |-> st, version |-> 1, selected |-> sel, explained |-> sel,
                    score |-> sc, candidates |-> e, digest |-> <<>>]
  OBVIOUS
<1>3. d = Planner!Sealed(r)
  BY <1>1, <1>2, Zenon DEF Planner!Decision
<1>4. DOMAIN r = DecisionFields
  BY <1>2 DEF DecisionFields
<1>5. /\ DOMAIN d = DecisionFields /\ \A x \in DecisionFields \ {"digest"} : d[x] = r[x]
      /\ d.digest = Planner!Content(d)
  BY <1>3, <1>4, SealedFacts
<1>6. d.status = st /\ d.version = 1 /\ d.selected = sel /\ d.explained = sel /\ d.score = sc
      /\ d.candidates = e
  BY <1>2, <1>5 DEF DecisionFields
<1>7. d # Planner!Failed
  <2>1. DOMAIN Planner!Failed = {"status"}
    BY DEF Planner!Failed
  <2>. QED
    BY <1>5, <2>1 DEF DecisionFields
<1>. QED
  BY <1>1, <1>5, <1>6, <1>7

-----------------------------------------------------------------------------
(* What verify_integrity makes sure of                                     *)

LEMMA RisingIds ==
  ASSUME NEW e \in Seq(RouteExplanation), Planner!Rising([i \in DOMAIN e |-> e[i].id])
  PROVE  \A a, b \in Items(e) : a.id = b.id => a = b
<1>1. PICK n, x : n = Len(e) /\ x = [i \in DOMAIN e |-> e[i].id]
  OBVIOUS
<1>2. n \in Nat /\ DOMAIN e = 1..n /\ Len(x) = n
      /\ \A i \in 1..n : x[i] = e[i].id /\ x[i] \in Nat
  <2>1. n \in Nat /\ DOMAIN e = 1..n /\ \A i \in 1..n : e[i] \in RouteExplanation
    BY <1>1
  <2>2. \A i \in 1..n : e[i].id \in Nat
    BY <2>1 DEF RouteExplanation
  <2>3. x = [i \in 1..n |-> e[i].id] /\ \A i \in 1..n : x[i] = e[i].id
    BY <1>1, <2>1
  <2>4. Len(x) = n
    BY <2>1, <2>3
  <2>. QED
    BY <2>1, <2>2, <2>3, <2>4
<1>3. \A i \in 1..(n - 1) : x[i] < x[i + 1]
  BY <1>1, <1>2 DEF Planner!Rising
<1>4. \A i, j \in 1..n : i < j => x[i] < x[j]
  <2>1. \A i \in 1..n : x[i] \in Nat
    BY <1>2
  <2>. QED
    BY <1>2, <1>3, <2>1, RisingIsStrict
<1>. SUFFICES ASSUME NEW i \in 1..n, NEW j \in 1..n, e[i].id = e[j].id PROVE e[i] = e[j]
  BY <1>2 DEF Items
<1>5. x[i] \in Nat /\ x[j] \in Nat /\ x[i] = x[j] /\ i \in Nat /\ j \in Nat
  BY <1>2
<1>6. ~(i < j) /\ ~(j < i)
  BY <1>4, <1>5
<1>7. i = j
  BY ONLY <1>5, <1>6
<1>. QED
  BY <1>7

\* The ids, with the scores, of the explanations that have terms.
Scored(e) == {c \in Items(e) : c.terms # <<>>}
Ranking(C) == {<<Planner!Total(c.terms), c.id>> : c \in C}

Selects(d, scored, ranked) ==
    /\ d.selected = d.explained
    /\ \E c \in scored : c.id = d.selected /\ c.allowed /\ c.rejections = <<>>
    /\ \A c \in scored : Planner!InRange(c.terms)
    /\ <<d.score, d.selected>> \in ranked
    /\ \A other \in ranked \ {<<d.score, d.selected>>} : Sooner(<<d.score, d.selected>>, other)

Explains(e, none) ==
    \A i \in DOMAIN e :
        /\ e[i].id # 0
        /\ e[i].allowed => ~none /\ e[i].rejections = <<>> /\ e[i].terms # <<>>
        /\ ~e[i].allowed =>
              /\ e[i].terms = <<>> /\ e[i].rejections # <<>>
              /\ 0 \notin Items(e[i].rejections) /\ Planner!Rising(e[i].rejections)

LEMMA VerifyIs ==
  ASSUME NEW d
  PROVE  Planner!VerifyIntegrity(d) <=>
           /\ d.digest = Planner!Content(d) /\ d.version = 1
           /\ d.status = "selected" =>
                Selects(d, Scored(d.candidates), Ranking(Scored(d.candidates)))
           /\ Planner!Rising([i \in DOMAIN d.candidates |-> d.candidates[i].id])
           /\ Explains(d.candidates, d.status = "denied")
<1>1. Planner!SelectionValid(d) <=> Selects(d, Scored(d.candidates), Ranking(Scored(d.candidates)))
  BY Zenon DEF Planner!SelectionValid, Selects, Scored, Ranking, Items, Planner!ToSet,
     Planner!NoTerms, Planner!Before, Sooner
<1>2. Planner!ExplanationsValid(d.candidates, d.status = "denied") <=>
        /\ Planner!Rising([i \in DOMAIN d.candidates |-> d.candidates[i].id])
        /\ Explains(d.candidates, d.status = "denied")
  BY Zenon DEF Planner!ExplanationsValid, Explains, Items, Planner!ToSet, Planner!NoTerms
<1>. QED
  BY <1>1, <1>2, Zenon DEF Planner!VerifyIntegrity

-----------------------------------------------------------------------------
(* What decide says of a candidate                                         *)

\* The candidate passes validate_candidate and validate_scored_candidate.
Acceptable(c, w) ==
    /\ \A t \in RouteTerm : w[t] <= RouteLimit
    /\ c.loss <= RouteLimit /\ c.id # 0
    /\ c.allowed => \A t \in RouteMetrics : c.metric[t] <= RouteLimit
    /\ ~c.allowed => c.rejections # <<>> /\ 0 \notin Items(c.rejections)

LEMMA ItemsTyped ==
  ASSUME NEW T, NEW s \in Seq(T)
  PROVE  /\ Items(s) \in SUBSET T /\ IsFiniteSet(Items(s))
         /\ s # <<>> => Items(s) # {}
<1>1. Len(s) \in Nat /\ DOMAIN s = 1..Len(s) /\ \A i \in 1..Len(s) : s[i] \in T
  OBVIOUS
<1>2. Items(s) \in SUBSET T
  BY <1>1 DEF Items
<1>3. IsFiniteSet(Items(s))
  <2>1. s \in Surjection(1..Len(s), Items(s))
    <3>1. s \in [1..Len(s) -> Items(s)]
      BY <1>1 DEF Items
    <3>. QED
      BY <1>1, <3>1, Fun_IsSurj DEF Items
  <2>. QED
    BY <1>1, <2>1, FS_Surjection, FS_Interval
<1>4. ASSUME s # <<>> PROVE Items(s) # {}
  <2>1. Len(s) # 0
    BY <1>4
  <2>2. 1 \in DOMAIN s
    BY <1>1, <2>1
  <2>. QED
    BY <2>2 DEF Items
<1>. QED
  BY <1>2, <1>3, <1>4

LEMMA CanonicalFacts ==
  ASSUME NEW r \in Seq(Nat), NEW a, a = Planner!Canonical(r)
  PROVE  /\ a \in Seq(Nat) /\ Planner!Rising(a)
         /\ Items(a) \in SUBSET Items(r)
         /\ r # <<>> => a # <<>>
<1>1. PICK S, N : S = Items(r) /\ N = Cardinality(S)
  OBVIOUS
<1>2. S \in SUBSET Nat /\ IsFiniteSet(S) /\ (r # <<>> => S # {})
  BY <1>1, ItemsTyped
<1>3. a = InOrder(S)
  BY <1>1, AscendingIsInOrder, SortedByIdIs, Zenon DEF Planner!Canonical
<1>4. /\ N \in Nat /\ a \in [1..N -> S]
      /\ \A i, j \in 1..N : i < j => a[i] < a[j]
      /\ \A n \in S : \E i \in 1..N : a[i] = n
  BY <1>1, <1>2, <1>3, InOrderFacts
<1>5. a \in Seq(Nat) /\ Len(a) = N /\ DOMAIN a = 1..N
  <2>1. a \in [1..N -> Nat]
    BY <1>2, <1>4
  <2>. QED
    BY <1>4, <2>1
<1>6. Planner!Rising(a)
  <2>1. ASSUME NEW i \in 1..(N - 1) PROVE a[i] < a[i + 1]
    <3>1. i \in 1..N /\ i + 1 \in 1..N /\ i < i + 1
      BY <1>4
    <3>. QED
      BY <1>4, <3>1
  <2>. QED
    BY <1>5, <2>1 DEF Planner!Rising
<1>7. Items(a) \in SUBSET S
  BY <1>4, <1>5 DEF Items
<1>8. ASSUME r # <<>> PROVE a # <<>>
  <2>1. PICK n \in S : TRUE
    BY <1>2, <1>8
  <2>2. PICK i \in 1..N : a[i] = n
    BY <1>4
  <2>3. N # 0
    BY <1>4
  <2>. QED
    BY <1>5, <2>3
<1>. QED
  BY <1>1, <1>5, <1>6, <1>7, <1>8

LEMMA ExplainedFacts ==
  ASSUME NEW c \in RouteCandidate, NEW w \in [RouteTerm -> Nat], Acceptable(c, w),
         NEW e, e = Planner!Explained(c, w)
  PROVE  /\ e \in RouteExplanation /\ e.id = c.id /\ e.allowed = c.allowed /\ e.id # 0
         /\ e.allowed => /\ e.rejections = <<>> /\ e.terms # <<>>
                         /\ e.terms = Planner!Score(c, w)
                         /\ Planner!InRange(e.terms) /\ Planner!Total(e.terms) \in Nat
         /\ ~e.allowed => /\ e.terms = <<>> /\ e.rejections # <<>>
                          /\ 0 \notin Items(e.rejections) /\ Planner!Rising(e.rejections)
<1>1. c.id \in Nat /\ c.allowed \in BOOLEAN /\ c.rejections \in Seq(Nat)
  BY DEF RouteCandidate
<1>2. PICK r, tt :
        /\ r = (IF c.allowed THEN <<>> ELSE Planner!Canonical(c.rejections))
        /\ tt = (IF c.allowed THEN Planner!Score(c, w) ELSE <<>>)
  OBVIOUS
<1>3. e = [id |-> c.id, allowed |-> c.allowed, rejections |-> r, terms |-> tt]
  <2>1. e = [id |-> c.id, allowed |-> c.allowed,
             rejections |-> IF c.allowed THEN <<>> ELSE Planner!Canonical(c.rejections),
             terms |-> IF c.allowed THEN Planner!Score(c, w) ELSE Planner!NoTerms]
    BY Zenon DEF Planner!Explained
  <2>. QED
    BY <1>2, <2>1, RouteConstants
<1>4. e.id = c.id /\ e.allowed = c.allowed /\ e.rejections = r /\ e.terms = tt
  BY <1>3
<1>5. CASE c.allowed
  <2>1. r = <<>> /\ tt = Planner!Score(c, w) /\ r \in Seq(Nat)
    BY <1>2, <1>5
  <2>2. tt \in [RouteTerm -> Nat] /\ Planner!Total(tt) \in Nat /\ Planner!InRange(tt)
    BY <1>5, <2>1, ScoreIsInRange DEF Acceptable
  <2>3. tt # <<>>
    BY <2>2, NoTermsHasNone
  <2>4. e \in RouteExplanation
    BY <1>1, <1>3, <2>1, <2>2 DEF RouteExplanation
  <2>5. c.id # 0
    BY DEF Acceptable
  <2>. QED
    BY <1>4, <1>5, <2>1, <2>2, <2>3, <2>4, <2>5
<1>6. CASE ~c.allowed
  <2>1. r = Planner!Canonical(c.rejections) /\ tt = <<>>
    BY <1>2, <1>6
  <2>2. c.rejections # <<>> /\ 0 \notin Items(c.rejections) /\ c.id # 0
    BY <1>6 DEF Acceptable
  <2>3. r \in Seq(Nat) /\ Planner!Rising(r) /\ Items(r) \in SUBSET Items(c.rejections) /\ r # <<>>
    BY <1>1, <2>1, <2>2, CanonicalFacts
  <2>4. e \in RouteExplanation
    BY <1>1, <1>3, <2>1, <2>3 DEF RouteExplanation
  <2>. QED
    BY <1>4, <1>6, <2>1, <2>2, <2>3, <2>4
<1>. QED
  BY <1>5, <1>6

LEMMA AcceptedCandidates ==
  ASSUME NEW n \in Nat, NEW cs \in [1..n -> RouteCandidate], NEW w \in [RouteTerm -> Nat],
         ~Planner!Rejected(cs, w)
  PROVE  /\ Items(cs) \in SUBSET RouteCandidate /\ IsFiniteSet(Items(cs))
         /\ \A c \in Items(cs) : Acceptable(c, w)
<1>1. cs \in Seq(RouteCandidate) /\ DOMAIN cs = 1..n
  OBVIOUS
<1>2. Items(cs) \in SUBSET RouteCandidate /\ IsFiniteSet(Items(cs))
  BY <1>1, ItemsTyped
<1>3. /\ \A t \in RouteTerm : ~(w[t] > RouteLimit)
      /\ \A i \in 1..n :
            /\ ~(cs[i].loss > RouteLimit) /\ cs[i].id # 0
            /\ ~cs[i].allowed => cs[i].rejections # <<>> /\ 0 \notin Planner!ToSet(cs[i].rejections)
            /\ cs[i].allowed => \A t \in RouteMetrics : ~(cs[i].metric[t] > RouteLimit)
  BY <1>1, RouteConstants, Zenon DEF Planner!Rejected
<1>4. ASSUME NEW i \in 1..n PROVE Acceptable(cs[i], w)
  <2>1. PICK c : c = cs[i]
    OBVIOUS
  <2>2. c \in RouteCandidate
    BY <2>1
  <2>3. c.loss \in Nat /\ c.metric \in [RouteMetrics -> Nat]
    BY <2>2 DEF RouteCandidate
  <2>4. 0 \notin Planner!ToSet(c.rejections) => 0 \notin Items(c.rejections)
    BY SortedByIdIs
  <2>5. \A t \in RouteTerm : w[t] <= RouteLimit
    BY <1>3, RouteConstants
  <2>6. c.loss <= RouteLimit /\ c.id # 0
    BY <1>3, <2>1, <2>3, RouteConstants
  <2>7. c.allowed => \A t \in RouteMetrics : c.metric[t] <= RouteLimit
    <3>. SUFFICES ASSUME c.allowed, NEW t \in RouteMetrics PROVE c.metric[t] <= RouteLimit
      OBVIOUS
    <3>1. ~(c.metric[t] > RouteLimit) /\ c.metric[t] \in Nat
      BY <1>3, <2>1, <2>3
    <3>. QED
      BY <3>1, RouteConstants
  <2>8. ~c.allowed => c.rejections # <<>> /\ 0 \notin Items(c.rejections)
    BY <1>3, <2>1, <2>4
  <2>9. Acceptable(c, w)
    BY <2>5, <2>6, <2>7, <2>8, Zenon DEF Acceptable
  <2>. QED
    BY <2>1, <2>9
<1>. QED
  BY <1>1, <1>2, <1>4 DEF Items

-----------------------------------------------------------------------------
(* What is decided verifies                                                *)

\* The candidates that pass, with their scores.
RankedOf(s, w) ==
    {<<Planner!Total(Planner!Score(c, w)), c.id>> : c \in {c \in Items(s) : c.allowed}}

LEMMA DecideIs ==
  ASSUME NEW cs, NEW w, NEW s, s = Planner!SortedById(cs)
  PROVE  Planner!Decide(cs, w) =
           IF Planner!Rejected(cs, w) THEN Planner!Failed
           ELSE Planner!Decision([i \in DOMAIN s |-> Planner!Explained(s[i], w)],
                                 IF RankedOf(s, w) = {} THEN <<>> ELSE Soonest(RankedOf(s, w)))
<1>1. PICK R : R = RankedOf(s, w)
  OBVIOUS
<1>2. R = {<<Planner!Total(Planner!Score(c, w)), c.id>> : c \in {c \in Planner!ToSet(s) : c.allowed}}
  BY <1>1, SortedByIdIs, Zenon DEF RankedOf
<1>3. Planner!First(R) = Soonest(R)
  BY FirstIsSoonest
<1>4. Planner!Decide(cs, w) =
        IF Planner!Rejected(cs, w) THEN Planner!Failed
        ELSE Planner!Decision([i \in DOMAIN s |-> Planner!Explained(s[i], w)],
                              IF R = {} THEN <<>> ELSE Planner!First(R))
  BY <1>2, Zenon DEF Planner!Decide
<1>. QED
  BY <1>1, <1>3, <1>4, Zenon

AllAcceptable(s, N, w) == \A i \in 1..N : Acceptable(s[i], w)
AllExplained(e, s, N, w) == e = [i \in 1..N |-> Planner!Explained(s[i], w)]
ScoredWell(e) ==
    \A c \in Scored(e) : c.allowed /\ c.rejections = <<>> /\ Planner!InRange(c.terms)
NoneAllowed(e) == \A i \in DOMAIN e : ~e[i].allowed

LEMMA RankedByVerifier ==
  ASSUME NEW N \in Nat, NEW s \in [1..N -> RouteCandidate], NEW w \in [RouteTerm -> Nat],
         AllAcceptable(s, N, w), NEW e, AllExplained(e, s, N, w)
  PROVE  /\ e \in Seq(RouteExplanation) /\ DOMAIN e = 1..N /\ Len(e) = N
         /\ RankedOf(s, w) = Ranking(Scored(e))
         /\ RankedOf(s, w) \in SUBSET (Nat \X Nat)
         /\ ScoredWell(e) /\ (RankedOf(s, w) = {} => NoneAllowed(e))
         /\ \A none \in BOOLEAN : (none => NoneAllowed(e)) => Explains(e, none)
<1>1. ASSUME NEW i \in 1..N
      PROVE  /\ e[i] \in RouteExplanation /\ e[i].id = s[i].id /\ e[i].allowed = s[i].allowed
             /\ e[i].id # 0
             /\ e[i].allowed => /\ e[i].rejections = <<>> /\ e[i].terms # <<>>
                                /\ e[i].terms = Planner!Score(s[i], w)
                                /\ Planner!InRange(e[i].terms) /\ Planner!Total(e[i].terms) \in Nat
             /\ ~e[i].allowed => /\ e[i].terms = <<>> /\ e[i].rejections # <<>>
                                 /\ 0 \notin Items(e[i].rejections)
                                 /\ Planner!Rising(e[i].rejections)
  <2>1. PICK c, f : c = s[i] /\ f = e[i]
    OBVIOUS
  <2>2. c \in RouteCandidate /\ Acceptable(c, w) /\ f = Planner!Explained(c, w)
    BY <2>1 DEF AllAcceptable, AllExplained
  <2>. QED
    BY <2>1, <2>2, ExplainedFacts
<1>2. e \in Seq(RouteExplanation) /\ DOMAIN e = 1..N /\ Len(e) = N
  <2>1. e \in [1..N -> RouteExplanation]
    BY <1>1 DEF AllExplained
  <2>. QED
    BY <2>1
<1>3. DOMAIN s = 1..N /\ \A i \in 1..N : e[i].id \in Nat
  BY <1>1 DEF RouteExplanation
<1>4. RankedOf(s, w) = {<<Planner!Total(e[i].terms), e[i].id>> : i \in {i \in 1..N : e[i].allowed}}
  <2>1. RankedOf(s, w) =
          {<<Planner!Total(Planner!Score(s[i], w)), s[i].id>> : i \in {i \in 1..N : s[i].allowed}}
    BY <1>3 DEF RankedOf, Items
  <2>. QED
    BY <1>1, <2>1
<1>5. Scored(e) = {e[i] : i \in {i \in 1..N : e[i].allowed}}
  <2>1. ASSUME NEW c \in Scored(e) PROVE \E i \in 1..N : e[i].allowed /\ c = e[i]
    <3>1. PICK i \in 1..N : c = e[i] /\ c.terms # <<>>
      BY <1>2 DEF Scored, Items
    <3>2. e[i].allowed
      BY <1>1, <3>1
    <3>. QED
      BY <3>1, <3>2
  <2>2. ASSUME NEW i \in 1..N, e[i].allowed PROVE e[i] \in Scored(e)
    <3>1. e[i].terms # <<>>
      BY <1>1, <2>2
    <3>. QED
      BY <1>2, <3>1 DEF Scored, Items
  <2>. QED
    BY <2>1, <2>2
<1>6. RankedOf(s, w) = Ranking(Scored(e))
  BY <1>4, <1>5 DEF Ranking
<1>7. RankedOf(s, w) \in SUBSET (Nat \X Nat)
  <2>. SUFFICES ASSUME NEW r \in RankedOf(s, w) PROVE r \in Nat \X Nat
    OBVIOUS
  <2>1. PICK i \in 1..N : e[i].allowed /\ r = <<Planner!Total(e[i].terms), e[i].id>>
    BY <1>4
  <2>2. Planner!Total(e[i].terms) \in Nat /\ e[i].id \in Nat
    BY <1>1, <1>3, <2>1
  <2>. QED
    BY <2>1, <2>2
<1>8. ScoredWell(e)
  BY <1>1, <1>5 DEF ScoredWell
<1>9. RankedOf(s, w) = {} => NoneAllowed(e)
  BY <1>2, <1>4 DEF NoneAllowed
<1>10. ASSUME NEW none \in BOOLEAN, none => NoneAllowed(e)
       PROVE  Explains(e, none)
  BY <1>1, <1>2, <1>10 DEF Explains, NoneAllowed
<1>. QED
  BY <1>2, <1>6, <1>7, <1>8, <1>9, <1>10

LEMMA DecideVerifies ==
  ASSUME NEW n \in Nat, NEW cs \in [1..n -> RouteCandidate], NEW w \in [RouteTerm -> Nat],
         NEW d, d = Planner!Decide(cs, w), d # Planner!Failed
  PROVE  IsDecision(d) /\ Planner!VerifyIntegrity(d)
<1>1. PICK s : s = Planner!SortedById(cs)
  OBVIOUS
<1>2. PICK e, R, ch :
        /\ e = [i \in DOMAIN s |-> Planner!Explained(s[i], w)]
        /\ R = RankedOf(s, w)
        /\ ch = IF R = {} THEN <<>> ELSE Soonest(R)
  OBVIOUS
<1>3. ~Planner!Rejected(cs, w) /\ d = Planner!Decision(e, ch)
  BY <1>1, <1>2, DecideIs
<1>4. PICK S : S = Items(cs)
  OBVIOUS
<1>5. S \in SUBSET RouteCandidate /\ IsFiniteSet(S) /\ (\A c \in S : Acceptable(c, w))
      /\ \A c \in S : c.id \in Nat
  BY <1>3, <1>4, AcceptedCandidates DEF RouteCandidate
<1>6. Sorted(S, s)
  BY <1>1, <1>4, <1>5, SortedByIdIs
<1>7. PICK N : N = Cardinality(Ids(S))
  OBVIOUS
<1>8. N \in Nat /\ s \in [1..N -> S] /\ \A i, j \in 1..N : i < j => s[i].id < s[j].id
  BY <1>5, <1>6, <1>7, SortedFacts
<1>9. N \in Nat /\ s \in [1..N -> RouteCandidate] /\ AllAcceptable(s, N, w)
  BY <1>5, <1>8 DEF AllAcceptable
<1>10. AllExplained(e, s, N, w)
  BY <1>2, <1>8 DEF AllExplained
<1>11. /\ e \in Seq(RouteExplanation) /\ DOMAIN e = 1..N /\ Len(e) = N
       /\ R = Ranking(Scored(e)) /\ R \in SUBSET (Nat \X Nat)
       /\ ScoredWell(e) /\ (R = {} => NoneAllowed(e))
       /\ \A none \in BOOLEAN : (none => NoneAllowed(e)) => Explains(e, none)
  <2>1. /\ e \in Seq(RouteExplanation) /\ DOMAIN e = 1..N /\ Len(e) = N
        /\ RankedOf(s, w) = Ranking(Scored(e)) /\ RankedOf(s, w) \in SUBSET (Nat \X Nat)
    BY <1>9, <1>10, RankedByVerifier
  <2>2. ScoredWell(e) /\ (RankedOf(s, w) = {} => NoneAllowed(e))
    BY <1>9, <1>10, RankedByVerifier
  <2>3. \A none \in BOOLEAN : (none => NoneAllowed(e)) => Explains(e, none)
    BY <1>9, <1>10, RankedByVerifier
  <2>. QED
    BY <1>2, <2>1, <2>2, <2>3, Zenon
<1>12. /\ DOMAIN d = DecisionFields /\ d.version = 1 /\ d.candidates = e
       /\ d.digest = Planner!Content(d) /\ d # Planner!Failed
       /\ ch = <<>> => d.status = "denied" /\ d.selected = 0
       /\ ch # <<>> => d.status = "selected" /\ d.selected = ch[2] /\ d.explained = ch[2]
                       /\ d.score = ch[1]
  BY <1>3, DecisionIs
<1>13. R # {} => ch \in R /\ (\A b \in R \ {ch} : Sooner(ch, b)) /\ ch # <<>> /\ ch = <<ch[1], ch[2]>>
  <2>1. ASSUME R # {} PROVE ch \in R /\ \A b \in R \ {ch} : Sooner(ch, b)
    BY <1>2, <1>11, <2>1, SoonestOf
  <2>2. ASSUME ch \in R PROVE ch # <<>> /\ ch = <<ch[1], ch[2]>>
    BY <1>11, <2>2
  <2>. QED
    BY <2>1, <2>2
<1>14. IsDecision(d)
  BY <1>11, <1>12 DEF IsDecision
<1>15. Planner!Rising([i \in DOMAIN e |-> e[i].id])
  <2>1. ASSUME NEW i \in 1..N PROVE e[i].id = s[i].id /\ e[i].id \in Nat
    BY <1>9, <1>10, ExplainedFacts DEF RouteExplanation, AllAcceptable, AllExplained
  <2>2. PICK x : x = [i \in DOMAIN e |-> e[i].id]
    OBVIOUS
  <2>3. x \in [1..N -> Nat] /\ \A i \in 1..N : x[i] = s[i].id
    BY <1>11, <2>1, <2>2
  <2>4. Len(x) = N
    BY <1>8, <2>3
  <2>5. ASSUME NEW i \in 1..(N - 1) PROVE x[i] < x[i + 1]
    <3>1. i \in 1..N /\ i + 1 \in 1..N /\ i < i + 1
      BY <1>8
    <3>. QED
      BY <1>8, <2>3, <3>1
  <2>6. Planner!Rising(x)
    BY <2>4, <2>5, Zenon DEF Planner!Rising
  <2>. QED
    BY <2>2, <2>6
<1>16. CASE R = {}
  <2>1. d.status = "denied" /\ d.status # "selected"
    BY <1>2, <1>12, <1>16
  <2>2. Explains(e, d.status = "denied")
    BY <1>11, <1>16, <2>1
  <2>. QED
    BY <1>12, <1>14, <1>15, <2>1, <2>2, VerifyIs
<1>17. CASE R # {}
  <2>1. d.status = "selected" /\ d.status # "denied" /\ d.selected = ch[2] /\ d.explained = ch[2]
        /\ d.score = ch[1] /\ <<d.score, d.selected>> = ch
    BY <1>12, <1>13, <1>17
  <2>2. Explains(e, d.status = "denied")
    BY <1>11, <2>1
  <2>3. PICK C : C = Scored(e)
    OBVIOUS
  <2>4. PICK c \in C : ch = <<Planner!Total(c.terms), c.id>>
    BY <1>11, <1>13, <1>17, <2>3 DEF Ranking
  <2>5. c.id = d.selected /\ c.allowed /\ c.rejections = <<>>
    BY <1>11, <2>1, <2>3, <2>4 DEF ScoredWell
  <2>6. Selects(d, C, R)
    BY <1>11, <1>13, <1>17, <2>1, <2>3, <2>5 DEF Selects, ScoredWell
  <2>7. Selects(d, Scored(d.candidates), Ranking(Scored(d.candidates)))
    BY <1>11, <1>12, <2>3, <2>6
  <2>. QED
    BY <1>12, <1>14, <1>15, <2>2, <2>7, VerifyIs
<1>. QED
  BY <1>16, <1>17

-----------------------------------------------------------------------------
(* What verifies is the best                                               *)

Leads(c, allowed) ==
    \A other \in allowed \ {c} :
        Sooner(<<Planner!Total(c.terms), c.id>>, <<Planner!Total(other.terms), other.id>>)

Best(d) ==
    /\ d.status = "selected" <=> \E c \in Items(d.candidates) : c.allowed
    /\ \A c \in Items(d.candidates) : ~c.allowed => c.rejections # <<>>
    /\ d.status = "selected" =>
         \E c \in Items(d.candidates) :
            c.allowed /\ c.id = d.selected /\ Leads(c, {x \in Items(d.candidates) : x.allowed})

LEMMA VerifiedSelectsBest ==
  ASSUME NEW d, IsDecision(d), Planner!VerifyIntegrity(d)
  PROVE  Best(d)
<1>1. PICK e, C : e = d.candidates /\ C = Scored(e)
  OBVIOUS
<1>2. /\ d.status = "selected" => Selects(d, C, Ranking(C))
      /\ Planner!Rising([i \in DOMAIN e |-> e[i].id]) /\ Explains(e, d.status = "denied")
  BY <1>1, VerifyIs
<1>3. e \in Seq(RouteExplanation) /\ d.status \in {"selected", "denied"}
  BY <1>1 DEF IsDecision
<1>4. \A a, b \in Items(e) : a.id = b.id => a = b
  BY <1>2, <1>3, RisingIds
<1>5. \A c \in Items(e) :
        /\ c.allowed => d.status # "denied" /\ c.terms # <<>>
        /\ ~c.allowed => c.rejections # <<>>
  BY <1>2 DEF Explains, Items
<1>6. ASSUME d.status = "selected"
      PROVE  \E c \in Items(e) :
                c.allowed /\ c.id = d.selected /\ Leads(c, {x \in Items(e) : x.allowed})
  <2>1. Selects(d, C, Ranking(C))
    BY <1>2, <1>6
  <2>2. PICK c \in C : c.id = d.selected /\ c.allowed
    BY <2>1 DEF Selects
  <2>3. PICK b \in C : <<d.score, d.selected>> = <<Planner!Total(b.terms), b.id>>
    BY <2>1 DEF Selects, Ranking
  <2>4. C \subseteq Items(e)
    BY <1>1 DEF Scored
  <2>5. b = c /\ d.score = Planner!Total(c.terms)
    BY <1>4, <2>2, <2>3, <2>4
  <2>6. ASSUME NEW other \in Items(e), other.allowed, other # c
        PROVE  Sooner(<<Planner!Total(c.terms), c.id>>, <<Planner!Total(other.terms), other.id>>)
    <3>1. other \in C
      BY <1>1, <1>5, <2>6 DEF Scored
    <3>2. <<Planner!Total(other.terms), other.id>> \in Ranking(C)
      BY <3>1 DEF Ranking
    <3>3. other.id # d.selected
      BY <1>4, <2>2, <2>4, <2>6
    <3>4. <<Planner!Total(other.terms), other.id>> # <<d.score, d.selected>>
      BY <3>3
    <3>5. Sooner(<<d.score, d.selected>>, <<Planner!Total(other.terms), other.id>>)
      BY <2>1, <3>2, <3>4 DEF Selects
    <3>. QED
      BY <2>2, <2>5, <3>5
  <2>7. Leads(c, {x \in Items(e) : x.allowed})
    BY <2>6, Zenon DEF Leads
  <2>. QED
    BY <2>2, <2>4, <2>7
<1>7. d.status = "selected" <=> \E c \in Items(e) : c.allowed
  BY <1>3, <1>5, <1>6
<1>. QED
  BY <1>1, <1>5, <1>6, <1>7 DEF Best

LEMMA PlannerProperties ==
  /\ Planner!DecisionVerifies <=>
        (step = "decided" /\ decision # Planner!Failed => Planner!VerifyIntegrity(decision))
  /\ (decision # Planner!Failed /\ Planner!VerifyIntegrity(decision) => Best(decision)) =>
        Planner!VerifiedIsBest
<1>1. Planner!DecisionVerifies <=>
        (step = "decided" /\ decision # Planner!Failed => Planner!VerifyIntegrity(decision))
  BY DEF Planner!DecisionVerifies
<1>2. PICK S : S = Items(decision.candidates)
  OBVIOUS
<1>3. PICK al : al = {c \in S : c.allowed}
  OBVIOUS
<1>4. ASSUME Best(decision)
      PROVE  /\ decision.status = "selected" <=> al # {}
             /\ \A c \in S \ al : c.rejections # <<>>
             /\ decision.status = "selected" => \E c \in al :
                  c.id = decision.selected /\ Leads(c, al)
  BY <1>2, <1>3, <1>4 DEF Best
<1>5. Planner!VerifiedIsBest <=>
        (decision # Planner!Failed /\ Planner!VerifyIntegrity(decision) =>
             /\ decision.status = "selected" <=> {c \in Planner!ToSet(decision.candidates) : c.allowed} # {}
             /\ \A c \in Planner!ToSet(decision.candidates)
                          \ {c \in Planner!ToSet(decision.candidates) : c.allowed} :
                    c.rejections # <<>>
             /\ decision.status = "selected" =>
                  \E c \in {c \in Planner!ToSet(decision.candidates) : c.allowed} :
                     c.id = decision.selected
                     /\ Leads(c, {x \in Planner!ToSet(decision.candidates) : x.allowed}))
  BY Zenon DEF Planner!VerifiedIsBest, Leads, Planner!Before, Sooner
<1>6. Planner!ToSet(decision.candidates) = S
  BY <1>2, SortedByIdIs
<1>. QED
  BY <1>1, <1>3, <1>4, <1>5, <1>6, Zenon

-----------------------------------------------------------------------------
(* Edits                                                                   *)

\* The fields that an edit can change.
EditsSelection(a) == {[a EXCEPT !.selected = id, !.explained = id] : id \in 0..MaxCandidates}
EditsSelected(a) == {[a EXCEPT !.selected = id] : id \in 0..MaxCandidates}
EditsScore(a) == {[a EXCEPT !.score = s] : s \in 0..Planner!MaxTerm}
EditsStatus(a) == {[a EXCEPT !.status = s] : s \in {"selected", "denied"}}
EditsOrder(a) == {[a EXCEPT !.candidates = Planner!Reverse(@)], [a EXCEPT !.version = 2]}

LEMMA EditedIsDecision ==
  ASSUME NEW a, IsDecision(a), NEW d \in Planner!Edited(a)
  PROVE  IsDecision(d)
<1>1. DOMAIN a = DecisionFields /\ a.status \in {"selected", "denied"}
      /\ a.candidates \in Seq(RouteExplanation)
  BY DEF IsDecision
<1>2. \/ \E i \in DOMAIN a.candidates, e \in Edits : d = Planner!Shows(a, i, e)
      \/ \E i \in DOMAIN a.candidates, e \in Edits :
            d = Planner!Scored(Planner!Shows(a, i, e), e)
      \/ \E id : d = [a EXCEPT !.selected = id, !.explained = id]
      \/ \E id : d = [a EXCEPT !.selected = id]
      \/ \E s : d = [a EXCEPT !.score = s]
      \/ \E s \in {"selected", "denied"} : d = [a EXCEPT !.status = s]
      \/ d = [a EXCEPT !.candidates = Planner!Reverse(@)]
      \/ d = [a EXCEPT !.version = 2]
  <2>1. Planner!Edited(a) =
          UNION {Planner!Shown(a), Planner!ShownScored(a), EditsSelection(a), EditsSelected(a),
                 EditsScore(a), EditsStatus(a), EditsOrder(a)}
    BY Zenon DEF Planner!Edited, EditsSelection, EditsSelected,
       EditsScore, EditsStatus, EditsOrder
  <2>2. \/ d \in Planner!Shown(a) \/ d \in Planner!ShownScored(a) \/ d \in EditsSelection(a)
        \/ d \in EditsSelected(a) \/ d \in EditsScore(a) \/ d \in EditsStatus(a)
        \/ d \in EditsOrder(a)
    BY <2>1, Zenon
  <2>3. d \in Planner!Shown(a) =>
          \E i \in DOMAIN a.candidates, e \in Edits : d = Planner!Shows(a, i, e)
    BY DEF Planner!Shown
  <2>4. d \in Planner!ShownScored(a) =>
          \E i \in DOMAIN a.candidates, e \in Edits :
            d = Planner!Scored(Planner!Shows(a, i, e), e)
    BY DEF Planner!ShownScored
  <2>5. d \in EditsSelection(a) => \E id : d = [a EXCEPT !.selected = id, !.explained = id]
    BY Zenon DEF EditsSelection
  <2>6. d \in EditsSelected(a) => \E id : d = [a EXCEPT !.selected = id]
    BY Zenon DEF EditsSelected
  <2>7. d \in EditsScore(a) => \E s : d = [a EXCEPT !.score = s]
    BY Zenon DEF EditsScore
  <2>8. d \in EditsStatus(a) => \E s \in {"selected", "denied"} : d = [a EXCEPT !.status = s]
    BY Zenon DEF EditsStatus
  <2>9. d \in EditsOrder(a) =>
          d = [a EXCEPT !.candidates = Planner!Reverse(@)] \/ d = [a EXCEPT !.version = 2]
    BY Zenon DEF EditsOrder
  <2>. QED
    BY <2>2, <2>3, <2>4, <2>5, <2>6, <2>7, <2>8, <2>9, Zenon
<1>3. Edits \subseteq RouteExplanation
  BY RouteConstants
<1>4. ASSUME NEW x, x \in Seq(RouteExplanation), DOMAIN d = DecisionFields, d.candidates = x,
             d.status \in {"selected", "denied"}
      PROVE  IsDecision(d)
  BY <1>4 DEF IsDecision
<1>5. ASSUME NEW i \in DOMAIN a.candidates, NEW e \in Edits
      PROVE  [a.candidates EXCEPT ![i] = e] \in Seq(RouteExplanation)
  <2>1. e \in RouteExplanation
    BY <1>3
  <2>. QED
    BY <1>1, <2>1
<1>6. CASE \E i \in DOMAIN a.candidates, e \in Edits : d = Planner!Shows(a, i, e)
  <2>1. PICK i \in DOMAIN a.candidates, e \in Edits : d = Planner!Shows(a, i, e)
    BY <1>6
  <2>2. DOMAIN d = DecisionFields /\ d.candidates = [a.candidates EXCEPT ![i] = e]
        /\ d.status = a.status
    BY <1>1, <2>1 DEF DecisionFields, Planner!Shows, Planner!Scored
  <2>. QED
    BY <1>1, <1>4, <1>5, <2>2
<1>7. CASE \E i \in DOMAIN a.candidates, e \in Edits :
            d = Planner!Scored(Planner!Shows(a, i, e), e)
  <2>1. PICK i \in DOMAIN a.candidates, e \in Edits :
            d = Planner!Scored(Planner!Shows(a, i, e), e)
    BY <1>7
  <2>2. DOMAIN d = DecisionFields /\ d.candidates = [a.candidates EXCEPT ![i] = e]
        /\ d.status = a.status
    BY <1>1, <2>1 DEF DecisionFields, Planner!Shows, Planner!Scored
  <2>. QED
    BY <1>1, <1>4, <1>5, <2>2
<1>8. CASE \/ \E id : d = [a EXCEPT !.selected = id, !.explained = id]
           \/ \E id : d = [a EXCEPT !.selected = id]
           \/ \E s : d = [a EXCEPT !.score = s]
           \/ d = [a EXCEPT !.version = 2]
  <2>1. DOMAIN d = DecisionFields /\ d.candidates = a.candidates /\ d.status = a.status
    BY <1>1, <1>8 DEF DecisionFields
  <2>. QED
    BY <1>1, <1>4, <2>1
<1>9. CASE \E s \in {"selected", "denied"} : d = [a EXCEPT !.status = s]
  <2>1. DOMAIN d = DecisionFields /\ d.candidates = a.candidates
        /\ d.status \in {"selected", "denied"}
    BY <1>1, <1>9 DEF DecisionFields
  <2>. QED
    BY <1>1, <1>4, <2>1
<1>10. CASE d = [a EXCEPT !.candidates = Planner!Reverse(@)]
  <2>1. PICK q : q = a.candidates
    OBVIOUS
  <2>2. Planner!Reverse(q) = [i \in 1..Len(q) |-> q[(Len(q) - i) + 1]]
    BY DEF Planner!Reverse
  <2>3. Len(q) \in Nat /\ \A i \in 1..Len(q) : q[i] \in RouteExplanation
    BY <1>1, <2>1
  <2>4. \A i \in 1..Len(q) : (Len(q) - i) + 1 \in 1..Len(q)
    BY <2>3
  <2>5. Planner!Reverse(q) \in Seq(RouteExplanation)
    BY <2>2, <2>3, <2>4
  <2>6. DOMAIN d = DecisionFields /\ d.candidates = Planner!Reverse(q) /\ d.status = a.status
    BY <1>1, <1>10, <2>1 DEF DecisionFields
  <2>. QED
    BY <1>1, <1>4, <2>5, <2>6
<1>. QED
  BY <1>2, <1>6, <1>7, <1>8, <1>9, <1>10

LEMMA EditsKeepDecisions ==
  ASSUME NEW a, IsDecision(a), NEW d \in Planner!Edited(a), NEW f \in {d, Planner!Sealed(d)}
  PROVE  IsDecision(f)
<1>1. IsDecision(d)
  BY EditedIsDecision
<1>2. DOMAIN d = DecisionFields
  BY <1>1 DEF IsDecision
<1>3. DOMAIN Planner!Sealed(d) = DecisionFields
      /\ \A x \in DecisionFields \ {"digest"} : Planner!Sealed(d)[x] = d[x]
  BY <1>2, SealedFacts
<1>4. Planner!Sealed(d).status = d.status /\ Planner!Sealed(d).candidates = d.candidates
  BY <1>3 DEF DecisionFields
<1>5. IsDecision(Planner!Sealed(d))
  BY <1>1, <1>3, <1>4 DEF IsDecision
<1>. QED
  BY <1>1, <1>5

-----------------------------------------------------------------------------
(* The invariant of the planner                                            *)

PlannerInv ==
    /\ candidates \in UNION {[1..n -> Pool] : n \in 0..MaxCandidates} /\ weights \in WeightPool
    /\ decision = Planner!Failed \/ IsDecision(decision)
    /\ step = "decided" /\ decision # Planner!Failed => Planner!VerifyIntegrity(decision)

LEMMA PlannerStart == PlanningInit => PlannerInv
<1>1. PlanningInit => /\ candidates \in UNION {[1..n -> Pool] : n \in 0..MaxCandidates}
                      /\ weights \in WeightPool /\ decision = Planner!Failed
  BY DEF PlanningInit, Planner!Init
<1>. QED
  BY <1>1 DEF PlannerInv

LEMMA PlannerKept ==
  ASSUME PlannerInv, Planner!Next \/ UNCHANGED planner
  PROVE  PlannerInv'
<1>1. CASE Planner!Ask
  <2>1. PICK d : d = Planner!Decide(candidates, weights)
    OBVIOUS
  <2>2. decision' = d /\ candidates' = candidates /\ weights' = weights
    BY <1>1, <2>1 DEF Planner!Ask
  <2>3. PICK n \in 0..MaxCandidates : candidates \in [1..n -> Pool]
    BY DEF PlannerInv
  <2>4. n \in Nat /\ candidates \in [1..n -> RouteCandidate] /\ weights \in [RouteTerm -> Nat]
    BY <2>3, RouteConstants DEF PlannerInv
  <2>5. d # Planner!Failed => IsDecision(d) /\ Planner!VerifyIntegrity(d)
    BY <2>1, <2>4, DecideVerifies
  <2>6. Planner!VerifyIntegrity(decision') <=> Planner!VerifyIntegrity(d)
    BY <2>2
  <2>7. IsDecision(decision') <=> IsDecision(d)
    BY <2>2
  <2>. QED
    BY <2>2, <2>5, <2>6, <2>7, Zenon DEF PlannerInv, Planner!Failed
<1>2. CASE Planner!Edit
  <2>1. decision # Planner!Failed /\ step' = "edited" /\ candidates' = candidates
        /\ weights' = weights /\ \E d \in Planner!Edited(decision) : decision' \in {d, Planner!Sealed(d)}
    BY <1>2 DEF Planner!Edit
  <2>2. IsDecision(decision)
    BY <2>1 DEF PlannerInv
  <2>3. PICK f : f = decision'
    OBVIOUS
  <2>4. IsDecision(f)
    BY <2>1, <2>2, <2>3, EditsKeepDecisions
  <2>. QED
    BY <2>1, <2>3, <2>4 DEF PlannerInv
<1>3. CASE UNCHANGED planner
  <2>1. candidates' = candidates /\ weights' = weights /\ decision' = decision /\ step' = step
    BY <1>3 DEF planner
  <2>2. Planner!VerifyIntegrity(decision') <=> Planner!VerifyIntegrity(decision)
    BY <2>1
  <2>3. IsDecision(decision') <=> IsDecision(decision)
    BY <2>1
  <2>. QED
    BY <2>1, <2>2, <2>3, Zenon DEF PlannerInv, Planner!Failed
<1>. QED
  BY <1>1, <1>2, <1>3 DEF Planner!Next

LEMMA PlannerAgrees == PlannerInv => PlanAndProofAgree
<1>1. ASSUME PlannerInv PROVE PlanAndProofAgree
  <2>1. decision # Planner!Failed /\ Planner!VerifyIntegrity(decision) => Best(decision)
    BY <1>1, VerifiedSelectsBest DEF PlannerInv
  <2>2. step = "decided" /\ decision # Planner!Failed => Planner!VerifyIntegrity(decision)
    BY <1>1 DEF PlannerInv
  <2>. QED
    BY <2>1, <2>2, PlannerProperties, Zenon DEF PlanAndProofAgree, Planner!PlanAndProofAgree
<1>. QED
  BY <1>1

-----------------------------------------------------------------------------
(* Values of the broker                                                    *)

LEMMA BrokerConstants ==
  /\ ModelLimit \in Nat /\ ModelLimit >= 5 /\ Loss \notin {"cost", "exposure"}
  /\ ModelMetrics = {"cost", "exposure"} /\ Broker!Terms = {"cost", "exposure", Loss}
  /\ Aliases \in SUBSET Nat /\ 0 \notin Aliases /\ IsFiniteSet(Aliases) /\ MaxTokens \in Nat
  /\ \A c \in Catalogs, a \in Aliases :
        /\ c[a].inputPrice \in Nat /\ c[a].outputPrice \in Nat
        /\ c[a].contextLimit \in Nat /\ c[a].maxOutput \in Nat
  /\ \A b \in ModelBudgets :
        /\ b.maxInput \in Nat /\ b.maxOutput \in Nat /\ b.money \in Nat
        /\ b.deadline \in Nat /\ b.rounds \in Nat
<1>1. Broker!IsFiniteSet(Aliases) <=> IsFiniteSet(Aliases)
  BY Zenon DEF Broker!IsFiniteSet, IsFiniteSet
<1>2. Broker!RouteBounds /\ Broker!BrokerTerms /\ Broker!BrokerValues
  BY PlanningConstants
<1>3. ModelLimit \in Nat /\ ModelLimit >= 5 /\ ModelMetrics = {"cost", "exposure"}
      /\ Loss \notin ModelMetrics
  BY <1>2 DEF Broker!RouteBounds, Broker!BrokerTerms, Broker!BrokerValues
<1>4. Broker!Terms = {"cost", "exposure", Loss}
  BY <1>3 DEF Broker!Terms
<1>5. Aliases \in SUBSET Nat /\ 0 \notin Aliases /\ IsFiniteSet(Aliases) /\ MaxTokens \in Nat
  BY <1>1, <1>2 DEF Broker!BrokerValues
<1>6. \A c \in Catalogs, a \in Aliases :
        /\ c[a].inputPrice \in Nat /\ c[a].outputPrice \in Nat
        /\ c[a].contextLimit \in Nat /\ c[a].maxOutput \in Nat
  BY <1>2 DEF Broker!BrokerValues
<1>7. \A b \in ModelBudgets :
        /\ b.maxInput \in Nat /\ b.maxOutput \in Nat /\ b.money \in Nat
        /\ b.deadline \in Nat /\ b.rounds \in Nat
  BY <1>2 DEF Broker!BrokerValues
<1>. QED
  BY <1>3, <1>4, <1>5, <1>6, <1>7

BrokerTyped ==
    /\ catalog \in Catalogs /\ budget \in ModelBudgets
    /\ input \in Nat /\ output \in Nat /\ mode \in Broker!ToolModes

\* The checks of the budget are those of the request itself.
LEMMA PassesIsAffordable ==
  ASSUME BrokerTyped, NEW a \in Aliases
  PROVE  Broker!Affordable(a) <=> Broker!Passes(a) /\ output > 0
<1>1. PICK p, b : p = catalog[a] /\ b = budget
  OBVIOUS
<1>2. /\ p.inputPrice \in Nat /\ p.outputPrice \in Nat
      /\ p.contextLimit \in Nat /\ p.maxOutput \in Nat
      /\ b.maxInput \in Nat /\ b.maxOutput \in Nat /\ b.money \in Nat
      /\ b.deadline \in Nat /\ b.rounds \in Nat /\ input \in Nat /\ output \in Nat
  BY <1>1, BrokerConstants DEF BrokerTyped
<1>3. Broker!Passes(a) <=>
        /\ model \in {AnyModel, a, p.native} /\ output <= p.maxOutput
        /\ b.providers = {} \/ p.name \in b.providers
        /\ b.models = {} \/ p.native \in b.models
        /\ input <= b.maxInput /\ input <= p.contextLimit /\ output <= b.maxOutput
        /\ b.deadline > 0 /\ (mode # "off" => b.rounds > 0)
        /\ input * p.inputPrice + output * p.outputPrice <= b.money
  BY <1>1, Zenon DEF Broker!Passes, Broker!NameMatches, Broker!EnforceBudget, Broker!Lists,
     Broker!EstimateCost
<1>4. Broker!Affordable(a) <=>
        /\ model \in {AnyModel, a, p.native}
        /\ b.providers = {} \/ p.name \in b.providers
        /\ b.models = {} \/ p.native \in b.models
        /\ output \in 1..p.maxOutput /\ output <= b.maxOutput
        /\ input <= p.contextLimit /\ input <= b.maxInput
        /\ input * p.inputPrice + output * p.outputPrice <= b.money
        /\ b.deadline # 0 /\ (mode = "off" \/ b.rounds # 0)
  BY <1>1, Zenon DEF Broker!Affordable
<1>5. /\ output \in 1..p.maxOutput <=> output <= p.maxOutput /\ output > 0
      /\ b.deadline > 0 <=> b.deadline # 0
      /\ b.rounds > 0 <=> b.rounds # 0
  BY <1>2
<1>. QED
  BY <1>3, <1>4, <1>5, Zenon

-----------------------------------------------------------------------------
(* Scores of the broker                                                    *)

LEMMA SumOfOne ==
  ASSUME NEW D, IsFiniteSet(D), NEW f \in [D -> Nat], NEW a \in D
  PROVE  Sums(f)[{a}] = f[a]
<1>1. Sums(f)[{}] = 0
  BY SumAdds
<1>2. Some({a}) = a /\ {a} \ {a} = {}
  BY DEF Some
<1>3. Sums(f)[{a}] = f[a] + Sums(f)[{}]
  <2>1. {a} \in SUBSET D /\ {a} # {}
    OBVIOUS
  <2>2. Sums(f)[{a}] = f[Some({a})] + Sums(f)[{a} \ {Some({a})}]
    BY <2>1, SumAdds
  <2>. QED
    BY <1>2, <2>2
<1>. QED
  BY <1>1, <1>3

LEMMA SumOfTwo ==
  ASSUME NEW D, IsFiniteSet(D), NEW f \in [D -> Nat], NEW a \in D, NEW b \in D, a # b
  PROVE  Sums(f)[{a, b}] = f[a] + f[b]
<1>1. PICK x : x = Some({a, b})
  OBVIOUS
<1>2. x \in {a, b}
  BY <1>1 DEF Some
<1>3. {a, b} \in SUBSET D /\ {a, b} # {}
  OBVIOUS
<1>4. Sums(f)[{a, b}] = f[x] + Sums(f)[{a, b} \ {x}]
  BY <1>1, <1>3, SumAdds, ZenonT(60)
<1>5. CASE x = a
  <2>1. {a, b} \ {x} = {b}
    BY <1>5
  <2>. QED
    BY <1>4, <1>5, <2>1, SumOfOne
<1>6. CASE x = b
  <2>1. {a, b} \ {x} = {a}
    BY <1>6
  <2>. QED
    BY <1>4, <1>6, <2>1, SumOfOne
<1>. QED
  BY <1>2, <1>5, <1>6

LEMMA SumOfThree ==
  ASSUME NEW D, IsFiniteSet(D), NEW f \in [D -> Nat], NEW a \in D, NEW b \in D, NEW c \in D,
         a # b, a # c, b # c
  PROVE  Sums(f)[{a, b, c}] = f[a] + f[b] + f[c]
<1>1. PICK x : x = Some({a, b, c})
  OBVIOUS
<1>2. x \in {a, b, c}
  BY <1>1 DEF Some
<1>3. {a, b, c} \in SUBSET D /\ {a, b, c} # {} /\ f[a] \in Nat /\ f[b] \in Nat /\ f[c] \in Nat
  OBVIOUS
<1>4. Sums(f)[{a, b, c}] = f[x] + Sums(f)[{a, b, c} \ {x}]
  BY <1>1, <1>3, SumAdds, ZenonT(60)
<1>5. CASE x = a
  <2>1. {a, b, c} \ {x} = {b, c}
    BY <1>5
  <2>2. Sums(f)[{b, c}] = f[b] + f[c]
    BY SumOfTwo
  <2>3. Sums(f)[{a, b, c}] = f[a] + (f[b] + f[c])
    BY <1>4, <1>5, <2>1, <2>2, Zenon
  <2>. QED
    BY ONLY <1>3, <2>3
<1>6. CASE x = b
  <2>1. {a, b, c} \ {x} = {a, c}
    BY <1>6
  <2>2. Sums(f)[{a, c}] = f[a] + f[c]
    BY SumOfTwo
  <2>3. Sums(f)[{a, b, c}] = f[b] + (f[a] + f[c])
    BY <1>4, <1>6, <2>1, <2>2, Zenon
  <2>. QED
    BY ONLY <1>3, <2>3
<1>7. CASE x = c
  <2>1. {a, b, c} \ {x} = {a, b}
    BY <1>7
  <2>2. Sums(f)[{a, b}] = f[a] + f[b]
    BY SumOfTwo
  <2>3. Sums(f)[{a, b, c}] = f[c] + (f[a] + f[b])
    BY <1>4, <1>7, <2>1, <2>2, Zenon
  <2>. QED
    BY ONLY <1>3, <2>3
<1>. QED
  BY <1>2, <1>5, <1>6, <1>7

Cost(a) == Broker!Candidate(a).metric["cost"]
Exposure(a) == IF catalog[a].name = "fixture" THEN 0 ELSE 1

LEMMA CandidateFacts ==
  ASSUME BrokerTyped, NEW a \in Aliases, NEW c, c = Broker!Candidate(a)
  PROVE  /\ c.id = a /\ (c.allowed <=> Broker!Passes(a)) /\ c.loss = 0
         /\ ~c.allowed => c.rejections = <<1>>
         /\ c.metric = [cost |-> Cost(a), exposure |-> Exposure(a)]
         /\ Cost(a) \in Nat /\ Cost(a) <= ModelLimit
         /\ Exposure(a) \in Nat /\ Exposure(a) <= ModelLimit
<1>1. PICK p, q : p = catalog[a] /\ q = Broker!Capped(catalog[a].inputPrice + catalog[a].outputPrice)
  OBVIOUS
<1>2. p.inputPrice \in Nat /\ p.outputPrice \in Nat
  BY <1>1, BrokerConstants DEF BrokerTyped
<1>3. q \in Nat /\ q <= ModelLimit
  BY <1>1, <1>2, BrokerConstants DEF Broker!Capped
<1>4. c = [id |-> a, allowed |-> Broker!Passes(a),
           rejections |-> IF Broker!Passes(a) THEN <<>> ELSE <<1>>,
           metric |-> [cost |-> q, exposure |-> Exposure(a)], loss |-> 0]
  BY <1>1, Zenon DEF Broker!Candidate, Exposure
<1>5. /\ c.id = a /\ c.allowed = Broker!Passes(a) /\ c.loss = 0
      /\ c.rejections = (IF Broker!Passes(a) THEN <<>> ELSE <<1>>)
      /\ c.metric = [cost |-> q, exposure |-> Exposure(a)]
  BY <1>4
<1>6. Cost(a) = q
  BY <1>5 DEF Cost
<1>7. Exposure(a) \in Nat /\ Exposure(a) <= ModelLimit
  BY BrokerConstants DEF Exposure
<1>. QED
  BY <1>3, <1>5, <1>6, <1>7

\* The score that the broker gives a provider: three for its price, five for exposure.
LEMMA BrokerScore ==
  ASSUME BrokerTyped, NEW a \in Aliases
  PROVE  Broker!Total(Broker!Score(Broker!Candidate(a), Broker!Weights)) = 3 * Cost(a) + 5 * Exposure(a)
<1>1. PICK c, w, f : c = Broker!Candidate(a) /\ w = Broker!Weights /\ f = Broker!Score(c, w)
  OBVIOUS
<1>2. /\ c.loss = 0 /\ c.metric = [cost |-> Cost(a), exposure |-> Exposure(a)]
      /\ Cost(a) \in Nat /\ Exposure(a) \in Nat
  BY <1>1, CandidateFacts
<1>3. PICK D : D = {"cost", "exposure", Loss}
  OBVIOUS
<1>4. Broker!Terms = D /\ Loss # "cost" /\ Loss # "exposure" /\ IsFiniteSet(D)
  <2>1. IsFiniteSet({"cost"} \cup {"exposure"} \cup {Loss})
    BY FS_Singleton, FS_Union
  <2>2. D = {"cost"} \cup {"exposure"} \cup {Loss}
    BY <1>3
  <2>. QED
    BY <1>3, <2>1, <2>2, BrokerConstants
<1>5. w = [t \in D |-> IF t = "cost" THEN 3 ELSE 5]
  BY <1>1, <1>4 DEF Broker!Weights
<1>6. f = [t \in D |-> w[t] * (IF t = Loss THEN c.loss ELSE c.metric[t])]
  BY <1>1, <1>4, Zenon DEF Broker!Score
<1>7. f["cost"] = 3 * Cost(a)
  BY <1>2, <1>3, <1>4, <1>5, <1>6
<1>8. f["exposure"] = 5 * Exposure(a)
  BY <1>2, <1>3, <1>4, <1>5, <1>6
<1>9. f[Loss] = 0
  <2>1. f[Loss] = 5 * 0
    BY <1>2, <1>3, <1>4, <1>5, <1>6
  <2>. QED
    BY <2>1
<1>10. f \in [D -> Nat]
  <2>1. DOMAIN f = D /\ f = [t \in D |-> f[t]]
    BY <1>6
  <2>2. \A t \in D : f[t] \in Nat
    BY <1>2, <1>3, <1>7, <1>8, <1>9
  <2>. QED
    BY <2>1, <2>2
<1>11. Sums(f)[{"cost", "exposure", Loss}] = f["cost"] + f["exposure"] + f[Loss]
  BY <1>3, <1>4, <1>10, SumOfThree
<1>12. Broker!Total(f) = Sums(f)[D]
  BY <1>10, TotalIsSum
<1>. QED
  BY <1>1, <1>2, <1>3, <1>7, <1>8, <1>9, <1>11, <1>12

-----------------------------------------------------------------------------
(* The provider that is chosen                                             *)

\* The providers as a list that names each of them once.
Listing(S, n, f) ==
    f \in [1..n -> S] /\ Items(f) = S /\ \A i, j \in 1..n : f[i] = f[j] => i = j

OneToOne(f) == \A i, j \in DOMAIN f : f[i] = f[j] => i = j

LEMMA SetToSeqLists ==
  ASSUME NEW S, IsFiniteSet(S)
  PROVE  Cardinality(S) \in Nat /\ Listing(S, Cardinality(S), Broker!SetToSeq(S))
<1>1. PICK n : n = Cardinality(S)
  OBVIOUS
<1>2. n \in Nat /\ IsFiniteSet(1..n) /\ Cardinality(1..n) = n
  BY <1>1, FS_CardinalityType, FS_Interval
<1>3. ExistsBijection(1..n, S)
  BY <1>1, <1>2, FS_SameCardinalityBij
<1>4. PICK g : g \in Bijection(1..n, S)
  BY <1>3 DEF ExistsBijection
<1>5. g \in [1..n -> S] /\ \A i, j \in 1..n : g[i] = g[j] => i = j
  BY <1>4, Fun_BijectionProperties
<1>6. PICK f : f = Broker!SetToSeq(S)
  OBVIOUS
<1>7. f = CHOOSE h \in [1..n -> S] : OneToOne(h)
  BY <1>1, <1>6, Zenon DEF OneToOne, Broker!SetToSeq, Broker!IsInjective, Broker!Cardinality, Cardinality
<1>8. OneToOne(g)
  BY <1>5 DEF OneToOne
<1>9. f \in [1..n -> S] /\ OneToOne(f)
  BY <1>5, <1>7, <1>8, Zenon
<1>10. f \in [1..n -> S] /\ \A i, j \in DOMAIN f : f[i] = f[j] => i = j
  BY <1>9, Zenon DEF OneToOne
<1>11. DOMAIN f = 1..n
  BY <1>10
<1>12. f \in Injection(1..n, S)
  BY <1>10, <1>11, Fun_IsInj
<1>13. f \in Surjection(1..n, S)
  BY <1>1, <1>2, <1>12, FS_Injection
<1>14. \A x \in S : \E i \in 1..n : f[i] = x
  BY <1>13 DEF Surjection
<1>15. Items(f) = S
  BY <1>10, <1>11, <1>14 DEF Items
<1>. QED
  BY <1>1, <1>2, <1>6, <1>10, <1>11, <1>15 DEF Listing

Candidates(S) == S = {Broker!Candidate(a) : a \in Aliases}

LEMMA NotRejected ==
  ASSUME BrokerTyped, NEW S, Candidates(S), NEW n \in Nat, NEW cs, Listing(S, n, cs)
  PROVE  ~Broker!Rejected(cs, Broker!Weights)
<1>1. PICK w : w = Broker!Weights
  OBVIOUS
<1>2. /\ cs \in [1..n -> S] /\ DOMAIN cs = 1..n /\ \A i, j \in 1..n : cs[i] = cs[j] => i = j
      /\ \A i \in 1..n : \E a \in Aliases : cs[i] = Broker!Candidate(a)
  BY DEF Listing, Candidates
<1>3. \A t \in Broker!Terms : ~(w[t] > ModelLimit)
  <2>1. w = [t \in Broker!Terms |-> IF t = "cost" THEN 3 ELSE 5]
    BY <1>1, Zenon DEF Broker!Weights
  <2>2. ModelLimit \in Nat /\ ModelLimit >= 5
    BY BrokerConstants
  <2>3. \A t \in Broker!Terms : w[t] = 3 \/ w[t] = 5
    BY ONLY <2>1
  <2>. QED
    BY ONLY <2>2, <2>3
<1>4. ASSUME NEW i \in 1..n
      PROVE  /\ ~(cs[i].loss > ModelLimit) /\ cs[i].id # 0
             /\ \A j \in (1..n) \ {i} : cs[j].id # cs[i].id
             /\ ~cs[i].allowed => cs[i].rejections # <<>> /\ 0 \notin Broker!ToSet(cs[i].rejections)
             /\ \A t \in ModelMetrics : ~(cs[i].metric[t] > ModelLimit)
  <2>1. PICK a \in Aliases : cs[i] = Broker!Candidate(a)
    BY <1>2
  <2>2. PICK c : c = cs[i]
    OBVIOUS
  <2>3. /\ c.id = a /\ c.loss = 0 /\ (~c.allowed => c.rejections = <<1>>)
        /\ c.metric = [cost |-> Cost(a), exposure |-> Exposure(a)]
        /\ Cost(a) \in Nat /\ Cost(a) <= ModelLimit
        /\ Exposure(a) \in Nat /\ Exposure(a) <= ModelLimit
    BY <2>1, <2>2, CandidateFacts
  <2>4. ~(c.loss > ModelLimit) /\ c.id # 0
    BY <2>3, BrokerConstants
  <2>5. ASSUME NEW j \in (1..n) \ {i} PROVE cs[j].id # c.id
    <3>1. PICK b \in Aliases : cs[j] = Broker!Candidate(b)
      BY <1>2
    <3>2. cs[j].id = b
      BY <3>1, CandidateFacts
    <3>3. b # a
      BY <1>2, <2>1, <3>1
    <3>. QED
      BY <2>3, <3>2, <3>3
  <2>6. ~c.allowed => c.rejections # <<>> /\ 0 \notin Broker!ToSet(c.rejections)
    <3>1. Broker!ToSet(<<1>>) = Items(<<1>>)
      BY SortedByIdIs
    <3>2. 0 \notin Items(<<1>>) /\ <<1>> # <<>>
      BY DEF Items
    <3>. QED
      BY <2>3, <3>1, <3>2
  <2>7. ASSUME NEW t \in ModelMetrics PROVE ~(c.metric[t] > ModelLimit)
    <3>1. t = "cost" \/ t = "exposure"
      BY BrokerConstants
    <3>2. c.metric["cost"] = Cost(a) /\ c.metric["exposure"] = Exposure(a)
      BY <2>3
    <3>3. ~(Cost(a) > ModelLimit) /\ ~(Exposure(a) > ModelLimit)
      BY <2>3, BrokerConstants
    <3>. QED
      BY <3>1, <3>2, <3>3
  <2>. QED
    BY <2>2, <2>4, <2>5, <2>6, <2>7
<1>5. ~Broker!Rejected(cs, w)
  BY <1>2, <1>3, <1>4, Zenon DEF Broker!Rejected
<1>. QED
  BY <1>1, <1>5

\* The providers that pass, with their scores.
Offers == {<<3 * Cost(a) + 5 * Exposure(a), a>> : a \in {x \in Aliases : Broker!Passes(x)}}

LEMMA SortedCandidates ==
  ASSUME BrokerTyped, NEW S, Candidates(S), NEW s, Sorted(S, s)
  PROVE  Items(s) = S
<1>1. IsFiniteSet(S)
  <2>1. PICK f : f = [a \in Aliases |-> Broker!Candidate(a)]
    OBVIOUS
  <2>2. f \in Surjection(Aliases, S)
    BY <2>1, Fun_IsSurj DEF Candidates
  <2>. QED
    BY <2>2, FS_Surjection, BrokerConstants
<1>2. \A c \in S : c.id \in Nat /\ c = Broker!Candidate(c.id)
  <2>. SUFFICES ASSUME NEW c \in S PROVE c.id \in Nat /\ c = Broker!Candidate(c.id)
    OBVIOUS
  <2>1. PICK a \in Aliases : c = Broker!Candidate(a)
    BY DEF Candidates
  <2>2. c.id = a /\ a \in Nat
    BY <2>1, CandidateFacts, BrokerConstants
  <2>. QED
    BY <2>1, <2>2
<1>3. PICK N : N = Cardinality(Ids(S))
  OBVIOUS
<1>4. N \in Nat /\ s \in [1..N -> S] /\ \A c \in S : \E i \in 1..N : s[i].id = c.id
  BY <1>1, <1>2, <1>3, SortedFacts
<1>5. ASSUME NEW c \in S PROVE \E i \in 1..N : s[i] = c
  <2>1. PICK i \in 1..N : s[i].id = c.id
    BY <1>4
  <2>2. s[i] \in S
    BY <1>4
  <2>3. s[i] = Broker!Candidate(s[i].id) /\ c = Broker!Candidate(c.id)
    BY <1>2, <2>2
  <2>. QED
    BY <2>1, <2>3
<1>. QED
  BY <1>4, <1>5 DEF Items

LEMMA BrokerPlan ==
  ASSUME BrokerTyped, NEW plan,
         plan = Broker!Decide(Broker!SetToSeq({Broker!Candidate(a) : a \in Aliases}), Broker!Weights)
  PROVE  /\ Offers = {} => plan.status = "denied"
         /\ Offers # {} => plan.status = "selected" /\ plan.selected = Soonest(Offers)[2]
<1>1. PICK S : S = {Broker!Candidate(a) : a \in Aliases}
  OBVIOUS
<1>2. PICK cs, s : cs = Broker!SetToSeq(S) /\ s = Broker!SortedById(cs)
  OBVIOUS
<1>3. IsFiniteSet(S) /\ \A c \in S : c.id \in Nat
  <2>1. PICK f : f = [a \in Aliases |-> Broker!Candidate(a)]
    OBVIOUS
  <2>2. f \in Surjection(Aliases, S)
    BY <1>1, <2>1, Fun_IsSurj
  <2>3. IsFiniteSet(S)
    BY <2>2, FS_Surjection, BrokerConstants
  <2>4. ASSUME NEW c \in S PROVE c.id \in Nat
    <3>1. PICK a \in Aliases : c = Broker!Candidate(a)
      BY <1>1
    <3>2. c.id = a /\ a \in Nat
      BY <3>1, CandidateFacts, BrokerConstants
    <3>. QED
      BY <3>2
  <2>. QED
    BY <2>3, <2>4
<1>4. PICK n : n \in Nat /\ Listing(S, n, cs)
  BY <1>2, <1>3, SetToSeqLists
<1>5. Items(cs) = S /\ Candidates(S)
  BY <1>1, <1>4 DEF Listing, Candidates
<1>6. ~Broker!Rejected(cs, Broker!Weights)
  BY <1>4, <1>5, NotRejected
<1>7. Sorted(S, s)
  BY <1>2, <1>3, <1>5, SortedByIdIs
<1>8. Broker!ToSet(s) = S
  BY <1>5, <1>7, SortedCandidates, SortedByIdIs
<1>9. PICK R, e, ch :
        /\ R = {<<Broker!Total(Broker!Score(c, Broker!Weights)), c.id>> :
                   c \in {c \in Broker!ToSet(s) : c.allowed}}
        /\ e = [i \in DOMAIN s |-> Broker!Explained(s[i], Broker!Weights)]
        /\ ch = IF R = {} THEN <<>> ELSE Broker!First(R)
  OBVIOUS
<1>10. plan = Broker!Decision(e, ch)
  <2>1. plan = Broker!Decide(cs, Broker!Weights)
    BY <1>1, <1>2
  <2>2. Broker!Decide(cs, Broker!Weights) =
          IF Broker!Rejected(cs, Broker!Weights) THEN Broker!Failed ELSE Broker!Decision(e, ch)
    BY <1>2, <1>9, Zenon DEF Broker!Decide
  <2>. QED
    BY <1>6, <2>1, <2>2
<1>11. R = Offers
  <2>1. R = {<<Broker!Total(Broker!Score(c, Broker!Weights)), c.id>> : c \in {c \in S : c.allowed}}
    BY <1>8, <1>9
  <2>2. ASSUME NEW a \in Aliases
        PROVE  /\ Broker!Candidate(a) \in S
               /\ Broker!Candidate(a).allowed <=> Broker!Passes(a)
               /\ <<Broker!Total(Broker!Score(Broker!Candidate(a), Broker!Weights)),
                    Broker!Candidate(a).id>> = <<3 * Cost(a) + 5 * Exposure(a), a>>
    BY <1>1, CandidateFacts, BrokerScore
  <2>3. ASSUME NEW r \in R PROVE r \in Offers
    <3>1. PICK c \in S : c.allowed /\ r = <<Broker!Total(Broker!Score(c, Broker!Weights)), c.id>>
      BY <2>1
    <3>2. PICK a \in Aliases : c = Broker!Candidate(a)
      BY <1>1
    <3>. QED
      BY <2>2, <3>1, <3>2 DEF Offers
  <2>4. ASSUME NEW r \in Offers PROVE r \in R
    <3>1. PICK a \in Aliases : Broker!Passes(a) /\ r = <<3 * Cost(a) + 5 * Exposure(a), a>>
      BY DEF Offers
    <3>2. PICK c : c = Broker!Candidate(a)
      OBVIOUS
    <3>3. c \in S /\ c.allowed /\ r = <<Broker!Total(Broker!Score(c, Broker!Weights)), c.id>>
      BY <2>2, <3>1, <3>2
    <3>. QED
      BY <2>1, <3>3
  <2>. QED
    BY <2>3, <2>4
<1>12. \A a \in Aliases : 3 * Cost(a) + 5 * Exposure(a) \in Nat /\ a \in Nat
  <2>. SUFFICES ASSUME NEW a \in Aliases
                PROVE  3 * Cost(a) + 5 * Exposure(a) \in Nat /\ a \in Nat
    OBVIOUS
  <2>1. Cost(a) \in Nat /\ Exposure(a) \in Nat /\ a \in Nat
    BY CandidateFacts, BrokerConstants
  <2>. QED
    BY <2>1
<1>13. R \in SUBSET (Nat \X Nat)
  BY <1>11, <1>12 DEF Offers
<1>14. R # {} => ch = Soonest(R) /\ ch # <<>>
  <2>1. ASSUME R # {} PROVE ch = Soonest(R) /\ ch \in R
    BY <1>9, <1>13, <2>1, SoonestOf, FirstIsSoonest
  <2>2. ASSUME ch \in R PROVE ch # <<>>
    BY <1>13, <2>2
  <2>. QED
    BY <2>1, <2>2
<1>15. /\ ch = <<>> => plan.status = "denied"
       /\ ch # <<>> => plan.status = "selected" /\ plan.selected = ch[2]
  <2>1. PICK st, sel, sc :
        /\ st = (IF ch = <<>> THEN "denied" ELSE "selected")
        /\ sel = (IF ch = <<>> THEN 0 ELSE ch[2])
        /\ sc = (IF ch = <<>> THEN 0 ELSE ch[1])
    OBVIOUS
  <2>2. PICK r, b : r = [status |-> st, version |-> 1, selected |-> sel, explained |-> sel,
                         score |-> sc, candidates |-> e, digest |-> <<>>]
                    /\ b = Broker!Content(r)
    OBVIOUS
  <2>3. plan = [r EXCEPT !.digest = b]
    BY <1>10, <2>1, <2>2, Zenon DEF Broker!Decision, Broker!Sealed
  <2>4. plan.status = st /\ plan.selected = sel
    BY <2>2, <2>3
  <2>. QED
    BY <2>1, <2>4
<1>. QED
  BY <1>9, <1>11, <1>14, <1>15

LEMMA BestOffer ==
  ASSUME BrokerTyped, Offers # {}, NEW a, a = Soonest(Offers)[2]
  PROVE  /\ a \in Aliases /\ Broker!Passes(a)
         /\ \A b \in Aliases : Broker!Passes(b) /\ catalog[b].name = catalog[a].name => Cost(a) <= Cost(b)
<1>1. ASSUME NEW x \in Aliases
      PROVE  Cost(x) \in Nat /\ Exposure(x) \in Nat /\ x \in Nat /\ 3 * Cost(x) + 5 * Exposure(x) \in Nat
  <2>1. Cost(x) \in Nat /\ Exposure(x) \in Nat /\ x \in Nat
    BY CandidateFacts, BrokerConstants
  <2>. QED
    BY <2>1
<1>2. Offers \in SUBSET (Nat \X Nat)
  BY <1>1 DEF Offers
<1>3. PICK o : o = Soonest(Offers)
  OBVIOUS
<1>4. o \in Offers /\ \A r \in Offers \ {o} : Sooner(o, r)
  BY <1>2, <1>3, SoonestOf
<1>5. a \in Aliases /\ Broker!Passes(a) /\ o = <<3 * Cost(a) + 5 * Exposure(a), a>>
  BY <1>3, <1>4 DEF Offers
<1>6. ASSUME NEW b \in Aliases, Broker!Passes(b), catalog[b].name = catalog[a].name
      PROVE  Cost(a) <= Cost(b)
  <2>1. PICK m, n, x : m = Cost(a) /\ n = Cost(b) /\ x = Exposure(a)
    OBVIOUS
  <2>2. m \in Nat /\ n \in Nat /\ x \in Nat
    BY <1>1, <1>5, <2>1
  <2>3. Exposure(b) = x
    BY <1>6, <2>1 DEF Exposure
  <2>4. <<3 * n + 5 * x, b>> \in Offers
    BY <1>6, <2>1, <2>3 DEF Offers
  <2>5. o = <<3 * m + 5 * x, a>>
    BY <1>5, <2>1
  <2>6. <<3 * n + 5 * x, b>> = o \/ Sooner(o, <<3 * n + 5 * x, b>>)
    BY <1>4, <2>4
  <2>7. 3 * m + 5 * x <= 3 * n + 5 * x
    BY <1>1, <1>5, <2>2, <2>5, <2>6 DEF Sooner
  <2>. QED
    BY <2>1, <2>2, <2>7
<1>. QED
  BY <1>5, <1>6

-----------------------------------------------------------------------------
(* The invariant of the broker                                             *)

Bound == {"tool", "provider", "answered", "failed"}
Cheapest(a) ==
    \A other \in Aliases :
        Broker!Affordable(other) /\ catalog[other].name = catalog[a].name => Cost(a) <= Cost(other)

BrokerInv ==
    /\ BrokerTyped
    /\ phase \in Bound => chosen \in Aliases /\ Broker!Affordable(chosen) /\ Cheapest(chosen)
    /\ phase = "refused" /\ chosen = 0 => ~\E a \in Aliases : Broker!Affordable(a)
    /\ phase = "routing" => chosen = 0

LEMMA BrokerStart == PlanningInit => BrokerInv
<1>1. ASSUME PlanningInit PROVE BrokerInv
  <2>1. /\ catalog \in Catalogs /\ budget \in ModelBudgets
        /\ input \in 0..MaxTokens /\ output \in 0..MaxTokens /\ mode \in Broker!ToolModes
        /\ phase = "routing" /\ chosen = 0
    BY <1>1 DEF PlanningInit, Broker!Init
  <2>2. input \in Nat /\ output \in Nat
    BY <2>1, BrokerConstants
  <2>. QED
    BY <2>1, <2>2 DEF BrokerInv, BrokerTyped, Bound
<1>. QED
  BY <1>1

\* Nothing that a request is held against changes.
LEMMA RequestRests ==
  ASSUME BrokerTyped, request' = request
  PROVE  /\ BrokerTyped'
         /\ \A a : (Broker!Affordable(a))' <=> Broker!Affordable(a)
         /\ \A a : Cheapest(a)' <=> Cheapest(a)
<1>1. catalog' = catalog /\ budget' = budget /\ model' = model /\ input' = input
      /\ output' = output /\ mode' = mode
  BY DEF request
<1>2. BrokerTyped'
  BY <1>1 DEF BrokerTyped, Broker!ToolModes
<1>3. ASSUME NEW a PROVE (Broker!Affordable(a))' <=> Broker!Affordable(a)
  BY <1>1, Zenon DEF Broker!Affordable
<1>4. ASSUME NEW a PROVE Cost(a)' = Cost(a)
  BY <1>1, Zenon DEF Cost, Broker!Candidate, Broker!Passes, Broker!NameMatches, Broker!EnforceBudget
<1>5. ASSUME NEW a PROVE Cheapest(a)' <=> Cheapest(a)
  BY <1>1, <1>3, <1>4, Zenon DEF Cheapest
<1>. QED
  BY <1>2, <1>3, <1>5

LEMMA RouteKeepsBrokerInv ==
  ASSUME BrokerInv, Broker!Route
  PROVE  BrokerInv'
<1>1. BrokerTyped /\ chosen = 0
  BY DEF BrokerInv, Broker!Route
<1>2. PICK plan :
        plan = Broker!Decide(Broker!SetToSeq({Broker!Candidate(a) : a \in Aliases}), Broker!Weights)
  OBVIOUS
<1>3. /\ IF output > 0 /\ plan.status = "selected"
         THEN phase' = "tool" /\ chosen' = plan.selected
         ELSE phase' = "refused" /\ UNCHANGED chosen
      /\ UNCHANGED Broker!request
  BY <1>2, Zenon DEF Broker!Route
<1>4. request' = request
  BY <1>3 DEF Broker!request, request
<1>5. /\ BrokerTyped'
      /\ \A a : (Broker!Affordable(a))' <=> Broker!Affordable(a)
      /\ \A a : Cheapest(a)' <=> Cheapest(a)
  BY <1>1, <1>4, RequestRests
<1>6. /\ Offers = {} => plan.status = "denied"
      /\ Offers # {} => plan.status = "selected" /\ plan.selected = Soonest(Offers)[2]
  BY <1>1, <1>2, BrokerPlan
<1>7. \A a \in Aliases : Broker!Affordable(a) <=> Broker!Passes(a) /\ output > 0
  BY <1>1, PassesIsAffordable
<1>8. CASE output > 0 /\ plan.status = "selected"
  <2>1. Offers # {}
    BY <1>6, <1>8
  <2>2. PICK a : a = Soonest(Offers)[2]
    OBVIOUS
  <2>3. phase' = "tool" /\ chosen' = a
    BY <1>3, <1>6, <1>8, <2>1, <2>2
  <2>4. /\ a \in Aliases /\ Broker!Passes(a)
        /\ \A b \in Aliases :
              Broker!Passes(b) /\ catalog[b].name = catalog[a].name => Cost(a) <= Cost(b)
    BY <1>1, <2>1, <2>2, BestOffer
  <2>5. Broker!Affordable(a) /\ Cheapest(a)
    BY <1>7, <1>8, <2>4 DEF Cheapest
  <2>6. (Broker!Affordable(chosen))' /\ Cheapest(chosen)'
    BY <1>5, <2>3, <2>5
  <2>. QED
    BY <1>1, <1>5, <2>3, <2>4, <2>6 DEF BrokerInv
<1>9. CASE ~(output > 0 /\ plan.status = "selected")
  <2>1. phase' = "refused" /\ chosen' = 0
    BY <1>1, <1>3, <1>9
  <2>2. ASSUME NEW a \in Aliases, Broker!Affordable(a) PROVE FALSE
    <3>1. Broker!Passes(a) /\ output > 0
      BY <1>7, <2>2
    <3>2. <<3 * Cost(a) + 5 * Exposure(a), a>> \in Offers
      BY <3>1 DEF Offers
    <3>. QED
      BY <1>6, <1>9, <3>1, <3>2
  <2>3. ~\E a \in Aliases : (Broker!Affordable(a))'
    BY <1>5, <2>2
  <2>. QED
    BY <1>5, <2>1, <2>3 DEF BrokerInv, Bound
<1>. QED
  BY <1>8, <1>9

LEMMA BrokerKept ==
  ASSUME BrokerInv, Broker!Next \/ UNCHANGED broker
  PROVE  BrokerInv'
<1>1. ASSUME request' = request, chosen' = chosen, phase' = phase \/ (phase \in Bound /\ phase' \in Bound \cup {"refused"})
      PROVE  BrokerInv'
  <2>1. /\ BrokerTyped'
        /\ \A a : (Broker!Affordable(a))' <=> Broker!Affordable(a)
        /\ \A a : Cheapest(a)' <=> Cheapest(a)
    BY <1>1, RequestRests DEF BrokerInv
  <2>2. (Broker!Affordable(chosen))' <=> Broker!Affordable(chosen)
    BY <1>1, <2>1
  <2>3. Cheapest(chosen)' <=> Cheapest(chosen)
    BY <1>1, <2>1
  <2>4. (\E a \in Aliases : (Broker!Affordable(a))') <=> \E a \in Aliases : Broker!Affordable(a)
    BY <2>1
  <2>5. phase' \in Bound => phase \in Bound
    BY <1>1
  <2>6. phase' = "refused" => phase = "refused" \/ (phase \in Bound /\ chosen # 0)
    BY <1>1, BrokerConstants DEF BrokerInv
  <2>7. phase' = "routing" => phase = "routing"
    BY <1>1 DEF Bound
  <2>. QED
    BY <1>1, <2>1, <2>2, <2>3, <2>4, <2>5, <2>6, <2>7 DEF BrokerInv
<1>2. CASE Broker!Route
  BY <1>2, RouteKeepsBrokerInv
<1>3. CASE Broker!MaybeExecuteTool
  <2>1. phase = "tool" /\ phase' \in {"provider", "refused"} /\ chosen' = chosen
        /\ Broker!request' = Broker!request
    BY <1>3 DEF Broker!MaybeExecuteTool
  <2>. QED
    BY <1>1, <2>1 DEF Bound, Broker!request, request
<1>4. CASE Broker!Complete
  <2>1. phase = "provider" /\ phase' \in {"answered", "failed"} /\ chosen' = chosen
        /\ Broker!request' = Broker!request
    BY <1>4 DEF Broker!Complete
  <2>. QED
    BY <1>1, <2>1 DEF Bound, Broker!request, request
<1>5. CASE UNCHANGED broker
  BY <1>1, <1>5 DEF broker
<1>. QED
  BY <1>2, <1>3, <1>4, <1>5 DEF Broker!Next

LEMMA BrokerRoutesToBest == BrokerInv => RoutedToBest
<1>1. ASSUME BrokerInv PROVE RoutedToBest
  <2>1. Broker!RoutedToBest <=>
          /\ phase \in Bound => Broker!Affordable(chosen) /\ Cheapest(chosen)
          /\ phase = "refused" /\ chosen = 0 => ~\E a \in Aliases : Broker!Affordable(a)
    BY Zenon DEF Broker!RoutedToBest, Bound, Cheapest, Cost
  <2>. QED
    BY <1>1, <2>1 DEF BrokerInv, RoutedToBest
<1>. QED
  BY <1>1

-----------------------------------------------------------------------------
(* The parts together                                                      *)

PlanningInv ==
    /\ TypeOK /\ NothingGained /\ Reaches(origin, context)
    /\ PlannerInv /\ BrokerInv

LEMMA PlanningStart == PlanningInit => PlanningInv
<1>1. PlanningInit => Init
  BY DEF PlanningInit
<1>. QED
  BY <1>1, InitType, InitGainsNothing, InitReaches, PlannerStart, BrokerStart DEF PlanningInv

LEMMA PlanningStep ==
  PlanningInv /\ [ContextSteps \/ PlannerSteps \/ BrokerSteps]_PlanningVars => PlanningInv'
<1>. SUFFICES ASSUME PlanningInv, [ContextSteps \/ PlannerSteps \/ BrokerSteps]_PlanningVars
              PROVE  PlanningInv'
  OBVIOUS
<1>1. [Next]_vars
  BY DEF ContextSteps, PlannerSteps, BrokerSteps, PlanningVars
<1>2. Planner!Next \/ UNCHANGED planner
  BY DEF ContextSteps, PlannerSteps, BrokerSteps, PlanningVars
<1>3. Broker!Next \/ UNCHANGED broker
  BY DEF ContextSteps, PlannerSteps, BrokerSteps, PlanningVars
<1>4. PlannerInv'
  BY <1>2, PlannerKept DEF PlanningInv
<1>5. BrokerInv'
  BY <1>3, BrokerKept DEF PlanningInv
<1>6. (TypeOK /\ NothingGained /\ Reaches(origin, context))'
  BY <1>1, NextType, NextGainsNothing, NextReaches DEF PlanningInv
<1>. QED
  BY <1>4, <1>5, <1>6 DEF PlanningInv

LEMMA PlanningInvariant == PlanningSpec => []PlanningInv
  BY PlanningStart, PlanningStep, PTL DEF PlanningSpec

\* Whatever the candidates, weights and edits: what decide answers passes verify_integrity,
\* and what passes it selects the first of the candidates that are shown as allowed.
THEOREM PlannerAndVerifierAgree == PlanningSpec => []PlanAndProofAgree
<1>1. PlanningInv => PlanAndProofAgree
  BY PlannerAgrees DEF PlanningInv
<1>. QED
  BY <1>1, PlanningInvariant, PTL

\* Whatever the providers and budgets: a request is sent to one that the headers and the
\* provider's own limits allow, none of its name is cheaper, and it is refused before the
\* tool only if there is none.
THEOREM BrokerRoutes == PlanningSpec => []RoutedToBest
<1>1. PlanningInv => RoutedToBest
  BY BrokerRoutesToBest DEF PlanningInv
<1>. QED
  BY <1>1, PlanningInvariant, PTL

\* The exploration of the three parts has the properties of all of them.
THEOREM PlanningKept ==
  PlanningSpec => [](NothingGained /\ Delegated /\ PlanAndProofAgree /\ RoutedToBest)
<1>1. PlanningInv => NothingGained /\ Delegated
  BY ReachesDelegated DEF PlanningInv
<1>. QED
  BY <1>1, PlanningInvariant, PlannerAndVerifierAgree, BrokerRoutes, PTL
=============================================================================
