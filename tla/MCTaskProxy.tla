---------------------------- MODULE MCTaskProxy ----------------------------
(* TLC instances of TaskProxy.                                             *)
EXTENDS TaskProxy, TLC

CONSTANTS alice, k

\* A TaskSubmission document: who sends it, under which idempotency key, its
\* absolute execution deadline, its runtime bound, how long its route is kept,
\* and a payload that tells two documents with the same limits apart.  (The fields
\* stand in the order TLC normalises a record to, so that its workers never have
\* to reorder a document they share.)
Document(caller, deadline, runtime, retention, payload) ==
    [caller |-> caller, deadline |-> deadline, runtime |-> runtime,
     retention |-> retention, payload |-> payload, key |-> k]

\* One submission, retained exactly to its deadline.
OneSubmission == {Document(alice, 1, 1, 1, 1)}

\* One submission whose runtime bound ends before its deadline does, so that its
\* cutoff depends on when its route was created.
EarlyCutoff == {Document(alice, 2, 1, 2, 1)}

\* Two documents of one caller under the same key: they conflict while the
\* first is retained, and the second may reuse the key once it has expired.
KeyReuse == {Document(alice, 1, 1, 1, 1), Document(alice, 2, 1, 1, 2)}

\* One submission whose route is kept well past its execution cutoff.
LongRetention == {Document(alice, 1, 1, 3, 1)}

MCBindings == Submissions \X Snapshots
MCSessions == Instances \X (0 .. MaxSessions)
MCOwners == Instances \X (0 .. MaxEpochs)
MCUpstreamIds == Nat
MCVerdicts == {"not_dispatched", "rejected", "completed", "failed", "cancelled"}
MCPublicIds == 1 .. MaxRoutes

Symmetry == Permutations(Handlers) \cup Permutations(Snapshots)

\* All handlers on one instance, or one instance per handler (Instances are then
\* the handlers' own names).
SameHost == [p \in Handlers |-> CHOOSE i \in Instances : TRUE]
OwnHost  == [p \in Handlers |-> p]
=============================================================================
