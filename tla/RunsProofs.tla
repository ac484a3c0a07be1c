----------------------------- MODULE RunsProofs -----------------------------
(***************************************************************************)
(* Proofs about Runs, for every plan, every number of processes and every  *)
(* surroundings.                                                           *)
(***************************************************************************)
EXTENDS Runs, FiniteSetTheorems, WellFoundedInduction, TLAPS

Unsent == {"pending", "skipped"}
Ended == {"completed", "failed", "cancelled"}
Final == {"verified", "failed", "cancelled"}
Phases == Unsent \cup Final \cup {"submitting", "routed", "unknown"}
TaskStates == Ended \cup {"none", "running", "lost"}
Places ==
    {"idle", "deadline", "reverify", "recover", "submit", "submitted", "poll", "cancel",
     "cancelled", "get", "got", "stop", "dispatch"}

StepState ==
    [phase : Phases, id : BOOLEAN, artifact : BOOLEAN, envelope : BOOLEAN,
     intent : BOOLEAN, sent : BOOLEAN, acked : BOOLEAN]
Row == [version : Nat, cancel : BOOLEAN, late : BOOLEAN, steps : [Steps -> StepState]]
Sweeps ==
    [pc : Places, rec : Row, at : Nat, back : {"idle", "recover", "dispatch"},
     answer : TaskStates \cup {"ok", "error", "task", "reconciliation"},
     observed : BOOLEAN]

TypeOK ==
    /\ world \in Worlds
    /\ deps \in [Steps -> SUBSET Steps]
    /\ run \in Row
    /\ drv \in [Drivers -> Sweeps]
    /\ task \in [Steps -> TaskStates]

\* What a step of the row says of its task, which is in state t.
Honest(it, t) ==
    /\ it.phase \in Unsent => t = "none"
    /\ it.artifact => t = "completed"
    /\ it.phase \in Final => t \in Ended

InFlight(r) == In(r, {"submitting", "routed", "unknown"})

RowGood(r) ==
    /\ Loads(r)
    /\ \A s \in Steps : Honest(r.steps[s], task[s])
    /\ Cardinality(InFlight(r)) <= MaxConcurrency

\* A sweep's copy of the row is the row, or it is older; no step goes back to unsent.
Behind(r) ==
    /\ r.version <= run.version
    /\ r.version = run.version => r = run
    /\ \A s \in Steps : r.steps[s].phase \notin Unsent => run.steps[s].phase \notin Unsent

\* What the place of a sweep says of its copy and of the answer it carries.
LocalOK(v) ==
    /\ v.pc \in {"submit", "submitted"} =>
          /\ v.at \in Steps
          /\ v.rec.steps[v.at].phase = "submitting"
          /\ v.back \in {"recover", "dispatch"}
    /\ v.pc = "submitted" => v.answer \in {"task", "reconciliation", "error"}
    /\ v.pc \in {"cancel", "cancelled", "get", "got"} =>
          /\ v.at \in Steps
          /\ v.rec.steps[v.at].phase \in {"routed", "unknown"}
          /\ v.rec.steps[v.at].id
    /\ v.pc = "got" /\ v.answer \in Ended => task[v.at] = v.answer
    /\ v.pc = "dispatch" => ~Blocked(v.rec)

RunInv ==
    /\ TypeOK
    /\ RowGood(run)
    /\ \A d \in Drivers : drv[d].pc # "idle" => Behind(drv[d].rec) /\ LocalOK(drv[d])

-----------------------------------------------------------------------------
(* Sets of steps                                                           *)

LEMMA StepsFinite == Steps \subseteq Nat /\ IsFiniteSet(Steps)
  BY RunBounds, FS_Interval DEF Steps

\* The smallest of some steps is one of them.
LEMMA MinOfSteps ==
  ASSUME NEW S \in SUBSET Steps, S # {}
  PROVE  Min(S) \in S
<1>. DEFINE R == OpToRel(<, Nat)
<1>1. PICK x \in S : \A y \in S : ~(<<y, x>> \in R)
  <2>1. S \subseteq Nat
    BY StepsFinite
  <2>. QED
    BY <2>1, NatLessThanWellFounded, WFMin
<1>2. \A a, b \in Nat : a < b => <<a, b>> \in R
  BY DEF OpToRel
<1>. HIDE DEF R
<1>3. ASSUME NEW y \in S PROVE x <= y
  <2>1. x \in Nat /\ y \in Nat
    <3>1. S \subseteq Nat
      BY StepsFinite
    <3>. QED
      BY <3>1
  <2>2. ~(y < x)
    BY <1>1, <1>2, <2>1, Zenon
  <2>. QED
    BY <2>1, <2>2
<1>. QED
  BY <1>3 DEF Min

\* A loop that is not done stops at a step of its set.
LEMMA NextIsStep ==
  ASSUME NEW d \in Drivers, NEW S \in SUBSET Steps, ~Done(d, S), drv[d].at \in Nat
  PROVE  NextOf(d, S) \in S
<1>. DEFINE T == {s \in S : s >= drv[d].at}
<1>1. T \in SUBSET Steps /\ T # {}
  <2>1. PICK s \in S : ~(s < drv[d].at)
    BY DEF Done
  <2>2. s \in Nat
    <3>1. S \subseteq Nat
      BY StepsFinite
    <3>. QED
      BY <3>1
  <2>3. s >= drv[d].at
    BY <2>1, <2>2
  <2>. QED
    BY <2>3
<1>2. Min(T) \in T
  BY <1>1, MinOfSteps
<1>. QED
  BY <1>2 DEF NextOf

LEMMA InIsSteps == \A r, phases : In(r, phases) \in SUBSET Steps
  BY DEF In

-----------------------------------------------------------------------------
LEMMA InitRunInv == Init => RunInv
<1>. SUFFICES ASSUME Init PROVE RunInv
  OBVIOUS
<1>1. Fresh \in StepState
  BY DEF Fresh, StepState, Phases, Unsent
<1>2. Accepted \in Row
  BY <1>1 DEF Accepted, Row
<1>3. Idle \in Sweeps
  BY <1>2 DEF Idle, Sweeps, Places, TaskStates
<1>4. TypeOK
  BY <1>2, <1>3 DEF Init, TypeOK, TaskStates
<1>5. \A s \in Steps : run.steps[s] = Fresh
  BY DEF Init, Accepted
<1>6. RowGood(run)
  <2>1. InFlight(run) = {}
    BY <1>5 DEF InFlight, In, Fresh
  <2>2. Cardinality(InFlight(run)) <= MaxConcurrency
    BY <2>1, FS_EmptySet, RunBounds
  <2>. QED
    BY <1>5, <2>2 DEF Init, RowGood, Loads, Honest, Fresh, Unsent, Final
<1>. QED
  BY <1>4, <1>6 DEF Init, RunInv, Idle

-----------------------------------------------------------------------------
(* Steps of a sweep                                                        *)

\* A sweep that writes nothing goes on with a copy that is not ahead, or ends.
LEMMA LocalMove ==
  ASSUME RunInv, NEW d \in Drivers, NEW v \in Sweeps,
         drv' = [drv EXCEPT ![d] = v],
         v.pc # "idle" => Behind(v.rec) /\ LocalOK(v),
         UNCHANGED <<given, run, task>>
  PROVE  RunInv'
<1>1. TypeOK'
  BY DEF RunInv, TypeOK, given
<1>2. RowGood(run)'
  BY DEF RunInv, RowGood, Loads, InFlight, In, given
<1>3. ASSUME NEW e \in Drivers, drv'[e].pc # "idle"
      PROVE  (Behind(drv[e].rec) /\ LocalOK(drv[e]))'
  <2>1. CASE e = d
    <3>1. drv'[e] = v
      BY <2>1 DEF RunInv, TypeOK
    <3>2. Behind(v.rec) /\ LocalOK(v)
      BY <1>3, <3>1
    <3>. QED
      BY <3>1, <3>2 DEF Behind, LocalOK, Blocked, In
  <2>2. CASE e # d
    <3>1. drv'[e] = drv[e]
      BY <2>2 DEF RunInv, TypeOK
    <3>. QED
      BY <3>1, <1>3 DEF RunInv, Behind, LocalOK, Blocked, In
  <2>. QED
    BY <2>1, <2>2
<1>. QED
  BY <1>1, <1>2, <1>3 DEF RunInv

\* What a sweep ends in.
LEMMA IdleSweeps == Idle \in Sweeps /\ Idle.pc = "idle"
<1>1. Accepted \in Row
  BY DEF Accepted, Row, Fresh, StepState, Phases, Unsent
<1>. QED
  BY <1>1 DEF Idle, Sweeps, Places, TaskStates

LEMMA ReturnKeeps ==
  ASSUME RunInv, NEW d \in Drivers, Return(d), UNCHANGED <<given, run, task>>
  PROVE  RunInv'
  BY LocalMove, IdleSweeps DEF Return

\* What the row becomes by a save that did not fail: good, and no step is unsent again.
Follows(new) ==
    /\ new \in Row
    /\ new.version = run.version
    /\ \A s \in Steps : run.steps[s].phase \notin Unsent => new.steps[s].phase \notin Unsent
    /\ RowGood(new)

Later(row) == [row EXCEPT !.version = @ + 1]

\* What is good of a row does not depend on its version.
LEMMA LaterGood ==
  ASSUME NEW r \in Row
  PROVE  /\ Later(r) \in Row /\ Later(r).steps = r.steps /\ Later(r).version = r.version + 1
         /\ RowGood(r) => RowGood(Later(r))
<1>1. Later(r) \in Row /\ Later(r).steps = r.steps /\ Later(r).version = r.version + 1
  BY DEF Later, Row
<1>2. InFlight(Later(r)) = InFlight(r)
  BY <1>1 DEF InFlight, In
<1>. QED
  BY <1>1, <1>2 DEF RowGood, Loads

\* A row written by a step that moved its version: copies of it are behind.
LEMMA RowMoves ==
  ASSUME RunInv, NEW r \in Row, Behind(r), NEW new, Follows(new), run' = Later(new),
         UNCHANGED <<given, task>>
  PROVE  Behind(r)'
<1>1. run'.version = run.version + 1 /\ run'.steps = new.steps
  BY LaterGood DEF Follows
<1>2. r.version \in Nat /\ run.version \in Nat
  BY DEF Row, RunInv, TypeOK
<1>. QED
  BY <1>1, <1>2 DEF Behind, Follows

LEMMA RereadType ==
  ASSUME NEW next \in Sweeps, NEW row \in Row
  PROVE  /\ Reread(next, row) \in Sweeps
         /\ Reread(next, row).pc = next.pc
         /\ next.pc # "idle" =>
               /\ Reread(next, row) = [next EXCEPT !.rec = row]
               /\ Reread(next, row).rec = row
<1>1. CASE next.pc = "idle"
  BY <1>1, IdleSweeps DEF Reread
<1>2. CASE next.pc # "idle"
  <2>1. Reread(next, row) = [next EXCEPT !.rec = row]
    BY <1>2 DEF Reread
  <2>. QED
    BY <2>1, <1>2 DEF Sweeps
<1>. QED
  BY <1>1, <1>2

\* A save that succeeds writes a row that follows; one that fails ends the sweep.
LEMMA SaveKeeps ==
  ASSUME RunInv, NEW d \in Drivers, drv[d].pc # "idle", NEW new, NEW next,
         Save(d, new, next),
         drv[d].rec = run => Follows(new),
         next \in Sweeps,
         drv[d].rec = run /\ next.pc # "idle" =>
            LocalOK([next EXCEPT !.rec = Later(new)]),
         UNCHANGED <<given, task>>
  PROVE  RunInv'
<1>1. CASE run.version = drv[d].rec.version /\ run.version < MaxVersion
  <2>. DEFINE row == Later(new)
              v == Reread(next, row)
  <2>1. drv[d].rec = run
    BY <1>1 DEF RunInv, Behind
  <2>2. run' = row /\ drv' = [drv EXCEPT ![d] = v]
    BY <1>1 DEF Save, Later
  <2>3. Follows(new)
    BY <2>1
  <2>4. row \in Row /\ row.steps = new.steps /\ row.version = new.version + 1 /\ RowGood(row)
    BY <2>3, LaterGood DEF Follows
  <2>5. /\ v \in Sweeps
        /\ v.pc # "idle" => /\ v = [next EXCEPT !.rec = row] /\ v.rec = row
                            /\ next.pc # "idle"
    BY <2>4, RereadType
  <2>. HIDE DEF row, v
  <2>6. TypeOK'
    BY <2>2, <2>4, <2>5 DEF RunInv, TypeOK, given
  <2>7. RowGood(run)'
    BY <2>2, <2>4 DEF RowGood, Loads, InFlight, In, given
  <2>8. ASSUME NEW e \in Drivers, drv'[e].pc # "idle"
        PROVE  (Behind(drv[e].rec) /\ LocalOK(drv[e]))'
    <3>1. CASE e = d
      <4>1. drv'[e] = v
        BY <3>1, <2>2 DEF RunInv, TypeOK
      <4>2. LocalOK(v)
        BY <2>1, <2>5, <2>8, <4>1 DEF row
      <4>3. Behind(drv[e].rec)'
        <5>1. drv'[e].rec = run' /\ run'.version \in Nat
          BY <4>1, <2>5, <2>8, <2>2, <2>4 DEF Row
        <5>. QED
          BY <5>1 DEF Behind
      <4>. QED
        BY <4>1, <4>2, <4>3 DEF LocalOK, Blocked, In
    <3>2. CASE e # d
      <4>1. drv'[e] = drv[e]
        BY <3>2, <2>2 DEF RunInv, TypeOK
      <4>2. Behind(drv[e].rec) /\ LocalOK(drv[e]) /\ drv[e].rec \in Row
        BY <4>1, <2>8 DEF RunInv, TypeOK, Sweeps
      <4>3. Behind(drv[e].rec)'
        BY <4>1, <4>2, <2>2, <2>3, RowMoves DEF row
      <4>. QED
        BY <4>1, <4>2, <4>3 DEF LocalOK, Blocked, In
    <3>. QED
      BY <3>1, <3>2
  <2>. QED
    BY <2>6, <2>7, <2>8 DEF RunInv
<1>2. CASE ~(run.version = drv[d].rec.version /\ run.version < MaxVersion)
  BY <1>2, ReturnKeeps DEF Save
<1>. QED
  BY <1>1, <1>2

\* The record of a sweep at another place.
LEMMA MoveType ==
  ASSUME RunInv, NEW d \in Drivers, NEW place \in Places, NEW step \in Nat
  PROVE  /\ Move(d, place, step) \in Sweeps
         /\ Move(d, place, step).pc = place
         /\ Move(d, place, step).at = step
         /\ Move(d, place, step).rec = drv[d].rec
         /\ Move(d, place, step).back = drv[d].back
         /\ drv[d] \in Sweeps
  BY DEF RunInv, TypeOK, Move, Sweeps, TaskStates

\* A sweep that goes on with its copy.
LEMMA GoKeeps ==
  ASSUME RunInv, NEW d \in Drivers, drv[d].pc # "idle", NEW v \in Sweeps,
         drv' = [drv EXCEPT ![d] = v], v.rec = drv[d].rec, LocalOK(v),
         UNCHANGED <<given, run, task>>
  PROVE  RunInv'
  BY LocalMove DEF RunInv

\* Places of which nothing is said.
Plain == {"deadline", "reverify", "recover", "poll", "stop"}

LEMMA PlainOK == \A v : v.pc \in Plain => LocalOK(v)
  BY DEF Plain, LocalOK

LEMMA GotoPlain ==
  ASSUME RunInv, NEW d \in Drivers, drv[d].pc # "idle", NEW place \in Plain,
         NEW step \in Nat, Goto(d, place, step), UNCHANGED <<given, run, task>>
  PROVE  RunInv'
<1>. DEFINE v == Move(d, place, step)
<1>1. place \in Places
  BY DEF Plain, Places
<1>2. v \in Sweeps /\ v.pc = place /\ v.rec = drv[d].rec
  BY <1>1, MoveType
<1>3. drv' = [drv EXCEPT ![d] = v]
  BY DEF Goto
<1>. HIDE DEF v
<1>4. LocalOK(v)
  BY <1>2, PlainOK
<1>. QED
  BY <1>2, <1>3, <1>4, GoKeeps

\* A save after which nothing is said of the sweep.
LEMMA SavePlain ==
  ASSUME RunInv, NEW d \in Drivers, drv[d].pc # "idle", NEW new, NEW next \in Sweeps,
         Save(d, new, next), next.pc \in Plain \cup {"idle"},
         drv[d].rec = run => Follows(new),
         UNCHANGED <<given, task>>
  PROVE  RunInv'
<1>1. [next EXCEPT !.rec = Later(new)].pc = next.pc
  BY DEF Sweeps
<1>2. next.pc # "idle" => LocalOK([next EXCEPT !.rec = Later(new)])
  BY <1>1, PlainOK
<1>. QED
  BY <1>2, SaveKeeps

\* The copy of a sweep with one step changed.
LEMMA WithType ==
  ASSUME RunInv, NEW d \in Drivers, NEW s \in Steps, NEW f \in StepState
  PROVE  /\ With(d, s, f) \in Row
         /\ With(d, s, f).version = drv[d].rec.version
         /\ With(d, s, f).steps = [drv[d].rec.steps EXCEPT ![s] = f]
         /\ With(d, s, f).steps[s] = f
         /\ Later(With(d, s, f)).steps[s] = f
<1>1. drv[d].rec \in Row
  BY DEF RunInv, TypeOK, Sweeps
<1>2. /\ With(d, s, f) \in Row
      /\ With(d, s, f).version = drv[d].rec.version
      /\ With(d, s, f).steps = [drv[d].rec.steps EXCEPT ![s] = f]
      /\ With(d, s, f).steps[s] = f
  BY <1>1 DEF With, Row
<1>. QED
  BY <1>2, LaterGood

\* A sweep that looks at the task of a step.
LEMMA AtTask ==
  ASSUME NEW v, v.pc \in {"cancel", "cancelled", "get"} \/ (v.pc = "got" /\ v.answer \notin Ended),
         v.at \in Steps, v.rec.steps[v.at].phase \in {"routed", "unknown"},
         v.rec.steps[v.at].id
  PROVE  LocalOK(v)
  BY DEF LocalOK

\* A row with the same steps follows.
LEMMA SameStepsFollow ==
  ASSUME RunInv, NEW r \in Row, r.steps = run.steps, r.version = run.version
  PROVE  Follows(r)
<1>1. InFlight(r) = InFlight(run)
  BY DEF InFlight, In
<1>. QED
  BY <1>1 DEF Follows, RunInv, RowGood, Loads

\* Fewer steps in flight keep the bound.
LEMMA FewerInFlight ==
  ASSUME RunInv, NEW r, InFlight(r) \subseteq InFlight(run)
  PROVE  Cardinality(InFlight(r)) <= MaxConcurrency
<1>1. IsFiniteSet(InFlight(run))
  BY StepsFinite, FS_Subset, InIsSteps DEF InFlight
<1>2. Cardinality(InFlight(r)) \in Nat /\ Cardinality(InFlight(run)) \in Nat
  BY <1>1, FS_Subset, FS_CardinalityType
<1>3. Cardinality(InFlight(r)) <= Cardinality(InFlight(run))
  BY <1>1, FS_Subset
<1>. QED
  BY <1>2, <1>3, RunBounds DEF RunInv, RowGood

\* A change of one step that was sent: it stays in order, and comes into no flight.
LEMMA OneStepFollows ==
  ASSUME RunInv, NEW d \in Drivers, drv[d].rec = run, NEW s \in Steps,
         NEW f \in StepState,
         run.steps[s].phase \notin Unsent, f.phase \notin Unsent,
         run.steps[s].artifact => f.artifact,
         Honest(f, task[s]),
         f.phase \in {"routed", "verified", "cancelled"} => f.id,
         f.phase = "verified" => f.artifact,
         f.phase \in Final \/ run.steps[s].phase \in {"submitting", "routed", "unknown"}
  PROVE  Follows(With(d, s, f))
<1>. DEFINE new == With(d, s, f)
<1>1. /\ new \in Row /\ new.version = run.version
      /\ new.steps = [run.steps EXCEPT ![s] = f]
  BY DEF With, Row, RunInv, TypeOK
<1>2. new.steps[s] = f /\ \A q \in Steps \ {s} : new.steps[q] = run.steps[q]
  BY <1>1 DEF RunInv, TypeOK, Row
<1>. HIDE DEF new
<1>3. Loads(new)
  BY <1>2 DEF RunInv, RowGood, Loads, Unsent, TypeOK
<1>4. \A q \in Steps : Honest(new.steps[q], task[q])
  BY <1>2 DEF RunInv, RowGood
<1>5. InFlight(new) \subseteq InFlight(run)
  BY <1>2 DEF InFlight, In, Final
<1>6. \A q \in Steps : run.steps[q].phase \notin Unsent => new.steps[q].phase \notin Unsent
  BY <1>2
<1>. QED
  BY <1>1, <1>3, <1>4, <1>5, <1>6, FewerInFlight DEF Follows, RowGood, new

-----------------------------------------------------------------------------
(* The actions                                                             *)

LEMMA ResumeKeeps ==
  ASSUME RunInv, NEW d \in Drivers, Resume(d)
  PROVE  RunInv'
<1>. DEFINE v == [Idle EXCEPT !.pc = IF past /\ ~run.late THEN "deadline" ELSE "reverify",
                              !.rec = run]
<1>1. v \in Sweeps /\ v.rec = run /\ v.pc \in Plain
  BY IdleSweeps DEF Sweeps, Places, Plain, RunInv, TypeOK
<1>2. drv' = [drv EXCEPT ![d] = v] /\ UNCHANGED <<given, run, task>>
  BY DEF Resume
<1>. HIDE DEF v
<1>3. Behind(v.rec)
  BY <1>1 DEF Behind, RunInv, TypeOK, Row
<1>. QED
  BY <1>1, <1>2, <1>3, PlainOK, LocalMove

LEMMA ObserveDeadlineKeeps ==
  ASSUME RunInv, NEW d \in Drivers, ObserveDeadline(d)
  PROVE  RunInv'
<1>. DEFINE new == [drv[d].rec EXCEPT !.late = TRUE]
            next == Move(d, "reverify", 1)
<1>1. drv[d].rec = run => new \in Row /\ new.steps = run.steps /\ new.version = run.version
  BY DEF RunInv, TypeOK, Row
<1>2. next \in Sweeps /\ next.pc \in Plain
  BY MoveType DEF Places, Plain
<1>3. Save(d, new, next) /\ drv[d].pc # "idle" /\ UNCHANGED <<given, task>>
  BY DEF ObserveDeadline
<1>. HIDE DEF new, next
<1>4. drv[d].rec = run => Follows(new)
  BY <1>1, SameStepsFollow
<1>. QED
  BY <1>2, <1>3, <1>4, SavePlain

LEMMA ReverifyKeeps ==
  ASSUME RunInv, NEW d \in Drivers, Reverify(d)
  PROVE  RunInv'
<1>. DEFINE bad == In(drv[d].rec, {"verified"}) \cap tampered
            s == NextOf(d, bad)
            f == [drv[d].rec.steps[s] EXCEPT !.phase = "failed"]
            new == With(d, s, f)
            next == Move(d, "reverify", s + 1)
<1>1. drv[d].pc # "idle" /\ UNCHANGED <<given, task>>
  BY DEF Reverify
<1>2. CASE Done(d, bad)
  <2>1. Goto(d, "recover", 1) /\ run' = run
    BY <1>2 DEF Reverify
  <2>. QED
    BY <2>1, <1>1, GotoPlain DEF Plain
<1>3. CASE ~Done(d, bad)
  <2>1. Save(d, new, next)
    BY <1>3 DEF Reverify
  <2>2. s \in bad
    <3>. HIDE DEF s
    <3>1. bad \in SUBSET Steps
      BY InIsSteps
    <3>2. drv[d].at \in Nat
      BY DEF RunInv, TypeOK, Sweeps
    <3>. HIDE DEF bad
    <3>. QED
      BY <3>1, <3>2, <1>3, NextIsStep DEF s
  <2>. HIDE DEF s
  <2>3. s \in Steps /\ drv[d].rec.steps[s].phase = "verified" /\ s + 1 \in Nat
    <3>1. s \in Steps /\ drv[d].rec.steps[s].phase = "verified"
      BY <2>2 DEF In
    <3>2. s \in Nat
      BY <3>1, StepsFinite
    <3>. QED
      BY <3>1, <3>2
  <2>4. drv[d].rec = run => Follows(new)
    <3>. SUFFICES ASSUME drv[d].rec = run PROVE Follows(new)
      OBVIOUS
    <3>1. /\ f \in StepState /\ f.phase = "failed" /\ f.artifact = run.steps[s].artifact
          /\ run.steps[s].phase = "verified"
      BY <2>3 DEF RunInv, TypeOK, Row, StepState, Phases, Final
    <3>. HIDE DEF f
    <3>2. Honest(f, task[s])
      BY <3>1, <2>3 DEF RunInv, RowGood, Honest, Unsent, Final
    <3>. QED
      BY <3>1, <3>2, <2>3, OneStepFollows DEF Unsent, Final
  <2>5. next \in Sweeps /\ next.pc \in Plain
    BY <2>3, MoveType DEF Places, Plain
  <2>. HIDE DEF new, next
  <2>. QED
    BY <1>1, <2>1, <2>4, <2>5, SavePlain
<1>. QED
  BY <1>2, <1>3

LEMMA RecoverKeeps ==
  ASSUME RunInv, NEW d \in Drivers, Recover(d)
  PROVE  RunInv'
<1>. DEFINE lost == In(drv[d].rec, {"submitting"})
            s == NextOf(d, lost)
            v == [Move(d, "submit", s) EXCEPT !.back = "recover"]
<1>1. drv[d].pc # "idle" /\ UNCHANGED <<given, run, task>>
  BY DEF Recover
<1>2. CASE Done(d, lost)
  <2>1. Goto(d, "poll", 1)
    BY <1>2 DEF Recover
  <2>. QED
    BY <2>1, <1>1, GotoPlain DEF Plain
<1>3. CASE ~Done(d, lost)
  <2>1. drv' = [drv EXCEPT ![d] = v]
    BY <1>3 DEF Recover
  <2>2. s \in lost
    <3>. HIDE DEF s
    <3>1. lost \in SUBSET Steps
      BY InIsSteps
    <3>2. drv[d].at \in Nat
      BY DEF RunInv, TypeOK, Sweeps
    <3>. HIDE DEF lost
    <3>. QED
      BY <3>1, <3>2, <1>3, NextIsStep DEF s
  <2>3. s \in Steps /\ s \in Nat /\ drv[d].rec.steps[s].phase = "submitting"
    BY <2>2, StepsFinite DEF In
  <2>. HIDE DEF s
  <2>4. /\ v \in Sweeps /\ v.rec = drv[d].rec /\ v.pc = "submit" /\ v.at = s
        /\ v.back = "recover"
    <3>1. Move(d, "submit", s) \in Sweeps
      BY <2>3, MoveType DEF Places
    <3>. QED
      BY <3>1, <2>3, MoveType DEF Places, Sweeps
  <2>. HIDE DEF v
  <2>5. LocalOK(v)
    BY <2>3, <2>4 DEF LocalOK
  <2>. QED
    BY <1>1, <2>1, <2>4, <2>5, GoKeeps
<1>. QED
  BY <1>2, <1>3

-----------------------------------------------------------------------------
(* Tasks                                                                   *)

\* A task that has not ended changes; a step of the row stands for it.  No sweep goes
\* beyond what it may say.
LEMMA TaskMoves ==
  ASSUME RunInv, NEW s \in Steps, NEW t \in TaskStates,
         task' = [task EXCEPT ![s] = t],
         task[s] \notin Ended, run.steps[s].phase \notin Unsent,
         UNCHANGED <<given, run>>,
         drv' \in [Drivers -> Sweeps],
         \A d \in Drivers : drv'[d].pc # "idle" => Behind(drv'[d].rec) /\ LocalOK(drv'[d])
  PROVE  RunInv'
<1>1. TypeOK'
  BY DEF RunInv, TypeOK, given
<1>2. ASSUME NEW q \in Steps PROVE Honest(run.steps[q], task'[q])
  <2>1. Honest(run.steps[q], task[q])
    BY DEF RunInv, RowGood
  <2>2. q # s => task'[q] = task[q]
    BY DEF RunInv, TypeOK
  <2>3. q = s => ~run.steps[q].artifact /\ run.steps[q].phase \notin Final \cup Unsent
    BY <2>1 DEF Honest, Ended
  <2>. QED
    BY <2>1, <2>2, <2>3 DEF Honest
<1>3. RowGood(run)'
  BY <1>2 DEF RunInv, RowGood, Loads, InFlight, In, given
<1>4. ASSUME NEW d \in Drivers, drv'[d].pc # "idle"
      PROVE  (Behind(drv[d].rec) /\ LocalOK(drv[d]))'
  <2>1. Behind(drv'[d].rec) /\ LocalOK(drv'[d])
    BY <1>4
  <2>2. \A q : task[q] \in Ended /\ q \in Steps => task'[q] = task[q]
    BY DEF RunInv, TypeOK
  <2>3. drv'[d].pc = "got" /\ drv'[d].answer \in Ended => task'[drv'[d].at] = drv'[d].answer
    BY <2>1, <2>2 DEF LocalOK
  <2>. QED
    BY <2>1, <2>3 DEF Behind, LocalOK, Blocked, In
<1>. QED
  BY <1>1, <1>3, <1>4 DEF RunInv

LEMMA SubmitKeeps ==
  ASSUME RunInv, NEW d \in Drivers, Submit(d)
  PROVE  RunInv'
<1>. DEFINE s == drv[d].at
<1>1. /\ drv[d].pc = "submit" /\ Behind(drv[d].rec) /\ LocalOK(drv[d])
      /\ UNCHANGED <<given, run>>
  BY DEF Submit, RunInv
<1>2. /\ s \in Steps /\ s \in Nat /\ drv[d].rec.steps[s].phase = "submitting"
      /\ drv[d].back \in {"recover", "dispatch"}
  <2>1. /\ s \in Steps /\ drv[d].rec.steps[s].phase = "submitting"
        /\ drv[d].back \in {"recover", "dispatch"}
    BY <1>1 DEF LocalOK
  <2>. QED
    BY <2>1, StepsFinite
<1>3. run.steps[s].phase \notin Unsent
  BY <1>1, <1>2 DEF Behind, Unsent
<1>4. PICK new \in TaskStates, answer \in {"error", "task", "reconciliation"} :
         /\ task' = [task EXCEPT ![s] = new]
         /\ new = task[s] \/ task[s] = "none"
         /\ drv' = [drv EXCEPT ![d] = [Move(d, "submitted", s) EXCEPT !.answer = answer]]
  <2>1. task[s] \in TaskStates
    BY <1>2 DEF RunInv, TypeOK
  <2>2. PICK new \in Submitted(s, Stopped(drv[d].rec) \/ Blocked(drv[d].rec)) :
           /\ task' = [task EXCEPT ![s] = new]
           /\ \E answer \in {"error"} \cup
                 (IF new = "none" THEN {}
                  ELSE {IF new = "lost" THEN "reconciliation" ELSE "task"}) :
                 drv' = [drv EXCEPT ![d] = [Move(d, "submitted", s) EXCEPT !.answer = answer]]
    BY DEF Submit
  <2>3. new \in TaskStates /\ (new = task[s] \/ task[s] = "none")
    BY <2>1, <2>2 DEF Submitted, TaskStates, Ended
  <2>4. PICK answer \in {"error", "task", "reconciliation"} :
           drv' = [drv EXCEPT ![d] = [Move(d, "submitted", s) EXCEPT !.answer = answer]]
    BY <2>2
  <2>. QED
    BY <2>2, <2>3, <2>4
<1>. DEFINE v == [Move(d, "submitted", s) EXCEPT !.answer = answer]
<1>. HIDE DEF s
<1>5. /\ v \in Sweeps /\ v.rec = drv[d].rec /\ v.pc = "submitted" /\ v.at = s
      /\ v.back = drv[d].back /\ v.answer = answer
  <2>1. Move(d, "submitted", s) \in Sweeps
    BY <1>2, MoveType DEF Places
  <2>. QED
    BY <2>1, <1>2, MoveType DEF Places, Sweeps
<1>6. drv' = [drv EXCEPT ![d] = v]
  BY <1>4 DEF s
<1>. HIDE DEF v
<1>7. LocalOK(v) /\ Behind(v.rec)
  BY <1>1, <1>2, <1>5 DEF LocalOK
<1>8. drv' \in [Drivers -> Sweeps]
  BY <1>5, <1>6 DEF RunInv, TypeOK
<1>9. \A e \in Drivers : drv'[e].pc # "idle" => Behind(drv'[e].rec) /\ LocalOK(drv'[e])
  <2>1. \A e \in Drivers : drv'[e] = IF e = d THEN v ELSE drv[e]
    BY <1>6 DEF RunInv, TypeOK
  <2>. QED
    BY <2>1, <1>7 DEF RunInv
<1>10. CASE task[s] = "none"
  BY <1>1, <1>2, <1>3, <1>4, <1>8, <1>9, <1>10, TaskMoves DEF Ended, s
<1>11. CASE new = task[s]
  <2>1. task' = task
    BY <1>4, <1>2, <1>11 DEF RunInv, TypeOK, s
  <2>. QED
    BY <1>1, <1>5, <1>6, <1>7, <2>1, GoKeeps
<1>. QED
  BY <1>4, <1>10, <1>11 DEF s

LEMMA IdentifyKeeps ==
  ASSUME RunInv, NEW d \in Drivers, Identify(d)
  PROVE  RunInv'
<1>. DEFINE s == drv[d].at
            old == drv[d].rec.steps[s]
            f == Identified(old, drv[d].answer)
            new == With(d, s, f)
            go == [Move(d, drv[d].back, s + 1) EXCEPT !.back = "idle"]
            next == IF drv[d].back = "dispatch" /\ Blocked(new) THEN Idle ELSE go
<1>1. /\ drv[d].pc = "submitted" /\ Save(d, new, next) /\ UNCHANGED <<given, task>>
      /\ LocalOK(drv[d])
  BY DEF Identify, RunInv
<1>2. /\ s \in Steps /\ s + 1 \in Nat /\ old.phase = "submitting"
      /\ drv[d].back \in {"recover", "dispatch"}
      /\ drv[d].answer \in {"task", "reconciliation", "error"}
  <2>1. /\ s \in Steps /\ old.phase = "submitting" /\ drv[d].back \in {"recover", "dispatch"}
        /\ drv[d].answer \in {"task", "reconciliation", "error"}
    BY <1>1 DEF LocalOK
  <2>2. s \in Nat
    BY <2>1, StepsFinite
  <2>. QED
    BY <2>1, <2>2
<1>3. old \in StepState
  BY <1>2 DEF RunInv, TypeOK, Sweeps, Row
<1>4. /\ f \in StepState /\ f.phase \in {"routed", "unknown"} /\ f.artifact = old.artifact
      /\ f.phase = "routed" => f.id
  BY <1>2, <1>3 DEF Identified, StepState, Phases, Unsent, Final
<1>5. ASSUME drv[d].rec = run PROVE Follows(new)
  <2>. HIDE DEF f
  <2>1. Honest(f, task[s])
    BY <1>2, <1>4, <1>5 DEF RunInv, RowGood, Honest, Unsent, Final
  <2>. QED
    BY <1>2, <1>4, <1>5, <2>1, OneStepFollows DEF Unsent, Final
<1>6. go \in Sweeps /\ go.pc = drv[d].back
  <2>1. Move(d, drv[d].back, s + 1) \in Sweeps /\ Move(d, drv[d].back, s + 1).pc = drv[d].back
    BY <1>2, MoveType DEF Places
  <2>. QED
    BY <2>1 DEF Sweeps
<1>. HIDE DEF f, go
<1>7. next \in Sweeps
  BY <1>6, IdleSweeps
<1>8. ASSUME next.pc # "idle" PROVE LocalOK([next EXCEPT !.rec = Later(new)])
  <2>. DEFINE v == [next EXCEPT !.rec = Later(new)]
  <2>1. next = go /\ (drv[d].back = "dispatch" => ~Blocked(new))
    BY <1>8, IdleSweeps
  <2>2. v.pc = drv[d].back /\ v.rec = Later(new)
    BY <2>1, <1>6 DEF Sweeps
  <2>3. Blocked(Later(new)) = Blocked(new)
    <3>1. new \in Row
      BY <1>2, <1>4, WithType
    <3>2. Later(new).steps = new.steps
      BY <3>1, LaterGood
    <3>. QED
      BY <3>2 DEF Blocked, In
  <2>. HIDE DEF v, new
  <2>4. LocalOK(v)
    BY <2>1, <2>2, <2>3, <1>2 DEF LocalOK
  <2>. QED
    BY <2>4 DEF v
<1>. HIDE DEF new, next
<1>. QED
  BY <1>1, <1>5, <1>7, <1>8, SaveKeeps

\* The step that a loop over the tracked ones stops at.
LEMMA TrackedNext ==
  ASSUME RunInv, NEW d \in Drivers, ~Done(d, Tracked(drv[d].rec))
  PROVE  LET s == NextOf(d, Tracked(drv[d].rec)) IN
         /\ s \in Steps /\ s \in Nat
         /\ drv[d].rec.steps[s].phase \in {"routed", "unknown"}
         /\ drv[d].rec.steps[s].id
<1>1. Tracked(drv[d].rec) \in SUBSET Steps
  BY DEF Tracked, In
<1>2. drv[d].at \in Nat
  BY DEF RunInv, TypeOK, Sweeps
<1>3. NextOf(d, Tracked(drv[d].rec)) \in Tracked(drv[d].rec)
  BY <1>1, <1>2, NextIsStep
<1>4. NextOf(d, Tracked(drv[d].rec)) \in Nat
  BY <1>1, <1>3, StepsFinite
<1>. QED
  BY <1>1, <1>3, <1>4 DEF Tracked, In

\* A sweep goes to look at the task of a step that its copy tracks.
LEMMA LookKeeps ==
  ASSUME RunInv, NEW d \in Drivers, drv[d].pc # "idle",
         NEW s \in Steps, drv[d].rec.steps[s].phase \in {"routed", "unknown"},
         drv[d].rec.steps[s].id, NEW place \in {"cancel", "get"}, Goto(d, place, s),
         UNCHANGED <<given, run, task>>
  PROVE  RunInv'
<1>. DEFINE v == Move(d, place, s)
<1>1. s \in Nat /\ place \in Places
  BY StepsFinite DEF Places
<1>2. v \in Sweeps /\ v.pc = place /\ v.at = s /\ v.rec = drv[d].rec
  BY <1>1, MoveType
<1>3. drv' = [drv EXCEPT ![d] = v]
  BY DEF Goto
<1>. HIDE DEF v
<1>4. LocalOK(v)
  BY <1>2, AtTask
<1>. QED
  BY <1>2, <1>3, <1>4, GoKeeps

\* A tracked step is saved with its phase, ID and artifact, and its task looked at.
LEMMA NoteKeeps ==
  ASSUME RunInv, NEW d \in Drivers, drv[d].pc # "idle",
         NEW s \in Steps, NEW f \in StepState,
         LET old == drv[d].rec.steps[s] IN
            /\ old.phase \in {"routed", "unknown"} /\ old.id
            /\ f.phase = old.phase /\ f.id = old.id /\ f.artifact = old.artifact,
         NEW place \in {"cancel", "get"}, Save(d, With(d, s, f), Move(d, place, s)),
         UNCHANGED <<given, task>>
  PROVE  RunInv'
<1>. DEFINE new == With(d, s, f)
            next == Move(d, place, s)
            v == [next EXCEPT !.rec = Later(new)]
<1>1. s \in Nat /\ place \in Places
  BY StepsFinite DEF Places
<1>2. next \in Sweeps /\ next.pc = place /\ next.at = s
  BY <1>1, MoveType
<1>3. ASSUME drv[d].rec = run PROVE Follows(new)
  <2>1. Honest(f, task[s])
    BY <1>3 DEF RunInv, RowGood, Honest, Unsent, Final
  <2>. QED
    BY <1>3, <2>1, OneStepFollows DEF Unsent, Final
<1>4. Later(new).steps[s] = f
  BY WithType
<1>. HIDE DEF new, next
<1>5. v.pc = place /\ v.at = s /\ v.rec = Later(new)
  BY <1>2 DEF Sweeps
<1>. HIDE DEF v
<1>6. LocalOK(v)
  BY <1>4, <1>5, AtTask
<1>. QED
  BY <1>2, <1>3, <1>6, SaveKeeps DEF v, new, next

LEMMA PollKeeps ==
  ASSUME RunInv, NEW d \in Drivers, Poll(d)
  PROVE  RunInv'
<1>. DEFINE r == drv[d].rec
            s == NextOf(d, Tracked(r))
            f == [r.steps[s] EXCEPT !.intent = TRUE]
<1>1. drv[d].pc # "idle" /\ UNCHANGED <<given, task>>
  BY DEF Poll
<1>2. CASE Done(d, Tracked(r))
  <2>1. Goto(d, "stop", 1) /\ run' = run
    BY <1>2 DEF Poll
  <2>. QED
    BY <2>1, <1>1, GotoPlain DEF Plain
<1>3. CASE ~Done(d, Tracked(r))
  <2>1. /\ s \in Steps /\ r.steps[s].phase \in {"routed", "unknown"} /\ r.steps[s].id
    BY <1>3, TrackedNext
  <2>2. \/ Goto(d, "get", s) /\ run' = run
        \/ Goto(d, "cancel", s) /\ run' = run
        \/ Save(d, With(d, s, f), Move(d, "cancel", s))
    BY <1>3 DEF Poll
  <2>. HIDE DEF s
  <2>3. CASE Goto(d, "get", s) /\ run' = run
    BY <1>1, <2>1, <2>3, LookKeeps
  <2>4. CASE Goto(d, "cancel", s) /\ run' = run
    BY <1>1, <2>1, <2>4, LookKeeps
  <2>5. CASE Save(d, With(d, s, f), Move(d, "cancel", s))
    <3>1. r.steps[s] \in StepState
      BY <2>1 DEF RunInv, TypeOK, Sweeps, Row
    <3>2. /\ f \in StepState /\ f.phase = r.steps[s].phase /\ f.id = r.steps[s].id
          /\ f.artifact = r.steps[s].artifact
      BY <3>1 DEF StepState
    <3>. HIDE DEF f
    <3>. QED
      BY <1>1, <2>1, <2>5, <3>2, NoteKeeps
  <2>. QED
    BY <2>2, <2>3, <2>4, <2>5
<1>. QED
  BY <1>2, <1>3

LEMMA CancelTaskKeeps ==
  ASSUME RunInv, NEW d \in Drivers, CancelTask(d)
  PROVE  RunInv'
<1>. DEFINE s == drv[d].at
<1>1. /\ drv[d].pc = "cancel" /\ UNCHANGED <<given, run, task>> /\ LocalOK(drv[d])
  BY DEF CancelTask, RunInv
<1>2. PICK answer \in {"ok", "error"} :
         drv' = [drv EXCEPT ![d] = [Move(d, "cancelled", s) EXCEPT !.answer = answer]]
  BY DEF CancelTask
<1>. DEFINE v == [Move(d, "cancelled", s) EXCEPT !.answer = answer]
<1>3. /\ s \in Steps /\ drv[d].rec.steps[s].phase \in {"routed", "unknown"}
      /\ drv[d].rec.steps[s].id
  BY <1>1 DEF LocalOK
<1>4. /\ v \in Sweeps /\ v.pc = "cancelled" /\ v.at = s /\ v.rec = drv[d].rec
  <2>1. s \in Nat
    BY <1>3, StepsFinite
  <2>2. Move(d, "cancelled", s) \in Sweeps
    BY <2>1, MoveType DEF Places
  <2>. QED
    BY <2>1, <2>2, MoveType DEF Places, Sweeps
<1>. HIDE DEF v, s
<1>5. LocalOK(v)
  BY <1>3, <1>4, AtTask
<1>. QED
  BY <1>1, <1>2, <1>4, <1>5, GoKeeps DEF v

LEMMA RecordCancelKeeps ==
  ASSUME RunInv, NEW d \in Drivers, RecordCancel(d)
  PROVE  RunInv'
<1>. DEFINE s == drv[d].at
            old == drv[d].rec.steps[s]
            f == [old EXCEPT !.sent = TRUE, !.acked = (drv[d].answer = "ok")]
<1>1. /\ drv[d].pc = "cancelled" /\ UNCHANGED <<given, task>> /\ LocalOK(drv[d])
      /\ \/ Save(d, With(d, s, f), Move(d, "get", s))
         \/ Goto(d, "get", s) /\ run' = run
  BY DEF RecordCancel, RunInv
<1>2. s \in Steps /\ old.phase \in {"routed", "unknown"} /\ old.id
  BY <1>1 DEF LocalOK
<1>3. old \in StepState
  BY <1>2 DEF RunInv, TypeOK, Sweeps, Row
<1>4. f \in StepState /\ f.phase = old.phase /\ f.id = old.id /\ f.artifact = old.artifact
  BY <1>3 DEF StepState
<1>. HIDE DEF f, s
<1>5. CASE Save(d, With(d, s, f), Move(d, "get", s))
  BY <1>1, <1>2, <1>4, <1>5, NoteKeeps
<1>6. CASE Goto(d, "get", s) /\ run' = run
  BY <1>1, <1>2, <1>6, LookKeeps
<1>. QED
  BY <1>1, <1>5, <1>6 DEF f, s

LEMMA GetTaskKeeps ==
  ASSUME RunInv, NEW d \in Drivers, GetTask(d)
  PROVE  RunInv'
<1>. DEFINE s == drv[d].at
<1>1. /\ drv[d].pc = "get" /\ UNCHANGED <<given, run, task>> /\ LocalOK(drv[d])
  BY DEF GetTask, RunInv
<1>2. PICK answer \in {task[s], "error"} :
         drv' = [drv EXCEPT ![d] = [Move(d, "got", s) EXCEPT !.answer = answer]]
  BY DEF GetTask
<1>. DEFINE v == [Move(d, "got", s) EXCEPT !.answer = answer]
<1>3. /\ s \in Steps /\ drv[d].rec.steps[s].phase \in {"routed", "unknown"}
      /\ drv[d].rec.steps[s].id
  BY <1>1 DEF LocalOK
<1>4. v \in Sweeps /\ v.pc = "got" /\ v.at = s /\ v.rec = drv[d].rec /\ v.answer = answer
  <2>1. s \in Nat /\ task[s] \in TaskStates
    BY <1>3, StepsFinite DEF RunInv, TypeOK
  <2>2. Move(d, "got", s) \in Sweeps
    BY <2>1, MoveType DEF Places
  <2>. QED
    BY <2>1, <2>2, MoveType DEF Places, Sweeps
<1>. HIDE DEF v, s
<1>5. LocalOK(v)
  BY <1>2, <1>3, <1>4 DEF LocalOK, Ended
<1>. QED
  BY <1>1, <1>2, <1>4, <1>5, GoKeeps DEF v

LEMMA ObserveKeeps ==
  ASSUME RunInv, NEW d \in Drivers, Observe(d)
  PROVE  RunInv'
<1>. DEFINE s == drv[d].at
            old == drv[d].rec.steps[s]
            f == Observed(old, drv[d].answer, s \notin tampered)
            next == [Move(d, "poll", s + 1) EXCEPT !.observed = TRUE]
<1>1. /\ drv[d].pc = "got" /\ UNCHANGED <<given, task>> /\ LocalOK(drv[d])
      /\ \/ Save(d, With(d, s, f), next)
         \/ Goto(d, "poll", s + 1) /\ run' = run
  BY DEF Observe, RunInv
<1>2. /\ s \in Steps /\ s + 1 \in Nat /\ old.phase \in {"routed", "unknown"} /\ old.id
      /\ drv[d].answer \in Ended => task[s] = drv[d].answer
  <2>1. /\ s \in Steps /\ old.phase \in {"routed", "unknown"} /\ old.id
        /\ drv[d].answer \in Ended => task[s] = drv[d].answer
    BY <1>1 DEF LocalOK
  <2>2. s \in Nat
    BY <2>1, StepsFinite
  <2>. QED
    BY <2>1, <2>2
<1>3. CASE Save(d, With(d, s, f), next)
  <2>1. old \in StepState
    BY <1>2 DEF RunInv, TypeOK, Sweeps, Row
  <2>2. /\ f \in StepState /\ f.phase \notin Unsent /\ f.id = old.id
        /\ f.artifact = (old.artifact \/ f.phase = "verified")
        /\ f.phase = "verified" => drv[d].answer = "completed"
        /\ f.phase \in Final => drv[d].answer \in Ended
    BY <1>2, <2>1 DEF Observed, StepState, Phases, Unsent, Final, Ended
  <2>3. ASSUME drv[d].rec = run PROVE Follows(With(d, s, f))
    <3>. HIDE DEF f
    <3>1. Honest(old, task[s])
      BY <1>2, <2>3 DEF RunInv, RowGood
    <3>2. Honest(f, task[s])
      BY <1>2, <2>2, <3>1 DEF Honest, Ended
    <3>. QED
      BY <1>2, <2>2, <2>3, <3>2, OneStepFollows DEF Unsent, Final
  <2>4. next \in Sweeps /\ next.pc \in Plain
    <3>1. Move(d, "poll", s + 1) \in Sweeps /\ Move(d, "poll", s + 1).pc = "poll"
      BY <1>2, MoveType DEF Places
    <3>. QED
      BY <3>1 DEF Sweeps, Plain
  <2>. HIDE DEF f, s, next
  <2>. QED
    BY <1>1, <1>3, <2>3, <2>4, SavePlain
<1>4. CASE Goto(d, "poll", s + 1) /\ run' = run
  BY <1>1, <1>2, <1>4, GotoPlain DEF Plain
<1>. QED
  BY <1>1, <1>3, <1>4

LEMMA StopKeeps ==
  ASSUME RunInv, NEW d \in Drivers, Stop(d)
  PROVE  RunInv'
<1>. DEFINE r == drv[d].rec
            new == [r EXCEPT !.steps = [s \in Steps |->
                       IF @[s].phase = "pending" THEN [@[s] EXCEPT !.phase = "skipped"]
                       ELSE @[s]]]
<1>1. /\ drv[d].pc = "stop" /\ UNCHANGED <<given, task>>
      /\ \/ Return(d) /\ run' = run
         \/ Save(d, new, Idle)
         \/ ~Blocked(r) /\ Goto(d, "dispatch", 1) /\ run' = run
  BY DEF Stop
<1>2. CASE Return(d) /\ run' = run
  BY <1>1, <1>2, ReturnKeeps
<1>3. CASE Save(d, new, Idle)
  <2>1. ASSUME r = run PROVE Follows(new)
    <3>1. r \in Row
      BY DEF RunInv, TypeOK, Sweeps
    <3>2. \A s \in Steps : new.steps[s] =
             IF r.steps[s].phase = "pending" THEN [r.steps[s] EXCEPT !.phase = "skipped"]
             ELSE r.steps[s]
      BY <3>1 DEF Row
    <3>3. \A s \in Steps :
             /\ new.steps[s] \in StepState
             /\ new.steps[s].phase \in Unsent <=> r.steps[s].phase \in Unsent
             /\ new.steps[s].phase \notin Unsent => new.steps[s] = r.steps[s]
             /\ new.steps[s].id = r.steps[s].id
             /\ new.steps[s].artifact = r.steps[s].artifact
             /\ new.steps[s].envelope = r.steps[s].envelope
      BY <3>1, <3>2 DEF Row, StepState, Phases, Unsent
    <3>4. new \in Row /\ new.version = r.version
      BY <3>1, <3>3 DEF Row
    <3>. HIDE DEF new
    <3>5. InFlight(new) \subseteq InFlight(run)
      BY <2>1, <3>3 DEF InFlight, In, Unsent
    <3>6. Loads(new)
      BY <2>1, <3>3 DEF RunInv, RowGood, Loads, Unsent, TypeOK
    <3>7. \A s \in Steps : Honest(new.steps[s], task[s])
      BY <2>1, <3>3 DEF RunInv, RowGood, Honest, Unsent, Final
    <3>. QED
      BY <2>1, <3>3, <3>4, <3>5, <3>6, <3>7, FewerInFlight DEF Follows, RowGood
  <2>. HIDE DEF new
  <2>. QED
    BY <1>1, <1>3, <2>1, IdleSweeps, SavePlain
<1>4. CASE ~Blocked(r) /\ Goto(d, "dispatch", 1) /\ run' = run
  <2>. DEFINE v == Move(d, "dispatch", 1)
  <2>1. v \in Sweeps /\ v.pc = "dispatch" /\ v.rec = r
    BY MoveType DEF Places
  <2>2. drv' = [drv EXCEPT ![d] = v]
    BY <1>4 DEF Goto
  <2>. HIDE DEF v
  <2>3. LocalOK(v)
    BY <1>4, <2>1 DEF LocalOK
  <2>. QED
    BY <1>1, <1>4, <2>1, <2>2, <2>3, GoKeeps
<1>. QED
  BY <1>1, <1>2, <1>3, <1>4

\* A ready step joins those in flight, of which there is room for one more: without a
\* blocked step they are the active ones.
LEMMA DispatchFollows ==
  ASSUME RunInv, NEW d \in Drivers, drv[d].rec = run, NEW s \in Ready(run),
         ~Blocked(run), ~(Cardinality(Active(run)) >= MaxConcurrency)
  PROVE  Follows(With(d, s, [run.steps[s] EXCEPT !.phase = "submitting"]))
<1>. DEFINE f == [run.steps[s] EXCEPT !.phase = "submitting"]
            new == With(d, s, f)
<1>1. /\ s \in Steps /\ run.steps[s].phase = "pending" /\ deps[s] \subseteq Steps
      /\ \A p \in deps[s] : run.steps[p].phase = "verified"
  BY DEF Ready, In, RunInv, TypeOK
<1>2. /\ f \in StepState /\ f.phase = "submitting" /\ f.id = run.steps[s].id
      /\ f.artifact = run.steps[s].artifact
  BY <1>1 DEF RunInv, TypeOK, Row, StepState, Phases
<1>. HIDE DEF f
<1>3. new \in Row /\ new.version = run.version /\ new.steps = [run.steps EXCEPT ![s] = f]
  BY <1>1, <1>2, WithType
<1>. HIDE DEF new
<1>4. new.steps[s] = f /\ \A q \in Steps \ {s} : new.steps[q] = run.steps[q]
  BY <1>1, <1>3 DEF RunInv, TypeOK, Row
<1>5. run.steps[s].artifact = FALSE /\ \A p \in deps[s] : run.steps[p].artifact
  BY <1>1 DEF RunInv, RowGood, Loads, TypeOK, Row, StepState
<1>6. Loads(new)
  <2>1. \A q \in Steps : run.steps[q].artifact => new.steps[q].artifact
    BY <1>2, <1>4, <1>5
  <2>. QED
    BY <1>1, <1>2, <1>4, <1>5, <2>1 DEF RunInv, RowGood, Loads, TypeOK
<1>7. \A q \in Steps : Honest(new.steps[q], task[q])
  BY <1>2, <1>4, <1>5 DEF RunInv, RowGood, Honest, Unsent, Final
<1>8. Cardinality(InFlight(new)) <= MaxConcurrency
  <2>1. InFlight(run) = Active(run)
    BY DEF InFlight, Active, In, Blocked
  <2>2. InFlight(new) \subseteq Active(run) \cup {s}
    BY <1>4, <2>1 DEF InFlight, In
  <2>3. IsFiniteSet(Active(run))
    BY StepsFinite, FS_Subset, InIsSteps DEF Active
  <2>4. /\ IsFiniteSet(Active(run) \cup {s})
        /\ Cardinality(Active(run)) \in Nat
        /\ Cardinality(Active(run) \cup {s}) <= Cardinality(Active(run)) + 1
    <3>. DEFINE A == Active(run)
    <3>1. IsFiniteSet(A)
      BY <2>3
    <3>. HIDE DEF A
    <3>2. Cardinality(A) \in Nat
      BY <3>1, FS_CardinalityType
    <3>3. /\ IsFiniteSet(A \cup {s})
          /\ Cardinality(A \cup {s}) = Cardinality(A) \/ Cardinality(A \cup {s}) = Cardinality(A) + 1
      BY <3>1, FS_AddElement
    <3>4. Cardinality(A \cup {s}) <= Cardinality(A) + 1
      BY <3>2, <3>3
    <3>. QED
      BY <3>2, <3>3, <3>4 DEF A
  <2>5. /\ Cardinality(InFlight(new)) \in Nat
        /\ Cardinality(Active(run) \cup {s}) \in Nat
        /\ Cardinality(InFlight(new)) <= Cardinality(Active(run) \cup {s})
    BY <2>2, <2>4, FS_Subset, FS_CardinalityType
  <2>6. MaxConcurrency \in Nat
    BY RunBounds
  <2>. QED
    BY <2>4, <2>5, <2>6
<1>9. \A q \in Steps : run.steps[q].phase \notin Unsent => new.steps[q].phase \notin Unsent
  BY <1>2, <1>4 DEF Unsent
<1>. QED
  BY <1>3, <1>6, <1>7, <1>8, <1>9 DEF Follows, RowGood, new, f

\* Journalling the dispatch of a ready step keeps the invariant ...
LEMMA DispatchSaves ==
  ASSUME RunInv, NEW d \in Drivers, NEW s \in Ready(drv[d].rec), UNCHANGED <<given, task>>,
         ~Blocked(drv[d].rec), ~(Cardinality(Active(drv[d].rec)) >= MaxConcurrency),
         drv[d].pc = "dispatch",
         NEW f, f = [drv[d].rec.steps[s] EXCEPT !.phase = "submitting"],
         Save(d, With(d, s, f), [Move(d, "submit", s) EXCEPT !.back = "dispatch"])
  PROVE  RunInv'
<1>. DEFINE r == drv[d].rec
            m == Move(d, "submit", s)
            new == With(d, s, f)
            next == [m EXCEPT !.back = "dispatch"]
<1>1. s \in Steps
  BY DEF Ready, In
<1>2. s \in Nat
  BY <1>1, StepsFinite
<1>3. f \in StepState /\ f.phase = "submitting"
  <2>1. drv[d] \in Sweeps
    BY DEF RunInv, TypeOK
  <2>2. r.steps[s] \in StepState
    BY <1>1, <2>1 DEF Sweeps, Row
  <2>. QED
    BY <2>2 DEF StepState, Phases
<1>4. ASSUME r = run PROVE Follows(new)
  BY <1>4, DispatchFollows
<1>5. m \in Sweeps /\ m.pc = "submit" /\ m.at = s
  BY <1>2, MoveType DEF Places
<1>6. Save(d, new, next)
  OBVIOUS
<1>. HIDE DEF m
<1>7. /\ next \in Sweeps /\ next.pc = "submit" /\ next.at = s /\ next.back = "dispatch"
  BY <1>5 DEF Sweeps
<1>8. Later(new).steps[s] = f
  <2>1. r \in Row
    BY DEF RunInv, TypeOK, Sweeps
  <2>2. new \in Row /\ new.steps[s] = f
    BY <1>1, <1>3, <2>1 DEF With, Row
  <2>. HIDE DEF new
  <2>. QED
    BY <2>2 DEF Later, Row
<1>9. LocalOK([next EXCEPT !.rec = Later(new)])
  <2>. HIDE DEF new, next
  <2>. DEFINE v == [next EXCEPT !.rec = Later(new)]
  <2>1. v.pc = "submit" /\ v.at = s /\ v.back = "dispatch" /\ v.rec = Later(new)
    BY <1>7 DEF Sweeps
  <2>. HIDE DEF v
  <2>2. LocalOK(v)
    BY <1>1, <1>3, <1>8, <2>1 DEF LocalOK
  <2>. QED
    BY <2>2 DEF v
<1>. HIDE DEF new, next
<1>. QED
  BY <1>4, <1>6, <1>7, <1>9, SaveKeeps

\* ... and dispatch picks such a step, or ends the sweep.
LEMMA DispatchKeeps ==
  ASSUME RunInv, NEW d \in Drivers, Dispatch(d)
  PROVE  RunInv'
<1>. DEFINE r == drv[d].rec
            s == NextOf(d, Ready(r))
<1>1. drv[d].pc = "dispatch" /\ UNCHANGED <<given, task>> /\ ~Blocked(r)
  BY DEF Dispatch, RunInv, LocalOK
<1>2. CASE Return(d) /\ run' = run
  BY <1>1, <1>2, ReturnKeeps
<1>3. CASE /\ ~(Cardinality(Active(r)) >= MaxConcurrency) /\ ~Done(d, Ready(r))
           /\ Save(d, With(d, s, [r.steps[s] EXCEPT !.phase = "submitting"]),
                   [Move(d, "submit", s) EXCEPT !.back = "dispatch"])
  <2>1. s \in Ready(r)
    <3>1. Ready(r) \in SUBSET Steps
      BY DEF Ready, In
    <3>2. drv[d].at \in Nat
      BY DEF RunInv, TypeOK, Sweeps
    <3>. QED
      BY <1>3, <3>1, <3>2, NextIsStep
  <2>. QED
    BY <1>1, <1>3, <2>1, DispatchSaves
<1>4. \/ Return(d) /\ run' = run
      \/ /\ ~(Cardinality(Active(r)) >= MaxConcurrency) /\ ~Done(d, Ready(r))
         /\ Save(d, With(d, s, [r.steps[s] EXCEPT !.phase = "submitting"]),
                 [Move(d, "submit", s) EXCEPT !.back = "dispatch"])
  BY DEF Dispatch
<1>. QED
  BY <1>2, <1>3, <1>4

\* The caller's cancel writes the row beside every sweep.
LEMMA RequestCancelKeeps ==
  ASSUME RunInv, RequestCancel
  PROVE  RunInv'
<1>. DEFINE new == [run EXCEPT !.cancel = TRUE]
<1>1. run \in Row
  BY DEF RunInv, TypeOK
<1>2. new \in Row /\ new.steps = run.steps /\ new.version = run.version
  BY <1>1 DEF Row
<1>3. run' = Later(new) /\ UNCHANGED <<given, drv, task>>
  BY <1>1 DEF RequestCancel, Later, Row
<1>. HIDE DEF new
<1>4. Follows(new)
  BY <1>2, SameStepsFollow
<1>5. Later(new) \in Row /\ RowGood(Later(new))
  BY <1>4, LaterGood DEF Follows
<1>6. TypeOK'
  BY <1>3, <1>5 DEF RunInv, TypeOK, given
<1>7. RowGood(run)'
  BY <1>3, <1>5 DEF RowGood, Loads, InFlight, In, given
<1>8. ASSUME NEW d \in Drivers, drv'[d].pc # "idle"
      PROVE  (Behind(drv[d].rec) /\ LocalOK(drv[d]))'
  <2>1. drv'[d] = drv[d] /\ Behind(drv[d].rec) /\ LocalOK(drv[d]) /\ drv[d].rec \in Row
    BY <1>3, <1>8 DEF RunInv, TypeOK, Sweeps
  <2>2. Behind(drv[d].rec)'
    BY <1>3, <1>4, <2>1, RowMoves
  <2>. QED
    BY <1>3, <2>1, <2>2 DEF LocalOK, Blocked, In
<1>. QED
  BY <1>6, <1>7, <1>8 DEF RunInv

LEMMA TaskStepKeeps ==
  ASSUME RunInv, NEW s \in Steps, TaskEnds(s) \/ TaskFound(s)
  PROVE  RunInv'
<1>1. PICK t \in TaskStates : task' = [task EXCEPT ![s] = t]
  BY DEF TaskEnds, TaskFound, TaskStates, Ended
<1>2. task[s] \in {"running", "lost"} /\ UNCHANGED <<given, run, drv>>
  BY DEF TaskEnds, TaskFound
<1>3. run.steps[s].phase \notin Unsent
  BY <1>2 DEF RunInv, RowGood, Honest
<1>. QED
  BY <1>1, <1>2, <1>3, TaskMoves DEF RunInv, TypeOK, Ended

LEMMA StutterKeeps ==
  ASSUME RunInv, UNCHANGED <<given, run, drv, task>>
  PROVE  RunInv'
  BY DEF RunInv, TypeOK, RowGood, Loads, InFlight, In, Behind, LocalOK, Blocked, given

LEMMA NextKeeps ==
  ASSUME RunInv, [Next]_vars
  PROVE  RunInv'
<1>1. ASSUME NEW d \in world.drivers, Resume(d) \/ Sweep(d) \/ Crash(d)
      PROVE  RunInv'
  <2>1. d \in Drivers
    BY RunBounds DEF RunInv, TypeOK
  <2>2. CASE Resume(d)
    BY <2>1, <2>2, ResumeKeeps
  <2>3. CASE Sweep(d)
    BY <2>1, <2>3, ObserveDeadlineKeeps, ReverifyKeeps, RecoverKeeps, SubmitKeeps,
       IdentifyKeeps, PollKeeps, CancelTaskKeeps, RecordCancelKeeps, GetTaskKeeps,
       ObserveKeeps, StopKeeps, DispatchKeeps DEF Sweep
  <2>4. CASE Crash(d)
    BY <2>1, <2>4, ReturnKeeps DEF Crash
  <2>. QED
    BY <1>1, <2>2, <2>3, <2>4
<1>2. ASSUME NEW s \in Steps, TaskEnds(s) \/ TaskFound(s)
      PROVE  RunInv'
  BY <1>2, TaskStepKeeps
<1>3. ASSUME NEW s \in Steps, Tamper(s)
      PROVE  RunInv'
  BY <1>3, StutterKeeps DEF Tamper
<1>4. CASE RequestCancel
  BY <1>4, RequestCancelKeeps
<1>5. CASE DeadlinePasses
  BY <1>5, StutterKeeps DEF DeadlinePasses
<1>6. CASE UNCHANGED vars
  BY <1>6, StutterKeeps DEF vars
<1>. QED
  BY <1>1, <1>2, <1>3, <1>4, <1>5, <1>6 DEF Next

-----------------------------------------------------------------------------
LEMMA InvDispatch == RunInv => DispatchJournalled
<1>. SUFFICES ASSUME RunInv PROVE DispatchJournalled
  OBVIOUS
<1>1. ASSUME NEW s \in Created, NEW p \in deps[s]
      PROVE  run.steps[p].artifact /\ task[p] = "completed"
  BY DEF RunInv, TypeOK, RowGood, Loads, Honest, Unsent, Created
<1>2. \A s \in Created : run.steps[s].phase \notin {"pending", "skipped"}
  BY DEF RunInv, RowGood, Honest, Unsent, Created
<1>. QED
  BY <1>1, <1>2 DEF DispatchJournalled

LEMMA InvInFlight == RunInv => InFlightBounded
<1>. SUFFICES ASSUME RunInv PROVE InFlightBounded
  OBVIOUS
<1>. DEFINE U == {s \in Steps : task[s] \in {"running", "lost"}}
<1>1. U \subseteq InFlight(run)
  BY DEF RunInv, TypeOK, Row, StepState, Phases, RowGood, Honest, Ended, Unsent, Final, InFlight, In
<1>2. IsFiniteSet(InFlight(run))
  BY StepsFinite, FS_Subset, InIsSteps DEF InFlight
<1>3. /\ Cardinality(U) \in Nat /\ Cardinality(InFlight(run)) \in Nat
      /\ Cardinality(U) <= Cardinality(InFlight(run))
  BY <1>1, <1>2, FS_Subset, FS_CardinalityType
<1>. QED
  BY <1>3, RunBounds DEF InFlightBounded, RunInv, RowGood

LEMMA InvStatus == RunInv => StatusHonest
<1>. SUFFICES ASSUME RunInv PROVE StatusHonest
  OBVIOUS
<1>1. ASSUME Status(run) \notin {"in_progress", "reconciliation_required"}, NEW s \in Steps
      PROVE  task[s] \notin {"running", "lost"}
  <2>1. Active(run) = {} /\ In(run, {"unknown"}) = {}
    <3>1. Active(run) # {} => Status(run) = "in_progress"
      BY DEF Status
    <3>2. Active(run) = {} /\ In(run, {"unknown"}) # {}
          => Status(run) = "reconciliation_required"
      BY DEF Status
    <3>. QED
      BY <1>1, <3>1, <3>2
  <2>2. run.steps[s].phase \in Unsent \cup Final
    BY <2>1 DEF Active, In, RunInv, TypeOK, Row, StepState, Phases
  <2>. QED
    BY <2>2 DEF RunInv, RowGood, Honest, Ended
<1>2. ASSUME Status(run) = "verified", NEW s \in Steps
      PROVE  task[s] = "completed"
  <2>1. run.steps[s].phase = "verified"
    BY <1>2 DEF Status, In
  <2>. QED
    BY <2>1 DEF RunInv, RowGood, Loads, Honest
<1>. QED
  BY <1>1, <1>2 DEF StatusHonest

\* The inductive invariant, from which the four properties follow.
THEOREM RunInvariant == Spec => []RunInv
<1>. QED
  BY InitRunInv, NextKeeps, PTL DEF Spec

\* A task exists only for a step that the row says was sent, and whose predecessors were
\* verified complete, whatever crashes, races and fails between the journal and the task.
THEOREM SubmitsWhatIsJournalled == Spec => []DispatchJournalled
  BY RunInvariant, InvDispatch, PTL

\* No number of processes dispatches more than max_concurrency tasks between them.
THEOREM BoundedInFlight == Spec => []InFlightBounded
  BY RunInvariant, InvInFlight, PTL

\* Whatever fails in a sweep, the next one can read the row.
THEOREM AlwaysLoads == Spec => []RowLoads
<1>1. RunInv => RowLoads
  BY DEF RunInv, RowGood, RowLoads
<1>. QED
  BY <1>1, RunInvariant, PTL

\* A status that is not about work under way or in doubt hides no such task.
THEOREM HonestStatus == Spec => []StatusHonest
  BY RunInvariant, InvStatus, PTL
=============================================================================
