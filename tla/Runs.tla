-------------------------------- MODULE Runs --------------------------------
(***************************************************************************)
(* Durable runs (runs.rs and run.rs): a caller's plan, a graph of steps,   *)
(* is journalled in SQLite and driven by explicit sweeps, each of which    *)
(* recovers, polls, verifies and dispatches durable tasks.                 *)
(*                                                                         *)
(* One run is modelled.  `run' is its row, `drv[d]' the sweep of a gateway *)
(* process: `rec' is its copy of the row, `at' the step its loop is at.    *)
(* A step of a sweep is what happens between two awaits or two database    *)
(* transactions.  `task' is the task service behind the run, as TaskProxy  *)
(* keeps it under a step's stable key: at most one task per step, whose    *)
(* acceptance may be ambiguous ("lost") and whose answers may be lost.     *)
(*                                                                         *)
(* A document is kept by what a sweep tests: a phase and which fields are  *)
(* set.  Diagnostics are wording, and a save that changes nothing else is  *)
(* left out; an envelope equals the last one.  Both only spend versions.   *)
(***************************************************************************)
EXTENDS Integers, FiniteSets, FiniteSetsExt

CONSTANTS
    N,              \* number of steps, numbered in the order of the plan
    MaxConcurrency, \* max_concurrency of the plan
    Drivers,        \* gateway processes that share the database
    MaxVersion,     \* the last version the journal admits (512)
    Worlds          \* bound: which processes there are, how many artifacts may be
                    \* altered after the fact, and whether the deadline may pass

ASSUME RunBounds ==
    /\ {N, MaxConcurrency} \subseteq Nat \ {0}
    /\ MaxVersion \in Nat
    /\ Worlds \subseteq [drivers : SUBSET Drivers, tampered : Nat, expires : BOOLEAN]

VARIABLES
    world,      \* the surroundings of this behaviour: one of Worlds
    deps,       \* depends_on of every step
    run,        \* the row of the run
    drv,        \* drv[d]: a process's sweep
    task,       \* task[s]: the durable task of step s
    asked,      \* the steps whose task was asked to stop
    tampered,   \* the steps whose artifact is no longer what was verified
    past        \* whether the deadline has passed

given == <<world, deps>>
vars == <<given, run, drv, task, asked, tampered, past>>

Steps == 1 .. N

-----------------------------------------------------------------------------
(* The plan                                                                *)

\* validate: passes over the steps add those whose predecessors were visited; N
\* passes are enough to stop growing, and a cycle is what stays out.
Visited(graph) ==
    LET visit[k \in 0 .. N * N] ==
            IF k = 0 THEN {}
            ELSE LET s == ((k - 1) % N) + 1 IN
                 IF graph[s] \subseteq visit[k - 1]
                 THEN visit[k - 1] \cup {s} ELSE visit[k - 1]
    IN  visit[N * N]

ValidPlan(graph) ==
    /\ \A s \in Steps : s \notin graph[s]
    /\ Visited(graph) = Steps

-----------------------------------------------------------------------------
(* The row                                                                 *)

\* StepState.  `id' is task_id, `artifact' verified_artifact, and `envelope' whether
\* `terminal' is a reconciliation envelope.
Fresh ==
    [phase |-> "pending", id |-> FALSE, artifact |-> FALSE, envelope |-> FALSE,
     intent |-> FALSE, sent |-> FALSE, acked |-> FALSE]

Accepted ==
    [version |-> 0, cancel |-> FALSE, late |-> FALSE, steps |-> [s \in Steps |-> Fresh]]

In(r, phases) == {s \in Steps : r.steps[s].phase \in phases}

Active(r) == In(r, {"submitting", "routed"})

\* Mutant: an unknown outcome does not stop the run.
BlocksIfFailed(r) == In(r, {"failed", "cancelled"}) # {}

Blocked(r) == In(r, {"failed", "unknown", "cancelled"}) # {}

Stopped(r) == r.cancel \/ r.late

\* summary
Status(r) ==
    IF Active(r) # {} THEN "in_progress"
    ELSE IF In(r, {"unknown"}) # {} THEN "reconciliation_required"
    ELSE IF In(r, {"verified"}) = Steps THEN "verified"
    ELSE IF r.cancel THEN "cancelled_or_stopped"
    ELSE IF r.late THEN "deadline_exceeded"
    ELSE IF Blocked(r) THEN "failed"
    ELSE "ready"

\* state_from: what a row must hold to be read back; inputs come from predecessors.
Loads(r) ==
    \A s \in Steps :
        LET it == r.steps[s] IN
        /\ it.phase \in {"routed", "verified", "cancelled"} => it.id
        /\ it.phase = "verified" => it.artifact
        /\ IF it.phase \in {"pending", "skipped"}
           THEN ~it.id /\ ~it.artifact /\ ~it.envelope
           ELSE \A p \in deps[s] : r.steps[p].artifact

-----------------------------------------------------------------------------
(* A sweep                                                                 *)

Idle == [pc |-> "idle", rec |-> Accepted, at |-> 1, back |-> "idle",
         answer |-> "none", observed |-> FALSE]

\* The local state of d, moved to another place of its sweep; an answer is dropped.
Move(d, place, step) == [drv[d] EXCEPT !.pc = place, !.at = step, !.answer = "none"]

Goto(d, place, step) == drv' = [drv EXCEPT ![d] = Move(d, place, step)]
Return(d) == drv' = [drv EXCEPT ![d] = Idle]

\* A sweep that goes on does so with the row that it wrote.
Reread(next, row) == IF next.pc = "idle" THEN Idle ELSE [next EXCEPT !.rec = row]

\* Mutant: a stale copy overwrites the row.
SaveUnfenced(d, new, next) ==
    IF run.version < MaxVersion
    THEN LET row == [new EXCEPT !.version = run.version + 1] IN
         /\ run' = row
         /\ drv' = [drv EXCEPT ![d] = Reread(next, row)]
    ELSE Return(d) /\ UNCHANGED run

\* advance_run: the row moves on if nobody moved it; otherwise the sweep fails.
Save(d, new, next) ==
    IF run.version = drv[d].rec.version /\ run.version < MaxVersion
    THEN LET row == [new EXCEPT !.version = @ + 1] IN
         /\ run' = row
         /\ drv' = [drv EXCEPT ![d] = Reread(next, row)]
    ELSE Return(d) /\ UNCHANGED run

\* The step record s of d's copy, as `f' changes it.
With(d, s, f) == [drv[d].rec EXCEPT !.steps[s] = f]

\* The next step, from `at' on, that the loop stops at.
NextOf(d, S) == Min({s \in S : s >= drv[d].at})
Done(d, S) == \A s \in S : s < drv[d].at

\* resume: the row is read under drive_lock; without a lease nothing happens.
Resume(d) ==
    /\ drv[d].pc = "idle" /\ Loads(run)
    /\ drv' = [drv EXCEPT ![d] =
                  [Idle EXCEPT !.pc = IF past /\ ~run.late THEN "deadline" ELSE "reverify",
                               !.rec = run]]
    /\ UNCHANGED <<given, run, task, asked, tampered, past>>

ObserveDeadline(d) ==
    /\ drv[d].pc = "deadline"
    /\ Save(d, [drv[d].rec EXCEPT !.late = TRUE], Move(d, "reverify", 1))
    /\ UNCHANGED <<given, task, asked, tampered, past>>

\* Accepted artifacts are verified again on every sweep.
Reverify(d) ==
    LET bad == In(drv[d].rec, {"verified"}) \cap tampered IN
    /\ drv[d].pc = "reverify"
    /\ IF Done(d, bad) THEN Goto(d, "recover", 1) /\ UNCHANGED run
       ELSE LET s == NextOf(d, bad) IN
            Save(d, With(d, s, [drv[d].rec.steps[s] EXCEPT !.phase = "failed"]),
                 Move(d, "reverify", s + 1))
    /\ UNCHANGED <<given, task, asked, tampered, past>>

\* Submissions whose public ID has not reached the row are made or found again.
Recover(d) ==
    LET lost == In(drv[d].rec, {"submitting"}) IN
    /\ drv[d].pc = "recover"
    /\ IF Done(d, lost) THEN Goto(d, "poll", 1)
       ELSE drv' = [drv EXCEPT ![d] =
                        [Move(d, "submit", NextOf(d, lost)) EXCEPT !.back = "recover"]]
    /\ UNCHANGED <<given, run, task, asked, tampered, past>>

-----------------------------------------------------------------------------
(* submit_step                                                             *)


\* submit: the first request creates the task, which may start, be refused before it
\* is dispatched, or be left in doubt; recover_submission creates none.
Submitted(s, recoveryOnly) ==
    IF task[s] # "none" THEN {task[s]}
    ELSE IF recoveryOnly THEN {"none"} ELSE {"none", "running", "failed", "lost"}

Submit(d) ==
    LET s == drv[d].at
        recoveryOnly == Stopped(drv[d].rec) \/ Blocked(drv[d].rec)
    IN  /\ drv[d].pc = "submit"
        /\ \E new \in Submitted(s, recoveryOnly) :
              /\ task' = [task EXCEPT ![s] = new]
              /\ \E answer \in {"error"} \cup
                    (IF new = "none" THEN {}
                     ELSE {IF new = "lost" THEN "reconciliation" ELSE "task"}) :
                    drv' = [drv EXCEPT ![d] =
                                [Move(d, "submitted", s) EXCEPT !.answer = answer]]
        /\ UNCHANGED <<given, run, asked, tampered, past>>

\* Mutant: an error is taken for a refusal.
IdentifiedOptimist(s, answer) ==
    CASE answer = "task"           -> [s EXCEPT !.id = TRUE, !.phase = "routed"]
      [] answer = "reconciliation" -> [s EXCEPT !.id = TRUE, !.phase = "unknown"]
      [] answer = "error"          -> [s EXCEPT !.phase = "failed"]

\* Mutant: any answer is taken for a task.
IdentifiedRouted(s, answer) ==
    CASE answer = "reconciliation" -> [s EXCEPT !.id = TRUE, !.phase = "unknown"]
      [] answer = "task"           -> [s EXCEPT !.id = TRUE, !.phase = "routed"]
      [] answer = "error"          -> [s EXCEPT !.phase = "routed"]

Identified(s, answer) ==
    CASE answer = "task"           -> [s EXCEPT !.id = TRUE, !.phase = "routed"]
      [] answer = "reconciliation" -> [s EXCEPT !.id = TRUE, !.phase = "unknown"]
      [] answer = "error"          -> [s EXCEPT !.phase = "unknown"]

\* The answer is recorded; a dispatch loop goes on unless something blocks now.
Identify(d) ==
    LET s   == drv[d].at
        new == With(d, s, Identified(drv[d].rec.steps[s], drv[d].answer))
    IN  /\ drv[d].pc = "submitted"
        /\ Save(d, new, IF drv[d].back = "dispatch" /\ Blocked(new)
                        THEN Idle ELSE [Move(d, drv[d].back, s + 1) EXCEPT !.back = "idle"])
        /\ UNCHANGED <<given, task, asked, tampered, past>>

-----------------------------------------------------------------------------
(* Cancellation and polling                                                *)

Tracked(r) == {s \in In(r, {"routed", "unknown"}) : r.steps[s].id}

\* The next task to look at; a stopped run persists its intent to cancel first.
Poll(d) ==
    LET r == drv[d].rec IN
    /\ drv[d].pc = "poll"
    /\ IF Done(d, Tracked(r)) THEN Goto(d, "stop", 1) /\ UNCHANGED run
       ELSE LET s == NextOf(d, Tracked(r)) IN
            IF ~Stopped(r) \/ r.steps[s].acked THEN Goto(d, "get", s) /\ UNCHANGED run
            ELSE IF r.steps[s].intent THEN Goto(d, "cancel", s) /\ UNCHANGED run
            ELSE Save(d, With(d, s, [r.steps[s] EXCEPT !.intent = TRUE]),
                      Move(d, "cancel", s))
    /\ UNCHANGED <<given, task, asked, tampered, past>>

\* cancel_task, whose request or answer may be lost.
CancelTask(d) ==
    LET s == drv[d].at IN
    /\ drv[d].pc = "cancel"
    /\ \/ asked' = asked \cup {s} /\ \E answer \in {"ok", "error"} :
             drv' = [drv EXCEPT ![d] = [Move(d, "cancelled", s) EXCEPT !.answer = answer]]
       \/ drv' = [drv EXCEPT ![d] = [Move(d, "cancelled", s) EXCEPT !.answer = "error"]]
          /\ UNCHANGED asked
    /\ UNCHANGED <<given, run, task, tampered, past>>

RecordCancel(d) ==
    LET s   == drv[d].at
        old == drv[d].rec.steps[s]
        ok  == drv[d].answer = "ok"
        new == [old EXCEPT !.sent = TRUE, !.acked = ok]
    IN  /\ drv[d].pc = "cancelled"
        /\ IF new # old THEN Save(d, With(d, s, new), Move(d, "get", s))
           ELSE Goto(d, "get", s) /\ UNCHANGED run
        /\ UNCHANGED <<given, task, asked, tampered, past>>

\* get_task: the task's state, or an error that says nothing about it.
GetTask(d) ==
    /\ drv[d].pc = "get"
    /\ \E answer \in {task[drv[d].at], "error"} :
          drv' = [drv EXCEPT ![d] = [Move(d, "got", drv[d].at) EXCEPT !.answer = answer]]
    /\ UNCHANGED <<given, run, task, asked, tampered, past>>

\* The step after an answer; the same step again if the answer says nothing new.
Observed(s, answer, intact) ==
    CASE answer = "completed" /\ intact -> [s EXCEPT !.phase = "verified", !.artifact = TRUE,
                                                     !.envelope = FALSE]
      [] answer = "completed" /\ ~intact -> [s EXCEPT !.phase = "failed", !.envelope = FALSE]
      [] answer \in {"failed", "cancelled"} -> [s EXCEPT !.phase = answer, !.envelope = FALSE]
      [] answer = "lost" /\ ~(s.phase = "unknown" /\ s.envelope) ->
            [s EXCEPT !.phase = "unknown", !.envelope = TRUE]
      [] answer = "error" -> [s EXCEPT !.phase = "unknown"]
      [] OTHER -> s

Observe(d) ==
    LET s   == drv[d].at
        old == drv[d].rec.steps[s]
        new == Observed(old, drv[d].answer, s \notin tampered)
    IN  /\ drv[d].pc = "got"
        /\ IF new # old
           THEN Save(d, With(d, s, new), [Move(d, "poll", s + 1) EXCEPT !.observed = TRUE])
           ELSE Goto(d, "poll", s + 1) /\ UNCHANGED run
        /\ UNCHANGED <<given, task, asked, tampered, past>>

-----------------------------------------------------------------------------
(* Stopping and dispatching                                                *)

\* A stopped run skips what it has not sent; an observation ends the sweep.
Stop(d) ==
    LET r == drv[d].rec IN
    /\ drv[d].pc = "stop"
    /\ IF Stopped(r) \/ Blocked(r)
       THEN IF In(r, {"pending"}) = {} THEN Return(d) /\ UNCHANGED run
            ELSE Save(d, [r EXCEPT !.steps = [s \in Steps |->
                            IF @[s].phase = "pending" THEN [@[s] EXCEPT !.phase = "skipped"]
                            ELSE @[s]]],
                      Idle)
       ELSE IF drv[d].observed THEN Return(d) /\ UNCHANGED run
       ELSE Goto(d, "dispatch", 1) /\ UNCHANGED run
    /\ UNCHANGED <<given, task, asked, tampered, past>>

Ready(r) == {s \in In(r, {"pending"}) : deps[s] \subseteq In(r, {"verified"})}

\* The intent to submit is journalled before anything is sent; the lease is checked
\* again before that, and a refusal ends the sweep.
Dispatch(d) ==
    LET r == drv[d].rec IN
    /\ drv[d].pc = "dispatch"
    /\ IF Cardinality(Active(r)) >= MaxConcurrency \/ Done(d, Ready(r))
       THEN Return(d) /\ UNCHANGED run
       ELSE LET s == NextOf(d, Ready(r)) IN
            \/ Save(d, With(d, s, [r.steps[s] EXCEPT !.phase = "submitting"]),
                    [Move(d, "submit", s) EXCEPT !.back = "dispatch"])
            \/ Return(d) /\ UNCHANGED run
    /\ UNCHANGED <<given, task, asked, tampered, past>>

-----------------------------------------------------------------------------
(* The caller, the tasks and the world                                     *)

\* cancel takes no lock: it races every sweep and may be the one that fails.
RequestCancel ==
    /\ Loads(run) /\ ~run.cancel /\ run.version < MaxVersion
    /\ run' = [run EXCEPT !.cancel = TRUE, !.version = @ + 1]
    /\ UNCHANGED <<given, drv, task, asked, tampered, past>>

\* The process dies, or the caller's request is dropped.
Crash(d) ==
    /\ drv[d].pc # "idle"
    /\ Return(d)
    /\ UNCHANGED <<given, run, task, asked, tampered, past>>

TaskEnds(s) ==
    /\ task[s] = "running"
    /\ \E end \in {"completed", "failed"} \cup (IF s \in asked THEN {"cancelled"} ELSE {}) :
          task' = [task EXCEPT ![s] = end]
    /\ UNCHANGED <<given, run, drv, asked, tampered, past>>

\* A poll of TaskProxy hears of a task that was in doubt.
TaskFound(s) ==
    /\ task[s] = "lost"
    /\ task' = [task EXCEPT ![s] = "running"]
    /\ UNCHANGED <<given, run, drv, asked, tampered, past>>

Tamper(s) ==
    /\ Cardinality(tampered) < world.tampered
    /\ tampered' = tampered \cup {s}
    /\ UNCHANGED <<given, run, drv, task, asked, past>>

DeadlinePasses ==
    /\ world.expires /\ ~past
    /\ past' = TRUE
    /\ UNCHANGED <<given, run, drv, task, asked, tampered>>

-----------------------------------------------------------------------------
\* submit: the plan is accepted, and nothing is sent.
Init ==
    /\ world \in Worlds
    /\ deps \in {graph \in [Steps -> SUBSET Steps] : ValidPlan(graph)}
    /\ run = Accepted
    /\ drv = [d \in Drivers |-> Idle]
    /\ task = [s \in Steps |-> "none"]
    /\ asked = {}
    /\ tampered = {}
    /\ past = FALSE

Sweep(d) ==
    \/ ObserveDeadline(d) \/ Reverify(d) \/ Recover(d) \/ Submit(d) \/ Identify(d)
    \/ Poll(d) \/ CancelTask(d) \/ RecordCancel(d) \/ GetTask(d) \/ Observe(d)
    \/ Stop(d) \/ Dispatch(d)

Next ==
    \/ \E d \in world.drivers : Resume(d) \/ Sweep(d) \/ Crash(d)
    \/ \E s \in Steps : TaskEnds(s) \/ TaskFound(s) \/ Tamper(s)
    \/ RequestCancel \/ DeadlinePasses

Spec == Init /\ [][Next]_vars

-----------------------------------------------------------------------------
Created == {s \in Steps : task[s] # "none"}

\* Whatever crashes, races or fails, no task exists for a step that the row calls
\* unsent, and none for a step whose predecessors were not verified complete.
DispatchJournalled ==
    \A s \in Created :
        /\ run.steps[s].phase \notin {"pending", "skipped"}
        /\ \A p \in deps[s] : run.steps[p].artifact /\ task[p] = "completed"

\* No more than max_concurrency tasks are under way or in doubt, over all processes.
InFlightBounded ==
    Cardinality({s \in Steps : task[s] \in {"running", "lost"}}) <= MaxConcurrency

\* A status other than in_progress and reconciliation_required accounts for every
\* task: none is under way or in doubt.  "verified" says that all were completed.
StatusHonest ==
    /\ Status(run) \notin {"in_progress", "reconciliation_required"} =>
          \A s \in Steps : task[s] \notin {"running", "lost"}
    /\ Status(run) = "verified" => \A s \in Steps : task[s] = "completed"

\* No sweep, whatever fails in it, leaves a row that the next one cannot read: the run
\* would be beyond resuming, cancelling and accounting for.
RowLoads == Loads(run)

\* A run reported ready has something to dispatch.
ReadyHasWork == Status(run) = "ready" => Ready(run) # {}
=============================================================================
