----------------------------- MODULE ProjectRuns -----------------------------
(***************************************************************************)
(* The life of a run and what it leaves for the next one: its record in    *)
(* the journal (runtime/journal.rs), the project graph with what was       *)
(* learned (graph/store.rs, runtime/graph_runtime.rs, app/graph_refresh.rs),*)
(* the rollout state (Rollout), and the trust state of the engine, in the  *)
(* order of App::run (app/runner.rs).  Runs overlap, fail between any two  *)
(* steps and are killed; no file is locked.                                *)
(*                                                                         *)
(* What a run learned is a number of decisions.  Two ghosts travel with    *)
(* the files: with the graph, the decisions of the runs whose work it      *)
(* stands on (`learned`); with the rollout state, the verdicts since its   *)
(* profile last changed (`since`) and those behind that change (`why`).    *)
(* The report is in Reporter, the write phase in detail in FormatRuns.     *)
(***************************************************************************)
EXTENDS ProjectGraph, Rollout

CONSTANTS
  Runs,         (* bound: 1..n, the runs that overlap                      *)
  Projects,     (* how a project is worked on: the `commands` of its     *)
                (* runs, the `faults` that happen, and three bounds: runs   *)
                (* started, ticks of the clock, decisions of one run        *)
  Edits,        (* the texts that formatting may give a file               *)
  InitialText,  (* the texts of the project                                *)
  LearnOnCheck  (* convergence_learn_on_check                              *)

FaultKinds == {"kill", "journal", "engine", "write", "parse", "persist", "report", "corrupt"}

(* how a run is started, and the part of its configuration that matters.   *)
CommandType ==
  [kind : {"format", "check", "list", "worker", "benchmark", "undo"},
   multi : BOOLEAN,      (* several processes                              *)
   graph : BOOLEAN,      (* project_graph_enabled                          *)
   gate : BOOLEAN,       (* accuracy_gate_enabled                          *)
   benchmark : BOOLEAN,  (* accuracy_benchmark_enabled                     *)
   ci : BOOLEAN,         (* in CI, where the benchmark is required         *)
   profile : Profiles,
   closed : BOOLEAN,     (* fail_closed, of the gate and of the benchmark  *)
   deferred : BOOLEAN]   (* defer_fail_closed_until_stable                 *)


IsText(t) ==
  /\ DOMAIN t = {"decls", "uses"} /\ t.uses \subseteq Symbols
  /\ DOMAIN t.decls \subseteq Symbols /\ \A s \in DOMAIN t.decls : t.decls[s] \in Nat

ASSUME RunsAssumption ==
  /\ Runs \subseteq Nat
  /\ \A p \in Projects : p.commands \subseteq CommandType /\ p.learns \subseteq Nat
                            /\ p.faults \subseteq FaultKinds
                            /\ p.starts \in Nat /\ p.ticks \in Nat
  /\ LearnOnCheck \in BOOLEAN
  /\ DOMAIN Edits = Files /\ DOMAIN InitialText = Files
  /\ \A f \in Files : /\ IsText(InitialText[f])
                     /\ \A t \in DOMAIN Edits[f] : IsText(Edits[f][t])

VARIABLES
  project,    (* the member of Projects that this is                       *)
  store,      (* file of the project graph                                 *)
  rollout,    (* file of the rollout state                                 *)
  trust,      (* file of the trust state: observations in it, -1 if none   *)
  text,       (* texts on disk                                             *)
  journal,    (* record of each run                                        *)
  run,        (* each process                                              *)
  started,    (* runs started so far                                       *)
  clock

vars == <<project, store, rollout, trust, text, journal, run, started, clock>>

NoMove == [from |-> "", to |-> "", level |-> 0, since |-> <<>>]
None == [is |-> "none"]
Corrupt == [is |-> "corrupt"]

(* Of a run that is over only the way it ended is kept; its place can be   *)
(* taken by another.                                                       *)
Ended(how) == [pc |-> "ended", how |-> how]

Init ==
  /\ project \in Projects
  /\ store = None /\ rollout = None /\ trust = -1
  /\ text = InitialText
  /\ journal = [r \in Runs |-> "none"]
  /\ run = [r \in Runs |-> Ended("none")]
  /\ started = 0 /\ clock = 1

(***************************************************************************)
(* The graph store.                                                        *)
(***************************************************************************)
(* open_with_options: what cannot be decoded is moved away. *)
OpenedStore ==
  IF store.is = "graph" THEN store
  ELSE [is |-> "graph", gen |-> 0, state |-> EmptyGraph, learned |-> 0, mixed |-> FALSE]

OpenedRollout ==
  IF rollout.is = "state" THEN rollout
  ELSE [is |-> "state", state |-> OpenedState(rollout), since |-> <<>>, why |-> NoMove]

Quarantined(file) == IF file.is = "corrupt" THEN None ELSE file

(* persist_with_stats: the generation moves first, the file last. *)
Persist(rt, state) ==
  {[rt EXCEPT !.gen = @ + 1, !.state = s] : s \in Persistable(state, clock)}

(***************************************************************************)
(* Steps of a run.                                                         *)
(***************************************************************************)
At(r, pc) == run[r].pc = pc
Cmd(r) == run[r].cmd
Goto(r, pc) == run' = [run EXCEPT ![r].pc = pc]

LeaveFinished(r, how) ==
  /\ run' = [run EXCEPT ![r] = Ended(how)]
  /\ journal' = [journal EXCEPT ![r] = IF @ = "RUNNING" THEN "SUCCESS" ELSE @]

(* Leaving before or without finish_success: the journal's drop says FAILED. *)
Leave(r, how) ==
  /\ run' = [run EXCEPT ![r] = Ended(how)]
  /\ journal' = [journal EXCEPT ![r] = IF @ = "RUNNING" THEN "FAILED" ELSE @]

Fail(r, fault) ==
  /\ fault \in project.faults
  /\ Leave(r, "error")
  /\ UNCHANGED <<project, store, rollout, trust, text, started, clock>>

(* initialize_run.  What was learned is reset, the rollout state is read,  *)
(* and the run is entered in the journal if the directory can be written.  *)
Start(r, cmd) ==
  LET journalled == IF "journal" \in project.faults THEN {"RUNNING", "none"} ELSE {"RUNNING"}
      refused == cmd.ci /\ ~cmd.benchmark
  IN  /\ At(r, "ended") /\ \A q \in Runs : q < r => ~At(q, "ended")
      /\ started < project.starts /\ started' = started + 1
      /\ rollout' = Quarantined(rollout)
      /\ \/ /\ refused \/ cmd.kind = "undo"
            /\ run' = [run EXCEPT ![r] = Ended(IF refused THEN "error" ELSE "ok")]
            /\ journal' = [journal EXCEPT ![r] = "none"]
         \/ /\ ~refused /\ cmd.kind # "undo"
            /\ \E j \in journalled : journal' = [journal EXCEPT ![r] = j]
            /\ run' = [run EXCEPT ![r] =
                         [pc |-> "open", cmd |-> cmd, rollout |-> OpenedRollout]]
      /\ UNCHANGED <<project, store, trust, text, clock>>

(* No file matches: the run is over, and succeeded. *)
NothingToDo(r) ==
  /\ At(r, "open")
  /\ run' = [run EXCEPT ![r] = Ended("ok")]
  /\ journal' = [journal EXCEPT ![r] = IF @ = "RUNNING" THEN "SUCCESS" ELSE @]
  /\ UNCHANGED <<project, store, rollout, trust, text, started, clock>>

(* The graph is opened and the trust state is loaded. *)
Open(r) ==
  /\ At(r, "open")
  /\ store' = IF Cmd(r).graph THEN Quarantined(store) ELSE store
  /\ run' = [run EXCEPT ![r] =
       [pc |-> "engine", cmd |-> Cmd(r), rollout |-> run[r].rollout,
        graph |-> IF Cmd(r).graph THEN OpenedStore ELSE None,
        tele |-> 0, here |-> 0, conflict |-> 0, seen |-> Most(trust, 0),
        pending |-> <<>>, targets |-> {}]]
  /\ UNCHANGED <<project, rollout, trust, text, journal, started, clock>>

(* Policies are listed, a worker serves its batches and leaves, or there   *)
(* is no benchmark to run: App::run returns before finalize_run.           *)
LeaveEarly(r) ==
  /\ At(r, "engine")
  /\ \/ Cmd(r).kind \in {"list", "worker"}
     \/ Cmd(r).kind = "benchmark" /\ ~Cmd(r).benchmark
  /\ Leave(r, "ok")
  /\ UNCHANGED <<project, store, rollout, trust, text, started, clock>>

(* The pass of one process starts from what the graph remembers; that of   *)
(* several starts from nothing and adds what the workers learned.  One     *)
(* number stands for the telemetry of clusters and of retries, which are   *)
(* seeded alike.                                                           *)
Remembered(graph) == IF graph.is = "graph" THEN graph.state.clusters ELSE 0
Seeded(r) == IF Cmd(r).multi THEN 0 ELSE Remembered(run[r].graph)

Merged(r, n) == IF Cmd(r).multi THEN n ELSE trust

Formatted(r, changes) == [f \in changes |-> Edits[f][text[f]]]

(* run_processing_pass and run_multiprocess_pass; workers' trust states are *)
(* merged into the file, that of one process stays in memory.              *)
Engine(r) ==
  /\ At(r, "engine")
  /\ Cmd(r).kind \in {"format", "check"}
  /\ \E n \in project.learns, conflict \in 0..1,
        changes \in SUBSET {f \in Files : text[f] \in DOMAIN Edits[f]} :
       /\ run' = [run EXCEPT ![r].pc = "write",
                     ![r].tele = Seeded(r) + n, ![r].here = n, ![r].conflict = conflict,
                     ![r].seen = IF Cmd(r).multi THEN @ ELSE @ + n,
                     ![r].pending = Formatted(r, changes)]
       /\ trust' = Merged(r, n)
  /\ UNCHANGED <<project, store, rollout, text, journal, started, clock>>

(* extract_graph_refresh_input, then apply_write_phase: the write of a     *)
(* file may fail, and so may the parse of a target.                        *)
Changed(r) == DOMAIN run[r].pending

WritePhase(r) ==
  LET writes == IF Cmd(r).kind = "check" THEN {} ELSE Changed(r)
      failing == IF "write" \in project.faults THEN SUBSET writes ELSE {{}}
      wanted == IF Cmd(r).kind = "check" \/ ~Cmd(r).graph THEN {}
                ELSE Changed(r) \union Neighbours(run[r].graph.state, Changed(r))
      parsed == IF "parse" \in project.faults THEN SUBSET wanted ELSE {wanted}
  IN  /\ At(r, "write")
      /\ \E failed \in failing :
           text' = [f \in writes \ failed |-> run[r].pending[f]] ++ text
      /\ \E targets \in parsed :
           run' = [run EXCEPT ![r].pc = "graph", ![r].targets = targets]
      /\ UNCHANGED <<project, store, rollout, trust, journal, started, clock>>

(* The parses of a refresh: a changed file as the engine left it, a        *)
(* neighbour as it is on disk.                                             *)
ParseFor(r, f) ==
  ParseOf(f, IF f \in Changed(r) THEN run[r].pending[f] ELSE text[f], text)

(* Changed files come first, each group in the order of their names. *)
InOrder(S) == CHOOSE q \in [1..Cardinality(S) -> S] :
                \A i, j \in 1..Cardinality(S) : i < j => q[i] # q[j]
RefreshOrder(r) ==
  InOrder(run[r].targets \intersect Changed(r)) \o InOrder(run[r].targets \ Changed(r))

Parsed(r, g) ==
  LET order == RefreshOrder(r)
      after[n \in 0..Len(order)] ==
        IF n = 0 THEN g ELSE ApplyParse(after[n - 1], ParseFor(r, order[n]), clock)
  IN  after[Len(order)]

RefreshedInFull(r) ==
  LET old == run[r].graph.state IN
  [Parsed(r, old) EXCEPT !.clusters = run[r].tele, !.retry = @ + run[r].tele]

(* diff_retry_learning_snapshot: what the store does not have yet. *)
Delta(tele, before) == Most(tele - before.retry, 0)

(* The mutator of refresh_project_graph_owned: clusters are replaced when  *)
(* they differ, strategies grow by what is not in the snapshot yet.        *)
Refreshed(r) ==
  LET old == run[r].graph.state
      tele == run[r].tele
      parsed == Parsed(r, old)
      paired == IF run[r].conflict > 0
                THEN [parsed EXCEPT !.pair = @ + 1, !.pairSeen = clock] ELSE parsed
  IN  [paired EXCEPT !.clusters = IF tele # old.clusters THEN tele ELSE @,
                     !.retry = @ + Delta(tele, old)]

HasNews(r) ==
  \/ run[r].targets # {} \/ run[r].conflict > 0
  \/ run[r].tele # run[r].graph.state.clusters
  \/ Delta(run[r].tele, run[r].graph.state) > 0

Refreshes(r) ==
  Cmd(r).graph /\ (Cmd(r).kind = "format" \/ LearnOnCheck) /\ HasNews(r)

(* A write that fails leaves file and snapshot, and a warning. *)
GraphRefresh(r) ==
  /\ At(r, "graph")
  /\ \/ /\ Refreshes(r)
        /\ \E next \in Persist(run[r].graph, Refreshed(r)) :
             LET file == [next EXCEPT !.learned = @ + run[r].here,
                                      !.mixed = @ \/ Cmd(r).multi]
             IN  /\ store' = file
                 /\ run' = [run EXCEPT ![r].pc = "report", ![r].graph = file]
     \/ /\ Refreshes(r) /\ "persist" \in project.faults
        /\ run' = [run EXCEPT ![r].pc = "report", ![r].graph.gen = @ + 1]
        /\ UNCHANGED store
     \/ /\ ~Refreshes(r)
        /\ Goto(r, "report")
        /\ UNCHANGED store
  /\ UNCHANGED <<project, rollout, trust, text, journal, started, clock>>

(* The report has been sent.  Outside CI the benchmark becomes a run of    *)
(* its own, started in the background, and the signal of the gate is lost. *)
SpawnBenchmark(r) ==
  /\ At(r, "report")
  /\ Cmd(r).benchmark /\ ~Cmd(r).ci
  /\ Goto(r, "journal")
  /\ UNCHANGED <<project, store, rollout, trust, text, journal, started, clock>>

Signals(r) ==
  IF Cmd(r).benchmark THEN BenchmarkSignals(EffectiveProfile(run[r].rollout.state, Cmd(r).profile))
  ELSE IF Cmd(r).gate THEN GateSignals ELSE {}

(* The file with its ghosts. *)
Explained(old, next, o) ==
  LET before == IF old.state.requested = next.requested
                THEN old ELSE [old EXCEPT !.since = <<>>, !.why = NoMove]
      since == IF o.samples THEN Append(before.since, o.passed) ELSE before.since
      moved == old.state.requested = next.requested /\ old.state.effective # next.effective
  IN  [is |-> "state", state |-> next, since |-> IF moved THEN <<>> ELSE since,
       why |-> IF ~moved THEN before.why
               ELSE [from |-> old.state.effective, to |-> next.effective,
                     level |-> o.level, since |-> since]]

(* finalize_accuracy_validation: observe, persist, and only then ask       *)
(* whether the run must fail.                                              *)
Validate(r) ==
  /\ \/ At(r, "report") /\ ~(Cmd(r).benchmark /\ ~Cmd(r).ci)
     \/ At(r, "engine") /\ Cmd(r).kind = "benchmark" /\ Cmd(r).benchmark
  /\ \E o \in Signals(r) :
       LET cmd == Cmd(r)
           next == Observe(run[r].rollout.state, cmd.profile, o)
           failing == FailsRun(next, cmd.profile, o, cmd.closed, cmd.deferred)
       IN  /\ rollout' = Explained(run[r].rollout, next, o)
           /\ IF failing \/ cmd.kind = "benchmark"
              THEN Leave(r, IF failing THEN "inaccurate" ELSE "ok")
              ELSE Goto(r, "journal") /\ UNCHANGED journal
  /\ UNCHANGED <<project, store, trust, text, started, clock>>

NoSignal(r) ==
  /\ At(r, "report")
  /\ ~Cmd(r).benchmark
  /\ Goto(r, "journal")
  /\ UNCHANGED <<project, store, rollout, trust, text, journal, started, clock>>

JournalSuccess(r) ==
  /\ At(r, "journal")
  /\ journal' = [journal EXCEPT ![r] = IF @ = "RUNNING" THEN "SUCCESS" ELSE @]
  /\ Goto(r, "save")
  /\ UNCHANGED <<project, store, rollout, trust, text, started, clock>>

(* The trust state is saved only when there is no file yet. *)
SaveTrust(r) ==
  /\ At(r, "save")
  /\ trust' = IF trust = -1 THEN run[r].seen ELSE trust
  /\ run' = [run EXCEPT ![r] = Ended("ok")]
  /\ UNCHANGED <<project, store, rollout, text, journal, started, clock>>

(* A step that returns an error: opening, the pass, the reporter, the     *)
(* benchmark process, a rollout state that cannot be written, a contract   *)
(* violation.                                                              *)
OpenFails(r) == At(r, "open") /\ Fail(r, "engine")
EngineFails(r) == At(r, "engine") /\ Cmd(r).kind # "list" /\ Fail(r, "engine")
ReportFails(r) == At(r, "report") /\ Fail(r, "report")
ContractFails(r) == At(r, "journal") /\ Cmd(r).ci /\ Cmd(r).gate /\ Fail(r, "report")

Kill(r) ==
  /\ "kill" \in project.faults
  /\ ~At(r, "ended")
  /\ run' = [run EXCEPT ![r] = Ended("killed")]
  /\ UNCHANGED <<project, store, rollout, trust, text, journal, started, clock>>

(* Something else damages a file of state. *)
Damage ==
  /\ "corrupt" \in project.faults
  /\ \/ store.is = "graph" /\ store' = Corrupt /\ UNCHANGED rollout
     \/ rollout.is = "state" /\ rollout' = Corrupt /\ UNCHANGED store
  /\ UNCHANGED <<project, trust, text, journal, run, started, clock>>

Tick ==
  /\ clock < project.ticks
  /\ clock' = clock + 1
  /\ UNCHANGED <<project, store, rollout, trust, text, journal, run, started>>

Step(r) ==
  \/ \E cmd \in project.commands : Start(r, cmd)
  \/ NothingToDo(r)
  \/ Open(r)
  \/ LeaveEarly(r)
  \/ Engine(r)
  \/ WritePhase(r)
  \/ GraphRefresh(r)
  \/ SpawnBenchmark(r)
  \/ Validate(r)
  \/ NoSignal(r)
  \/ JournalSuccess(r)
  \/ SaveTrust(r)
  \/ OpenFails(r)
  \/ EngineFails(r)
  \/ ReportFails(r)
  \/ ContractFails(r)
  \/ Kill(r)

Next == Damage \/ Tick \/ \E r \in Runs : Step(r)

Spec == Init /\ [][Next]_vars

-----------------------------------------------------------------------------
TypeOK ==
  /\ store.is \in {"none", "corrupt", "graph"}
  /\ rollout.is \in {"none", "corrupt", "state"}
  /\ rollout.is = "state" => rollout.state \in States
  /\ DOMAIN text = Files /\ \A f \in Files : IsText(text[f])
  /\ trust \in Nat \union {-1}
  /\ journal \in [Runs -> {"none", "RUNNING", "SUCCESS", "FAILED"}]
  /\ clock \in 1..project.ticks /\ started \in 0..project.starts

(* A stored graph is consistent whatever was parsed, aliased, pruned and   *)
(* capped: no edge dangles, a symbol's file count is the number of files   *)
(* that contain it, and its references are not fewer than the edges say.   *)
GraphConsistent ==
  store.is = "graph" =>
    LET g == store.state IN
    /\ \A e \in DOMAIN g.edges : e[1] \in DOMAIN g.nodes /\ e[2] \in DOMAIN g.nodes
    /\ \A id \in DOMAIN g.metrics :
         /\ g.metrics[id].files = HoldersOf(g.edges, id)
         /\ g.metrics[id].refs >= WeightTo(g.edges, id, "reference")
    /\ \A e \in DOMAIN g.edges : e[2] \in DOMAIN g.metrics

(* What a run learned is counted once in the graph: failed writes, checks, *)
(* quarantines, and runs that read the same graph never add it twice, and  *)
(* where only runs of one process were at work nothing is missing.         *)
LearnedOnce ==
  store.is = "graph" =>
    /\ store.state.retry <= store.learned
    /\ ~store.mixed => store.state.retry = store.learned /\ store.state.clusters = store.learned

LastAre(s, n, verdict) ==
  Len(s) >= n /\ \A i \in (Len(s) - n + 1)..Len(s) : s[i] = verdict

(* The profile moves only on unbroken evidence gathered under the profile  *)
(* it leaves, whatever runs without samples, changes of the requested      *)
(* profile, overlaps and quarantines lie in between.                       *)
MovedByEvidence ==
  rollout.is = "state" =>
    LET why == rollout.why IN
    /\ why.to = "balanced" /\ why.from = "adaptive" => LastAre(why.since, 3, TRUE) /\ why.level >= 2
    /\ why.to = "strict" => LastAre(why.since, 5, TRUE) /\ why.level = 3
    /\ why.to = "adaptive" => LastAre(why.since, 3, FALSE)
    /\ why.to = "balanced" /\ why.from = "strict" => LastAre(why.since, 2, FALSE)
    /\ why.from = "adaptive" => why.to # "strict"

(* A run that is closed although closing is deferred has passes to show    *)
(* since the last failure and the last change of profile.                  *)
ClosedByEvidence ==
  rollout.is = "state" =>
    \A p \in Profiles : EffectiveFailClosed(rollout.state, p, TRUE, TRUE) =>
      LastAre(rollout.since,
              IF rollout.state.effective = "strict" THEN 1
              ELSE StableTarget(rollout.state.effective), TRUE)

(* The journal never calls a run a success that returned an error or was   *)
(* found inaccurate, and a run it calls failed has not gone to its end     *)
(* unless it is one of those that leave early.                             *)
JournalIsTrue ==
  \A r \in Runs :
    /\ At(r, "ended") /\ run[r].how \in {"error", "inaccurate"} => journal[r] # "SUCCESS"
    /\ ~At(r, "ended") => journal[r] # "FAILED"
    /\ journal[r] = "SUCCESS" => At(r, "save") \/ run[r].how \in {"ok", "killed"}
=============================================================================
