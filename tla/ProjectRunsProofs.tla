-------------------------- MODULE ProjectRunsProofs --------------------------
(***************************************************************************)
(* Proofs about the life of runs (ProjectRuns): the journal, the rollout   *)
(* state and what the project graph has learned.                           *)
(***************************************************************************)
EXTENDS ProjectRuns, TLAPS, SequenceTheorems, FiniteSetTheorems, WellFoundedInduction

(***************************************************************************)
(* Where a run is, and what its process has there.                         *)
(***************************************************************************)
Steps == {"engine", "write", "graph", "report", "journal", "save"}

IsOver(p) ==
  /\ DOMAIN p = {"pc", "how"} /\ p.pc = "ended"
  /\ p.how \in {"none", "ok", "error", "inaccurate", "killed"}
IsOpening(p) == DOMAIN p = {"pc", "cmd", "rollout"} /\ p.pc = "open"
IsWorking(p) ==
  /\ DOMAIN p = {"pc", "cmd", "rollout", "graph", "tele", "here", "conflict", "seen",
                 "pending", "targets"}
  /\ p.pc \in Steps

(* A record that is still RUNNING is that of a run that has not finished;  *)
(* one that is a success is that of a run that has only to save its trust  *)
(* state, or did not return an error.                                      *)
Recorded(p, record) ==
  /\ p.pc \notin {"save", "ended"} => record \in {"none", "RUNNING"}
  /\ p.pc = "save" => record \in {"none", "SUCCESS"}
  /\ p.pc = "ended" => record # "SUCCESS" \/ p.how \in {"ok", "killed"}

Shapes ==
  /\ DOMAIN run = Runs /\ DOMAIN journal = Runs
  /\ \A r \in Runs : /\ IsOver(run[r]) \/ IsOpening(run[r]) \/ IsWorking(run[r])
                     /\ Recorded(run[r], journal[r])

(***************************************************************************)
(* What each step does to its process, and to no other.                    *)
(***************************************************************************)
Others(r) == DOMAIN run' = Runs /\ \A q \in Runs \ {r} : run'[q] = run[q]

LEMMA OneMoves ==
  ASSUME Shapes, NEW r \in Runs, NEW p, run' = [run EXCEPT ![r] = p]
  PROVE  Others(r) /\ run'[r] = p
  BY DEF Shapes, Others

LEMMA GotoMoves ==
  ASSUME Shapes, NEW r \in Runs, NEW pc \in Steps, Goto(r, pc), run[r].pc \in Steps
  PROVE  /\ Others(r) /\ IsWorking(run[r]) /\ IsWorking(run'[r]) /\ run'[r].pc = pc
         /\ \A k \in DOMAIN run[r] \ {"pc"} : run'[r][k] = run[r][k]
<1> DEFINE p == [run[r] EXCEPT !.pc = pc]
<1>1. IsWorking(run[r])
  BY DEF Shapes, IsOver, IsOpening, Steps
<1>2. IsWorking(p) /\ p.pc = pc /\ \A k \in DOMAIN run[r] \ {"pc"} : p[k] = run[r][k]
  BY <1>1 DEF IsWorking
<1>3. run' = [run EXCEPT ![r] = p]
  BY DEF Goto
<1> HIDE DEF p
<1> QED
  BY <1>1, <1>2, <1>3, OneMoves

LEMMA OverMoves ==
  ASSUME Shapes, NEW r \in Runs, NEW how \in {"none", "ok", "error", "inaccurate", "killed"},
         run' = [run EXCEPT ![r] = Ended(how)]
  PROVE  Others(r) /\ IsOver(run'[r]) /\ run'[r].how = how
<1>1. IsOver(Ended(how)) /\ Ended(how).how = how
  BY DEF IsOver, Ended
<1> QED
  BY <1>1, OneMoves

LEMMA StartMoves ==
  ASSUME Shapes, NEW r \in Runs, NEW cmd, Start(r, cmd)
  PROVE  /\ Others(r) /\ IsOver(run[r])
         /\ \/ IsOver(run'[r]) /\ run'[r].how \in {"ok", "error"}
            \/ IsOpening(run'[r]) /\ run'[r].cmd = cmd /\ run'[r].rollout = OpenedRollout
<1>1. IsOver(run[r])
  BY DEF Shapes, Start, At, IsOpening, IsWorking, Steps
<1>2. CASE run' = [run EXCEPT ![r] = Ended(IF cmd.ci /\ ~cmd.benchmark THEN "error" ELSE "ok")]
  BY <1>1, <1>2, OverMoves
<1>3. CASE run' = [run EXCEPT ![r] = [pc |-> "open", cmd |-> cmd, rollout |-> OpenedRollout]]
  <2> DEFINE p == [pc |-> "open", cmd |-> cmd, rollout |-> OpenedRollout]
  <2>1. IsOpening(p) /\ p.cmd = cmd /\ p.rollout = OpenedRollout
    BY DEF IsOpening
  <2>2. run' = [run EXCEPT ![r] = p]
    BY <1>3
  <2> HIDE DEF p
  <2> QED
    BY <1>1, <2>1, <2>2, OneMoves
<1> QED
  BY <1>2, <1>3 DEF Start

LEMMA OpenMoves ==
  ASSUME Shapes, NEW r \in Runs, Open(r)
  PROVE  /\ Others(r) /\ IsOpening(run[r]) /\ IsWorking(run'[r]) /\ run'[r].pc = "engine"
         /\ run'[r].cmd = run[r].cmd /\ run'[r].rollout = run[r].rollout
         /\ run'[r].graph = IF run[r].cmd.graph THEN OpenedStore ELSE None
         /\ run'[r].tele = 0 /\ run'[r].here = 0 /\ run'[r].targets = {} /\ run'[r].pending = <<>>
<1> DEFINE g == IF Cmd(r).graph THEN OpenedStore ELSE None
           seen == Most(trust, 0)
           p == [pc |-> "engine", cmd |-> Cmd(r), rollout |-> run[r].rollout, graph |-> g,
                 tele |-> 0, here |-> 0, conflict |-> 0, seen |-> seen,
                 pending |-> <<>>, targets |-> {}]
<1>1. IsOpening(run[r])
  BY DEF Shapes, Open, At, IsOver, IsWorking, Steps
<1>2. run' = [run EXCEPT ![r] = p]
  BY DEF Open
<1>3. g = IF run[r].cmd.graph THEN OpenedStore ELSE None
  BY DEF Cmd
<1> HIDE DEF g, seen
<1>4. /\ IsWorking(p) /\ p.pc = "engine" /\ p.cmd = run[r].cmd /\ p.rollout = run[r].rollout
      /\ p.graph = g /\ p.tele = 0 /\ p.here = 0 /\ p.targets = {} /\ p.pending = <<>>
  BY <1>1 DEF IsOpening, IsWorking, Steps, Cmd
<1> HIDE DEF p
<1> QED
  BY <1>1, <1>2, <1>3, <1>4, OneMoves

LEMMA EngineMoves ==
  ASSUME Shapes, NEW r \in Runs, Engine(r)
  PROVE  /\ Others(r) /\ IsWorking(run[r]) /\ IsWorking(run'[r]) /\ run'[r].pc = "write"
         /\ run'[r].cmd = run[r].cmd /\ run'[r].rollout = run[r].rollout
         /\ run'[r].graph = run[r].graph /\ run'[r].targets = run[r].targets
         /\ \E n \in project.learns : run'[r].tele = Seeded(r) + n /\ run'[r].here = n
         /\ DOMAIN run'[r].pending \subseteq Files
         /\ \A f \in DOMAIN run'[r].pending :
              /\ text[f] \in DOMAIN Edits[f] /\ run'[r].pending[f] = Edits[f][text[f]]
<1>1. IsWorking(run[r])
  BY DEF Shapes, Engine, At, IsOver, IsOpening
<1>2. PICK n \in project.learns, conflict \in 0..1,
           changes \in SUBSET {f \in Files : text[f] \in DOMAIN Edits[f]} :
        /\ run' = [run EXCEPT ![r].pc = "write",
                     ![r].tele = Seeded(r) + n, ![r].here = n, ![r].conflict = conflict,
                     ![r].seen = IF Cmd(r).multi THEN @ ELSE @ + n,
                     ![r].pending = Formatted(r, changes)]
        /\ trust' = Merged(r, n)
  BY Zenon DEF Engine
<1> DEFINE seen == IF Cmd(r).multi THEN run[r].seen ELSE run[r].seen + n
           tele == Seeded(r) + n
           pending == Formatted(r, changes)
           p == [run[r] EXCEPT !.pc = "write", !.tele = tele, !.here = n,
                   !.conflict = conflict, !.seen = seen, !.pending = pending]
<1>3. run' = [run EXCEPT ![r] = p]
  BY <1>1, <1>2 DEF IsWorking, Shapes
<1>4. /\ DOMAIN pending \subseteq Files
      /\ \A f \in DOMAIN pending : text[f] \in DOMAIN Edits[f] /\ pending[f] = Edits[f][text[f]]
  BY DEF Formatted
<1> HIDE DEF seen, tele, pending
<1>5. /\ IsWorking(p) /\ p.pc = "write" /\ p.cmd = run[r].cmd /\ p.rollout = run[r].rollout
      /\ p.graph = run[r].graph /\ p.targets = run[r].targets
      /\ p.tele = tele /\ p.here = n /\ p.pending = pending
  BY <1>1 DEF IsWorking, Steps
<1> HIDE DEF p
<1>6. Others(r) /\ run'[r] = p
  BY <1>3, OneMoves
<1> QED
  BY <1>1, <1>4, <1>5, <1>6 DEF tele

LEMMA WritePhaseMoves ==
  ASSUME Shapes, NEW r \in Runs, WritePhase(r)
  PROVE  /\ Others(r) /\ IsWorking(run[r]) /\ IsWorking(run'[r]) /\ run'[r].pc = "graph"
         /\ \A k \in DOMAIN run[r] \ {"pc", "targets"} : run'[r][k] = run[r][k]
         /\ run'[r].targets \subseteq
              Changed(r) \union Neighbours(run[r].graph.state, Changed(r))
<1>1. IsWorking(run[r])
  BY DEF Shapes, WritePhase, At, IsOver, IsOpening
<1> DEFINE near == Neighbours(run[r].graph.state, Changed(r))
           wanted == IF Cmd(r).kind = "check" \/ ~Cmd(r).graph THEN {} ELSE Changed(r) \union near
           parsed == IF "parse" \in project.faults THEN SUBSET wanted ELSE {wanted}
<1>2. PICK targets \in parsed : run' = [run EXCEPT ![r].pc = "graph", ![r].targets = targets]
  BY DEF WritePhase
<1>3. targets \subseteq Changed(r) \union near
  OBVIOUS
<1> HIDE DEF near, wanted, parsed
<1> DEFINE p == [run[r] EXCEPT !.pc = "graph", !.targets = targets]
<1>4. run' = [run EXCEPT ![r] = p]
  BY <1>1, <1>2 DEF IsWorking, Shapes
<1>5. /\ IsWorking(p) /\ p.pc = "graph" /\ p.targets = targets
      /\ \A k \in DOMAIN run[r] \ {"pc", "targets"} : p[k] = run[r][k]
  BY <1>1 DEF IsWorking, Steps
<1> HIDE DEF p
<1>6. Others(r) /\ run'[r] = p
  BY <1>4, OneMoves
<1> QED
  BY <1>1, <1>3, <1>5, <1>6 DEF near

LEMMA GraphRefreshMoves ==
  ASSUME Shapes, NEW r \in Runs, GraphRefresh(r)
  PROVE  /\ Others(r) /\ IsWorking(run[r]) /\ IsWorking(run'[r]) /\ run'[r].pc = "report"
         /\ \A k \in DOMAIN run[r] \ {"pc", "graph"} : run'[r][k] = run[r][k]
<1>1. IsWorking(run[r])
  BY DEF Shapes, GraphRefresh, At, IsOver, IsOpening
<1>2. \E g : run' = [run EXCEPT ![r].pc = "report", ![r].graph = g]
           \/ run' = [run EXCEPT ![r].pc = "report"]
  BY DEF GraphRefresh, Goto
<1>3. PICK g : run' = [run EXCEPT ![r] = [run[r] EXCEPT !.pc = "report", !.graph = g]]
               \/ run' = [run EXCEPT ![r] = [run[r] EXCEPT !.pc = "report"]]
  BY <1>1, <1>2 DEF IsWorking, Shapes
<1>4. CASE run' = [run EXCEPT ![r] = [run[r] EXCEPT !.pc = "report", !.graph = g]]
  <2> DEFINE p == [run[r] EXCEPT !.pc = "report", !.graph = g]
  <2>1. /\ IsWorking(p) /\ p.pc = "report"
        /\ \A k \in DOMAIN run[r] \ {"pc", "graph"} : p[k] = run[r][k]
    BY <1>1 DEF IsWorking, Steps
  <2> HIDE DEF p
  <2> QED
    BY <1>1, <1>4, <2>1, OneMoves DEF p
<1>5. CASE run' = [run EXCEPT ![r] = [run[r] EXCEPT !.pc = "report"]]
  <2> DEFINE p == [run[r] EXCEPT !.pc = "report"]
  <2>1. /\ IsWorking(p) /\ p.pc = "report"
        /\ \A k \in DOMAIN run[r] \ {"pc", "graph"} : p[k] = run[r][k]
    BY <1>1 DEF IsWorking, Steps
  <2> HIDE DEF p
  <2> QED
    BY <1>1, <1>5, <2>1, OneMoves DEF p
<1> QED
  BY <1>3, <1>4, <1>5

(* Every way to end.                                                       *)
LEMMA LeaveMoves ==
  ASSUME Shapes, NEW r \in Runs, NEW how \in {"ok", "error", "inaccurate"},
         Leave(r, how), ~IsOver(run[r])
  PROVE  /\ Others(r) /\ IsOver(run'[r]) /\ run'[r].how = how
         /\ how = "ok" \/ run[r].pc # "save" => Shapes'
<1>1. Others(r) /\ IsOver(run'[r]) /\ run'[r].how = how
  BY OverMoves DEF Leave
<1>2. /\ DOMAIN journal' = Runs /\ \A q \in Runs \ {r} : journal'[q] = journal[q]
      /\ journal'[r] = IF journal[r] = "RUNNING" THEN "FAILED" ELSE journal[r]
  BY DEF Leave, Shapes
<1>3. ASSUME how = "ok" \/ run[r].pc # "save" PROVE Recorded(run'[r], journal'[r])
  BY <1>1, <1>2, <1>3 DEF Shapes, Recorded, IsOver, IsOpening, IsWorking, Steps
<1> QED
  BY <1>1, <1>2, <1>3 DEF Shapes, Others

(***************************************************************************)
(* The journal.                                                            *)
(***************************************************************************)
LEMMA ShapesAfter ==
  ASSUME Shapes, NEW r \in Runs, Others(r),
         IsOver(run'[r]) \/ IsOpening(run'[r]) \/ IsWorking(run'[r]),
         DOMAIN journal' = Runs, \A q \in Runs \ {r} : journal'[q] = journal[q],
         Recorded(run'[r], journal'[r])
  PROVE  Shapes'
  BY DEF Shapes, Others

LEMMA SilentSteps ==
  ASSUME Shapes, NEW r \in Runs, journal' = journal, Others(r),
         IsWorking(run'[r]), run'[r].pc # "save",
         IsOpening(run[r]) \/ (IsWorking(run[r]) /\ run[r].pc # "save")
  PROVE  Shapes'
<1>1. Recorded(run'[r], journal'[r])
  BY DEF Shapes, Recorded, IsOpening, IsWorking, Steps
<1> QED
  BY <1>1, ShapesAfter DEF Shapes

LEMMA ValidateMoves ==
  ASSUME Shapes, NEW r \in Runs, Validate(r)
  PROVE  /\ Others(r) /\ IsWorking(run[r]) /\ Shapes'
         /\ \/ IsOver(run'[r])
            \/ /\ IsWorking(run'[r]) /\ run'[r].pc = "journal"
               /\ \A k \in DOMAIN run[r] \ {"pc"} : run'[r][k] = run[r][k]
<1>1. IsWorking(run[r]) /\ run[r].pc \in Steps \ {"save"} /\ ~IsOver(run[r])
  BY DEF Shapes, Validate, At, IsOver, IsOpening, IsWorking, Steps
<1>2. CASE \E how \in {"inaccurate", "ok"} : Leave(r, how)
  BY <1>1, <1>2, LeaveMoves
<1>3. CASE Goto(r, "journal") /\ UNCHANGED journal
  BY <1>1, <1>3, GotoMoves, SilentSteps DEF Steps
<1> QED
  BY <1>2, <1>3 DEF Validate

LEMMA StepKeepsShapes ==
  ASSUME Shapes, NEW r \in Runs, Step(r) PROVE Shapes'
<1>1. ASSUME NEW cmd \in project.commands, Start(r, cmd) PROVE Shapes'
  <2>1. /\ DOMAIN journal' = Runs /\ \A q \in Runs \ {r} : journal'[q] = journal[q]
        /\ journal'[r] \in {"RUNNING", "none"}
        /\ journal'[r] = "none" \/ run' = [run EXCEPT ![r] =
              [pc |-> "open", cmd |-> cmd, rollout |-> OpenedRollout]]
    BY <1>1 DEF Start, Shapes
  <2>2. Others(r) /\ ((IsOver(run'[r]) /\ run'[r].how \in {"ok", "error"}) \/ IsOpening(run'[r]))
    BY <1>1, StartMoves
  <2>3. Recorded(run'[r], journal'[r])
    BY <2>1, <2>2 DEF Recorded, IsOver, IsOpening
  <2> QED
    BY <2>1, <2>2, <2>3, ShapesAfter
<1>2. ASSUME NothingToDo(r) \/ SaveTrust(r) \/ Kill(r) PROVE Shapes'
  <2>1. PICK how \in {"ok", "killed"} : run' = [run EXCEPT ![r] = Ended(how)]
    BY <1>2 DEF NothingToDo, SaveTrust, Kill
  <2>2. Others(r) /\ IsOver(run'[r]) /\ run'[r].how = how
    BY <2>1, OverMoves
  <2>3. DOMAIN journal' = Runs /\ \A q \in Runs \ {r} : journal'[q] = journal[q]
    BY <1>2 DEF NothingToDo, SaveTrust, Kill, Shapes
  <2>4. Recorded(run'[r], journal'[r])
    BY <2>2 DEF Recorded, IsOver
  <2> QED
    BY <2>2, <2>3, <2>4, ShapesAfter
<1>3. ASSUME LeaveEarly(r) \/ OpenFails(r) \/ EngineFails(r) \/ ReportFails(r) \/ ContractFails(r)
      PROVE  Shapes'
  <2>1. run[r].pc \in {"open", "engine", "report", "journal"} /\ ~IsOver(run[r])
    BY <1>3 DEF LeaveEarly, OpenFails, EngineFails, ReportFails, ContractFails, At, IsOver
  <2>2. PICK how \in {"ok", "error"} : Leave(r, how)
    BY <1>3 DEF LeaveEarly, OpenFails, EngineFails, ReportFails, ContractFails, Fail
  <2> QED
    BY <2>1, <2>2, LeaveMoves
<1>4. ASSUME Open(r) PROVE Shapes'
  <2>1. journal' = journal
    BY <1>4 DEF Open
  <2>2. Others(r) /\ IsOpening(run[r]) /\ IsWorking(run'[r]) /\ run'[r].pc = "engine"
    BY <1>4, OpenMoves
  <2> QED
    BY <2>1, <2>2, SilentSteps
<1>5. ASSUME Engine(r) PROVE Shapes'
  BY <1>5, EngineMoves, SilentSteps DEF Engine, At
<1>6. ASSUME WritePhase(r) PROVE Shapes'
  BY <1>6, WritePhaseMoves, SilentSteps DEF WritePhase, At
<1>7. ASSUME GraphRefresh(r) PROVE Shapes'
  BY <1>7, GraphRefreshMoves, SilentSteps DEF GraphRefresh, At
<1>8. ASSUME SpawnBenchmark(r) \/ NoSignal(r) PROVE Shapes'
  <2>1. run[r].pc = "report" /\ Goto(r, "journal") /\ journal' = journal
    BY <1>8 DEF SpawnBenchmark, NoSignal, At
  <2> QED
    BY <2>1, GotoMoves, SilentSteps DEF Steps
<1>9. ASSUME JournalSuccess(r) PROVE Shapes'
  <2>1. /\ run[r].pc = "journal" /\ Goto(r, "save")
        /\ DOMAIN journal' = Runs /\ \A q \in Runs \ {r} : journal'[q] = journal[q]
        /\ journal'[r] = IF journal[r] = "RUNNING" THEN "SUCCESS" ELSE journal[r]
    BY <1>9 DEF JournalSuccess, At, Shapes
  <2>2. Others(r) /\ IsWorking(run'[r]) /\ run'[r].pc = "save"
    BY <2>1, GotoMoves DEF Steps
  <2>3. Recorded(run'[r], journal'[r])
    BY <2>1, <2>2 DEF Recorded, Shapes
  <2> QED
    BY <2>1, <2>2, <2>3, ShapesAfter
<1> QED
  BY <1>1, <1>2, <1>3, <1>4, <1>5, <1>6, <1>7, <1>8, <1>9, ValidateMoves DEF Step

LEMMA NextKeepsShapes == Shapes /\ [Next]_vars => Shapes'
<1>1. ASSUME Shapes, Damage \/ Tick \/ UNCHANGED vars PROVE Shapes'
  BY <1>1 DEF Damage, Tick, vars, Shapes
<1> QED
  BY <1>1, StepKeepsShapes DEF Next

LEMMA InitShapes == Init => Shapes
  BY DEF Init, Shapes, IsOver, Recorded, Ended

(* The journal never calls a run a success that returned an error or was   *)
(* found inaccurate, whichever of any number of runs overlap, fail or are  *)
(* killed between any two steps (journal.rs, finish_success and drop;      *)
(* runner.rs, App::run).                                                   *)
THEOREM JournalTellsTheTruth == Spec => []JournalIsTrue
<1>1. Shapes => JournalIsTrue
  BY DEF Shapes, JournalIsTrue, Recorded, At, IsOver, IsOpening, IsWorking, Steps
<1> QED
  BY <1>1, InitShapes, NextKeepsShapes, PTL DEF Spec

(***************************************************************************)
(* The rollout state.                                                      *)
(***************************************************************************)
Verdicts == [passed : BOOLEAN, level : Levels, samples : BOOLEAN]

(* A state is about a profile, or is what is left of a damaged file.       *)
AboutProfile(s) ==
  \/ s.requested \in Profiles /\ s.effective \in Profiles
  \/ s.requested = "" /\ s.effective = ""

(* Its streaks are in the verdicts since the last change of profile, and   *)
(* it is armed only by a streak that is long enough.                       *)
Streaks(s, since) ==
  /\ LastAre(since, s.passes, TRUE) /\ LastAre(since, s.failures, FALSE)
  /\ s.armed => s.passes >= StableTarget(s.effective) /\ s.requested \in Profiles

TrueMove(why) ==
  /\ why.to = "balanced" /\ why.from = "adaptive" => LastAre(why.since, 3, TRUE) /\ why.level >= 2
  /\ why.to = "strict" => LastAre(why.since, 5, TRUE) /\ why.level = 3
  /\ why.to = "adaptive" => LastAre(why.since, 3, FALSE)
  /\ why.to = "balanced" /\ why.from = "strict" => LastAre(why.since, 2, FALSE)
  /\ why.from = "adaptive" => why.to # "strict"

Evident(x) ==
  /\ DOMAIN x = {"is", "state", "since", "why"} /\ x.is = "state"
  /\ x.state \in States /\ AboutProfile(x.state)
  /\ x.since \in Seq(BOOLEAN) /\ Streaks(x.state, x.since)
  /\ TrueMove(x.why)

LEMMA StreakGrows ==
  ASSUME NEW s \in Seq(BOOLEAN), NEW n \in Nat, NEW v \in BOOLEAN, LastAre(s, n, v)
  PROVE  LastAre(Append(s, v), n + 1, v)
<1> DEFINE t == Append(s, v)
<1>1. /\ Len(s) \in Nat /\ Len(t) = Len(s) + 1 /\ t[Len(s) + 1] = v
      /\ \A i \in 1 .. Len(s) : t[i] = s[i]
  OBVIOUS
<1>2. Len(s) >= n /\ \A i \in (Len(s) - n + 1) .. Len(s) : s[i] = v
  BY DEF LastAre
<1> HIDE DEF t
<1>3. ASSUME NEW i \in (Len(t) - (n + 1) + 1) .. Len(t) PROVE t[i] = v
  <2>1. i = Len(s) + 1 \/ i \in (Len(s) - n + 1) .. Len(s)
    BY <1>1
  <2>2. i \in 1 .. Len(s) \/ i = Len(s) + 1
    BY <1>1, <1>2, <2>1
  <2> QED
    BY <1>1, <1>2, <2>1, <2>2
<1>4. Len(t) >= n + 1
  BY <1>1, <1>2
<1> QED
  BY <1>3, <1>4 DEF LastAre, t

LEMMA StreakShrinks ==
  ASSUME NEW s \in Seq(BOOLEAN), NEW n \in Nat, NEW m \in Nat, m <= n, NEW v, LastAre(s, n, v)
  PROVE  LastAre(s, m, v)
<1>1. Len(s) \in Nat
  OBVIOUS
<1> QED
  BY <1>1 DEF LastAre

LEMMA NoStreak == ASSUME NEW s \in Seq(BOOLEAN), NEW v PROVE LastAre(s, 0, v)
<1>1. Len(s) \in Nat
  OBVIOUS
<1> QED
  BY <1>1 DEF LastAre

LEMMA TargetIsPositive == ASSUME NEW p \in Profiles PROVE StableTarget(p) \in Nat \ {0}
  BY RolloutAssumption DEF StableTarget, Most, Least, Profiles

LEMMA NothingEvident ==
  ASSUME NEW p \in Profiles \cup {""}
  PROVE  /\ Remembering(p) \in States /\ AboutProfile(Remembering(p))
         /\ Streaks(Remembering(p), <<>>) /\ <<>> \in Seq(BOOLEAN)
         /\ Remembering(p).passes = 0 /\ Remembering(p).failures = 0
         /\ Remembering(p).requested = p /\ Remembering(p).effective = p
<1>1. <<>> \in Seq(BOOLEAN)
  BY EmptySeq
<1>2. Remembering(p) \in States /\ AboutProfile(Remembering(p))
  BY DEF Remembering, States, AboutProfile
<1>3. Streaks(Remembering(p), <<>>)
  BY <1>1, NoStreak DEF Remembering, Streaks
<1> QED
  BY <1>1, <1>2, <1>3 DEF Remembering

(* What promotes and what demotes a profile.                               *)
LEMMA WhatPromotes ==
  ASSUME NEW s \in States, NEW active \in Profiles, NEW level \in Levels, Promotes(s, active, level)
  PROVE  \/ active = "adaptive" /\ Above(active) = "balanced" /\ s.passes >= 3 /\ level >= 2
         \/ active = "balanced" /\ Above(active) = "strict" /\ s.passes >= 5 /\ level = 3
  BY DEF Promotes, Above, LevelOf, PromotionStreak, Profiles, Levels

LEMMA WhatDemotes ==
  ASSUME NEW s \in States, NEW active \in Profiles, Demotes(s, active)
  PROVE  \/ active = "strict" /\ Below(active) = "balanced" /\ s.failures >= 2
         \/ active = "balanced" /\ Below(active) = "adaptive" /\ s.failures >= 3
  BY DEF Demotes, Below, DemotionStreak, Profiles

LEMMA RequestedState ==
  ASSUME NEW s \in States, AboutProfile(s), NEW profile \in Profiles
  PROVE  LET b == Requested(s, profile) IN
         /\ b \in States /\ b.requested = profile /\ b.effective \in Profiles
         /\ s.requested = profile => b = s
         /\ s.requested # profile => b = Remembering(profile)
<1>1. CASE s.requested = profile
  BY <1>1 DEF Requested, AboutProfile, Profiles
<1>2. CASE s.requested # profile
  BY <1>2, NothingEvident DEF Requested
<1> QED
  BY <1>1, <1>2

LEMMA CountedState ==
  ASSUME NEW b \in States, NEW passed \in BOOLEAN
  PROVE  LET c == Counted(b, passed) IN
         /\ c \in States /\ c.requested = b.requested /\ c.effective = b.effective
         /\ c.passes = IF passed THEN b.passes + 1 ELSE 0
         /\ c.failures = IF passed THEN 0 ELSE b.failures + 1
<1>1. b.passes \in Nat /\ b.failures \in Nat
  BY DEF States
<1> DEFINE m == b.passes + 1
           n == b.failures + 1
<1>2. m \in Nat /\ n \in Nat
  BY <1>1
<1> HIDE DEF m, n
<1>3. CASE passed
  <2>1. Counted(b, passed) = [b EXCEPT !.passes = m, !.failures = 0]
    BY <1>3 DEF Counted, m
  <2>2. /\ [b EXCEPT !.passes = m, !.failures = 0] \in States
        /\ [b EXCEPT !.passes = m, !.failures = 0].requested = b.requested
        /\ [b EXCEPT !.passes = m, !.failures = 0].effective = b.effective
        /\ [b EXCEPT !.passes = m, !.failures = 0].passes = m
        /\ [b EXCEPT !.passes = m, !.failures = 0].failures = 0
    BY <1>2 DEF States
  <2> QED
    BY <1>3, <2>1, <2>2 DEF m
<1>4. CASE ~passed
  <2>1. Counted(b, passed) = [b EXCEPT !.failures = n, !.passes = 0]
    BY <1>4 DEF Counted, n
  <2>2. /\ [b EXCEPT !.failures = n, !.passes = 0] \in States
        /\ [b EXCEPT !.failures = n, !.passes = 0].requested = b.requested
        /\ [b EXCEPT !.failures = n, !.passes = 0].effective = b.effective
        /\ [b EXCEPT !.failures = n, !.passes = 0].passes = 0
        /\ [b EXCEPT !.failures = n, !.passes = 0].failures = n
    BY <1>2 DEF States
  <2> QED
    BY <1>4, <2>1, <2>2 DEF n
<1> QED
  BY <1>3, <1>4

LEMMA MovedState ==
  ASSUME NEW c \in States, NEW p \in Profiles
  PROVE  LET m == Moved(c, p) IN
         /\ m \in States /\ m.requested = c.requested /\ m.effective = p
         /\ m.passes = 0 /\ m.failures = 0
  BY DEF Moved, States

(* What a signal makes of a state that is about the profile of the run.    *)
LEMMA Observed ==
  ASSUME NEW s \in States, AboutProfile(s), NEW profile \in Profiles, NEW o \in Verdicts
  PROVE  LET b == Requested(s, profile)
             c == Counted(b, o.passed)
             next == Observe(s, profile, o)
         IN /\ next \in States /\ next.requested = profile /\ next.effective \in Profiles
            /\ ~o.samples => /\ next.effective = b.effective /\ ~next.armed
                             /\ next.passes = b.passes /\ next.failures = b.failures
            /\ o.samples =>
                 /\ next.armed => next.passes >= StableTarget(next.effective)
                 /\ \/ /\ next.effective = b.effective
                       /\ next.passes = c.passes /\ next.failures = c.failures
                    \/ /\ next.passes = 0 /\ next.failures = 0
                       /\ \/ /\ o.passed /\ Promotes(c, b.effective, o.level)
                             /\ next.effective = Above(b.effective)
                          \/ /\ ~o.passed /\ Demotes(c, b.effective)
                             /\ next.effective = Below(b.effective)
<1> DEFINE b == Requested(s, profile)
           c == Counted(b, o.passed)
           up == o.passed /\ Promotes(c, c.effective, o.level)
           down == ~o.passed /\ Demotes(c, c.effective)
           m == IF up THEN Moved(c, Above(c.effective))
                ELSE IF down THEN Moved(c, Below(c.effective)) ELSE c
           next == Observe(s, profile, o)
<1>1. b \in States /\ b.requested = profile /\ b.effective \in Profiles
  BY RequestedState
<1>2. o.passed \in BOOLEAN /\ o.samples \in BOOLEAN /\ o.level \in Levels
  BY DEF Verdicts
<1>3. c \in States /\ c.requested = profile /\ c.effective = b.effective
  BY <1>1, <1>2, CountedState
<1>4. next = IF ~o.samples THEN [b EXCEPT !.armed = FALSE]
             ELSE [m EXCEPT !.armed = m.passes >= StableTarget(m.effective)]
  BY DEF Observe
<1> HIDE DEF b, c, next
<1>5. /\ m \in States /\ m.requested = profile /\ m.effective \in Profiles
      /\ \/ m = c
         \/ /\ m.passes = 0 /\ m.failures = 0
            /\ \/ up /\ m.effective = Above(b.effective)
               \/ down /\ m.effective = Below(b.effective)
  <2>1. CASE up
    <3>1. Above(c.effective) \in Profiles
      BY <1>1, <1>2, <1>3, <2>1, WhatPromotes DEF Profiles
    <3> QED
      BY <1>3, <2>1, <3>1, MovedState
  <2>2. CASE ~up /\ down
    <3>1. Below(c.effective) \in Profiles
      BY <1>1, <1>2, <1>3, <2>2, WhatDemotes DEF Profiles
    <3> QED
      BY <1>3, <2>2, <3>1, MovedState
  <2>3. CASE ~up /\ ~down
    BY <1>1, <1>3, <2>3
  <2> QED
    BY <2>1, <2>2, <2>3
<1>6. CASE ~o.samples
  BY <1>1, <1>4, <1>6 DEF States, b, c, next
<1>7. CASE o.samples
  <2> DEFINE armed == m.passes >= StableTarget(m.effective)
  <2>1. next = [m EXCEPT !.armed = armed] /\ armed \in BOOLEAN
    BY <1>4, <1>7
  <2> HIDE DEF armed, m
  <2>2. /\ next \in States /\ next.requested = m.requested /\ next.effective = m.effective
        /\ next.passes = m.passes /\ next.failures = m.failures /\ next.armed = armed
    BY <1>5, <2>1 DEF States
  <2> QED
    BY <1>3, <1>5, <1>7, <2>2 DEF armed, b, c, next
<1> QED
  BY <1>2, <1>6, <1>7

(* What a signal makes of a file whose streaks and last move are evident.  *)
LEMMA ObserveExplained ==
  ASSUME NEW x, Evident(x), NEW profile \in Profiles, NEW o \in Verdicts
  PROVE  Evident(Explained(x, Observe(x.state, profile, o), o))
<1> DEFINE s == x.state
           b == Requested(s, profile)
           c == Counted(b, o.passed)
           next == Observe(s, profile, o)
           same == s.requested = next.requested
           start == IF same THEN x.since ELSE <<>>
           since == IF o.samples THEN Append(start, o.passed) ELSE start
           moved == same /\ s.effective # next.effective
           why == IF same THEN x.why ELSE NoMove
           y == Explained(x, next, o)
<1>1. /\ DOMAIN x = {"is", "state", "since", "why"} /\ s \in States /\ AboutProfile(s)
      /\ x.since \in Seq(BOOLEAN) /\ Streaks(s, x.since) /\ TrueMove(x.why)
  BY DEF Evident
<1>2. o.passed \in BOOLEAN /\ o.samples \in BOOLEAN /\ o.level \in Levels
  BY DEF Verdicts
<1>3. /\ b \in States /\ b.requested = profile /\ b.effective \in Profiles
      /\ s.requested = profile => b = s
      /\ s.requested # profile => b = Remembering(profile)
  BY <1>1, RequestedState
<1>4. /\ c \in States /\ c.requested = b.requested /\ c.effective = b.effective
      /\ c.passes = IF o.passed THEN b.passes + 1 ELSE 0
      /\ c.failures = IF o.passed THEN 0 ELSE b.failures + 1
  BY <1>2, <1>3, CountedState
<1>5. /\ next \in States /\ next.requested = profile /\ next.effective \in Profiles
      /\ ~o.samples => /\ next.effective = b.effective /\ ~next.armed
                       /\ next.passes = b.passes /\ next.failures = b.failures
      /\ o.samples =>
           /\ next.armed => next.passes >= StableTarget(next.effective)
           /\ \/ /\ next.effective = b.effective
                 /\ next.passes = c.passes /\ next.failures = c.failures
              \/ /\ next.passes = 0 /\ next.failures = 0
                 /\ \/ /\ o.passed /\ Promotes(c, b.effective, o.level)
                       /\ next.effective = Above(b.effective)
                    \/ /\ ~o.passed /\ Demotes(c, b.effective)
                       /\ next.effective = Below(b.effective)
  BY <1>1, Observed
<1>6. /\ DOMAIN y = {"is", "state", "since", "why"} /\ y.is = "state" /\ y.state = next
      /\ y.since = IF moved THEN <<>> ELSE since
      /\ ~moved => y.why = why
      /\ moved => /\ y.why.from = s.effective /\ y.why.to = next.effective
                  /\ y.why.level = o.level /\ y.why.since = since
  BY <1>1 DEF Explained
<1>7. b.passes \in Nat /\ b.failures \in Nat /\ c.passes \in Nat /\ c.failures \in Nat
  BY <1>3, <1>4 DEF States
<1>8. same <=> s.requested = profile
  BY <1>5
<1>9. <<>> \in Seq(BOOLEAN)
  BY EmptySeq
<1> HIDE DEF s, b, c, next, same, y
<1>10. /\ start \in Seq(BOOLEAN)
       /\ LastAre(start, b.passes, TRUE) /\ LastAre(start, b.failures, FALSE)
  <2>1. CASE same
    BY <1>1, <1>3, <1>8, <2>1 DEF Streaks
  <2>2. CASE ~same
    <3>1. b.passes = 0 /\ b.failures = 0
      BY <1>3, <1>8, <2>2, NothingEvident
    <3> QED
      BY <1>9, <2>2, <3>1, NoStreak
  <2> QED
    BY <2>1, <2>2
<1> HIDE DEF start
<1>11. /\ since \in Seq(BOOLEAN)
       /\ o.samples => LastAre(since, c.passes, TRUE) /\ LastAre(since, c.failures, FALSE)
       /\ ~o.samples => since = start
  <2>1. CASE o.samples
    <3>1. since = Append(start, o.passed) /\ since \in Seq(BOOLEAN)
      BY <1>2, <1>10, <2>1
    <3>2. CASE o.passed
      <4>1. LastAre(Append(start, TRUE), b.passes + 1, TRUE)
        BY <1>7, <1>10, StreakGrows
      <4>2. o.passed = TRUE /\ c.passes = b.passes + 1 /\ c.failures = 0
        BY <1>2, <1>4, <3>2
      <4> QED
        BY <3>1, <4>1, <4>2, NoStreak
    <3>3. CASE ~o.passed
      <4>1. LastAre(Append(start, FALSE), b.failures + 1, FALSE)
        BY <1>7, <1>10, StreakGrows
      <4>2. o.passed = FALSE /\ c.passes = 0 /\ c.failures = b.failures + 1
        BY <1>2, <1>4, <3>3
      <4> QED
        BY <3>1, <4>1, <4>2, NoStreak
    <3> QED
      BY <2>1, <3>2, <3>3, <3>1
  <2> QED
    BY <1>10, <2>1
<1> HIDE DEF since
<1>12. TrueMove(why)
  BY <1>1 DEF TrueMove, NoMove
<1>13. AboutProfile(next)
  BY <1>5 DEF AboutProfile
<1>14. ASSUME ~moved PROVE Evident(y)
  <2>1. LastAre(since, next.passes, TRUE) /\ LastAre(since, next.failures, FALSE)
    BY <1>5, <1>10, <1>11, NoStreak
  <2>2. next.armed => next.passes >= StableTarget(next.effective) /\ next.requested \in Profiles
    BY <1>2, <1>5
  <2> QED
    BY <1>5, <1>6, <1>11, <1>12, <1>13, <1>14, <2>1, <2>2 DEF Evident, Streaks
<1>15. ASSUME moved PROVE Evident(y)
  <2>1. b = s /\ o.samples /\ next.effective # b.effective
    BY <1>3, <1>5, <1>8, <1>15
  <2>2. next.passes = 0 /\ next.failures = 0
    BY <1>5, <2>1
  <2>3. Streaks(next, <<>>)
    BY <1>5, <1>9, <2>1, <2>2, NoStreak DEF Streaks
  <2>4. TrueMove(y.why)
    <3>1. CASE o.passed /\ Promotes(c, b.effective, o.level) /\ next.effective = Above(b.effective)
      <4>1. \/ b.effective = "adaptive" /\ next.effective = "balanced" /\ c.passes >= 3 /\ o.level >= 2
            \/ b.effective = "balanced" /\ next.effective = "strict" /\ c.passes >= 5 /\ o.level = 3
        BY <1>2, <1>3, <1>4, <3>1, WhatPromotes
      <4>2. \A m \in Nat : m <= c.passes => LastAre(since, m, TRUE)
        BY <1>7, <1>11, <2>1, StreakShrinks
      <4>3. (c.passes >= 3 => LastAre(since, 3, TRUE)) /\ (c.passes >= 5 => LastAre(since, 5, TRUE))
        BY <1>7, <4>2
      <4> QED
        BY <1>6, <1>15, <2>1, <4>1, <4>3 DEF TrueMove
    <3>2. CASE ~o.passed /\ Demotes(c, b.effective) /\ next.effective = Below(b.effective)
      <4>1. \/ b.effective = "strict" /\ next.effective = "balanced" /\ c.failures >= 2
            \/ b.effective = "balanced" /\ next.effective = "adaptive" /\ c.failures >= 3
        BY <1>2, <1>3, <1>4, <3>2, WhatDemotes
      <4>2. \A m \in Nat : m <= c.failures => LastAre(since, m, FALSE)
        BY <1>7, <1>11, <2>1, StreakShrinks
      <4>3. (c.failures >= 2 => LastAre(since, 2, FALSE)) /\ (c.failures >= 3 => LastAre(since, 3, FALSE))
        BY <1>7, <4>2
      <4> QED
        BY <1>6, <1>15, <2>1, <4>1, <4>3 DEF TrueMove
    <3> QED
      BY <1>5, <2>1, <3>1, <3>2
  <2> QED
    BY <1>5, <1>6, <1>9, <1>13, <1>15, <2>3, <2>4 DEF Evident
<1>16. Evident(y)
  BY <1>14, <1>15
<1> QED
  BY <1>16 DEF y, next, s

(* The file and the copies that processes hold are evident.                *)
RolloutInv ==
  /\ project \in Projects
  /\ rollout.is \in {"none", "corrupt"} \/ Evident(rollout)
  /\ \A r \in Runs : ~IsOver(run[r]) => run[r].cmd \in CommandType /\ Evident(run[r].rollout)

LEMMA OpenedIsEvident ==
  ASSUME RolloutInv PROVE Evident(OpenedRollout)
<1>1. CASE rollout.is \notin {"none", "corrupt"}
  BY <1>1 DEF RolloutInv, OpenedRollout, Evident
<1>2. CASE rollout.is \in {"none", "corrupt"}
  <2>1. PICK p \in Profiles \cup {""} : OpenedState(rollout) = Remembering(p)
    BY <1>2 DEF OpenedState, Profiles
  <2>2. /\ Remembering(p) \in States /\ AboutProfile(Remembering(p))
        /\ Streaks(Remembering(p), <<>>) /\ <<>> \in Seq(BOOLEAN)
    BY NothingEvident
  <2>3. OpenedRollout = [is |-> "state", state |-> Remembering(p), since |-> <<>>, why |-> NoMove]
    BY <1>2, <2>1 DEF OpenedRollout
  <2>4. TrueMove(NoMove)
    BY DEF TrueMove, NoMove
  <2> QED
    BY <2>2, <2>3, <2>4 DEF Evident
<1> QED
  BY <1>1, <1>2

LEMMA SignalsAreVerdicts ==
  ASSUME NEW r \in Runs PROVE Signals(r) \subseteq Verdicts
<1>1. GateSignals \subseteq Verdicts
  BY DEF GateSignals, Verdicts
<1>2. ASSUME NEW e PROVE BenchmarkSignals(e) \subseteq Verdicts
  <2>1. ASSUME NEW level \in Levels, NEW enough \in BOOLEAN
        PROVE  [passed |-> enough /\ level >= Needed(e), level |-> level, samples |-> enough]
                 \in Verdicts
    BY DEF Verdicts
  <2> QED
    BY <2>1 DEF BenchmarkSignals
<1> QED
  BY <1>1, <1>2 DEF Signals

(* A step that moves one process, and leaves the file as it is.            *)
LEMMA RolloutStays ==
  ASSUME RolloutInv, NEW r \in Runs, Others(r), project' = project,
         rollout' \in {rollout, None},
         IsOver(run'[r]) \/ (run'[r].cmd \in CommandType /\ Evident(run'[r].rollout))
  PROVE  RolloutInv'
<1>1. rollout'.is \in {"none", "corrupt"} \/ Evident(rollout')
  BY DEF RolloutInv, None
<1>2. \A q \in Runs : IsOver(run'[q]) \/ (run'[q].cmd \in CommandType /\ Evident(run'[q].rollout))
  BY DEF RolloutInv, Others
<1> QED
  BY <1>1, <1>2 DEF RolloutInv

LEMMA ValidateKeepsRollout ==
  ASSUME Shapes, RolloutInv, NEW r \in Runs, Validate(r) PROVE RolloutInv'
<1>1. /\ Others(r) /\ IsWorking(run[r])
      /\ \/ IsOver(run'[r])
         \/ \A k \in DOMAIN run[r] \ {"pc"} : run'[r][k] = run[r][k]
  BY ValidateMoves
<1>2. project' = project
  BY DEF Validate
<1>3. run[r].cmd \in CommandType /\ Evident(run[r].rollout)
  BY <1>1 DEF RolloutInv, IsOver, IsWorking, Steps
<1>4. Cmd(r).profile \in Profiles
  BY <1>3 DEF CommandType, Cmd
<1>5. PICK o \in Signals(r) :
        rollout' = Explained(run[r].rollout, Observe(run[r].rollout.state, Cmd(r).profile, o), o)
  BY DEF Validate
<1>6. o \in Verdicts
  BY SignalsAreVerdicts
<1>7. Evident(rollout')
  BY <1>3, <1>4, <1>5, <1>6, ObserveExplained
<1>8. IsOver(run'[r]) \/ (run'[r].cmd = run[r].cmd /\ run'[r].rollout = run[r].rollout)
  BY <1>1 DEF IsWorking
<1>9. \A q \in Runs : IsOver(run'[q]) \/ (run'[q].cmd \in CommandType /\ Evident(run'[q].rollout))
  BY <1>1, <1>3, <1>8 DEF RolloutInv, Others
<1> QED
  BY <1>2, <1>7, <1>9 DEF RolloutInv

LEMMA StepKeepsRollout ==
  ASSUME Shapes, RolloutInv, NEW r \in Runs, Step(r) PROVE RolloutInv'
<1>1. ASSUME NEW cmd \in project.commands, Start(r, cmd) PROVE RolloutInv'
  <2>1. /\ Others(r)
        /\ \/ IsOver(run'[r])
           \/ run'[r].cmd = cmd /\ run'[r].rollout = OpenedRollout
    BY <1>1, StartMoves
  <2>2. project' = project /\ rollout' \in {rollout, None}
    BY <1>1 DEF Start, Quarantined
  <2>3. cmd \in CommandType
    BY RunsAssumption DEF RolloutInv
  <2> QED
    BY <2>1, <2>2, <2>3, OpenedIsEvident, RolloutStays
<1>2. ASSUME NothingToDo(r) \/ SaveTrust(r) \/ Kill(r) PROVE RolloutInv'
  <2>1. PICK how \in {"ok", "killed"} : run' = [run EXCEPT ![r] = Ended(how)]
    BY <1>2 DEF NothingToDo, SaveTrust, Kill
  <2>2. Others(r) /\ IsOver(run'[r])
    BY <2>1, OverMoves
  <2>3. project' = project /\ rollout' = rollout
    BY <1>2 DEF NothingToDo, SaveTrust, Kill
  <2> QED
    BY <2>2, <2>3, RolloutStays
<1>3. ASSUME LeaveEarly(r) \/ OpenFails(r) \/ EngineFails(r) \/ ReportFails(r) \/ ContractFails(r)
      PROVE  RolloutInv'
  <2>1. run[r].pc \in {"open", "engine", "report", "journal"} /\ ~IsOver(run[r])
    BY <1>3 DEF LeaveEarly, OpenFails, EngineFails, ReportFails, ContractFails, At, IsOver
  <2>2. PICK how \in {"ok", "error"} : Leave(r, how)
    BY <1>3 DEF LeaveEarly, OpenFails, EngineFails, ReportFails, ContractFails, Fail
  <2>3. Others(r) /\ IsOver(run'[r])
    BY <2>1, <2>2, LeaveMoves
  <2>4. project' = project /\ rollout' = rollout
    BY <1>3 DEF LeaveEarly, OpenFails, EngineFails, ReportFails, ContractFails, Fail
  <2> QED
    BY <2>3, <2>4, RolloutStays
<1>4. ASSUME Open(r) \/ Engine(r) PROVE RolloutInv'
  <2>1. /\ Others(r) /\ ~IsOver(run[r])
        /\ run'[r].cmd = run[r].cmd /\ run'[r].rollout = run[r].rollout
    BY <1>4, OpenMoves, EngineMoves DEF IsOver, IsOpening, IsWorking, Steps
  <2>2. project' = project /\ rollout' = rollout
    BY <1>4 DEF Open, Engine
  <2> QED
    BY <2>1, <2>2, RolloutStays DEF RolloutInv
<1>5. ASSUME WritePhase(r) \/ GraphRefresh(r) PROVE RolloutInv'
  <2>1. Others(r) /\ IsWorking(run[r])
    BY <1>5, WritePhaseMoves, GraphRefreshMoves
  <2>2. \A k \in DOMAIN run[r] \ {"pc", "targets", "graph"} : run'[r][k] = run[r][k]
    BY <1>5, WritePhaseMoves, GraphRefreshMoves
  <2>3. /\ ~IsOver(run[r])
        /\ run'[r].cmd = run[r].cmd /\ run'[r].rollout = run[r].rollout
    BY <2>1, <2>2 DEF IsOver, IsWorking, Steps
  <2>4. project' = project /\ rollout' = rollout
    BY <1>5 DEF WritePhase, GraphRefresh
  <2> QED
    BY <2>1, <2>3, <2>4, RolloutStays DEF RolloutInv
<1>6. ASSUME SpawnBenchmark(r) \/ NoSignal(r) \/ JournalSuccess(r) PROVE RolloutInv'
  <2>1. PICK pc \in Steps : Goto(r, pc) /\ run[r].pc \in Steps
    BY <1>6 DEF SpawnBenchmark, NoSignal, JournalSuccess, At, Steps
  <2>2. /\ Others(r) /\ IsWorking(run[r])
        /\ \A k \in DOMAIN run[r] \ {"pc"} : run'[r][k] = run[r][k]
    BY <2>1, GotoMoves
  <2>3. /\ ~IsOver(run[r])
        /\ run'[r].cmd = run[r].cmd /\ run'[r].rollout = run[r].rollout
    BY <2>2 DEF IsOver, IsWorking, Steps
  <2>4. project' = project /\ rollout' = rollout
    BY <1>6 DEF SpawnBenchmark, NoSignal, JournalSuccess
  <2> QED
    BY <2>2, <2>3, <2>4, RolloutStays DEF RolloutInv
<1> QED
  BY <1>1, <1>2, <1>3, <1>4, <1>5, <1>6, ValidateKeepsRollout DEF Step

LEMMA NextKeepsRollout == Shapes /\ RolloutInv /\ [Next]_vars => RolloutInv'
<1>1. ASSUME Shapes, RolloutInv, Damage \/ Tick \/ UNCHANGED vars PROVE RolloutInv'
  <2>1. run' = run /\ project' = project /\ (rollout' = rollout \/ rollout' = Corrupt)
    BY <1>1 DEF Damage, Tick, vars
  <2>2. rollout'.is \in {"none", "corrupt"} \/ Evident(rollout')
    BY <1>1, <2>1 DEF RolloutInv, Corrupt
  <2> QED
    BY <1>1, <2>1, <2>2 DEF RolloutInv
<1> QED
  BY <1>1, StepKeepsRollout DEF Next

LEMMA InitRollout == Init => RolloutInv
  BY DEF Init, RolloutInv, None, IsOver, Ended

LEMMA AlwaysRollout == Spec => []RolloutInv
<1>1. (Shapes /\ RolloutInv) /\ [Next]_vars => (Shapes /\ RolloutInv)'
  BY NextKeepsShapes, NextKeepsRollout
<1> QED
  BY <1>1, InitShapes, InitRollout, PTL DEF Spec

(* The profile moves only on unbroken evidence gathered under the profile  *)
(* it leaves, for every number of stable passes and every configuration,   *)
(* whatever overlaps, quarantines and changes of the requested profile lie *)
(* in between (rollout_state.rs, observe_signal).                          *)
THEOREM TheProfileMovesByEvidence == Spec => []MovedByEvidence
<1>1. RolloutInv => MovedByEvidence
  BY DEF RolloutInv, MovedByEvidence, Evident, TrueMove
<1> QED
  BY <1>1, AlwaysRollout, PTL

(* A run that is closed although closing is deferred has a streak of       *)
(* passes to show since the last failure and the last change of profile    *)
(* (rollout_state.rs, effective_fail_closed).                              *)
THEOREM TheProfileClosesByEvidence == Spec => []ClosedByEvidence
<1>1. ASSUME RolloutInv, rollout.is = "state", NEW p \in Profiles,
             EffectiveFailClosed(rollout.state, p, TRUE, TRUE)
      PROVE  LastAre(rollout.since,
                     IF rollout.state.effective = "strict" THEN 1
                     ELSE StableTarget(rollout.state.effective), TRUE)
  <2> DEFINE s == rollout.state
  <2>1. Evident(rollout)
    BY <1>1 DEF RolloutInv
  <2>2. /\ s \in States /\ rollout.since \in Seq(BOOLEAN)
        /\ LastAre(rollout.since, s.passes, TRUE)
        /\ s.armed => s.passes >= StableTarget(s.effective)
        /\ s.requested \in Profiles => s.effective \in Profiles
    BY <2>1 DEF Evident, Streaks, AboutProfile, Profiles
  <2>3. s.requested = p /\ ((s.effective = "strict" /\ s.passes > 0) \/ s.armed)
    BY <1>1 DEF EffectiveFailClosed, EffectiveProfile
  <2>4. s.passes \in Nat /\ StableTarget(s.effective) \in Nat \ {0}
    BY <1>1, <2>2, <2>3, TargetIsPositive DEF States
  <2>5. \A m \in Nat : m <= s.passes => LastAre(rollout.since, m, TRUE)
    BY <2>2, <2>4, StreakShrinks
  <2> HIDE DEF s
  <2>6. (s.passes >= 1 => LastAre(rollout.since, 1, TRUE))
        /\ (s.passes >= StableTarget(s.effective) =>
              LastAre(rollout.since, StableTarget(s.effective), TRUE))
    BY <2>4, <2>5
  <2>7. CASE s.effective = "strict"
    <3>1. s.passes >= 1
      BY <2>2, <2>3, <2>4
    <3> QED
      BY <2>6, <2>7, <3>1 DEF s
  <2>8. CASE s.effective # "strict"
    <3>1. s.passes >= StableTarget(s.effective)
      BY <2>2, <2>3, <2>8
    <3> QED
      BY <2>6, <2>8, <3>1 DEF s
  <2> QED
    BY <2>7, <2>8
<1>2. RolloutInv => ClosedByEvidence
  BY <1>1 DEF ClosedByEvidence
<1> QED
  BY <1>2, AlwaysRollout, PTL

(***************************************************************************)
(* What the project graph has learned.                                     *)
(***************************************************************************)
(* The two counters of a graph, and that it is one.                        *)
GraphFields == {"nodes", "edges", "metrics", "tombs", "pair", "pairSeen", "clusters", "retry"}
IsGraph(g) == DOMAIN g = GraphFields /\ g.clusters \in Nat /\ g.retry \in Nat
Like(h, g) == DOMAIN h = DOMAIN g /\ h.clusters = g.clusters /\ h.retry = g.retry

(* A file whose counters do not exceed what was learned, and are all of it *)
(* when no run of several processes wrote it.                              *)
Sound(x) ==
  /\ DOMAIN x = {"is", "gen", "state", "learned", "mixed"} /\ x.is = "graph"
  /\ IsGraph(x.state) /\ x.learned \in Nat /\ x.mixed \in BOOLEAN
  /\ x.state.retry <= x.learned /\ x.state.clusters <= x.learned
  /\ ~x.mixed => x.state.retry = x.learned /\ x.state.clusters = x.learned

(* What the pass of a run was seeded with, from the graph it has read.     *)
Seed(p) == IF p.cmd.multi THEN 0 ELSE Remembered(p.graph)

Learns(p) ==
  /\ p.here \in Nat /\ DOMAIN p.pending \subseteq Files /\ p.targets \subseteq Files
  /\ p.graph = None \/ Sound(p.graph)
  /\ p.cmd.graph => Sound(p.graph)
  /\ p.pc \in {"write", "graph"} => p.tele = Seed(p) + p.here

LearnInv ==
  /\ store.is \in {"none", "corrupt"} \/ Sound(store)
  /\ \A r \in Runs : IsWorking(run[r]) => Learns(run[r])

LEMMA LeastOf ==
  ASSUME NEW S \in SUBSET Nat, S # {}
  PROVE  \E m \in S : \A k \in S : m <= k
<1> DEFINE R == {p \in Nat \X Nat : p[1] < p[2]}
<1>1. IsWellFoundedOn(R, Nat)
  BY NatLessThanWellFounded DEF OpToRel
<1>2. \A k, m \in Nat : <<k, m>> \notin R => m <= k
  OBVIOUS
<1> HIDE DEF R
<1>3. \E m \in S : \A k \in S : <<k, m>> \notin R
  BY <1>1, WFMin
<1> QED
  BY <1>2, <1>3

(* Ageing leaves the counters alone.                                       *)
LEMMA LikeIsTransitive ==
  ASSUME NEW f, NEW g, NEW h, Like(h, g), Like(g, f) PROVE Like(h, f)
  BY DEF Like

LEMMA DecayKeeps == ASSUME NEW g, NEW now PROVE Like(DecayPair(g, now), g)
<1>1. CASE g.pair = 0
  BY <1>1 DEF DecayPair, Like
<1>2. CASE g.pair # 0
  <2>1. PICK kept, seen : DecayPair(g, now) = [g EXCEPT !.pair = kept, !.pairSeen = seen]
    BY <1>2 DEF DecayPair
  <2> QED
    BY <2>1 DEF Like
<1> QED
  BY <1>1, <1>2

LEMMA PruneKeeps == ASSUME NEW g, NEW cutoff PROVE Like(PruneStale(g, cutoff), g)
<1>1. PICK nodes, edges : PruneStale(g, cutoff) = [g EXCEPT !.nodes = nodes, !.edges = edges]
  BY DEF PruneStale
<1> QED
  BY <1>1 DEF Like

LEMMA CapEdgesKeeps == ASSUME NEW g, NEW h \in CapEdges(g) PROVE Like(h, g)
<1>1. h = g \/ \E edges : h = [g EXCEPT !.edges = edges]
  BY DEF CapEdges
<1>2. ASSUME NEW edges, h = [g EXCEPT !.edges = edges] PROVE Like(h, g)
  BY <1>2 DEF Like
<1>3. Like(g, g)
  BY DEF Like
<1> QED
  BY <1>1, <1>2, <1>3

LEMMA CapNodesKeeps == ASSUME NEW g, NEW h \in CapNodes(g) PROVE Like(h, g)
<1>1. h = g \/ \E nodes, edges : h = [g EXCEPT !.nodes = nodes, !.edges = edges]
  BY DEF CapNodes
<1>2. ASSUME NEW nodes, NEW edges, h = [g EXCEPT !.nodes = nodes, !.edges = edges]
      PROVE  Like(h, g)
  BY <1>2 DEF Like
<1>3. Like(g, g)
  BY DEF Like
<1> QED
  BY <1>1, <1>2, <1>3

LEMMA CompactKeeps == ASSUME NEW g, NEW now, NEW h \in Compactions(g, now) PROVE Like(h, g)
<1>1. PICK f \in UNION {CapNodes(e) : e \in CapEdges(PruneStale(g, now - Retention))} :
        \E tombs, metrics : h = [f EXCEPT !.tombs = tombs, !.metrics = metrics]
  <2> DEFINE S == UNION {CapNodes(e) : e \in CapEdges(PruneStale(g, now - Retention))}
  <2>1. \E f \in S : \E tombs, metrics : h = [f EXCEPT !.tombs = tombs, !.metrics = metrics]
    BY Zenon DEF Compactions
  <2> QED
    BY <2>1
<1>2. PICK e \in CapEdges(PruneStale(g, now - Retention)) : f \in CapNodes(e)
  BY <1>1
<1>3. Like(h, f)
  BY <1>1 DEF Like
<1>4. Like(f, e) /\ Like(e, PruneStale(g, now - Retention)) /\ Like(PruneStale(g, now - Retention), g)
  BY <1>2, CapNodesKeeps, CapEdgesKeeps, PruneKeeps
<1> QED
  BY <1>3, <1>4, LikeIsTransitive

LEMMA PersistableKeeps == ASSUME NEW g, NEW now, NEW h \in Persistable(g, now) PROVE Like(h, g)
<1>1. h = DecayPair(g, now) \/ h \in Compactions(DecayPair(g, now), now)
  BY DEF Persistable
<1>2. Like(h, h)
  BY DEF Like
<1>3. Like(h, DecayPair(g, now))
  BY <1>1, <1>2, CompactKeeps
<1> QED
  BY <1>3, DecayKeeps, LikeIsTransitive

LEMMA ApplyParseKeeps == ASSUME NEW g, NEW p, NEW now PROVE Like(ApplyParse(g, p, now), g)
<1>1. PICK nodes, edges, metrics :
        ApplyParse(g, p, now) = [g EXCEPT !.nodes = nodes, !.edges = edges, !.metrics = metrics]
  BY DEF ApplyParse
<1> QED
  BY <1>1 DEF Like

(* The files of a refresh can be put in an order.                          *)
LEMMA OrderExists ==
  ASSUME NEW S, IsFiniteSet(S)
  PROVE  InOrder(S) \in [1 .. Cardinality(S) -> S] /\ Cardinality(S) \in Nat
<1> DEFINE n == Cardinality(S)
<1>1. n \in Nat /\ ExistsBijection(1 .. n, S)
  BY FS_CardinalityType
<1> HIDE DEF n
<1>2. \E q \in [1 .. n -> S] : \A i, j \in 1 .. n : i < j => q[i] # q[j]
  <2>1. PICK q \in Bijection(1 .. n, S) : TRUE
    BY <1>1 DEF ExistsBijection
  <2>2. q \in [1 .. n -> S] /\ \A i, j \in DOMAIN q : q[i] = q[j] => i = j
    BY <2>1 DEF Bijection, Injection, IsInjective
  <2>3. \A i, j \in 1 .. n : i < j => q[i] # q[j]
    <3>1. \A i, j \in 1 .. n : i < j => i # j
      BY <1>1
    <3> QED
      BY <2>2, <3>1
  <2> QED
    BY <2>2, <2>3
<1> QED
  BY <1>1, <1>2 DEF InOrder, n

LEMMA OrderIsSequence ==
  ASSUME NEW r \in Runs, run[r].targets \subseteq Files
  PROVE  /\ Len(RefreshOrder(r)) \in Nat
         /\ \A k \in 1 .. Len(RefreshOrder(r)) : RefreshOrder(r)[k] \in Files
<1> DEFINE A == run[r].targets \intersect Changed(r)
           B == run[r].targets \ Changed(r)
<1>1. IsFiniteSet(A) /\ IsFiniteSet(B)
  BY GraphAssumption, FS_Subset
<1>2. InOrder(A) \in Seq(Files) /\ InOrder(B) \in Seq(Files)
  <2>1. A \subseteq Files /\ B \subseteq Files
    OBVIOUS
  <2> HIDE DEF A, B
  <2>2. /\ InOrder(A) \in [1 .. Cardinality(A) -> A] /\ Cardinality(A) \in Nat
        /\ InOrder(B) \in [1 .. Cardinality(B) -> B] /\ Cardinality(B) \in Nat
    BY <1>1, OrderExists
  <2>3. InOrder(A) \in [1 .. Cardinality(A) -> Files] /\ InOrder(B) \in [1 .. Cardinality(B) -> Files]
    BY <2>1, <2>2
  <2> QED
    BY <2>2, <2>3, SeqDef
<1> HIDE DEF A, B
<1>3. InOrder(A) \o InOrder(B) \in Seq(Files)
  BY <1>2
<1>4. RefreshOrder(r) \in Seq(Files)
  BY <1>3 DEF RefreshOrder, A, B
<1> HIDE DEF RefreshOrder
<1> QED
  BY <1>4

(* The parses of a refresh, one after another.                             *)
IsChain(f, n, r, g) ==
  f = [k \in 0 .. n |-> IF k = 0 THEN g
                        ELSE ApplyParse(f[k - 1], ParseFor(r, RefreshOrder(r)[k]), clock)]

LEMMA ChainExists ==
  ASSUME NEW r, NEW g, NEW n \in Nat
  PROVE  \E f : IsChain(f, n, r, g)
<1> DEFINE After(x, k) == ApplyParse(x, ParseFor(r, RefreshOrder(r)[k]), clock)
<1> DEFINE Bad == {m \in Nat : ~\E f : f = [k \in 0 .. m |-> IF k = 0 THEN g ELSE After(f[k - 1], k)]}
<1>1. ASSUME Bad # {} PROVE FALSE
  <2>1. PICK m \in Bad : \A k \in Bad : m <= k
    BY <1>1, LeastOf
  <2>2. CASE m = 0
    <3> DEFINE f == [k \in 0 .. 0 |-> g]
    <3>1. f = [k \in 0 .. 0 |-> IF k = 0 THEN g ELSE After(f[k - 1], k)]
      OBVIOUS
    <3> QED
      BY <2>1, <2>2, <3>1
  <2>3. CASE m # 0
    <3>1. m \in Nat /\ m - 1 \in Nat /\ m - 1 \notin Bad
      <4>1. m \in Nat
        BY <2>1
      <4>2. m - 1 \in Nat /\ ~(m <= m - 1)
        BY <2>3, <4>1
      <4> HIDE DEF Bad
      <4> QED
        BY <2>1, <4>1, <4>2
    <3>2. PICK f : f = [k \in 0 .. (m - 1) |-> IF k = 0 THEN g ELSE After(f[k - 1], k)]
      BY <3>1
    <3> HIDE DEF After
    <3> DEFINE h == [k \in 0 .. m |-> IF k = m THEN After(f[m - 1], m) ELSE f[k]]
    <3>3. ASSUME NEW k \in 0 .. m PROVE h[k] = IF k = 0 THEN g ELSE After(h[k - 1], k)
      <4>1. CASE k = m
        BY <2>3, <3>1, <4>1
      <4>2. CASE k # m
        <5>1. k \in 0 .. (m - 1) /\ h[k] = f[k] /\ (k # 0 => h[k - 1] = f[k - 1])
          BY <3>1, <4>2
        <5> QED
          BY <3>2, <5>1
      <4> QED
        BY <4>1, <4>2
    <3>4. DOMAIN h = 0 .. m /\ h = [k \in 0 .. m |-> h[k]]
      OBVIOUS
    <3> HIDE DEF h
    <3>5. h = [k \in 0 .. m |-> IF k = 0 THEN g ELSE After(h[k - 1], k)]
      BY <3>3, <3>4
    <3>6. \E e : e = [k \in 0 .. m |-> IF k = 0 THEN g ELSE After(e[k - 1], k)]
      BY <3>5
    <3> QED
      BY <2>1, <3>6
  <2> QED
    BY <2>2, <2>3
<1> QED
  BY <1>1 DEF IsChain

LEMMA ChainKeeps ==
  ASSUME NEW r, NEW g, NEW n \in Nat, NEW f, IsChain(f, n, r, g)
  PROVE  Like(f[n], g)
<1> DEFINE After(x, k) == ApplyParse(x, ParseFor(r, RefreshOrder(r)[k]), clock)
           Bad == {m \in 0 .. n : ~Like(f[m], g)}
<1>1. \A k \in 0 .. n : f[k] = IF k = 0 THEN g ELSE After(f[k - 1], k)
  BY DEF IsChain
<1>2. \A x, k : Like(After(x, k), x)
  BY ApplyParseKeeps
<1>3. Like(g, g)
  BY DEF Like
<1> HIDE DEF After
<1>4. ASSUME Bad # {} PROVE FALSE
  <2>1. Bad \in SUBSET Nat
    OBVIOUS
  <2>2. PICK m \in Bad : \A k \in Bad : m <= k
    BY <1>4, <2>1, LeastOf
  <2>3. m # 0
    BY <1>1, <1>3, <2>2
  <2>4. m - 1 \in 0 .. n /\ m - 1 \notin Bad /\ m \in 0 .. n
    BY <2>2, <2>3
  <2>5. Like(f[m - 1], g) /\ f[m] = After(f[m - 1], m)
    BY <1>1, <2>3, <2>4
  <2> QED
    BY <1>2, <2>2, <2>5, LikeIsTransitive
<1> QED
  BY <1>4

LEMMA ParsedKeeps ==
  ASSUME NEW r \in Runs, run[r].targets \subseteq Files, NEW g
  PROVE  Like(Parsed(r, g), g)
<1> DEFINE n == Len(RefreshOrder(r))
           chain == CHOOSE f : IsChain(f, n, r, g)
<1>1. n \in Nat
  BY OrderIsSequence
<1>2. IsChain(chain, n, r, g)
  BY <1>1, ChainExists
<1>3. Parsed(r, g) = chain[n]
  BY DEF Parsed, IsChain
<1> HIDE DEF n, chain
<1> QED
  BY <1>1, <1>2, <1>3, ChainKeeps

(* What a refresh writes is sound: the counters of the graph it read, with *)
(* what this run learned added once.                                       *)
LEMMA RefreshedCounts ==
  ASSUME NEW r \in Runs, run[r].targets \subseteq Files, NEW h, h = Refreshed(r),
         IsGraph(run[r].graph.state), run[r].tele \in Nat
  PROVE  /\ DOMAIN h = GraphFields /\ h.clusters = run[r].tele
         /\ h.retry = run[r].graph.state.retry + Delta(run[r].tele, run[r].graph.state)
<1> DEFINE old == run[r].graph.state
           tele == run[r].tele
           parsed == Parsed(r, old)
           delta == Delta(tele, old)
           paired == IF run[r].conflict > 0
                     THEN [parsed EXCEPT !.pair = @ + 1, !.pairSeen = clock] ELSE parsed
<1>1. Like(parsed, old)
  BY ParsedKeeps
<1>2. h = [paired EXCEPT !.clusters = IF tele # old.clusters THEN tele ELSE @, !.retry = @ + delta]
  BY DEF Refreshed
<1> HIDE DEF parsed, delta
<1>3. Like(paired, parsed)
  <2>1. PICK n : paired = [parsed EXCEPT !.pair = n, !.pairSeen = clock] \/ paired = parsed
    OBVIOUS
  <2> HIDE DEF paired
  <2>2. CASE paired = [parsed EXCEPT !.pair = n, !.pairSeen = clock]
    BY <2>2 DEF Like
  <2>3. CASE paired = parsed
    BY <2>3 DEF Like
  <2> QED
    BY <2>1, <2>2, <2>3
<1> HIDE DEF paired
<1>4. /\ DOMAIN paired = GraphFields /\ paired.clusters = old.clusters /\ paired.retry = old.retry
  BY <1>1, <1>3 DEF Like, IsGraph
<1> HIDE DEF old, tele
<1>5. /\ DOMAIN h = GraphFields
      /\ h.clusters = IF tele # old.clusters THEN tele ELSE paired.clusters
      /\ h.retry = paired.retry + delta
  BY <1>2, <1>4 DEF GraphFields
<1> QED
  BY <1>4, <1>5 DEF delta, old, tele

LEMMA RefreshIsSound ==
  ASSUME NEW r \in Runs, Learns(run[r]), run[r].pc = "graph", Sound(run[r].graph),
         NEW next \in Persist(run[r].graph, Refreshed(r)), NEW file,
         file = [next EXCEPT !.learned = @ + run[r].here, !.mixed = @ \/ Cmd(r).multi]
  PROVE  Sound(file)
<1> DEFINE x == run[r].graph
           h == Refreshed(r)
           here == run[r].here
           tele == run[r].tele
           multi == Cmd(r).multi
<1>1. PICK s \in Persistable(h, clock) : next = [x EXCEPT !.gen = @ + 1, !.state = s]
  BY DEF Persist
<1>2. Like(s, h)
  BY PersistableKeeps
<1>3. /\ DOMAIN x = {"is", "gen", "state", "learned", "mixed"} /\ x.is = "graph"
      /\ IsGraph(x.state) /\ x.learned \in Nat /\ x.mixed \in BOOLEAN
      /\ x.state.retry <= x.learned /\ x.state.clusters <= x.learned
      /\ ~x.mixed => x.state.retry = x.learned /\ x.state.clusters = x.learned
  BY DEF Sound
<1>4. /\ here \in Nat /\ run[r].targets \subseteq Files
      /\ tele = (IF multi THEN 0 ELSE x.state.clusters) + here
  BY <1>3 DEF Learns, Seed, Remembered, Cmd
<1>5. x.state.retry \in Nat /\ x.state.clusters \in Nat
  BY <1>3 DEF IsGraph
<1>6. tele \in Nat
  BY <1>4, <1>5
<1>7. /\ DOMAIN h = GraphFields /\ h.clusters = tele
      /\ h.retry = x.state.retry + Delta(tele, x.state)
  BY <1>3, <1>4, <1>6, RefreshedCounts
<1> DEFINE gen == x.gen + 1
           learned == x.learned + here
           mixed == x.mixed \/ multi
<1>8. /\ DOMAIN file = {"is", "gen", "state", "learned", "mixed"} /\ file.is = "graph"
      /\ file.state = s /\ file.learned = learned /\ file.mixed = mixed
  <2>1. next = [x EXCEPT !.gen = gen, !.state = s]
    BY <1>1
  <2> HIDE DEF gen, x
  <2>2. /\ DOMAIN next = {"is", "gen", "state", "learned", "mixed"} /\ next.is = "graph"
        /\ next.state = s /\ next.learned = x.learned /\ next.mixed = x.mixed
    BY <1>3, <2>1
  <2>3. file = [next EXCEPT !.learned = learned, !.mixed = mixed]
    BY <2>2 DEF x
  <2> HIDE DEF learned, mixed
  <2> QED
    BY <2>2, <2>3
<1>9. mixed \in BOOLEAN /\ (~mixed => ~x.mixed /\ ~multi)
  OBVIOUS
<1>10. /\ DOMAIN s = GraphFields /\ s.clusters = tele
       /\ s.retry = x.state.retry + Most(tele - x.state.retry, 0)
  BY <1>2, <1>7 DEF Like, Delta
<1> HIDE DEF x, h, here, tele, multi
<1>11. /\ s.retry \in Nat /\ s.retry <= learned /\ s.clusters <= learned /\ learned \in Nat
       /\ ~mixed => s.retry = learned /\ s.clusters = learned
  <2>1. CASE multi
    BY <1>3, <1>4, <1>5, <1>10, <2>1 DEF Most
  <2>2. CASE ~multi
    BY <1>3, <1>4, <1>5, <1>10, <2>2 DEF Most
  <2> QED
    BY <2>1, <2>2
<1> HIDE DEF learned, mixed
<1> QED
  BY <1>6, <1>8, <1>9, <1>10, <1>11 DEF Sound, IsGraph

LEMMA OpenedIsSound == ASSUME LearnInv PROVE Sound(OpenedStore)
<1>1. CASE store.is = "graph"
  BY <1>1 DEF LearnInv, OpenedStore
<1>2. CASE store.is # "graph"
  <2> DEFINE x == [is |-> "graph", gen |-> 0, state |-> EmptyGraph, learned |-> 0, mixed |-> FALSE]
  <2>1. OpenedStore = x
    BY <1>2 DEF OpenedStore
  <2>2. IsGraph(EmptyGraph) /\ EmptyGraph.clusters = 0 /\ EmptyGraph.retry = 0
    BY DEF IsGraph, EmptyGraph, GraphFields
  <2>3. Sound(x)
    BY <2>2 DEF Sound
  <2> HIDE DEF x
  <2> QED
    BY <2>1, <2>3
<1> QED
  BY <1>1, <1>2

(* A step that moves one process, and may leave a sound file.              *)
LEMMA LearnStays ==
  ASSUME LearnInv, NEW r \in Runs, Others(r),
         store' \in {store, None} \/ Sound(store'),
         IsWorking(run'[r]) => Learns(run'[r])
  PROVE  LearnInv'
<1>1. store'.is \in {"none", "corrupt"} \/ Sound(store')
  BY DEF LearnInv, None
<1>2. \A q \in Runs : IsWorking(run'[q]) => Learns(run'[q])
  BY DEF LearnInv, Others
<1> QED
  BY <1>1, <1>2 DEF LearnInv

LEMMA SameLearns ==
  ASSUME NEW p, NEW q, Learns(p), IsWorking(p),
         q.pc \notin {"write", "graph"} \/ p.pc \in {"write", "graph"},
         \A k \in DOMAIN p \ {"pc", "targets", "graph"} : q[k] = p[k],
         q.targets \subseteq Files,
         q.graph = p.graph \/ (Sound(q.graph) /\ q.pc \notin {"write", "graph"})
  PROVE  Learns(q)
<1>1. q.here = p.here /\ q.pending = p.pending /\ q.cmd = p.cmd /\ q.tele = p.tele
  BY DEF IsWorking
<1> QED
  BY <1>1 DEF Learns, Seed

LEMMA NotWorking == ASSUME NEW p, IsOver(p) \/ IsOpening(p) PROVE ~IsWorking(p)
  BY DEF IsOver, IsOpening, IsWorking, Steps

LEMMA GraphRefreshKeepsLearn ==
  ASSUME Shapes, LearnInv, NEW r \in Runs, GraphRefresh(r) PROVE LearnInv'
<1>1. /\ Others(r) /\ IsWorking(run[r]) /\ IsWorking(run'[r]) /\ run'[r].pc = "report"
      /\ \A k \in DOMAIN run[r] \ {"pc", "graph"} : run'[r][k] = run[r][k]
  BY GraphRefreshMoves
<1>2. Learns(run[r]) /\ run[r].pc = "graph"
  BY <1>1 DEF LearnInv, GraphRefresh, At
<1>3. DOMAIN run = Runs /\ DOMAIN run[r] = {"pc", "cmd", "rollout", "graph", "tele", "here",
                                            "conflict", "seen", "pending", "targets"}
  BY <1>1 DEF Shapes, IsWorking
<1>4. run'[r].targets = run[r].targets
  BY <1>1, <1>3
<1>5. Refreshes(r) => Sound(run[r].graph)
  BY <1>2 DEF Refreshes, Learns, Cmd
<1>6. /\ run'[r].graph = run[r].graph \/ Sound(run'[r].graph)
      /\ store' = store \/ Sound(store')
  <2>1. ASSUME Refreshes(r), NEW next \in Persist(run[r].graph, Refreshed(r)), NEW file,
               file = [next EXCEPT !.learned = @ + run[r].here, !.mixed = @ \/ Cmd(r).multi],
               store' = file, run' = [run EXCEPT ![r].pc = "report", ![r].graph = file]
        PROVE  run'[r].graph = file /\ store' = file /\ Sound(file)
    <3>1. Sound(file)
      BY <1>2, <1>5, <2>1, RefreshIsSound
    <3>2. run'[r].graph = file
      BY <1>3, <2>1
    <3> QED
      BY <2>1, <3>1, <3>2
  <2>2. ASSUME Refreshes(r), run' = [run EXCEPT ![r].pc = "report", ![r].graph.gen = @ + 1]
        PROVE  Sound(run'[r].graph)
    <3> DEFINE gen == run[r].graph.gen + 1
               g == [run[r].graph EXCEPT !.gen = gen]
    <3>1. run'[r].graph = g
      BY <1>3, <2>2
    <3> HIDE DEF gen
    <3>2. Sound(g)
      BY <1>5, <2>2 DEF Sound
    <3> QED
      BY <3>1, <3>2
  <2>3. ASSUME Goto(r, "report") PROVE run'[r].graph = run[r].graph
    BY <1>3, <2>3 DEF Goto
  <2>4. \/ \E next \in Persist(run[r].graph, Refreshed(r)) : \E file :
             /\ Refreshes(r)
             /\ file = [next EXCEPT !.learned = @ + run[r].here, !.mixed = @ \/ Cmd(r).multi]
             /\ store' = file /\ run' = [run EXCEPT ![r].pc = "report", ![r].graph = file]
        \/ /\ Refreshes(r) /\ run' = [run EXCEPT ![r].pc = "report", ![r].graph.gen = @ + 1]
           /\ store' = store
        \/ Goto(r, "report") /\ store' = store
    BY DEF GraphRefresh
  <2> QED
    BY <2>1, <2>2, <2>3, <2>4
<1>7. Learns(run'[r])
  BY <1>1, <1>2, <1>4, <1>6, SameLearns DEF Learns
<1> QED
  BY <1>1, <1>6, <1>7, LearnStays

LEMMA StepKeepsLearn ==
  ASSUME Shapes, RolloutInv, LearnInv, NEW r \in Runs, Step(r) PROVE LearnInv'
<1>1. ASSUME NEW cmd \in project.commands, Start(r, cmd) PROVE LearnInv'
  <2>1. Others(r) /\ (IsOver(run'[r]) \/ IsOpening(run'[r]))
    BY <1>1, StartMoves
  <2>2. store' = store
    BY <1>1 DEF Start
  <2> QED
    BY <2>1, <2>2, NotWorking, LearnStays
<1>2. ASSUME NothingToDo(r) \/ SaveTrust(r) \/ Kill(r) PROVE LearnInv'
  <2>1. PICK how \in {"ok", "killed"} : run' = [run EXCEPT ![r] = Ended(how)]
    BY <1>2 DEF NothingToDo, SaveTrust, Kill
  <2>2. Others(r) /\ IsOver(run'[r])
    BY <2>1, OverMoves
  <2>3. store' = store
    BY <1>2 DEF NothingToDo, SaveTrust, Kill
  <2> QED
    BY <2>2, <2>3, NotWorking, LearnStays
<1>3. ASSUME LeaveEarly(r) \/ OpenFails(r) \/ EngineFails(r) \/ ReportFails(r) \/ ContractFails(r)
      PROVE  LearnInv'
  <2>1. run[r].pc \in {"open", "engine", "report", "journal"} /\ ~IsOver(run[r])
    BY <1>3 DEF LeaveEarly, OpenFails, EngineFails, ReportFails, ContractFails, At, IsOver
  <2>2. PICK how \in {"ok", "error"} : Leave(r, how)
    BY <1>3 DEF LeaveEarly, OpenFails, EngineFails, ReportFails, ContractFails, Fail
  <2>3. Others(r) /\ IsOver(run'[r])
    BY <2>1, <2>2, LeaveMoves
  <2>4. store' = store
    BY <1>3 DEF LeaveEarly, OpenFails, EngineFails, ReportFails, ContractFails, Fail
  <2> QED
    BY <2>3, <2>4, NotWorking, LearnStays
<1>4. ASSUME Open(r) PROVE LearnInv'
  <2>1. /\ Others(r) /\ run'[r].pc = "engine" /\ run'[r].cmd = run[r].cmd
        /\ run'[r].graph = IF run[r].cmd.graph THEN OpenedStore ELSE None
        /\ run'[r].here = 0 /\ run'[r].targets = {} /\ run'[r].pending = <<>>
    BY <1>4, OpenMoves
  <2>2. DOMAIN run'[r].pending \subseteq Files
    BY <2>1
  <2>3. Learns(run'[r])
    BY <2>1, <2>2, OpenedIsSound DEF Learns
  <2>4. store' \in {store, None}
    BY <1>4 DEF Open, Quarantined
  <2> QED
    BY <2>1, <2>3, <2>4, LearnStays
<1>5. ASSUME Engine(r) PROVE LearnInv'
  <2>1. /\ Others(r) /\ IsWorking(run[r]) /\ run'[r].cmd = run[r].cmd
        /\ run'[r].graph = run[r].graph /\ run'[r].targets = run[r].targets
        /\ DOMAIN run'[r].pending \subseteq Files
    BY <1>5, EngineMoves
  <2>2. PICK n \in project.learns : run'[r].tele = Seeded(r) + n /\ run'[r].here = n
    BY <1>5, EngineMoves
  <2>3. n \in Nat
    BY RunsAssumption DEF RolloutInv
  <2>4. Seed(run'[r]) = Seeded(r)
    BY <2>1 DEF Seed, Seeded, Cmd
  <2>5. Learns(run'[r])
    BY <2>1, <2>2, <2>3, <2>4 DEF LearnInv, Learns
  <2>6. store' = store
    BY <1>5 DEF Engine
  <2> QED
    BY <2>1, <2>5, <2>6, LearnStays
<1>6. ASSUME WritePhase(r) PROVE LearnInv'
  <2>1. /\ Others(r) /\ IsWorking(run[r]) /\ run[r].pc = "write"
        /\ \A k \in DOMAIN run[r] \ {"pc", "targets"} : run'[r][k] = run[r][k]
        /\ run'[r].targets \subseteq
             Changed(r) \union Neighbours(run[r].graph.state, Changed(r))
    BY <1>6, WritePhaseMoves DEF WritePhase, At
  <2>2. Learns(run[r])
    BY <2>1 DEF LearnInv
  <2>3. run'[r].targets \subseteq Files
    BY <2>1, <2>2 DEF Learns, Changed, Neighbours
  <2>4. run'[r].graph = run[r].graph
    BY <2>1 DEF IsWorking
  <2>5. Learns(run'[r])
    BY <2>1, <2>2, <2>3, <2>4, SameLearns
  <2>6. store' = store
    BY <1>6 DEF WritePhase
  <2> QED
    BY <2>1, <2>5, <2>6, LearnStays
<1>7. ASSUME NEW pc \in {"journal", "save"}, Goto(r, pc), run[r].pc \in Steps, store' = store
      PROVE  LearnInv'
  <2>1. /\ Others(r) /\ IsWorking(run[r]) /\ run'[r].pc = pc
        /\ \A k \in DOMAIN run[r] \ {"pc"} : run'[r][k] = run[r][k]
    BY <1>7, GotoMoves DEF Steps
  <2>2. Learns(run[r]) /\ run'[r].targets = run[r].targets /\ run'[r].graph = run[r].graph
    BY <2>1 DEF LearnInv, IsWorking
  <2>3. Learns(run'[r])
    BY <2>1, <2>2, SameLearns DEF Learns
  <2> QED
    BY <1>7, <2>1, <2>3, LearnStays
<1>8. ASSUME SpawnBenchmark(r) \/ NoSignal(r) \/ JournalSuccess(r) PROVE LearnInv'
  <2>1. PICK pc \in {"journal", "save"} : Goto(r, pc) /\ run[r].pc \in Steps /\ store' = store
    BY <1>8 DEF SpawnBenchmark, NoSignal, JournalSuccess, At, Steps
  <2> QED
    BY <1>7, <2>1
<1>9. ASSUME Validate(r) PROVE LearnInv'
  <2>1. /\ Others(r) /\ IsWorking(run[r])
        /\ \/ IsOver(run'[r])
           \/ Goto(r, "journal")
    BY <1>9, ValidateMoves, LeaveMoves DEF Validate, IsWorking, IsOver, Steps
  <2>2. store' = store
    BY <1>9 DEF Validate
  <2>3. CASE IsOver(run'[r])
    BY <2>1, <2>2, <2>3, NotWorking, LearnStays
  <2>4. CASE Goto(r, "journal")
    BY <1>7, <2>1, <2>2, <2>4 DEF IsWorking
  <2> QED
    BY <2>1, <2>3, <2>4
<1> QED
  BY <1>1, <1>2, <1>3, <1>4, <1>5, <1>6, <1>8, <1>9, GraphRefreshKeepsLearn DEF Step

LEMMA NextKeepsLearn == Shapes /\ RolloutInv /\ LearnInv /\ [Next]_vars => LearnInv'
<1>1. ASSUME LearnInv, Damage \/ Tick \/ UNCHANGED vars PROVE LearnInv'
  <2>1. run' = run /\ (store' = store \/ store' = Corrupt)
    BY <1>1 DEF Damage, Tick, vars
  <2>2. store'.is \in {"none", "corrupt"} \/ Sound(store')
    BY <1>1, <2>1 DEF LearnInv, Corrupt
  <2> QED
    BY <1>1, <2>1, <2>2 DEF LearnInv
<1> QED
  BY <1>1, StepKeepsLearn DEF Next

LEMMA InitLearn == Init => LearnInv
  BY NotWorking DEF Init, LearnInv, None, IsOver, Ended

(* What a run learned is counted at most once in the project graph, and    *)
(* exactly once where only runs of one process wrote it: for any number of *)
(* overlapping runs and files, whatever is parsed, aged, capped and        *)
(* compacted, and whichever writes fail (graph_refresh.rs, the mutator and *)
(* diff_retry_learning_snapshot; store.rs, persist_with_stats).            *)
THEOREM WhatIsLearnedIsCountedOnce == Spec => []LearnedOnce
<1>1. LearnInv => LearnedOnce
  BY DEF LearnInv, LearnedOnce, Sound
<1>2. (Shapes /\ RolloutInv /\ LearnInv) /\ [Next]_vars => (Shapes /\ RolloutInv /\ LearnInv)'
  BY NextKeepsShapes, NextKeepsRollout, NextKeepsLearn
<1> QED
  BY <1>1, <1>2, InitShapes, InitRollout, InitLearn, PTL DEF Spec

(***************************************************************************)
(* Sums of weights.  WeightTo folds a set through a recursive function on  *)
(* its subsets that takes out one member at a time: that there is such a   *)
(* function, and that the order does not matter, is shown here by a least  *)
(* counterexample.                                                         *)
(***************************************************************************)
First(s) == CHOOSE x \in s : TRUE
Sum(w, S) == MapThenSumSet(LAMBDA e : w[e].weight, S)
Sums(f, w, S) ==
  f = [s \in SUBSET S |-> IF s = {} THEN 0 ELSE w[First(s)].weight + f[s \ {First(s)}]]

LEMMA SumIs ==
  ASSUME NEW w, NEW S
  PROVE  Sum(w, S) = (CHOOSE f : Sums(f, w, S))[S]
  BY DEF Sum, MapThenSumSet, MapThenFoldSet, Sums, First

(* A least counterexample among the subsets of a finite set.               *)
LEMMA SmallestSet ==
  ASSUME NEW S, IsFiniteSet(S), NEW P \in SUBSET (SUBSET S), P # {}
  PROVE  \E s \in P : \A t \in SUBSET s : t # s => t \notin P
<1>1. \A t \in SUBSET S : IsFiniteSet(t) /\ Cardinality(t) \in Nat
  BY FS_Subset, FS_CardinalityType
<1> DEFINE N == {Cardinality(t) : t \in P}
<1>2. N \in SUBSET Nat /\ N # {}
  BY <1>1
<1>3. PICK m \in N : \A k \in N : m <= k
  BY <1>2, LeastOf
<1>4. PICK s \in P : Cardinality(s) = m
  BY <1>3
<1>5. ASSUME NEW t \in SUBSET s, t # s, t \in P PROVE FALSE
  <2>1. Cardinality(t) < Cardinality(s)
    BY <1>1, <1>4, <1>5, FS_Subset
  <2>2. Cardinality(t) \in N
    BY <1>5
  <2> QED
    BY <1>1, <1>3, <1>4, <1>5, <2>1, <2>2
<1> QED
  BY <1>4, <1>5

LEMMA FirstIn == ASSUME NEW s, s # {} PROVE First(s) \in s
  BY DEF First

(* Two such functions agree where both are defined.                        *)
LEMMA SumsAgree ==
  ASSUME NEW w, NEW S, NEW T, NEW f, NEW h, Sums(f, w, S), Sums(h, w, T),
         IsFiniteSet(S), S \subseteq T
  PROVE  f[S] = h[S]
<1> DEFINE P == {s \in SUBSET S : f[s] # h[s]}
<1>a. /\ \A s \in SUBSET S : f[s] = IF s = {} THEN 0 ELSE w[First(s)].weight + f[s \ {First(s)}]
      /\ \A s \in SUBSET T : h[s] = IF s = {} THEN 0 ELSE w[First(s)].weight + h[s \ {First(s)}]
  BY DEF Sums
<1>1. ASSUME P # {} PROVE FALSE
  <2>1. PICK s \in P : \A t \in SUBSET s : t # s => t \notin P
    <3>1. P \in SUBSET (SUBSET S)
      OBVIOUS
    <3> HIDE DEF P
    <3> QED
      BY <1>1, <3>1, SmallestSet
  <2>2. s # {} /\ s \in SUBSET S /\ s \in SUBSET T
    BY <1>a, <2>1
  <2> DEFINE t == s \ {First(s)}
  <2>3. t \in SUBSET s /\ t # s /\ t \in SUBSET S
    BY <2>2, FirstIn
  <2>4. f[t] = h[t]
    BY <2>1, <2>3
  <2> QED
    BY <1>a, <2>1, <2>2, <2>4
<1> QED
  BY <1>1

(* There is such a function: of sets of up to n members, and so of all.    *)
LEMMA SumsExist == ASSUME NEW w, NEW S, IsFiniteSet(S) PROVE \E f : Sums(f, w, S)
<1> DEFINE size == Cardinality(S)
           Upto(n) == {s \in SUBSET S : Cardinality(s) <= n}
           Term(f, s) == IF s = {} THEN 0 ELSE w[First(s)].weight + f[s \ {First(s)}]
           Bad == {n \in Nat : ~\E f : f = [s \in Upto(n) |-> Term(f, s)]}
<1>1. \A t \in SUBSET S : /\ Cardinality(t) \in Nat /\ Cardinality(t) <= size
                          /\ Cardinality(t) = 0 <=> t = {}
  BY FS_Subset, FS_CardinalityType, FS_EmptySet
<1>2. \A t \in SUBSET S : t # {} => /\ t \ {First(t)} \in SUBSET S
                                    /\ Cardinality(t \ {First(t)}) = Cardinality(t) - 1
  BY FS_Subset, FS_RemoveElement, FirstIn
<1>3. ASSUME Bad # {} PROVE FALSE
  <2>1. PICK n \in Bad : \A k \in Bad : n <= k
    BY <1>3, LeastOf
  <2>a. n \in Nat
    BY <2>1
  <2>2. CASE n = 0
    <3> DEFINE f == [s \in Upto(0) |-> 0]
    <3>1. \A s \in Upto(0) : s = {}
      BY <1>1
    <3>2. f = [s \in Upto(0) |-> Term(f, s)]
      BY <3>1
    <3> QED
      BY <2>1, <2>2, <3>2
  <2>3. CASE n # 0
    <3>1. n \in Nat /\ n - 1 \in Nat /\ n - 1 \notin Bad
      <4>1. n - 1 \in Nat /\ ~(n <= n - 1)
        BY <2>a, <2>3
      <4> HIDE DEF Bad
      <4> QED
        BY <2>a, <2>1, <4>1
    <3>2. PICK f : f = [s \in Upto(n - 1) |-> Term(f, s)]
      BY <3>1
    <3> DEFINE h == [s \in Upto(n) |-> IF Cardinality(s) = n THEN Term(f, s) ELSE f[s]]
    <3>3. ASSUME NEW s \in Upto(n) PROVE h[s] = Term(h, s)
      <4>1. s = {} \/ (s \ {First(s)} \in Upto(n - 1) /\ s \ {First(s)} \in Upto(n)
                        /\ Cardinality(s \ {First(s)}) # n)
        BY <1>1, <1>2, <3>1
      <4>2. Term(h, s) = Term(f, s)
        BY <4>1
      <4>3. Cardinality(s) # n => s \in Upto(n - 1)
        BY <1>1, <3>1
      <4>4. s \in Upto(n - 1) => f[s] = Term(f, s)
        BY <3>2
      <4> QED
        BY <4>2, <4>3, <4>4
    <3>4. h = [s \in Upto(n) |-> h[s]]
      OBVIOUS
    <3> HIDE DEF h
    <3>5. h = [s \in Upto(n) |-> Term(h, s)]
      BY <3>3, <3>4
    <3> QED
      BY <2>1, <3>5
  <2> QED
    BY <2>2, <2>3
<1>4. size \in Nat /\ Upto(size) = SUBSET S
  BY <1>1
<1>5. PICK f : f = [s \in Upto(size) |-> Term(f, s)]
  BY <1>3, <1>4
<1> QED
  BY <1>4, <1>5 DEF Sums

(* So a sum is that of one member and of the others.                       *)
LEMMA SumOf == ASSUME NEW w, NEW S, IsFiniteSet(S)
  PROVE Sum(w, S) = IF S = {} THEN 0 ELSE w[First(S)].weight + Sum(w, S \ {First(S)})
<1> DEFINE T == S \ {First(S)}
           f == CHOOSE f : Sums(f, w, S)
           h == CHOOSE h : Sums(h, w, T)
<1>1. IsFiniteSet(T) /\ T \subseteq S
  BY FS_Subset
<1>2. Sums(f, w, S) /\ Sums(h, w, T)
  BY <1>1, SumsExist
<1>3. f[S] = IF S = {} THEN 0 ELSE w[First(S)].weight + f[T]
  BY <1>2 DEF Sums
<1>4. Sum(w, S) = f[S] /\ Sum(w, T) = h[T]
  BY SumIs
<1> HIDE DEF f, h, T
<1>5. h[T] = f[T]
  BY <1>1, <1>2, SumsAgree
<1> QED
  BY <1>3, <1>4, <1>5 DEF T

Weighed(w, S) == \A e \in S : w[e].weight \in Nat

LEMMA SumIsNat == ASSUME NEW w, NEW S, IsFiniteSet(S), Weighed(w, S) PROVE Sum(w, S) \in Nat
<1> DEFINE P == {s \in SUBSET S : Sum(w, s) \notin Nat}
<1>1. ASSUME P # {} PROVE FALSE
  <2>1. PICK s \in P : \A t \in SUBSET s : t # s => t \notin P
    <3>1. P \in SUBSET (SUBSET S)
      OBVIOUS
    <3> HIDE DEF P
    <3> QED
      BY <1>1, <3>1, SmallestSet
  <2>2. Sum(w, s) = IF s = {} THEN 0 ELSE w[First(s)].weight + Sum(w, s \ {First(s)})
    BY SumOf, FS_Subset
  <2>3. s # {}
    BY <2>1, <2>2
  <2>4. First(s) \in s /\ s \ {First(s)} \notin P
    BY <2>1, <2>3, FirstIn
  <2> QED
    BY <2>1, <2>2, <2>3, <2>4 DEF Weighed
<1> QED
  BY <1>1

(* Any member may be taken out first.                                      *)
LEMMA SumWithout ==
  ASSUME NEW w, NEW S, IsFiniteSet(S), Weighed(w, S), NEW x \in S
  PROVE  Sum(w, S) = w[x].weight + Sum(w, S \ {x})
<1> DEFINE P == {s \in SUBSET S : \E y \in s : Sum(w, s) # w[y].weight + Sum(w, s \ {y})}
<1>1. \A s \in SUBSET S : IsFiniteSet(s) /\ Weighed(w, s) /\ Sum(w, s) \in Nat
  BY FS_Subset, SumIsNat DEF Weighed
<1>2. ASSUME P # {} PROVE FALSE
  <2>1. PICK s \in P : \A t \in SUBSET s : t # s => t \notin P
    <3>1. P \in SUBSET (SUBSET S)
      OBVIOUS
    <3> HIDE DEF P
    <3> QED
      BY <1>2, <3>1, SmallestSet
  <2>2. PICK y \in s : Sum(w, s) # w[y].weight + Sum(w, s \ {y})
    BY <2>1
  <2> DEFINE c == First(s)
  <2>3. c \in s /\ Sum(w, s) = w[c].weight + Sum(w, s \ {c})
    BY <1>1, <2>2, FirstIn, SumOf
  <2>4. c # y
    BY <2>2, <2>3
  <2> HIDE DEF c
  <2>5. s \ {c} \notin P /\ s \ {y} \notin P /\ s \ {c} \in SUBSET S /\ s \ {y} \in SUBSET S
    BY <2>1, <2>3
  <2>6. Sum(w, s \ {c}) = w[y].weight + Sum(w, (s \ {c}) \ {y})
    BY <2>4, <2>5
  <2>7. Sum(w, s \ {y}) = w[c].weight + Sum(w, (s \ {y}) \ {c})
    BY <2>3, <2>4, <2>5
  <2>8. (s \ {c}) \ {y} = (s \ {y}) \ {c} /\ (s \ {c}) \ {y} \in SUBSET S
    OBVIOUS
  <2> DEFINE rest == Sum(w, (s \ {c}) \ {y})
             a == w[c].weight
             b == w[y].weight
  <2>9. a \in Nat /\ b \in Nat /\ rest \in Nat
    BY <1>1, <2>3, <2>8 DEF Weighed
  <2>10. Sum(w, s) = a + (b + rest) /\ Sum(w, s \ {y}) = a + rest
    BY <2>3, <2>6, <2>7, <2>8
  <2>11. Sum(w, s) # b + Sum(w, s \ {y})
    BY <2>2
  <2> HIDE DEF a, b, rest, P
  <2> QED
    BY <2>9, <2>10, <2>11
<1> QED
  BY <1>2

(* Fewer edges of the same weights weigh no more.                          *)
LEMMA SumOfPart ==
  ASSUME NEW w, NEW v, NEW S, IsFiniteSet(S), Weighed(w, S), NEW T \in SUBSET S,
         \A e \in T : v[e].weight = w[e].weight
  PROVE  Sum(v, T) <= Sum(w, S)
<1> DEFINE P == {s \in SUBSET S : \E t \in SUBSET (s \cap T) : ~(Sum(v, t) <= Sum(w, s))}
<1>1. /\ \A s \in SUBSET S : IsFiniteSet(s) /\ Weighed(w, s) /\ Sum(w, s) \in Nat
      /\ \A t \in SUBSET T : IsFiniteSet(t) /\ Weighed(v, t) /\ Sum(v, t) \in Nat
  BY FS_Subset, SumIsNat DEF Weighed
<1>2. ASSUME P # {} PROVE FALSE
  <2>1. PICK s \in P : \A t \in SUBSET s : t # s => t \notin P
    <3>1. P \in SUBSET (SUBSET S)
      OBVIOUS
    <3> HIDE DEF P
    <3> QED
      BY <1>2, <3>1, SmallestSet
  <2>2. PICK t \in SUBSET (s \cap T) : ~(Sum(v, t) <= Sum(w, s))
    BY <2>1
  <2>3. t # {}
    <3>1. t = {} => Sum(v, t) = 0
      BY <1>1, SumOf
    <3> QED
      BY <1>1, <2>2, <3>1
  <2>4. PICK x : x \in t
    BY <2>3
  <2>5. Sum(v, t) = v[x].weight + Sum(v, t \ {x}) /\ Sum(w, s) = w[x].weight + Sum(w, s \ {x})
    BY <1>1, <2>4, SumWithout
  <2>6. Sum(v, t \ {x}) <= Sum(w, s \ {x})
    <3>1. s \ {x} \notin P /\ s \ {x} \in SUBSET S /\ t \ {x} \in SUBSET ((s \ {x}) \cap T)
      BY <2>1, <2>4
    <3> QED
      BY <3>1
  <2>7. v[x].weight = w[x].weight /\ w[x].weight \in Nat
        /\ Sum(v, t \ {x}) \in Nat /\ Sum(w, s \ {x}) \in Nat
    BY <1>1, <2>4 DEF Weighed
  <2> QED
    BY <2>2, <2>5, <2>6, <2>7
<1> QED
  BY <1>2

LEMMA SumOfOne == ASSUME NEW w, NEW x, w[x].weight \in Nat PROVE Sum(w, {x}) = w[x].weight
<1>1. IsFiniteSet({x}) /\ IsFiniteSet({}) /\ {x} \ {x} = {} /\ Weighed(w, {x})
  BY FS_Singleton, FS_EmptySet DEF Weighed
<1>2. Sum(w, {x}) = w[x].weight + Sum(w, {}) /\ Sum(w, {}) = 0
  <2>1. Sum(w, {}) = 0
    BY <1>1, SumOf
  <2>2. Sum(w, {x}) = w[x].weight + Sum(w, {x} \ {x})
    <3> DEFINE S == {x}
    <3>1. IsFiniteSet(S) /\ Weighed(w, S) /\ x \in S
      BY <1>1
    <3> HIDE DEF S
    <3>2. Sum(w, S) = w[x].weight + Sum(w, S \ {x})
      BY <3>1, SumWithout
    <3> QED
      BY <3>2 DEF S
  <2> QED
    BY <1>1, <2>1, <2>2
<1> QED
  BY <1>2

(***************************************************************************)
(* Graphs that are consistent.                                             *)
(***************************************************************************)
FileIds == {FileId(f) : f \in Files}
To(edges, id, kind) == {e \in DOMAIN edges : e[2] = id /\ e[3] = kind}

(* Edges as parses leave them: finitely many, out of files, and weighed.   *)
Edged(edges) ==
  /\ IsFiniteSet(DOMAIN edges)
  /\ \A e \in DOMAIN edges :
       e[1] \in FileIds /\ e = Edge(e[1], e[2], e[3]) /\ edges[e].weight \in Nat

(* What a symbol's metrics say of the edges that lead to it.               *)
Counts(m, edges, id) ==
  /\ DOMAIN m = {"refs", "files"} /\ m.refs \in Nat
  /\ m.files = HoldersOf(edges, id) /\ m.refs >= WeightTo(edges, id, "reference")

(* No edge dangles, and every symbol is counted: files exactly, references *)
(* at least, since compacting does not count them again.                   *)
Tidy(g) ==
  /\ DOMAIN g = GraphFields
  /\ Edged(g.edges)
  /\ \A e \in DOMAIN g.edges :
       e[1] \in DOMAIN g.nodes /\ e[2] \in DOMAIN g.nodes /\ e[2] \in DOMAIN g.metrics
  /\ \A id \in DOMAIN g.metrics : Counts(g.metrics[id], g.edges, id)

(* A parse says finitely many things of a file of the project.             *)
IsParse(p) == p.file \in Files /\ IsFiniteSet(p.decls) /\ IsFiniteSet(p.refs)

LEMMA Joined ==
  ASSUME NEW f, NEW g
  PROVE  /\ DOMAIN (f ++ g) = DOMAIN f \union DOMAIN g
         /\ \A x \in DOMAIN f : (f ++ g)[x] = f[x]
         /\ \A x \in DOMAIN g \ DOMAIN f : (f ++ g)[x] = g[x]
  BY DEF ++

LEMMA Removed ==
  ASSUME NEW f, NEW S
  PROVE  /\ DOMAIN Removing(f, S) = DOMAIN f \ S
         /\ \A x \in DOMAIN f \ S : Removing(f, S)[x] = f[x]
  BY DEF Removing, Restrict

LEMMA Weights ==
  ASSUME NEW edges, Edged(edges), NEW id, NEW kind
  PROVE  /\ WeightTo(edges, id, kind) = Sum(edges, To(edges, id, kind))
         /\ IsFiniteSet(To(edges, id, kind)) /\ Weighed(edges, To(edges, id, kind))
         /\ WeightTo(edges, id, kind) \in Nat
<1>1. WeightTo(edges, id, kind) = Sum(edges, To(edges, id, kind))
  BY DEF WeightTo, Sum, To
<1>2. IsFiniteSet(To(edges, id, kind)) /\ Weighed(edges, To(edges, id, kind))
  BY FS_Subset DEF Edged, To, Weighed
<1> QED
  BY <1>1, <1>2, SumIsNat

LEMMA ImageIsFinite ==
  ASSUME NEW f, IsFiniteSet(DOMAIN f), f = [x \in DOMAIN f |-> f[x]]
  PROVE  IsFiniteSet({f[x] : x \in DOMAIN f})
<1>1. f \in Surjection(DOMAIN f, {f[x] : x \in DOMAIN f})
  BY DEF Surjection
<1> QED
  BY <1>1, FS_Surjection

(* Where the edges that lead to a symbol are among those that led to it,   *)
(* it is referred to no more than it was.                                  *)
LEMMA FewerReferences ==
  ASSUME NEW old, NEW edges, Edged(old), Edged(edges), NEW id,
         \A e \in DOMAIN edges : e[2] = id => e \in DOMAIN old /\ edges[e].weight = old[e].weight
  PROVE  WeightTo(edges, id, "reference") <= WeightTo(old, id, "reference")
<1>1. /\ To(edges, id, "reference") \in SUBSET To(old, id, "reference")
      /\ \A e \in To(edges, id, "reference") : edges[e].weight = old[e].weight
  BY DEF To
<1>2. Sum(edges, To(edges, id, "reference")) <= Sum(old, To(old, id, "reference"))
  BY <1>1, Weights, SumOfPart
<1> QED
  BY <1>2, Weights

(* What a place becomes: a symbol the parse declares, or what it was.      *)
LEMMA AliasIs ==
  ASSUME NEW p, NEW id
  PROVE  /\ id \in {DeclId(d[1]) : d \in p.decls} =>
              AliasOf(p, id) \in {Usr(s) : s \in Declared(p)}
         /\ id \notin {DeclId(d[1]) : d \in p.decls} => AliasOf(p, id) = id
<1>1. ASSUME \E d \in p.decls : id = DeclId(d[1])
      PROVE  AliasOf(p, id) \in {Usr(s) : s \in Declared(p)}
  <2> DEFINE c == CHOOSE d \in p.decls : id = DeclId(d[1])
  <2>1. c \in p.decls
    BY <1>1
  <2>2. AliasOf(p, id) = Usr(c[2])
    BY <1>1 DEF AliasOf
  <2> HIDE DEF c
  <2> QED
    BY <2>1, <2>2 DEF Declared
<1>2. (~\E d \in p.decls : id = DeclId(d[1])) => AliasOf(p, id) = id
  BY DEF AliasOf
<1> QED
  BY <1>1, <1>2

LEMMA FilesHaveNoAlias ==
  ASSUME NEW p, NEW id \in FileIds
  PROVE  id \notin {DeclId(d[1]) : d \in p.decls}
<1>1. id[1] = "file"
  BY DEF FileIds, FileId
<1>2. \A d \in p.decls : DeclId(d[1])[1] = "decl"
  BY DEF DeclId
<1> QED
  BY <1>1, <1>2

(* Where an edge goes when a parse gives its symbol a name, and the edges  *)
(* that come together there.                                               *)
Renamed(p, e) == Edge(AliasOf(p, e[1]), AliasOf(p, e[2]), e[3])
Sources(g, p, e) == {d \in DOMAIN g.edges : Renamed(p, d) = e}

LEMMA RenamedIs ==
  ASSUME NEW g, Edged(g.edges), NEW p, NEW d \in DOMAIN g.edges
  PROVE  /\ Renamed(p, d) = Edge(d[1], AliasOf(p, d[2]), d[3])
         /\ Renamed(p, d)[1] = d[1] /\ Renamed(p, d)[2] = AliasOf(p, d[2]) /\ Renamed(p, d)[3] = d[3]
<1>1. AliasOf(p, d[1]) = d[1]
  BY AliasIs, FilesHaveNoAlias DEF Edged
<1> QED
  BY <1>1 DEF Renamed, Edge

LEMMA Merging ==
  ASSUME NEW g, Edged(g.edges), NEW p
  PROVE  /\ DOMAIN MergedEdges(g, p) = {Renamed(p, d) : d \in DOMAIN g.edges}
         /\ \A e \in DOMAIN MergedEdges(g, p) :
              MergedEdges(g, p)[e].weight = Sum(g.edges, Sources(g, p, e))
         /\ Edged(MergedEdges(g, p))
<1> DEFINE merged == MergedEdges(g, p)
<1>1. DOMAIN merged = {Renamed(p, d) : d \in DOMAIN g.edges}
  BY DEF MergedEdges, Renamed
<1>2. ASSUME NEW e \in DOMAIN merged PROVE merged[e].weight = Sum(g.edges, Sources(g, p, e))
  BY <1>2 DEF MergedEdges, Renamed, Sources, Sum
<1> HIDE DEF merged
<1>4. IsFiniteSet(DOMAIN merged)
  <2> DEFINE f == [d \in DOMAIN g.edges |-> Renamed(p, d)]
  <2>1. DOMAIN f = DOMAIN g.edges /\ IsFiniteSet(DOMAIN f) /\ f = [d \in DOMAIN f |-> f[d]]
    BY DEF Edged
  <2>2. DOMAIN merged = {f[d] : d \in DOMAIN f}
    BY <1>1, <2>1
  <2> HIDE DEF f
  <2> QED
    BY <2>1, <2>2, ImageIsFinite
<1>5. ASSUME NEW e \in DOMAIN merged
      PROVE  e[1] \in FileIds /\ e = Edge(e[1], e[2], e[3]) /\ merged[e].weight \in Nat
  <2>1. PICK d \in DOMAIN g.edges : e = Renamed(p, d)
    BY <1>1
  <2>2. e[1] \in FileIds /\ e = Edge(e[1], e[2], e[3])
    BY <2>1, RenamedIs DEF Edged, Edge
  <2>3. IsFiniteSet(Sources(g, p, e)) /\ Weighed(g.edges, Sources(g, p, e))
    BY FS_Subset DEF Edged, Sources, Weighed
  <2> QED
    BY <1>2, <2>2, <2>3, SumIsNat
<1> QED
  BY <1>1, <1>2, <1>4, <1>5 DEF Edged, merged

(* The edges after a parse: those the parse brings, and those of other     *)
(* files and kinds.                                                        *)
Brought(p) ==
  {Edge(FileId(p.file), Usr(s), "contains") : s \in Declared(p)}
    \union {Edge(FileId(p.file), id, "reference") : id \in TargetsOf(p)}
Own(g, p) ==
  {e \in DOMAIN MergedEdges(g, p) :
     e[1] = FileId(p.file) /\ e[3] \in {"contains", "reference"}}

LEMMA EdgesOfParse ==
  ASSUME NEW g, Edged(g.edges), NEW p, IsParse(p), NEW now
  PROVE  /\ DOMAIN EdgesAfter(g, p, now) = Brought(p) \union (DOMAIN MergedEdges(g, p) \ Own(g, p))
         /\ \A e \in (DOMAIN MergedEdges(g, p) \ Own(g, p)) \ Brought(p) :
              EdgesAfter(g, p, now)[e] = MergedEdges(g, p)[e]
         /\ Edged(EdgesAfter(g, p, now))
<1> DEFINE merged == MergedEdges(g, p)
           holding == {Edge(FileId(p.file), Usr(s), "contains") : s \in Declared(p)}
           using == {Edge(FileId(p.file), id, "reference") : id \in TargetsOf(p)}
           weight(e) == Cardinality({q \in p.refs : AliasOf(p, DeclId(q)) = e[2]})
           held == [e \in holding |-> [weight |-> 1, seen |-> now]]
           used == [e \in using |-> [weight |-> weight(e), seen |-> now]]
           kept == Removing(merged, Own(g, p))
           edges == EdgesAfter(g, p, now)
<1>1. edges = held ++ used ++ kept
  BY DEF EdgesAfter, Own
<1>2. /\ DOMAIN held = holding /\ \A e \in holding : held[e].weight = 1
      /\ DOMAIN used = using /\ \A e \in using : used[e].weight = weight(e)
      /\ DOMAIN kept = DOMAIN merged \ Own(g, p)
      /\ \A e \in DOMAIN kept : kept[e] = merged[e]
  <2>1. DOMAIN held = holding /\ \A e \in holding : held[e].weight = 1
    OBVIOUS
  <2>2. DOMAIN used = using /\ \A e \in using : used[e].weight = weight(e)
    <3> HIDE DEF weight, using
    <3> QED
      OBVIOUS
  <2>3. DOMAIN kept = DOMAIN merged \ Own(g, p) /\ \A e \in DOMAIN kept : kept[e] = merged[e]
    <3> DEFINE own == Own(g, p)
    <3> HIDE DEF merged, own
    <3>1. /\ DOMAIN Removing(merged, own) = DOMAIN merged \ own
          /\ \A e \in DOMAIN merged \ own : Removing(merged, own)[e] = merged[e]
      BY Removed
    <3> QED
      BY <3>1 DEF own
  <2> QED
    BY <2>1, <2>2, <2>3
<1>3. \A e \in using : weight(e) \in Nat
  BY FS_Subset, FS_CardinalityType DEF IsParse
<1>4. Brought(p) = holding \union using
  BY DEF Brought
<1>5. \A e \in holding \union using : e[1] \in FileIds /\ e = Edge(e[1], e[2], e[3])
  BY DEF Edge, FileIds, IsParse
<1>6. IsFiniteSet(holding)
  <2> DEFINE f == [d \in p.decls |-> Edge(FileId(p.file), Usr(d[2]), "contains")]
  <2>1. DOMAIN f = p.decls /\ IsFiniteSet(DOMAIN f) /\ f = [d \in DOMAIN f |-> f[d]]
    BY DEF IsParse
  <2>2. holding = {f[d] : d \in DOMAIN f}
    BY <2>1 DEF Declared
  <2> HIDE DEF f, holding
  <2> QED
    BY <2>1, <2>2, ImageIsFinite
<1>7. IsFiniteSet(using)
  <2> DEFINE f == [q \in p.refs |-> Edge(FileId(p.file), AliasOf(p, DeclId(q)), "reference")]
  <2>1. DOMAIN f = p.refs /\ IsFiniteSet(DOMAIN f) /\ f = [d \in DOMAIN f |-> f[d]]
    BY DEF IsParse
  <2>2. using = {f[d] : d \in DOMAIN f}
    BY <2>1 DEF TargetsOf
  <2> HIDE DEF f, using
  <2> QED
    BY <2>1, <2>2, ImageIsFinite
<1>8. Edged(merged)
  BY Merging
<1> HIDE DEF merged, holding, using, weight, held, used, kept, edges
<1> DEFINE new == held ++ used
<1>9. /\ DOMAIN new = holding \union using
      /\ \A e \in holding : new[e] = held[e]
      /\ \A e \in using \ holding : new[e] = used[e]
  <2>1. DOMAIN new = DOMAIN held \union DOMAIN used
    BY Joined
  <2>2. \A e \in DOMAIN held : new[e] = held[e]
    BY Joined
  <2>3. \A e \in DOMAIN used \ DOMAIN held : new[e] = used[e]
    BY Joined
  <2> HIDE DEF new
  <2> QED
    BY <1>2, <2>1, <2>2, <2>3
<1>10. edges = new ++ kept
  BY <1>1
<1> HIDE DEF new
<1>11. /\ DOMAIN edges = Brought(p) \union (DOMAIN merged \ Own(g, p))
       /\ \A e \in Brought(p) : edges[e] = new[e]
       /\ \A e \in (DOMAIN merged \ Own(g, p)) \ Brought(p) : edges[e] = merged[e]
  <2>1. /\ DOMAIN edges = DOMAIN new \union DOMAIN kept
        /\ \A e \in DOMAIN new : edges[e] = new[e]
    BY <1>10, Joined
  <2>2. \A e \in DOMAIN kept \ DOMAIN new : (new ++ kept)[e] = kept[e]
    BY Joined
  <2> QED
    BY <1>2, <1>4, <1>9, <1>10, <2>1, <2>2
<1>12. \A e \in DOMAIN edges :
         e[1] \in FileIds /\ e = Edge(e[1], e[2], e[3]) /\ edges[e].weight \in Nat
  <2>1. ASSUME NEW e \in Brought(p) PROVE edges[e].weight \in Nat
    BY <1>2, <1>3, <1>4, <1>9, <1>11, <2>1
  <2> QED
    BY <1>4, <1>5, <1>8, <1>11, <2>1 DEF Edged
<1>13. IsFiniteSet(DOMAIN edges)
  <2>1. IsFiniteSet(Brought(p))
    BY <1>4, <1>6, <1>7, FS_Union
  <2>2. IsFiniteSet(DOMAIN merged \ Own(g, p))
    BY <1>8, FS_Subset DEF Edged
  <2> QED
    BY <1>11, <2>1, <2>2, FS_Union
<1>14. Edged(edges)
  BY <1>12, <1>13 DEF Edged
<1> QED
  BY <1>11, <1>14 DEF edges, merged

(* What a parse does not touch: the symbols that neither the file's old    *)
(* edges nor the parse speak of.                                           *)
Dropped(g, p) == {e[2] : e \in Own(g, p)}
Affected(g, p) ==
  Dropped(g, p) \union {Usr(s) : s \in Declared(p)} \union TargetsOf(p)

LEMMA BroughtIsAffected ==
  ASSUME NEW g, NEW p, NEW e \in Brought(p)
  PROVE  e[1] = FileId(p.file) /\ e[2] \in {Usr(s) : s \in Declared(p)} \union TargetsOf(p)
  BY DEF Brought, Edge

LEMMA OthersKeepTheirEdges ==
  ASSUME NEW g, Edged(g.edges), NEW p, IsParse(p), NEW now,
         NEW id, id \notin Affected(g, p), id \notin {DeclId(d[1]) : d \in p.decls}
  PROVE  \A e :
           e[2] = id =>
             /\ e \in DOMAIN EdgesAfter(g, p, now) <=> e \in DOMAIN g.edges
             /\ e \in DOMAIN g.edges => EdgesAfter(g, p, now)[e].weight = g.edges[e].weight
<1> DEFINE merged == MergedEdges(g, p)
           edges == EdgesAfter(g, p, now)
<1>m. /\ DOMAIN merged = {Renamed(p, d) : d \in DOMAIN g.edges}
      /\ \A e \in DOMAIN merged : merged[e].weight = Sum(g.edges, Sources(g, p, e))
      /\ \A d \in DOMAIN g.edges : /\ Renamed(p, d) = Edge(d[1], AliasOf(p, d[2]), d[3])
                                  /\ Renamed(p, d)[2] = AliasOf(p, d[2])
  <2>1. ASSUME NEW d \in DOMAIN g.edges
        PROVE  Renamed(p, d) = Edge(d[1], AliasOf(p, d[2]), d[3]) /\ Renamed(p, d)[2] = AliasOf(p, d[2])
    BY RenamedIs
  <2> QED
    BY <2>1, Merging
<1>e. /\ DOMAIN edges = Brought(p) \union (DOMAIN merged \ Own(g, p))
      /\ \A e \in (DOMAIN merged \ Own(g, p)) \ Brought(p) : edges[e] = merged[e]
  BY EdgesOfParse
<1>o. \A e \in Own(g, p) : e[2] \in Affected(g, p)
  BY DEF Affected, Dropped
<1> HIDE DEF merged, edges
<1>1. ASSUME NEW d \in DOMAIN g.edges, Renamed(p, d)[2] = id PROVE d[2] = id /\ Renamed(p, d) = d
  <2>1. Renamed(p, d) = Edge(d[1], AliasOf(p, d[2]), d[3]) /\ AliasOf(p, d[2]) = id
    BY <1>1, <1>m
  <2>2. d[2] \notin {DeclId(c[1]) : c \in p.decls}
    BY <2>1, AliasIs DEF Affected
  <2>3. AliasOf(p, d[2]) = d[2]
    BY <2>2, AliasIs
  <2> QED
    BY <2>1, <2>3 DEF Edged
<1>2. ASSUME NEW d \in DOMAIN g.edges, d[2] = id PROVE Renamed(p, d) = d
  <2>1. Renamed(p, d) = Edge(d[1], AliasOf(p, d[2]), d[3]) /\ AliasOf(p, d[2]) = d[2]
    BY <1>2, <1>m, AliasIs
  <2> QED
    BY <2>1 DEF Edged
<1>3. ASSUME NEW e \in DOMAIN merged, e[2] = id PROVE e \in DOMAIN g.edges /\ e \notin Own(g, p)
  <2>1. PICK d \in DOMAIN g.edges : e = Renamed(p, d)
    BY <1>m
  <2>2. e \notin Own(g, p)
    BY <1>3, <1>o
  <2> QED
    BY <1>1, <1>3, <2>1, <2>2
<1>4. ASSUME NEW e \in DOMAIN g.edges, e[2] = id
      PROVE  e \in DOMAIN merged /\ merged[e].weight = g.edges[e].weight
  <2>1. e \in DOMAIN merged
    BY <1>2, <1>4, <1>m
  <2>2. Sources(g, p, e) = {e}
    BY <1>1, <1>2, <1>4 DEF Sources
  <2>3. Sum(g.edges, {e}) = g.edges[e].weight
    BY SumOfOne DEF Edged
  <2>4. merged[e].weight = Sum(g.edges, Sources(g, p, e))
    BY <2>1, <1>m
  <2> QED
    BY <2>1, <2>2, <2>3, <2>4
<1>5. ASSUME NEW e, e[2] = id
      PROVE  /\ e \in DOMAIN edges <=> e \in DOMAIN g.edges
             /\ e \in DOMAIN g.edges => edges[e].weight = g.edges[e].weight
  <2>1. e \notin Brought(p)
    BY <1>5, BroughtIsAffected DEF Affected
  <2>2. e \in DOMAIN edges <=> e \in DOMAIN merged \ Own(g, p)
    BY <2>1, <1>e
  <2>3. e \in DOMAIN edges => edges[e] = merged[e]
    BY <2>1, <2>2, <1>e
  <2> QED
    BY <1>3, <1>4, <1>5, <2>2, <2>3
<1> QED
  BY <1>5 DEF edges

LEMMA SameHolders ==
  ASSUME NEW old, NEW edges, NEW id,
         \A e : e[2] = id => (e \in DOMAIN edges <=> e \in DOMAIN old)
  PROVE  HoldersOf(edges, id) = HoldersOf(old, id)
<1>1. {e \in DOMAIN edges : e[2] = id /\ e[3] = "contains"} = {e \in DOMAIN old : e[2] = id /\ e[3] = "contains"}
  OBVIOUS
<1> QED
  BY <1>1 DEF HoldersOf

(***************************************************************************)
(* A parse keeps a graph consistent.                                       *)
(***************************************************************************)
Aliased(p) == {DeclId(d[1]) : d \in p.decls}
Seen(p) == {Usr(s) : s \in Declared(p)}

(* What a parse speaks of keeps its place in the graph.                    *)
LEMMA TargetsHaveNoAlias ==
  ASSUME NEW p, NEW id, id \in Seen(p) \union TargetsOf(p) PROVE id \notin Aliased(p)
<1>1. ASSUME NEW s PROVE Usr(s) \notin Aliased(p)
  <2>1. Usr(s)[1] = "usr" /\ \A d \in p.decls : DeclId(d[1])[1] = "decl"
    BY DEF Usr, DeclId
  <2> QED
    BY <2>1 DEF Aliased
<1>2. ASSUME NEW q \in p.refs PROVE AliasOf(p, DeclId(q)) \notin Aliased(p)
  <2>1. CASE DeclId(q) \in Aliased(p)
    <3>1. AliasOf(p, DeclId(q)) \in {Usr(s) : s \in Declared(p)}
      BY <2>1, AliasIs DEF Aliased
    <3> QED
      BY <1>1, <3>1
  <2>2. CASE DeclId(q) \notin Aliased(p)
    BY <2>2, AliasIs DEF Aliased
  <2> QED
    BY <2>1, <2>2
<1> QED
  BY <1>1, <1>2 DEF Seen, TargetsOf

LEMMA ParseKeepsTidy ==
  ASSUME NEW g, Tidy(g), NEW p, IsParse(p), NEW now
  PROVE  Tidy(ApplyParse(g, p, now))
<1> DEFINE edges == EdgesAfter(g, p, now)
           own == FileId(p.file)
           affected == Affected(g, p)
           fresh == [id \in {own} \union Seen(p) \union TargetsOf(p) |-> now]
           nodes == fresh ++ Removing(g.nodes, Aliased(p))
           recounted(id) ==
             LET weight == WeightTo(edges, id, "reference") IN
             [refs |-> IF weight = 0 /\ id \in Seen(p) THEN 1 ELSE weight,
              files |-> HoldersOf(edges, id)]
           recount == [id \in affected |-> recounted(id)]
           metrics == recount ++ Removing(g.metrics, Aliased(p))
           h == ApplyParse(g, p, now)
<1>1. h = [g EXCEPT !.nodes = nodes, !.edges = edges, !.metrics = metrics]
  BY DEF ApplyParse, Aliased, Seen, Affected, Dropped, Own
<1>2. DOMAIN g = GraphFields /\ Edged(g.edges)
  BY DEF Tidy
<1>3. Edged(edges)
  BY <1>2, EdgesOfParse
<1>4. DOMAIN edges = Brought(p) \union (DOMAIN MergedEdges(g, p) \ Own(g, p))
  BY <1>2, EdgesOfParse
<1>5. /\ DOMAIN nodes = {own} \union Seen(p) \union TargetsOf(p) \union (DOMAIN g.nodes \ Aliased(p))
      /\ DOMAIN metrics = affected \union (DOMAIN g.metrics \ Aliased(p))
      /\ \A id \in affected : metrics[id] = recounted(id)
      /\ \A id \in (DOMAIN g.metrics \ Aliased(p)) \ affected : metrics[id] = g.metrics[id]
  <2>1. /\ DOMAIN fresh = {own} \union Seen(p) \union TargetsOf(p)
        /\ DOMAIN recount = affected /\ \A id \in affected : recount[id] = recounted(id)
    <3> HIDE DEF recounted, affected, own
    <3> QED
      OBVIOUS
  <2>2. /\ DOMAIN Removing(g.nodes, Aliased(p)) = DOMAIN g.nodes \ Aliased(p)
        /\ DOMAIN Removing(g.metrics, Aliased(p)) = DOMAIN g.metrics \ Aliased(p)
        /\ \A id \in DOMAIN g.metrics \ Aliased(p) :
             Removing(g.metrics, Aliased(p))[id] = g.metrics[id]
    BY Removed
  <2> DEFINE kept == Removing(g.metrics, Aliased(p))
             stay == Removing(g.nodes, Aliased(p))
  <2> HIDE DEF fresh, recount, kept, stay, recounted, affected
  <2>3. DOMAIN (fresh ++ stay) = DOMAIN fresh \union DOMAIN stay
    BY Joined
  <2>4. DOMAIN (recount ++ kept) = DOMAIN recount \union DOMAIN kept
    BY Joined
  <2>5. \A id \in DOMAIN recount : (recount ++ kept)[id] = recount[id]
    BY Joined
  <2>6. \A id \in DOMAIN kept \ DOMAIN recount : (recount ++ kept)[id] = kept[id]
    BY Joined
  <2>7. nodes = fresh ++ stay /\ metrics = recount ++ kept
    BY DEF kept, stay
  <2> HIDE DEF nodes, metrics
  <2> QED
    BY <2>1, <2>2, <2>3, <2>4, <2>5, <2>6, <2>7 DEF kept, stay
<1> HIDE DEF nodes, metrics, edges, h
<1>6. DOMAIN h = GraphFields /\ h.nodes = nodes /\ h.edges = edges /\ h.metrics = metrics
  BY <1>1, <1>2 DEF GraphFields
<1>7. ASSUME NEW e \in DOMAIN edges
      PROVE  e[1] \in DOMAIN nodes /\ e[2] \in DOMAIN nodes /\ e[2] \in DOMAIN metrics
  <2>1. CASE e \in Brought(p)
    BY <1>5, <2>1, BroughtIsAffected DEF Affected, Seen
  <2>2. CASE e \in DOMAIN MergedEdges(g, p) \ Own(g, p)
    <3>a. DOMAIN MergedEdges(g, p) = {Renamed(p, d) : d \in DOMAIN g.edges}
      BY <1>2, Merging
    <3>1. PICK d \in DOMAIN g.edges : e = Renamed(p, d)
      BY <2>2, <3>a
    <3>2. e[1] = d[1] /\ e[2] = AliasOf(p, d[2])
      BY <1>2, <3>1, RenamedIs
    <3>3. /\ d[1] \in DOMAIN g.nodes /\ d[2] \in DOMAIN g.nodes /\ d[2] \in DOMAIN g.metrics
          /\ d[1] \in FileIds
      BY DEF Tidy, Edged
    <3>4. d[1] \notin Aliased(p)
      BY <3>3, FilesHaveNoAlias DEF Aliased
    <3>5. CASE d[2] \in Aliased(p)
      <4>1. e[2] \in Seen(p)
        BY <3>2, <3>5, AliasIs DEF Aliased, Seen
      <4> QED
        BY <1>5, <3>2, <3>3, <3>4, <4>1 DEF Affected, Seen
    <3>6. CASE d[2] \notin Aliased(p)
      <4>1. e[2] = d[2]
        BY <3>2, <3>6, AliasIs DEF Aliased
      <4> QED
        BY <1>5, <3>2, <3>3, <3>4, <3>6, <4>1
    <3> QED
      BY <3>5, <3>6
  <2> QED
    BY <1>4, <2>1, <2>2
<1>8. ASSUME NEW id \in DOMAIN metrics PROVE Counts(metrics[id], edges, id)
  <2>1. CASE id \in affected
    <3>1. metrics[id] = recounted(id) /\ WeightTo(edges, id, "reference") \in Nat
      BY <1>3, <1>5, <2>1, Weights
    <3> QED
      BY <3>1 DEF Counts
  <2>2. CASE id \notin affected
    <3>1. /\ id \in DOMAIN g.metrics /\ id \notin Aliased(p) /\ metrics[id] = g.metrics[id]
          /\ Counts(g.metrics[id], g.edges, id)
      BY <1>5, <2>2 DEF Tidy
    <3>2. \A e : e[2] = id =>
             /\ e \in DOMAIN edges <=> e \in DOMAIN g.edges
             /\ e \in DOMAIN g.edges => edges[e].weight = g.edges[e].weight
      BY <1>2, <2>2, <3>1, OthersKeepTheirEdges DEF Aliased, edges
    <3>3. WeightTo(edges, id, "reference") <= WeightTo(g.edges, id, "reference")
      BY <1>2, <1>3, <3>2, FewerReferences
    <3>4. HoldersOf(edges, id) = HoldersOf(g.edges, id)
      BY <3>2, SameHolders
    <3>5. WeightTo(edges, id, "reference") \in Nat /\ WeightTo(g.edges, id, "reference") \in Nat
      BY <1>2, <1>3, Weights
    <3> QED
      BY <3>1, <3>3, <3>4, <3>5 DEF Counts
  <2> QED
    BY <2>1, <2>2
<1> QED
  BY <1>3, <1>6, <1>7, <1>8 DEF Tidy, h

(***************************************************************************)
(* And so does compacting it.                                              *)
(***************************************************************************)
Closed(g) == \A e \in DOMAIN g.edges : e[1] \in DOMAIN g.nodes /\ e[2] \in DOMAIN g.nodes

(* Ageing and the caps take nodes and edges away, and nothing else.        *)
Thinner(h, g) ==
  /\ DOMAIN h = DOMAIN g /\ h.metrics = g.metrics /\ Closed(h)
  /\ DOMAIN h.edges \subseteq DOMAIN g.edges
  /\ \A e \in DOMAIN h.edges : h.edges[e] = g.edges[e]

LEMMA Restricted ==
  ASSUME NEW f, NEW S, S \subseteq DOMAIN f
  PROVE  DOMAIN Restrict(f, S) = S /\ \A x \in S : Restrict(f, S)[x] = f[x]
  BY DEF Restrict

LEMMA BetweenIs ==
  ASSUME NEW edges, NEW nodes
  PROVE  /\ DOMAIN Between(edges, nodes) \subseteq DOMAIN edges
         /\ \A e \in DOMAIN Between(edges, nodes) :
              /\ Between(edges, nodes)[e] = edges[e]
              /\ e[1] \in DOMAIN nodes /\ e[2] \in DOMAIN nodes
  BY DEF Between, Restrict

LEMMA ThinnerIsTransitive ==
  ASSUME NEW f, NEW g, NEW h, Thinner(g, f), Thinner(h, g) PROVE Thinner(h, f)
  BY DEF Thinner

LEMMA SameIsThinner == ASSUME NEW g, Closed(g) PROVE Thinner(g, g)
  BY DEF Thinner

LEMMA TakenAway ==
  ASSUME NEW g, {"nodes", "edges", "metrics"} \subseteq DOMAIN g, NEW nodes, NEW edges,
         DOMAIN edges \subseteq DOMAIN g.edges, \A e \in DOMAIN edges : edges[e] = g.edges[e],
         \A e \in DOMAIN edges : e[1] \in DOMAIN nodes /\ e[2] \in DOMAIN nodes
  PROVE  Thinner([g EXCEPT !.nodes = nodes, !.edges = edges], g)
<1> DEFINE h == [g EXCEPT !.nodes = nodes, !.edges = edges]
<1>1. DOMAIN h = DOMAIN g /\ h.nodes = nodes /\ h.edges = edges /\ h.metrics = g.metrics
  OBVIOUS
<1> HIDE DEF h
<1>2. Thinner(h, g)
  BY <1>1 DEF Thinner, Closed
<1> QED
  BY <1>2 DEF h

LEMMA PruneTakesAway ==
  ASSUME NEW g, {"nodes", "edges", "metrics"} \subseteq DOMAIN g, NEW cutoff
  PROVE  Thinner(PruneStale(g, cutoff), g)
<1> DEFINE fresh == Restrict(g.edges, {e \in DOMAIN g.edges : g.edges[e].seen >= cutoff})
           edges == Between(fresh, g.nodes)
           nodes == Restrict(g.nodes, {id \in DOMAIN g.nodes :
                      id \in Connected(edges) \/ g.nodes[id] >= cutoff})
           last == Between(edges, nodes)
<1>1. PruneStale(g, cutoff) = [g EXCEPT !.nodes = nodes, !.edges = last]
  BY DEF PruneStale
<1>2. DOMAIN fresh \subseteq DOMAIN g.edges /\ \A e \in DOMAIN fresh : fresh[e] = g.edges[e]
  BY Restricted
<1> HIDE DEF fresh
<1>3. DOMAIN edges \subseteq DOMAIN fresh /\ \A e \in DOMAIN edges : edges[e] = fresh[e]
  BY BetweenIs
<1> HIDE DEF edges, nodes
<1>4. /\ DOMAIN last \subseteq DOMAIN edges
      /\ \A e \in DOMAIN last :
           last[e] = edges[e] /\ e[1] \in DOMAIN nodes /\ e[2] \in DOMAIN nodes
  BY BetweenIs
<1> HIDE DEF last
<1>5. /\ DOMAIN last \subseteq DOMAIN g.edges /\ \A e \in DOMAIN last : last[e] = g.edges[e]
      /\ \A e \in DOMAIN last : e[1] \in DOMAIN nodes /\ e[2] \in DOMAIN nodes
  BY <1>2, <1>3, <1>4
<1>6. Thinner([g EXCEPT !.nodes = nodes, !.edges = last], g)
  BY <1>5, TakenAway
<1> QED
  BY <1>1, <1>6

LEMMA CapEdgesTakesAway ==
  ASSUME NEW g, {"nodes", "edges", "metrics"} \subseteq DOMAIN g, Closed(g),
         NEW h \in CapEdges(g)
  PROVE  Thinner(h, g)
<1>1. ASSUME NEW keep \in SUBSET DOMAIN g.edges, h = [g EXCEPT !.edges = Restrict(g.edges, keep)]
      PROVE  Thinner(h, g)
  <2> DEFINE edges == Restrict(g.edges, keep)
  <2>1. DOMAIN edges = keep /\ \A e \in keep : edges[e] = g.edges[e]
    BY Restricted
  <2> HIDE DEF edges
  <2>2. DOMAIN h = DOMAIN g /\ h.nodes = g.nodes /\ h.edges = edges /\ h.metrics = g.metrics
    BY <1>1 DEF edges
  <2> QED
    BY <2>1, <2>2 DEF Thinner, Closed
<1>2. h = g \/ \E keep \in SUBSET DOMAIN g.edges : h = [g EXCEPT !.edges = Restrict(g.edges, keep)]
  BY DEF CapEdges, FirstOf, kSubset
<1> QED
  BY <1>1, <1>2, SameIsThinner

LEMMA CapNodesTakesAway ==
  ASSUME NEW g, {"nodes", "edges", "metrics"} \subseteq DOMAIN g, Closed(g),
         NEW h \in CapNodes(g)
  PROVE  Thinner(h, g)
<1>1. ASSUME NEW nodes, h = [g EXCEPT !.nodes = nodes, !.edges = Between(g.edges, nodes)]
      PROVE  Thinner(h, g)
  <2> DEFINE edges == Between(g.edges, nodes)
  <2>1. /\ DOMAIN edges \subseteq DOMAIN g.edges
        /\ \A e \in DOMAIN edges :
             edges[e] = g.edges[e] /\ e[1] \in DOMAIN nodes /\ e[2] \in DOMAIN nodes
    BY BetweenIs
  <2>2. h = [g EXCEPT !.nodes = nodes, !.edges = edges]
    BY <1>1
  <2> HIDE DEF edges
  <2> QED
    BY <2>1, <2>2, TakenAway
<1>2. h = g \/ \E nodes : h = [g EXCEPT !.nodes = nodes, !.edges = Between(g.edges, nodes)]
  BY DEF CapNodes
<1> QED
  BY <1>1, <1>2, SameIsThinner

LEMMA ThinnedIsEdged ==
  ASSUME NEW g, NEW h, Thinner(h, g), Edged(g.edges) PROVE Edged(h.edges)
  BY FS_Subset DEF Thinner, Edged

(* Compacting counts the files of what is left anew; references are not    *)
(* counted again, and can only be fewer.                                   *)
LEMMA CompactKeepsTidy ==
  ASSUME NEW g, Tidy(g), NEW now, NEW h \in Compactions(g, now) PROVE Tidy(h)
<1> DEFINE pruned == PruneStale(g, now - Retention)
           counted(f) == [id \in DOMAIN g.metrics \intersect DOMAIN f.nodes |->
                            [g.metrics[id] EXCEPT !.files = HoldersOf(f.edges, id)]]
<1>1. PICK f \in UNION {CapNodes(e) : e \in CapEdges(pruned)} :
        \E tombs : h = [f EXCEPT !.tombs = tombs, !.metrics = counted(f)]
  <2> DEFINE S == UNION {CapNodes(e) : e \in CapEdges(pruned)}
  <2>1. \E f \in S : \E tombs : h = [f EXCEPT !.tombs = tombs, !.metrics = counted(f)]
    BY Zenon DEF Compactions
  <2> QED
    BY <2>1
<1>2. PICK e \in CapEdges(pruned) : f \in CapNodes(e)
  BY <1>1
<1>3. DOMAIN g = GraphFields /\ Edged(g.edges) /\ Closed(g)
  BY DEF Tidy, Closed
<1>4. Thinner(pruned, g)
  BY <1>3, PruneTakesAway DEF GraphFields
<1> HIDE DEF pruned
<1>5. Thinner(e, pruned) /\ DOMAIN e = GraphFields /\ Closed(e)
  BY <1>2, <1>3, <1>4, CapEdgesTakesAway DEF GraphFields, Thinner
<1>6. Thinner(f, e)
  BY <1>2, <1>5, CapNodesTakesAway DEF GraphFields
<1>7. Thinner(f, g) /\ DOMAIN f = GraphFields /\ Edged(f.edges)
  BY <1>3, <1>4, <1>5, <1>6, ThinnerIsTransitive, ThinnedIsEdged DEF Thinner
<1> HIDE DEF counted
<1>8. DOMAIN h = GraphFields /\ h.nodes = f.nodes /\ h.edges = f.edges /\ h.metrics = counted(f)
  BY <1>1, <1>7 DEF GraphFields
<1>9. /\ DOMAIN counted(f) = DOMAIN g.metrics \intersect DOMAIN f.nodes
      /\ \A id \in DOMAIN counted(f) :
           counted(f)[id] = [g.metrics[id] EXCEPT !.files = HoldersOf(f.edges, id)]
  BY DEF counted
<1>10. ASSUME NEW id \in DOMAIN h.metrics PROVE Counts(h.metrics[id], h.edges, id)
  <2>1. id \in DOMAIN g.metrics /\ Counts(g.metrics[id], g.edges, id)
    BY <1>8, <1>9 DEF Tidy
  <2> DEFINE n == HoldersOf(f.edges, id)
             m == [g.metrics[id] EXCEPT !.files = n]
  <2>2. h.metrics[id] = m
    BY <1>8, <1>9
  <2> HIDE DEF n
  <2>3. DOMAIN m = {"refs", "files"} /\ m.refs = g.metrics[id].refs /\ m.files = n
    BY <2>1 DEF Counts
  <2>4. WeightTo(f.edges, id, "reference") <= WeightTo(g.edges, id, "reference")
    BY <1>3, <1>7, FewerReferences DEF Thinner
  <2>5. WeightTo(f.edges, id, "reference") \in Nat /\ WeightTo(g.edges, id, "reference") \in Nat
    BY <1>3, <1>7, Weights
  <2> HIDE DEF m
  <2> QED
    BY <1>8, <2>1, <2>2, <2>3, <2>4, <2>5 DEF Counts, n
<1>11. ASSUME NEW d \in DOMAIN h.edges
       PROVE  d[1] \in DOMAIN h.nodes /\ d[2] \in DOMAIN h.nodes /\ d[2] \in DOMAIN h.metrics
  BY <1>7, <1>8, <1>9 DEF Thinner, Closed, Tidy
<1> QED
  BY <1>7, <1>8, <1>10, <1>11 DEF Tidy

(* The counters of a graph are none of this.                               *)
LEMMA CountersKeepTidy ==
  ASSUME NEW g, Tidy(g), NEW h, DOMAIN h = GraphFields,
         h.nodes = g.nodes, h.edges = g.edges, h.metrics = g.metrics
  PROVE  Tidy(h)
  BY DEF Tidy

LEMMA DecayKeepsTidy == ASSUME NEW g, Tidy(g), NEW now PROVE Tidy(DecayPair(g, now))
<1>1. CASE g.pair = 0
  BY <1>1 DEF DecayPair
<1>2. CASE g.pair # 0
  <2>1. PICK kept, seen : DecayPair(g, now) = [g EXCEPT !.pair = kept, !.pairSeen = seen]
    BY <1>2 DEF DecayPair
  <2> QED
    BY <2>1, CountersKeepTidy DEF Tidy, GraphFields
<1> QED
  BY <1>1, <1>2

LEMMA PersistableIsTidy ==
  ASSUME NEW g, Tidy(g), NEW now, NEW h \in Persistable(g, now) PROVE Tidy(h)
<1>1. h = DecayPair(g, now) \/ h \in Compactions(DecayPair(g, now), now)
  BY DEF Persistable
<1> QED
  BY <1>1, DecayKeepsTidy, CompactKeepsTidy

LEMMA EmptyGraphIsTidy == Tidy(EmptyGraph)
<1>1. /\ DOMAIN EmptyGraph = GraphFields /\ DOMAIN EmptyGraph.edges = {}
      /\ DOMAIN EmptyGraph.metrics = {}
  BY DEF EmptyGraph, GraphFields
<1> QED
  BY <1>1, FS_EmptySet DEF Tidy, Edged

(***************************************************************************)
(* The parses of a refresh keep it so, and so does every step of a run.    *)
(***************************************************************************)
LEMMA TextIsParsed ==
  ASSUME NEW f \in Files, NEW t, IsText(t), NEW disk,
         \A g \in Files : IsText(disk[g])
  PROVE  IsParse(ParseOf(f, t, disk))
<1> DEFINE p == ParseOf(f, t, disk)
           decls == {<<<<f, t.decls[s]>>, s>> : s \in DOMAIN t.decls}
           refs == UNION {PlacesOf(s, f, t, disk) : s \in t.uses}
<1>1. p.file = f /\ p.decls = decls /\ p.refs = refs
  BY DEF ParseOf
<1>2. IsFiniteSet(DOMAIN t.decls) /\ IsFiniteSet(t.uses)
  BY GraphAssumption, FS_Subset DEF IsText
<1>3. IsFiniteSet(decls)
  <2> DEFINE d == [s \in DOMAIN t.decls |-> <<<<f, t.decls[s]>>, s>>]
  <2>1. DOMAIN d = DOMAIN t.decls /\ d = [s \in DOMAIN d |-> d[s]]
    OBVIOUS
  <2>2. decls = {d[s] : s \in DOMAIN d}
    OBVIOUS
  <2> HIDE DEF d, decls
  <2> QED
    BY <1>2, <2>1, <2>2, ImageIsFinite
<1>4. ASSUME NEW s \in t.uses PROVE IsFiniteSet(PlacesOf(s, f, t, disk))
  <2>1. CASE s \in DOMAIN t.decls
    BY <2>1, FS_Singleton DEF PlacesOf
  <2>2. CASE s \notin DOMAIN t.decls
    <3> DEFINE H == {h \in Files \ {f} : s \in DOMAIN disk[h].decls}
               d == [g \in H |-> <<g, disk[g].decls[s]>>]
    <3>1. IsFiniteSet(H)
      BY GraphAssumption, FS_Subset
    <3>2. PlacesOf(s, f, t, disk) = {d[g] : g \in DOMAIN d}
      BY <2>2 DEF PlacesOf
    <3>3. DOMAIN d = H /\ d = [g \in DOMAIN d |-> d[g]]
      OBVIOUS
    <3> HIDE DEF d, H
    <3> QED
      BY <3>1, <3>2, <3>3, ImageIsFinite
  <2> QED
    BY <2>1, <2>2
<1>5. IsFiniteSet(refs)
  <2> DEFINE d == [s \in t.uses |-> PlacesOf(s, f, t, disk)]
             P == {d[s] : s \in DOMAIN d}
  <2>1. /\ DOMAIN d = t.uses /\ d = [s \in DOMAIN d |-> d[s]]
        /\ \A s \in t.uses : d[s] = PlacesOf(s, f, t, disk)
    OBVIOUS
  <2>2. refs = UNION P
    OBVIOUS
  <2> HIDE DEF d
  <2>3. IsFiniteSet(P)
    BY <1>2, <2>1, ImageIsFinite
  <2>4. \A T \in P : IsFiniteSet(T)
    BY <1>4, <2>1
  <2> HIDE DEF P, refs
  <2> QED
    BY <2>2, <2>3, <2>4, FS_UNION
<1> HIDE DEF p, decls, refs
<1> QED
  BY <1>1, <1>3, <1>5 DEF IsParse, p

(* What a run holds of texts and of the graph.                             *)
Holds(p) ==
  /\ p.graph.is = "graph" => Tidy(p.graph.state)
  /\ \A f \in DOMAIN p.pending : IsText(p.pending[f])

GraphInv ==
  /\ DOMAIN text = Files /\ \A f \in Files : IsText(text[f])
  /\ store.is = "graph" => Tidy(store.state)
  /\ \A r \in Runs : IsWorking(run[r]) => Holds(run[r])

LEMMA ChainKeepsTidy ==
  ASSUME NEW r, NEW g, Tidy(g), NEW n \in Nat, NEW f, IsChain(f, n, r, g),
         \A k \in 1 .. n : IsParse(ParseFor(r, RefreshOrder(r)[k]))
  PROVE  Tidy(f[n])
<1> DEFINE Parse(k) == ParseFor(r, RefreshOrder(r)[k])
           After(x, k) == ApplyParse(x, Parse(k), clock)
           Bad == {m \in 0 .. n : ~Tidy(f[m])}
<1>1. \A k \in 0 .. n : f[k] = IF k = 0 THEN g ELSE After(f[k - 1], k)
  BY DEF IsChain
<1>2. ASSUME NEW x, Tidy(x), NEW k \in 1 .. n PROVE Tidy(After(x, k))
  BY <1>2, ParseKeepsTidy
<1> HIDE DEF After
<1>3. ASSUME Bad # {} PROVE FALSE
  <2>1. Bad \in SUBSET Nat
    OBVIOUS
  <2>2. PICK m \in Bad : \A k \in Bad : m <= k
    BY <1>3, <2>1, LeastOf
  <2>3. m # 0
    BY <1>1, <2>2
  <2>4. m - 1 \in 0 .. n /\ m - 1 \notin Bad /\ m \in 1 .. n
    BY <2>2, <2>3
  <2>5. Tidy(f[m - 1]) /\ f[m] = After(f[m - 1], m)
    BY <1>1, <2>3, <2>4
  <2> QED
    BY <1>2, <2>2, <2>4, <2>5
<1> QED
  BY <1>3

LEMMA ParsedIsTidy ==
  ASSUME GraphInv, NEW r \in Runs, IsWorking(run[r]), Learns(run[r]), NEW g, Tidy(g)
  PROVE  Tidy(Parsed(r, g))
<1> DEFINE order == RefreshOrder(r)
           n == Len(order)
           chain == CHOOSE f : IsChain(f, n, r, g)
<1>1. n \in Nat /\ \A k \in 1 .. n : order[k] \in Files
  BY OrderIsSequence DEF Learns
<1>2. IsChain(chain, n, r, g)
  BY <1>1, ChainExists
<1>3. Parsed(r, g) = chain[n]
  BY DEF Parsed, IsChain
<1>4. \A f \in Files : IsParse(ParseFor(r, f))
  BY TextIsParsed DEF ParseFor, GraphInv, Holds, Changed
<1>5. \A k \in 1 .. n : IsParse(ParseFor(r, order[k]))
  BY <1>1, <1>4
<1> HIDE DEF n, chain
<1> QED
  BY <1>1, <1>2, <1>3, <1>5, ChainKeepsTidy DEF n

LEMMA RefreshedIsTidy ==
  ASSUME GraphInv, NEW r \in Runs, IsWorking(run[r]), Learns(run[r]),
         run[r].graph.is = "graph"
  PROVE  Tidy(Refreshed(r))
<1> DEFINE old == run[r].graph.state
           tele == run[r].tele
           parsed == Parsed(r, old)
           delta == Delta(tele, old)
           paired == IF run[r].conflict > 0
                     THEN [parsed EXCEPT !.pair = @ + 1, !.pairSeen = clock] ELSE parsed
           h == Refreshed(r)
<1>1. Tidy(parsed)
  BY ParsedIsTidy DEF GraphInv, Holds
<1>2. h = [paired EXCEPT !.clusters = IF tele # old.clusters THEN tele ELSE @, !.retry = @ + delta]
  BY DEF Refreshed
<1> HIDE DEF parsed, delta, old, tele
<1>3. Tidy(paired)
  <2>1. PICK pair : \/ paired = [parsed EXCEPT !.pair = pair, !.pairSeen = clock]
                    \/ paired = parsed
    OBVIOUS
  <2> HIDE DEF paired
  <2>2. CASE paired = [parsed EXCEPT !.pair = pair, !.pairSeen = clock]
    BY <1>1, <2>2, CountersKeepTidy DEF Tidy, GraphFields
  <2> QED
    BY <1>1, <2>1, <2>2
<1> HIDE DEF paired
<1>4. PICK c, q : h = [paired EXCEPT !.clusters = c, !.retry = q]
  BY <1>2
<1> HIDE DEF h
<1>5. DOMAIN paired = GraphFields
  BY <1>3 DEF Tidy
<1>6. /\ DOMAIN h = GraphFields
      /\ h.nodes = paired.nodes /\ h.edges = paired.edges /\ h.metrics = paired.metrics
  BY <1>4, <1>5 DEF GraphFields
<1>7. Tidy(h)
  BY <1>3, <1>6, CountersKeepTidy
<1> QED
  BY <1>7 DEF h

LEMMA PersistedIsTidy ==
  ASSUME NEW x, Sound(x), NEW h, Tidy(h), NEW next \in Persist(x, h),
         NEW here, NEW multi, NEW file,
         file = [next EXCEPT !.learned = @ + here, !.mixed = @ \/ multi]
  PROVE  file.is = "graph" /\ Tidy(file.state)
<1>1. PICK s \in Persistable(h, clock) : next = [x EXCEPT !.gen = @ + 1, !.state = s]
  BY DEF Persist
<1>2. Tidy(s)
  BY PersistableIsTidy
<1> DEFINE gen == x.gen + 1
<1>3. next = [x EXCEPT !.gen = gen, !.state = s]
  BY <1>1
<1> HIDE DEF gen
<1>4. /\ DOMAIN next = {"is", "gen", "state", "learned", "mixed"}
      /\ next.is = "graph" /\ next.state = s
  BY <1>3 DEF Sound
<1> DEFINE learned == next.learned + here
           mixed == next.mixed \/ multi
<1>5. file = [next EXCEPT !.learned = learned, !.mixed = mixed]
  OBVIOUS
<1> HIDE DEF learned, mixed
<1>6. file.is = "graph" /\ file.state = s
  BY <1>4, <1>5
<1> QED
  BY <1>2, <1>6

(* A step that moves one process, and writes no text.                      *)
LEMMA GraphStays ==
  ASSUME GraphInv, NEW r \in Runs, Others(r), text' = text,
         store' = store \/ store'.is # "graph" \/ Tidy(store'.state),
         IsWorking(run'[r]) => Holds(run'[r])
  PROVE  GraphInv'
<1>1. \A q \in Runs : IsWorking(run'[q]) => Holds(run'[q])
  BY DEF GraphInv, Others
<1> QED
  BY <1>1 DEF GraphInv

LEMMA SameHolds ==
  ASSUME NEW p, NEW q, Holds(p), IsWorking(p), q.graph = p.graph,
         \A k \in DOMAIN p \ {"pc", "targets", "graph"} : q[k] = p[k]
  PROVE  Holds(q)
  BY DEF Holds, IsWorking

LEMMA GraphRefreshKeepsGraph ==
  ASSUME Shapes, LearnInv, GraphInv, NEW r \in Runs, GraphRefresh(r) PROVE GraphInv'
<1>1. /\ Others(r) /\ IsWorking(run[r]) /\ IsWorking(run'[r])
      /\ \A k \in DOMAIN run[r] \ {"pc", "graph"} : run'[r][k] = run[r][k]
  BY GraphRefreshMoves
<1>2. Learns(run[r]) /\ Holds(run[r])
  BY <1>1 DEF LearnInv, GraphInv
<1>3. DOMAIN run = Runs /\ DOMAIN run[r] = {"pc", "cmd", "rollout", "graph", "tele", "here",
                                            "conflict", "seen", "pending", "targets"}
  BY <1>1 DEF Shapes, IsWorking
<1>4. run'[r].pending = run[r].pending
  BY <1>1, <1>3
<1>5. Refreshes(r) => Sound(run[r].graph) /\ run[r].graph.is = "graph"
  BY <1>2 DEF Refreshes, Learns, Cmd, Sound
<1>6. /\ run'[r].graph = run[r].graph \/ Tidy(run'[r].graph.state)
      /\ store' = store \/ Tidy(store'.state)
  <2>1. ASSUME Refreshes(r), NEW next \in Persist(run[r].graph, Refreshed(r)), NEW file,
               file = [next EXCEPT !.learned = @ + run[r].here, !.mixed = @ \/ Cmd(r).multi],
               store' = file, run' = [run EXCEPT ![r].pc = "report", ![r].graph = file]
        PROVE  run'[r].graph = file /\ store' = file /\ Tidy(file.state)
    <3>1. Tidy(Refreshed(r))
      BY <1>1, <1>2, <1>5, <2>1, RefreshedIsTidy
    <3>2. Tidy(file.state)
      BY <1>5, <2>1, <3>1, PersistedIsTidy
    <3>3. run'[r].graph = file
      BY <1>3, <2>1
    <3> QED
      BY <2>1, <3>2, <3>3
  <2>2. ASSUME Refreshes(r), run' = [run EXCEPT ![r].pc = "report", ![r].graph.gen = @ + 1]
        PROVE  Tidy(run'[r].graph.state)
    <3> DEFINE gen == run[r].graph.gen + 1
               g == [run[r].graph EXCEPT !.gen = gen]
    <3>1. run'[r].graph = g
      BY <1>3, <2>2
    <3> HIDE DEF gen
    <3>2. g.state = run[r].graph.state
      BY <1>5, <2>2 DEF Sound
    <3>3. Tidy(run[r].graph.state)
      BY <1>2, <1>5, <2>2 DEF Holds
    <3> HIDE DEF g
    <3> QED
      BY <3>1, <3>2, <3>3
  <2>3. ASSUME Goto(r, "report") PROVE run'[r].graph = run[r].graph
    BY <1>3, <2>3 DEF Goto
  <2>4. \/ \E next \in Persist(run[r].graph, Refreshed(r)) : \E file :
             /\ Refreshes(r)
             /\ file = [next EXCEPT !.learned = @ + run[r].here, !.mixed = @ \/ Cmd(r).multi]
             /\ store' = file /\ run' = [run EXCEPT ![r].pc = "report", ![r].graph = file]
        \/ /\ Refreshes(r) /\ run' = [run EXCEPT ![r].pc = "report", ![r].graph.gen = @ + 1]
           /\ store' = store
        \/ Goto(r, "report") /\ store' = store
    BY DEF GraphRefresh
  <2> QED
    BY <2>1, <2>2, <2>3, <2>4
<1>7. Holds(run'[r])
  BY <1>2, <1>4, <1>6 DEF Holds
<1>8. text' = text
  BY DEF GraphRefresh
<1> QED
  BY <1>1, <1>6, <1>7, <1>8, GraphStays

LEMMA WritePhaseKeepsGraph ==
  ASSUME Shapes, LearnInv, GraphInv, NEW r \in Runs, WritePhase(r) PROVE GraphInv'
<1>1. /\ Others(r) /\ IsWorking(run[r])
      /\ \A k \in DOMAIN run[r] \ {"pc", "targets"} : run'[r][k] = run[r][k]
  BY WritePhaseMoves
<1>2. Learns(run[r]) /\ Holds(run[r])
  BY <1>1 DEF LearnInv, GraphInv
<1>3. run'[r].graph = run[r].graph
  BY <1>1 DEF IsWorking
<1>4. Holds(run'[r])
  BY <1>1, <1>2, <1>3, SameHolds
<1>5. \A q \in Runs : IsWorking(run'[q]) => Holds(run'[q])
  BY <1>1, <1>4 DEF GraphInv, Others
<1>6. PICK W \in SUBSET Changed(r) : text' = [f \in W |-> run[r].pending[f]] ++ text
  <2> DEFINE writes == IF Cmd(r).kind = "check" THEN {} ELSE Changed(r)
  <2>1. \E failed : text' = [f \in writes \ failed |-> run[r].pending[f]] ++ text
    BY DEF WritePhase
  <2>2. writes \subseteq Changed(r)
    OBVIOUS
  <2> HIDE DEF writes
  <2> QED
    BY <2>1, <2>2
<1> DEFINE new == [f \in W |-> run[r].pending[f]]
<1>7. DOMAIN new = W /\ \A f \in W : new[f] = run[r].pending[f]
  OBVIOUS
<1> HIDE DEF new
<1>8. /\ DOMAIN (new ++ text) = DOMAIN new \union DOMAIN text
      /\ \A f \in DOMAIN new : (new ++ text)[f] = new[f]
      /\ \A f \in DOMAIN text \ DOMAIN new : (new ++ text)[f] = text[f]
  BY Joined
<1>9. text' = new ++ text
  BY <1>6 DEF new
<1>10. DOMAIN text' = Files /\ \A f \in Files : IsText(text'[f])
  BY <1>2, <1>6, <1>7, <1>8, <1>9 DEF GraphInv, Holds, Learns, Changed
<1>11. store' = store
  BY DEF WritePhase
<1> QED
  BY <1>5, <1>10, <1>11 DEF GraphInv

LEMMA StepKeepsGraph ==
  ASSUME Shapes, LearnInv, GraphInv, NEW r \in Runs, Step(r) PROVE GraphInv'
<1>1. ASSUME NEW cmd \in project.commands, Start(r, cmd) PROVE GraphInv'
  <2>1. Others(r) /\ (IsOver(run'[r]) \/ IsOpening(run'[r]))
    BY <1>1, StartMoves
  <2>2. store' = store /\ text' = text
    BY <1>1 DEF Start
  <2> QED
    BY <2>1, <2>2, NotWorking, GraphStays
<1>2. ASSUME NothingToDo(r) \/ SaveTrust(r) \/ Kill(r) PROVE GraphInv'
  <2>1. PICK how \in {"ok", "killed"} : run' = [run EXCEPT ![r] = Ended(how)]
    BY <1>2 DEF NothingToDo, SaveTrust, Kill
  <2>2. Others(r) /\ IsOver(run'[r])
    BY <2>1, OverMoves
  <2>3. store' = store /\ text' = text
    BY <1>2 DEF NothingToDo, SaveTrust, Kill
  <2> QED
    BY <2>2, <2>3, NotWorking, GraphStays
<1>3. ASSUME LeaveEarly(r) \/ OpenFails(r) \/ EngineFails(r) \/ ReportFails(r) \/ ContractFails(r)
      PROVE  GraphInv'
  <2>1. run[r].pc \in {"open", "engine", "report", "journal"} /\ ~IsOver(run[r])
    BY <1>3 DEF LeaveEarly, OpenFails, EngineFails, ReportFails, ContractFails, At, IsOver
  <2>2. PICK how \in {"ok", "error"} : Leave(r, how)
    BY <1>3 DEF LeaveEarly, OpenFails, EngineFails, ReportFails, ContractFails, Fail
  <2>3. Others(r) /\ IsOver(run'[r])
    BY <2>1, <2>2, LeaveMoves
  <2>4. store' = store /\ text' = text
    BY <1>3 DEF LeaveEarly, OpenFails, EngineFails, ReportFails, ContractFails, Fail
  <2> QED
    BY <2>3, <2>4, NotWorking, GraphStays
<1>4. ASSUME Open(r) PROVE GraphInv'
  <2>1. /\ Others(r) /\ run'[r].pending = <<>>
        /\ run'[r].graph = IF run[r].cmd.graph THEN OpenedStore ELSE None
    BY <1>4, OpenMoves
  <2>2. OpenedStore.is = "graph" => Tidy(OpenedStore.state)
    BY EmptyGraphIsTidy DEF OpenedStore, GraphInv
  <2>3. Holds(run'[r])
    BY <2>1, <2>2 DEF Holds, None
  <2>4. text' = text /\ (store' = store \/ store' = None)
    BY <1>4 DEF Open, Quarantined
  <2>5. store' = store \/ store'.is # "graph"
    BY <2>4 DEF None
  <2> QED
    BY <2>1, <2>3, <2>4, <2>5, GraphStays
<1>5. ASSUME Engine(r) PROVE GraphInv'
  <2>1. /\ Others(r) /\ IsWorking(run[r]) /\ run'[r].graph = run[r].graph
        /\ \A f \in DOMAIN run'[r].pending :
             /\ f \in Files /\ text[f] \in DOMAIN Edits[f]
             /\ run'[r].pending[f] = Edits[f][text[f]]
    BY <1>5, EngineMoves
  <2>2. Holds(run'[r])
    BY <2>1, RunsAssumption DEF GraphInv, Holds
  <2>3. store' = store /\ text' = text
    BY <1>5 DEF Engine
  <2> QED
    BY <2>1, <2>2, <2>3, GraphStays
<1>6. ASSUME NEW pc \in {"journal", "save"}, Goto(r, pc), run[r].pc \in Steps,
             store' = store, text' = text
      PROVE  GraphInv'
  <2>1. /\ Others(r) /\ IsWorking(run[r])
        /\ \A k \in DOMAIN run[r] \ {"pc"} : run'[r][k] = run[r][k]
    BY <1>6, GotoMoves DEF Steps
  <2>2. Holds(run[r]) /\ run'[r].graph = run[r].graph
    BY <2>1 DEF GraphInv, IsWorking
  <2>3. Holds(run'[r])
    BY <2>1, <2>2, SameHolds
  <2> QED
    BY <1>6, <2>1, <2>3, GraphStays
<1>7. ASSUME SpawnBenchmark(r) \/ NoSignal(r) \/ JournalSuccess(r) PROVE GraphInv'
  <2>1. PICK pc \in {"journal", "save"} :
          Goto(r, pc) /\ run[r].pc \in Steps /\ store' = store /\ text' = text
    BY <1>7 DEF SpawnBenchmark, NoSignal, JournalSuccess, At, Steps
  <2> QED
    BY <1>6, <2>1
<1>8. ASSUME Validate(r) PROVE GraphInv'
  <2>1. /\ Others(r) /\ IsWorking(run[r])
        /\ \/ IsOver(run'[r])
           \/ Goto(r, "journal")
    BY <1>8, ValidateMoves, LeaveMoves DEF Validate, IsWorking, IsOver, Steps
  <2>2. store' = store /\ text' = text
    BY <1>8 DEF Validate
  <2>3. CASE IsOver(run'[r])
    BY <2>1, <2>2, <2>3, NotWorking, GraphStays
  <2>4. CASE Goto(r, "journal")
    BY <1>6, <2>1, <2>2, <2>4 DEF IsWorking
  <2> QED
    BY <2>1, <2>3, <2>4
<1> QED
  BY <1>1, <1>2, <1>3, <1>4, <1>5, <1>7, <1>8, GraphRefreshKeepsGraph, WritePhaseKeepsGraph
  DEF Step

LEMMA NextKeepsGraph == Shapes /\ LearnInv /\ GraphInv /\ [Next]_vars => GraphInv'
<1>1. ASSUME GraphInv, Damage \/ Tick \/ UNCHANGED vars PROVE GraphInv'
  <2>1. run' = run /\ text' = text /\ (store' = store \/ store' = Corrupt)
    BY <1>1 DEF Damage, Tick, vars
  <2>2. store'.is = "graph" => Tidy(store'.state)
    BY <1>1, <2>1 DEF GraphInv, Corrupt
  <2> QED
    BY <1>1, <2>1, <2>2 DEF GraphInv
<1> QED
  BY <1>1, StepKeepsGraph DEF Next

LEMMA InitGraph == Init => GraphInv
  BY NotWorking, RunsAssumption DEF Init, GraphInv, None, IsOver, Ended

(* The graph on disk is consistent, for any files, symbols and texts, any  *)
(* number of overlapping runs, and whatever was parsed, aliased, aged,     *)
(* capped and compacted: no edge dangles, and the counts of a symbol are   *)
(* those of the edges that lead to it (state_updater.rs,                   *)
(* apply_clang_parse; graph/state.rs, compact; store.rs,                   *)
(* persist_with_stats).                                                    *)
THEOREM TheGraphIsConsistent == Spec => []GraphConsistent
<1> DEFINE Inv == Shapes /\ RolloutInv /\ LearnInv /\ GraphInv
<1>1. Inv => GraphConsistent
  BY DEF GraphInv, GraphConsistent, Tidy, Counts
<1>2. Inv /\ [Next]_vars => Inv'
  BY NextKeepsShapes, NextKeepsRollout, NextKeepsLearn, NextKeepsGraph
<1>3. Init => Inv
  BY InitShapes, InitRollout, InitLearn, InitGraph
<1> HIDE DEF Inv
<1> QED
  BY <1>1, <1>2, <1>3, PTL DEF Spec
=============================================================================
