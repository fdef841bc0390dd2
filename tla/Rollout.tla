------------------------------- MODULE Rollout -------------------------------
(***************************************************************************)
(* The rollout of the accuracy profile: what a project remembers of the    *)
(* accuracy of its runs (runtime/rollout_state.rs), how a benchmark or the *)
(* gate is judged against the thresholds of a profile, and when a miss     *)
(* fails the run (app/benchmark.rs, app/reporting.rs).                     *)
(*                                                                         *)
(* Precision, recall and match ratio are one level: 3 meets the benchmark  *)
(* thresholds of the strict profile, 2 of the balanced one, 1 of the       *)
(* adaptive one, 0 of none.                                                *)
(***************************************************************************)
EXTENDS Integers, Sequences, FiniteSets, FiniteSetsExt

CONSTANTS
  StablePasses,     (* accuracy_rollout_stable_passes                      *)
  ConfiguredLevel   (* level of the thresholds that the configuration asks *)

ASSUME RolloutAssumption == StablePasses \in Nat /\ ConfiguredLevel \in 0..3

Profiles == {"strict", "balanced", "adaptive"}
Levels == 0..3
Least(a, b) == IF a < b THEN a ELSE b
Most(a, b) == IF a < b THEN b ELSE a

States ==
  [requested : Profiles \union {""}, effective : Profiles \union {""},
   passes : Nat, failures : Nat, armed : BOOLEAN]

Remembering(requested) ==
  [requested |-> requested, effective |-> requested,
   passes |-> 0, failures |-> 0, armed |-> FALSE]

(* A missing file starts balanced; one that cannot be decoded is moved     *)
(* away and leaves the empty default, which no profile matches.            *)
OpenedState(file) ==
  CASE file.is = "none" -> Remembering("balanced")
    [] file.is = "corrupt" -> Remembering("")
    [] file.is = "state" -> file.state

EffectiveProfile(s, profile) == IF s.requested = profile THEN s.effective ELSE profile

EffectiveFailClosed(s, profile, wanted, deferred) ==
  /\ wanted
  /\ deferred =>
       /\ s.requested = profile
       /\ \/ EffectiveProfile(s, profile) = "strict" /\ s.passes > 0
          \/ s.armed

Above(profile) == [adaptive |-> "balanced", balanced |-> "strict", strict |-> "none"][profile]
Below(profile) == [strict |-> "balanced", balanced |-> "adaptive", adaptive |-> "none"][profile]
LevelOf(profile) == [strict |-> 3, balanced |-> 2, adaptive |-> 1][profile]
PromotionStreak == [adaptive |-> 3, balanced |-> 5]
DemotionStreak == [strict |-> 2, balanced |-> 3]

StableTarget(profile) ==
  LET base == Most(StablePasses, 1) IN
  CASE profile = "strict" -> Least(base, 2)
    [] profile = "balanced" -> Most(base, 2)
    [] profile = "adaptive" -> Most(base + 1, 3)

Promotes(s, active, level) ==
  /\ Above(active) # "none"
  /\ s.passes >= PromotionStreak[active]
  /\ level >= LevelOf(Above(active))

Demotes(s, active) ==
  /\ Below(active) # "none"
  /\ s.failures >= DemotionStreak[active]

MovedWithStreak(s, profile) == [s EXCEPT !.effective = profile]

(* A change of profile forgets the streaks. *)
Moved(s, profile) == [s EXCEPT !.effective = profile, !.passes = 0, !.failures = 0]

Requested(s, profile) == IF s.requested = profile THEN s ELSE Remembering(profile)

CountedInTotal(s, passed) ==
  IF passed THEN [s EXCEPT !.passes = @ + 1] ELSE [s EXCEPT !.failures = @ + 1]

Counted(s, passed) ==
  IF passed THEN [s EXCEPT !.passes = @ + 1, !.failures = 0]
  ELSE [s EXCEPT !.failures = @ + 1, !.passes = 0]

(* observe_signal; o says whether the signal passed, its level and whether *)
(* it had enough samples.                                                  *)
Observe(s, profile, o) ==
  LET counted == Counted(Requested(s, profile), o.passed)
      active == counted.effective
      next == IF o.passed /\ Promotes(counted, active, o.level) THEN Moved(counted, Above(active))
              ELSE IF ~o.passed /\ Demotes(counted, active) THEN Moved(counted, Below(active))
              ELSE counted
  IN  IF ~o.samples THEN [Requested(s, profile) EXCEPT !.armed = FALSE]
      ELSE [next EXCEPT !.armed = next.passes >= StableTarget(next.effective)]

(***************************************************************************)
(* Verdicts.  A profile raises the configured thresholds, or, the adaptive *)
(* one, lowers them.                                                       *)
(***************************************************************************)
Needed(effective) ==
  IF effective = "adaptive" THEN Least(ConfiguredLevel, LevelOf("adaptive"))
  ELSE Most(ConfiguredLevel, LevelOf(effective))

(* A benchmark without files, or with unreadable ones, has too few samples *)
(* and fails.                                                              *)
BenchmarkSignals(effective) ==
  {[passed |-> enough /\ level >= Needed(effective), level |-> level, samples |-> enough] :
     level \in Levels, enough \in BOOLEAN}

(* The gate passes when it has too few files; of enough files each that    *)
(* the gate lists fails it.                                                *)
GateSignals ==
  {o \in [passed : BOOLEAN, level : Levels, samples : BOOLEAN] : ~o.samples => o.passed}

(* Whether a signal fails the run: judged after it has been observed. *)
FailsRun(s, profile, o, wanted, deferred) ==
  ~o.passed /\ EffectiveFailClosed(s, profile, wanted, deferred)
=============================================================================
