------------------------------ MODULE BatchPlan ------------------------------
(***************************************************************************)
(* How the files of a run are divided into batches (runtime/scheduler.rs,  *)
(* files/file_unit.rs): files that belong together make a unit, the units  *)
(* are ranked by the cost that static features and the dispatch history    *)
(* predict, dealt to virtual lanes, cut into batches and interleaved.      *)
(*                                                                         *)
(* A file is [path, parent, stem, role, static]: the directory with        *)
(* include, inc, src and source unified, what the extension says, and the  *)
(* cost that its features have.  Paths are numbers, in their order.        *)
(***************************************************************************)
EXTENDS Integers, Sequences, FiniteSets, SequencesExt, FiniteSetsExt

CONSTANTS
  MinSamples,     (* HISTORY_MIN_SAMPLES                                   *)
  MaxUnits,       (* BATCH_MAX_UNITS of a pass in one process              *)
  MaxPaths        (* BATCH_MAX_PATHS of a pass in one process              *)

AtLeast(a, b) == IF a < b THEN b ELSE a
AtMost(a, b) == IF a < b THEN a ELSE b
Clamp(x, low, high) == AtMost(AtLeast(x, low), high)

----------------------------------------------------------------------------
(* Units of files (FileUnitLayout::from_paths).                            *)

UnitKey(f) == [parent |-> f.parent, stem |-> f.stem]

KindOf(files, f) ==
  LET roles == {g.role : g \in {files[i] : i \in {j \in DOMAIN files :
                                    UnitKey(files[j]) = UnitKey(f)}}}
  IN  IF roles = {"header"} THEN "header"
      ELSE IF "header" \in roles THEN "paired"
      ELSE "implementation"

(* Mutant of Together: the companion is looked for by its name only.       *)
SameStem(files, f, g) ==
  IF KindOf(files, f) = "paired" THEN f.stem = g.stem ELSE f.path = g.path

(* Files of one unit are dispatched together if the unit has a header and  *)
(* an implementation; else each file is a unit.                            *)
Together(files, f, g) ==
  IF KindOf(files, f) = "paired" THEN UnitKey(f) = UnitKey(g) ELSE f.path = g.path

Priority == [paired |-> 0, header |-> 1, implementation |-> 2]

----------------------------------------------------------------------------
(* The dispatch history, a function of paths; an entry has the number of   *)
(* samples and two moving averages.                                        *)

Ewma(current, observed) ==
  IF current = 0 THEN observed ELSE (current * 7 + observed) \div 8

NoEntry == [samples |-> 0, elapsed |-> 0, penalty |-> 0]

(* An observation of a file that failed is not recorded.                   *)
Recorded(entry, observation) ==
  IF observation.error THEN entry
  ELSE [samples |-> entry.samples + 1,
        elapsed |-> Ewma(entry.elapsed, observation.elapsed),
        penalty |-> Ewma(entry.penalty, observation.penalty)]

(* Mutant of Blended: no bounds.                                           *)
BlendedFreely(entry, static) ==
  IF entry.samples < MinSamples THEN AtLeast(static, 1)
  ELSE (AtLeast(entry.elapsed + entry.penalty, 1) * 70 + static * 30) \div 100

(* blended_cost: from the third sample on, 70 parts of history to 30 of    *)
(* the features, between half and three times the latter.                  *)
Blended(entry, static) ==
  IF entry.samples < MinSamples THEN AtLeast(static, 1)
  ELSE LET low == AtLeast(static \div 2, 1) IN
       Clamp((AtLeast(entry.elapsed + entry.penalty, 1) * 70 + static * 30) \div 100,
             low, AtLeast(static * 3, low))

----------------------------------------------------------------------------
(* The plan.  A file is dispatched by its index in the list of files.      *)

Units(files, history) ==
  LET Members(f) == {j \in DOMAIN files : Together(files, f, files[j])}
      Cost(j) == Blended(history[files[j].path], files[j].static)
  IN {[files |-> Members(files[i]), kind |-> KindOf(files, files[i]),
       cost |-> MapThenSumSet(Cost, Members(files[i]))] : i \in DOMAIN files}

Leading(unit) == Min(unit.files)

(* The order of ranking: cost, kind, and the name of the group.            *)
Before(u, v) ==
  \/ u.cost > v.cost
  \/ u.cost = v.cost /\ Priority[u.kind] < Priority[v.kind]
  \/ u.cost = v.cost /\ u.kind = v.kind /\ Leading(u) < Leading(v)

Ranked(files, history) == SetToSortSeq(Units(files, history), Before)

CostOf(units) == FoldLeft(LAMBDA sum, u : sum + u.cost, 0, units)

(* workload_lease_sizing: whatever the skew of the costs, the depth of the *)
(* queue ends as the number of units, by its last two bounds.              *)
Sizing(units, parallelism, mode) ==
  LET n == Len(units)
      target == AtLeast(AtLeast(CostOf(units), 1) \div n, 1)
  IN [lanes |-> AtMost(AtLeast((n + 1) \div 2, parallelism), n),
      target |-> target,
      singleton |-> (target * 3) \div 2,
      units |-> IF mode = "worker" THEN 1 ELSE MaxUnits,
      paths |-> IF mode = "worker" THEN 2 ELSE MaxPaths]

(* The heaviest unit first, each to the first of the lightest lanes.       *)
Lanes(units, count) ==
  FoldLeft(LAMBDA lanes, u :
             LET lightest == Min({i \in 1 .. count :
                                    \A j \in 1 .. count : CostOf(lanes[i]) <= CostOf(lanes[j])})
             IN [lanes EXCEPT ![lightest] = Append(@, u)],
           [i \in 1 .. count |-> <<>>], units)

NoBatch == [files |-> {}, units |-> 0, cost |-> 0]

(* Mutant of Flushed: the batch that is open stays open.                   *)
Unflushed(acc) == [acc EXCEPT !.open = NoBatch]

Flushed(acc) ==
  IF acc.open.files = {} THEN acc
  ELSE [done |-> Append(acc.done, acc.open), open |-> NoBatch]

Joined(batch, unit) ==
  [files |-> batch.files \union unit.files, units |-> batch.units + 1,
   cost |-> batch.cost + unit.cost]

Exceeds(batch, unit, sizing) ==
  \/ batch.units >= sizing.units
  \/ /\ batch.files # {}
     /\ \/ batch.cost + unit.cost > sizing.target
        \/ Cardinality(batch.files) + Cardinality(unit.files) > sizing.paths

(* split_into_batches: a unit of more than the singleton threshold is a    *)
(* batch of its own.                                                       *)
Split(lane, sizing) ==
  LET Take(acc, unit) ==
        LET a == IF Exceeds(acc.open, unit, sizing) THEN Flushed(acc) ELSE acc IN
        IF unit.cost > sizing.singleton
        THEN [done |-> Append(Flushed(a).done, Joined(NoBatch, unit)), open |-> NoBatch]
        ELSE [a EXCEPT !.open = Joined(@, unit)]
  IN Flushed(FoldLeft(Take, [done |-> <<>>, open |-> NoBatch], lane)).done

(* The first batch of each lane, then the second, and so on.               *)
Interleaved(lanes) ==
  LET places == UNION {{<<b, l>> : b \in DOMAIN lanes[l]} : l \in DOMAIN lanes}
      Earlier(p, q) == p[1] < q[1] \/ (p[1] = q[1] /\ p[2] < q[2])
      order == SetToSortSeq(places, Earlier)
  IN [i \in DOMAIN order |-> lanes[order[i][2]][order[i][1]]]

PlanBatches(files, history, parallelism, mode) ==
  IF files = <<>> \/ parallelism = 0 THEN <<>>
  ELSE LET units == Ranked(files, history)
           sizing == Sizing(units, parallelism, mode)
           lanes == Lanes(units, sizing.lanes)
       IN Interleaved([l \in DOMAIN lanes |-> Split(lanes[l], sizing)])

----------------------------------------------------------------------------
(* Each file is in exactly one batch, a header and its implementation in   *)
(* one and the same, a batch of several units keeps to the limits of its   *)
(* mode, the heaviest batches are not left for last by more than a lane,   *)
(* and no history moves an estimate beyond half and three times what the   *)
(* features say (scheduler.rs, plan_batches and blended_cost).             *)
PlanIsFair(files, history, parallelism, mode, plan) ==
  /\ UNION {plan[i].files : i \in DOMAIN plan} = DOMAIN files
  /\ \A i, j \in DOMAIN plan : i # j => plan[i].files \intersect plan[j].files = {}
  /\ \A i, j \in DOMAIN files :
       UnitKey(files[i]) = UnitKey(files[j]) /\ files[i].role = "header" /\ files[j].role # "header"
       => \E b \in DOMAIN plan : {i, j} \subseteq plan[b].files
  /\ \A b \in DOMAIN plan :
       plan[b].units > 1 => /\ mode # "worker" /\ plan[b].units <= MaxUnits
                            /\ Cardinality(plan[b].files) <= MaxPaths
  /\ plan # <<>> => \A b \in DOMAIN plan : \A i \in plan[b].files :
       Blended(history[files[i].path], files[i].static) <= plan[1].cost
  /\ \A i \in DOMAIN files :
       LET cost == Blended(history[files[i].path], files[i].static) IN
       files[i].static \div 2 <= cost /\ cost <= AtLeast(3 * files[i].static, 1)
=============================================================================
