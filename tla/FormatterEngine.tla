-------------------------- MODULE FormatterEngine --------------------------
(***************************************************************************)
(* FormatterEngine::apply (engine/coordinator.rs) over the files of one    *)
(* worker process, whose threads format files at the same time and share   *)
(* what is learned: baseline, accuracy gate (engine/accuracy_gate.rs),     *)
(* a pass of the pipeline, synthesis of edits nobody recorded, the check   *)
(* after the edits (module PostEditCheck), the gate again, and the result  *)
(* that FileProcessor::process (runtime/processor.rs) makes of it.         *)
(*                                                                         *)
(* What is learned lives in two cells, the certainty filter and the        *)
(* interference state.  A cell is the set of observations that reached     *)
(* it; every observation loads the cell, clones it, and stores the clone.  *)
(* The pipeline is any rewriting of the text (module PolicyPipeline has    *)
(* its own account).  Retry and reversion are not here: a pass is never    *)
(* refused (accept_pass_result), so that run_retry_pass is never called.   *)
(***************************************************************************)
EXTENDS PostEditCheck

CONSTANTS
  Files,
  Scenarios,         (* see below                                          *)
  SynthesisCap,      (* UNTRACKED_TEXT_DELTA_SYNTHESIS_CAP                 *)
  NoResult, NoParse

(***************************************************************************)
(* A scenario has the texts of the files that are formatted, the kind of   *)
(* compilation database context they have, the lines that policies may     *)
(* write, and the configuration: strict is                                 *)
(* post_edit_fail_on_parser_unavailable, check post_edit_check_enabled,    *)
(* required, closed, enabled, minimum and samples are semantic_required,   *)
(* fail_closed, enabled, the thresholds, in percent, and min_samples of    *)
(* the accuracy gate, and dryRun is a run with --check.                    *)
(***************************************************************************)
ASSUME EngineAssumption ==
  /\ SynthesisCap \in Nat
  /\ \A s \in Scenarios :
       /\ s.kind \in ContextKinds /\ DOMAIN s.texts \subseteq Files
       /\ \A f \in DOMAIN s.texts : s.texts[f] \in Seq({s.texts[f][i] : i \in DOMAIN s.texts[f]})
       /\ {s.strict, s.check, s.required, s.closed, s.enabled, s.dryRun} \subseteq BOOLEAN
       /\ s.minimum \in 0..100 /\ s.samples \in Nat

VARIABLES
  scenario,
  stage,     (* where apply is, for every file                             *)
  before,    (* the parse of the baseline                                  *)
  pass,      (* the text and the edits of the pass                         *)
  seen,      (* the clone that an observation works on                     *)
  learned,   (* the two shared cells                                       *)
  loaded,    (* ghost: observations that cloned their cell                 *)
  raced,     (* ghost: observations while another worked on the same cell  *)
  result

vars == <<scenario, stage, before, pass, seen, learned, loaded, raced, result>>

Cells == {"certainty", "interference"}
CellOf(s) == IF s = "overlap" THEN "interference" ELSE "certainty"
Observing == {"first", "overlap", "last"}
After(s) == CASE s = "first" -> "run" [] s = "overlap" -> "decide" [] OTHER -> "done"

Lines(text) == DOMAIN text
Original(f) == scenario.texts[f]

(* Lines on which two texts differ, the longer one to its end. *)
Differing(s, t) ==
  {i \in 1..Max({Len(s), Len(t)}) :
     i \notin Lines(s) \/ i \notin Lines(t) \/ s[i] # t[i]}

(* One edit of a policy: a line replaced, inserted or deleted. *)
Replaced(t, i) == {[text |-> [t EXCEPT ![i] = l], lines |-> {i}] : l \in scenario.writes}
Inserted(t, i) ==
  {[text |-> SubSeq(t, 1, i) \o <<l>> \o SubSeq(t, i + 1, Len(t)), lines |-> {i + 1}] :
     l \in scenario.writes}
Deleted(t, i) == [text |-> SubSeq(t, 1, i - 1) \o SubSeq(t, i + 1, Len(t)), lines |-> {i}]

Rewritings(t) ==
  (UNION {Replaced(t, i) : i \in Lines(t)})
    \union (UNION {Inserted(t, i) : i \in {0} \union Lines(t)})
    \union {Deleted(t, i) : i \in {j \in Lines(t) : Len(t) > 1}}

(***************************************************************************)
(* The accuracy gate, in percent.                                          *)
(***************************************************************************)
GateReasons(ready, attempted, violations, accepted) ==
  LET precision == IF attempted = 0 THEN 100 ELSE Min({100, (100 * accepted) \div attempted})
      wanted    == Min({violations, Max({attempted, 1})})
      recall    == IF violations = 0 \/ attempted = 0 THEN 100
                   ELSE Min({100, (100 * accepted) \div wanted})
      checked   == scenario.enabled /\ attempted + violations >= scenario.samples
  IN  {r \in {"semantic required", "precision", "recall"} :
         CASE r = "semantic required" -> scenario.required /\ ~ready
           [] r = "precision" -> checked /\ precision < scenario.minimum
           [] r = "recall" -> checked /\ recall < scenario.minimum}

(* fail_closed_relaxation_reason: only an exact context closes, and a      *)
(* paired source does when both thresholds are missed                      *)
Closes(reasons) ==
  \/ scenario.kind = "exact"
  \/ scenario.kind = "paired" /\ reasons = {"precision", "recall"}

Gate(ready, attempted, violations, accepted) ==
  LET reasons == GateReasons(ready, attempted, violations, accepted)
  IN  IF reasons = {} THEN "passed"
      ELSE IF scenario.closed /\ Closes(reasons) THEN "closed"
      ELSE "warning"

(***************************************************************************)
(* Init and the steps of one file.                                         *)
(***************************************************************************)
Init ==
  /\ scenario \in Scenarios
  /\ stage = [f \in Files |-> "new"]
  /\ before = [f \in Files |-> NoParse]
  /\ pass = [f \in Files |-> NoResult]
  /\ seen = [f \in Files |-> {}]
  /\ learned = [c \in Cells |-> {}]
  /\ loaded = {} /\ raced = {}
  /\ result = [f \in Files |-> NoResult]

BaselineRequired == scenario.check \/ scenario.required \/ scenario.enabled
IsReady(f) == before'[f] # NoParse /\ BaselineReady(scenario.strict, before'[f])

Failed == [error |-> TRUE, pending |-> {}, edits |-> {}, outcome |-> "none"]

Refuse(f) ==
  /\ stage' = [stage EXCEPT ![f] = "done"]
  /\ result' = [result EXCEPT ![f] = Failed]

(* apply_inner to the pipeline: the baseline, and the gate before the pass *)
Begin(f) ==
  /\ stage[f] = "new"
  /\ IF BaselineRequired
     THEN \E p \in Parses(Original(f), scenario.kind) : before' = [before EXCEPT ![f] = p]
     ELSE before' = before
  /\ IF scenario.required /\ ~IsReady(f) /\ Gate(FALSE, 0, 0, 0) = "closed"
     THEN Refuse(f)
     ELSE /\ stage' = [stage EXCEPT ![f] = IF BaselineRequired THEN "first" ELSE "run"]
          /\ result' = result
  /\ UNCHANGED <<scenario, pass, seen, learned, loaded, raced>>

(* Mutant: the observation starts from the default state. *)
LoadDefault(f) ==
  /\ stage[f] \in Observing /\ <<f, stage[f]>> \notin loaded
  /\ LET rivals == {g \in Files \ {f} : stage[g] \in Observing /\ CellOf(stage[g]) = CellOf(stage[f])
                                          /\ <<g, stage[g]>> \in loaded}
     IN  raced' = raced \union (IF rivals = {} THEN {} ELSE {<<f, stage[f]>>})
                        \union {<<g, stage[g]>> : g \in rivals}
  /\ seen' = [seen EXCEPT ![f] = {<<f, stage[f]>>}]
  /\ loaded' = loaded \union {<<f, stage[f]>>}
  /\ UNCHANGED <<scenario, stage, before, pass, learned, result>>

(* The half of an observation up to the clone ... *)
Load(f) ==
  /\ stage[f] \in Observing /\ <<f, stage[f]>> \notin loaded
  /\ LET rivals == {g \in Files \ {f} : stage[g] \in Observing /\ CellOf(stage[g]) = CellOf(stage[f])
                                          /\ <<g, stage[g]>> \in loaded}
     IN  raced' = raced \union (IF rivals = {} THEN {} ELSE {<<f, stage[f]>>})
                        \union {<<g, stage[g]>> : g \in rivals}
  /\ seen' = [seen EXCEPT ![f] = learned[CellOf(stage[f])] \union {<<f, stage[f]>>}]
  /\ loaded' = loaded \union {<<f, stage[f]>>}
  /\ UNCHANGED <<scenario, stage, before, pass, learned, result>>

(* ... and its store. *)
Store(f) ==
  /\ stage[f] \in Observing /\ <<f, stage[f]>> \in loaded
  /\ learned' = [learned EXCEPT ![CellOf(stage[f])] = seen[f]]
  /\ seen' = [seen EXCEPT ![f] = {}]
  /\ stage' = [stage EXCEPT ![f] = After(stage[f])]
  /\ UNCHANGED <<scenario, before, pass, loaded, raced, result>>

(* normalize_untracked_text_delta *)
Normalized(f, text, edits) ==
  LET lines == Differing(Original(f), text)
  IN  IF edits # {} \/ lines = {} THEN [text |-> text, edits |-> edits]
      ELSE IF Cardinality(lines) > SynthesisCap THEN [text |-> Original(f), edits |-> {}]
      ELSE [text |-> text, edits |-> lines]

(* run_with_options: any edit, recorded or not, or no change at all *)
Run(f) ==
  /\ stage[f] = "run"
  /\ \/ \E r \in Rewritings(Original(f)) \union {[text |-> Original(f), lines |-> {}]} :
          \E recorded \in {{}, r.lines} :
            pass' = [pass EXCEPT ![f] = Normalized(f, r.text, recorded)]
     \/ \E r \in Rewritings(Original(f)) :   \* edits that undo each other
          pass' = [pass EXCEPT ![f] = [text |-> Original(f), edits |-> r.lines]]
  /\ stage' = [stage EXCEPT ![f] = "overlap"]
  /\ UNCHANGED <<scenario, before, seen, learned, loaded, raced, result>>

(* a policy that reports a fatal error, or a parse that fails *)
RunFails(f) ==
  /\ stage[f] = "run"
  /\ Refuse(f)
  /\ UNCHANGED <<scenario, before, pass, seen, learned, loaded, raced>>

(* validate_pass; without a baseline the text before is parsed now *)
Verdicts(f, structural) ==
  LET edits == pass[f].edits
      bases == IF before[f] = NoParse THEN Parses(Original(f), scenario.kind) ELSE {before[f]}
  IN  IF structural /\ edits # {} /\ before[f] # NoParse
      THEN {ValidateStructural(scenario.strict, before[f], p) : p \in Parses(pass[f].text, scenario.kind)}
      ELSE {Validate(scenario.strict, scenario.kind, b, p, edits) :
              b \in bases, p \in Parses(pass[f].text, scenario.kind)}

(* What the process keeps of a pass: text to be written if it changed. *)
Accepted(f, outcome) ==
  [error |-> FALSE,
   pending |-> IF pass[f].text # Original(f) /\ ~scenario.dryRun THEN {pass[f].text} ELSE {},
   edits |-> pass[f].edits, outcome |-> outcome]

GateAfter(f, violations) ==
  LET n == Cardinality(pass[f].edits)
  IN  Gate(before[f] # NoParse /\ BaselineReady(scenario.strict, before[f]), n, violations, n)

(* What check_pass finds; text that did not change is not checked. *)
Outcomes(f) ==
  IF pass[f].text = Original(f) \/ ~scenario.check THEN {"accepted"}
  ELSE {IF v.accepted THEN "accepted" ELSE "regressed" :
          v \in UNION {Verdicts(f, structural) : structural \in BOOLEAN}}

(* apply_inner after the pipeline; every outcome is accepted *)
Decide(f) ==
  /\ stage[f] = "decide"
  /\ \E violations \in 0..2, outcome \in Outcomes(f) :
       LET closed == GateAfter(f, violations) = "closed"
       IN  /\ stage' = [stage EXCEPT ![f] = IF closed THEN "done" ELSE "last"]
           /\ result' = [result EXCEPT ![f] = IF closed THEN Failed ELSE Accepted(f, outcome)]
  /\ UNCHANGED <<scenario, before, pass, seen, learned, loaded, raced>>

Next ==
  \E f \in DOMAIN scenario.texts :
    Begin(f) \/ Load(f) \/ Store(f) \/ Run(f) \/ RunFails(f) \/ Decide(f)

Spec == Init /\ [][Next]_vars

(***************************************************************************)
(* Properties.                                                             *)
(***************************************************************************)
Observations == Files \X Observing

(* Type correctness. *)
TypeOK ==
  /\ scenario \in Scenarios
  /\ stage \in [Files -> {"new", "run", "decide", "done"} \union Observing]
  /\ \A f \in Files :
       /\ before[f] # NoParse => before[f] \in Parses(Original(f), scenario.kind)
       /\ stage[f] \in {"overlap", "decide", "last"} => pass[f] # NoResult
       /\ stage[f] \in {"last", "done"} => result[f] # NoResult
  /\ seen \in [Files -> SUBSET Observations]
  /\ learned \in [Cells -> SUBSET Observations]
  /\ loaded \subseteq Observations /\ raced \subseteq loaded

(* What a file teaches is lost only to a race: an observation during which *)
(* no other thread worked on the same cell stays in the cell for good,     *)
(* whatever happens later (observe_adaptive, and the end of                *)
(* run_with_options, load, clone and store without comparing).             *)
LostOnlyToRaces ==
  \A o \in loaded \ raced :
    stage[o[1]] # o[2] => o \in learned[CellOf(o[2])]

(* The clang parse of a text by a clang and a tree-sitter that answer. *)
Parsed(text) == [text |-> text, tree |-> TRUE, clang |-> "ok"]

(* A pass that removes or renames a declaration that is used elsewhere     *)
(* does not get past the full check on an exact context, whichever         *)
(* declarations of the same kind are near, if the text had no errors that  *)
(* the same pass may mend: only totals are compared (validate against      *)
(* identity_migrated_locally and the tolerances for lost references).      *)
RemovalInUseIsReported ==
  \A f \in DOMAIN scenario.texts :
    stage[f] = "decide" /\ scenario.kind = "exact" =>
      LET b == Parsed(Original(f))
          a == Parsed(pass[f].text)
          Broke(n) == /\ \E i \in Sees(b, "decl") : n \in b.text[i].names
                      /\ \E i \in Unresolved(a) : a.text[i].name = n
      IN  Unresolved(b) = {} /\ (\E i \in Unresolved(a) : Broke(a.text[i].name))
            => ~Validate(scenario.strict, "exact", b, a, pass[f].edits).accepted

(* The lines of a text that say something. *)
Filled(text) == {i \in Lines(text) : text[i] # Blank}

(* The lines of s are still in t, in the same order and no others beside   *)
(* them, and none has moved further than the tolerance.                    *)
MovedBy(s, t, place) ==
  /\ \A j \in Filled(t) : \E i \in Filled(s) : place[i] = j
  /\ \A i \in Filled(s) : t[place[i]] = s[i] /\ place[i] - i \in (-IdentityShift)..IdentityShift
  /\ \A i, k \in Filled(s) : i < k => place[i] < place[k]

LayoutOnly(s, t) == \E place \in [Filled(s) -> Filled(t)] : MovedBy(s, t, place)

(* No names from headers, and a USR for every function template, as clang  *)
(* gives it one.                                                           *)
OwnNames(p) ==
  /\ Sees(p, "extern") = {}
  /\ \A i \in Sees(p, "decl") : p.text[i].kind = "template" => p.text[i].usr

(* A pass that only moves lines, no further than the tolerance, breaks     *)
(* neither the identity of a symbol nor a reference: names that carry      *)
(* their line are recognised where they moved to (evaluate_identity,       *)
(* evaluate_reference_integrity).                                          *)
LayoutKeepsSymbols ==
  \A f \in DOMAIN scenario.texts :
    LET b == Parsed(Original(f))
    IN  stage[f] = "decide" /\ OwnNames(b) /\ LayoutOnly(Original(f), pass[f].text) =>
          TransitionFailures(scenario.kind, b, Parsed(pass[f].text), pass[f].edits)
            \intersect {"identity", "reference"} = {}

=============================================================================
