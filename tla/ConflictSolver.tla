--------------------------- MODULE ConflictSolver ---------------------------
(***************************************************************************)
(* What becomes of the edits that policies propose before one of them is   *)
(* applied: the catalog of policies (engine/catalog.rs), the candidates    *)
(* and their assessment (engine/proposer.rs), and the solver of conflicts  *)
(* (engine/conflict_solver.rs).                                            *)
(*                                                                         *)
(* An edit is [policy, line, before, after, zone, clauses, symbols, range, *)
(* radius, style, confidence]: the zone of its line, the clauses of the    *)
(* semantic contract that it touches, the symbols and the range of lines   *)
(* that it has an impact on.  Scores are in hundredths, with the weights   *)
(* of the initial state of the learning filter.                            *)
(***************************************************************************)
EXTENDS Integers, Sequences, FiniteSets, SequencesExt, FiniteSetsExt

CONSTANT FuzzyMin     (* fuzzy_min_semantic of the learning filter         *)

----------------------------------------------------------------------------
(* The catalog.                                                            *)

CommentPolicies == {"dash_comment_normalizer", "section_title_normalizer"}
PreprocessorPolicies ==
  {"pragma_once_spacing", "include_order", "include_guards", "lua_macro_spacing"}
RewritePolicies ==
  {"naming_conventions", "snake_case", "operator_overload_spacing", "function_void_params"}
LowRisk == CommentPolicies \union {"declaration_alignment"}

AllowedZones(policy) ==
  CASE policy \in CommentPolicies -> {"comments", "preprocessor"}
    [] policy \in PreprocessorPolicies -> {"code", "preprocessor"}
    [] policy = "clang_format" -> {"code", "preprocessor", "comments"}
    [] OTHER -> {"code"}

RiskOf(policy) ==
  CASE policy \in LowRisk -> "low"
    [] policy \in RewritePolicies -> "high"
    [] OTHER -> "medium"

Bypasses(policy) ==
  policy \in {"numeric_literal_suffix", "clang_format", "declaration_alignment"}

----------------------------------------------------------------------------
(* Candidates (ProposerController).                                        *)

HardClauses == {"edit_safety", "parser_availability"}
TouchesHard(c) == c.clauses \intersect HardClauses # {}

Candidates(edits) == {e \in edits : e.line # 0 /\ e.before # e.after}

Assess(candidates) ==
  LET zoned == {c \in candidates : c.zone \in AllowedZones(c.policy)} IN
  [allowed |-> {c \in zoned : ~TouchesHard(c)},
   zone |-> {c.line : c \in candidates \ zoned},
   hard |-> {c.line : c \in {d \in zoned : TouchesHard(d)}}]

----------------------------------------------------------------------------
(* Which candidates are better, and which are in each other's way.         *)

Precedence == [low |-> 3, medium |-> 2, high |-> 1]
StabilizerBonus == [low |-> 10, medium |-> 5, high |-> 0]
ScopeBonus == [low |-> 8, medium |-> 4, high |-> 4]
RiskPenalty == [low |-> 0, medium |-> 5, high |-> 15]

(* utility_score; the scope is narrow by 0 (the whole file), 1 (a region)  *)
(* or 2 (a node, a line) halves.                                           *)
Utility(c, narrow) ==
  LET risk == RiskOf(c.policy) IN
  c.style + c.confidence + StabilizerBonus[risk] + (narrow * ScopeBonus[risk]) \div 2
    - RiskPenalty[risk] - Min({Cardinality(c.symbols), 30})

Distance(c, d) == IF c.line < d.line THEN d.line - c.line ELSE c.line - d.line
Overlap(c, d) == c.range[1] <= d.range[2] /\ d.range[1] <= c.range[2]
Sensitive(c) == RiskOf(c.policy) = "high"

Conflict(c, d) ==
  IF c.policy = d.policy THEN c.line = d.line
  ELSE /\ ~Bypasses(c.policy) /\ ~Bypasses(d.policy)
       /\ LET radius == Max({c.radius, d.radius})
              fuzzy == IF Sensitive(c) \/ Sensitive(d) THEN FuzzyMin ELSE 1
          IN \/ c.line = d.line
             \/ Overlap(c, d)
             \/ /\ c.symbols \intersect d.symbols # {}
                /\ Distance(c, d) <= Max({radius, fuzzy})
             \/ /\ "preprocessor" \in {c.zone, d.zone} /\ c.after # d.after
                /\ Distance(c, d) <= radius

(* One candidate per line (consolidate_by_line); the first one stays       *)
(* unless a later one is better.                                           *)
Better(c, d, narrow) ==
  LET u == Utility(c, narrow)
      v == Utility(d, narrow)
  IN \/ u > v
     \/ u = v /\ c.confidence > d.confidence
     \/ u = v /\ c.confidence = d.confidence
        /\ Precedence[RiskOf(c.policy)] > Precedence[RiskOf(d.policy)]

Consolidated(incoming, narrow) ==
  LET lines == {incoming[i].line : i \in DOMAIN incoming}
      Best(l) == FoldLeft(LAMBDA best, c : IF best = <<>> \/ Better(c, best[1], narrow)
                                           THEN <<c>> ELSE best,
                          <<>>, SelectSeq(incoming, LAMBDA c : c.line = l))[1]
  IN {Best(l) : l \in lines}

----------------------------------------------------------------------------
(* The search (select_conflict_optimal).                                   *)

Neighbours(c, all) == {d \in all \ {c} : Conflict(c, d)}

RECURSIVE Reached(_, _)
Reached(component, all) ==
  LET more == component \union UNION {Neighbours(c, all) : c \in component} IN
  IF more = component THEN component ELSE Reached(more, all)

Components(all) == {Reached({c}, all) : c \in all}

(* The order of the search; lines are unique after consolidation.          *)
Ahead(c, d, narrow) ==
  \/ Better(c, d, narrow)
  \/ ~Better(d, c, narrow) /\ c.line < d.line

InOrder(component, narrow) == SetToSortSeq(component, LAMBDA c, d : Ahead(c, d, narrow))

Weight(c, narrow) == Max({Utility(c, narrow), 0})
Worth(set, narrow) == MapThenSumSet(LAMBDA c : Weight(c, narrow), set)

(* The sorted lines of one set come before those of the other.             *)
SmallerKeys(left, right) ==
  LET sorted(set) == SetToSortSeq({c.line : c \in set}, <)
      l == sorted(left)
      r == sorted(right)
  IN \/ IsStrictPrefix(l, r)
     \/ \E i \in DOMAIN l \intersect DOMAIN r :
          l[i] < r[i] /\ \A j \in 1 .. i - 1 : l[j] = r[j]

(* What the candidates from a position on could add.                       *)
Bound(order, position, narrow) ==
  Worth({order[i] : i \in position .. Len(order)}, narrow)

(* Mutant of Hopeless: the candidate at the position is left out.          *)
HopelessEarly(order, position, chosen, best, narrow) ==
  Worth(chosen, narrow) + Bound(order, position + 1, narrow) < Worth(best, narrow)

Hopeless(order, position, chosen, best, narrow) ==
  Worth(chosen, narrow) + Bound(order, position, narrow) < Worth(best, narrow)

(* dfs: with the candidate at the position, if nothing chosen is in its    *)
(* way, then without it; best is none before the first leaf.               *)
RECURSIVE Search(_, _, _, _, _)
Search(order, position, chosen, best, narrow) ==
  IF position > Len(order)
  THEN IF \/ best = <<>>
          \/ Worth(chosen, narrow) > Worth(best[1], narrow)
          \/ Worth(chosen, narrow) = Worth(best[1], narrow) /\ SmallerKeys(chosen, best[1])
       THEN <<chosen>> ELSE best
  ELSE IF best # <<>> /\ Hopeless(order, position, chosen, best[1], narrow) THEN best
  ELSE LET c == order[position]
           with == IF \E d \in chosen : Conflict(c, d) THEN best
                   ELSE Search(order, position + 1, chosen \union {c}, best, narrow)
       IN Search(order, position + 1, chosen, with, narrow)

Exact(component, narrow) == Search(InOrder(component, narrow), 1, {}, <<>>, narrow)[1]

(* Larger components: one after the other, if nothing chosen is in the way.*)
Greedy(component, narrow) ==
  FoldLeft(LAMBDA chosen, c : IF \E d \in chosen : Conflict(c, d) THEN chosen ELSE chosen \union {c},
           {}, InOrder(component, narrow))

Optimal(admissible, threshold, narrow) ==
  UNION {IF Cardinality(component) <= threshold THEN Exact(component, narrow)
         ELSE Greedy(component, narrow) : component \in Components(admissible)}

(* solve: against each other and against what was selected before.         *)
Solve(incoming, selected, threshold, narrow) ==
  LET consolidated == Consolidated(incoming, narrow)
      blocked == {c \in consolidated : TouchesHard(c)}
      admissible == {c \in consolidated \ blocked : \A d \in selected : ~Conflict(c, d)}
      accepted == Optimal(admissible, threshold, narrow)
  IN [accepted |-> accepted,
      dropped |-> {c.line : c \in consolidated \ accepted},
      hard |-> {c.line : c \in blocked}]

----------------------------------------------------------------------------
(* No two accepted edits are in each other's way or in that of an earlier  *)
(* one, none touches a hard clause, every line is accepted or dropped, an  *)
(* edit that is worth something is dropped only for another one, and in    *)
(* components up to the limit no other choice is worth more                *)
(* (conflict_solver.rs, solve and solve_component_exact).                  *)
ChoiceIsBest(incoming, selected, threshold, narrow, result) ==
  LET consolidated == Consolidated(incoming, narrow)
      free == {c \in consolidated : ~TouchesHard(c) /\ \A d \in selected : ~Conflict(c, d)}
      Possible(set) == \A c, d \in set : c # d => ~Conflict(c, d)
  IN /\ Possible(result.accepted) /\ result.accepted \subseteq free
     /\ {c.line : c \in result.accepted} \union result.dropped = {c.line : c \in consolidated}
     /\ {c.line : c \in result.accepted} \intersect result.dropped = {}
     /\ \A c \in free \ result.accepted :
          Utility(c, narrow) > 0 => Neighbours(c, result.accepted) # {}
     /\ Cardinality(free) <= threshold =>
          \A set \in SUBSET free : Possible(set) => Worth(set, narrow) <= Worth(result.accepted, narrow)
=============================================================================
