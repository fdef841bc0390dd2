---------------------------- MODULE PolicyPipeline ----------------------------
(***************************************************************************)
(* One pass of the policy pipeline over one file                           *)
(* (engine/pipeline/mod.rs, run_with_options): every policy in turn parses *)
(* what is not parsed, proposes a text, loses the lines on which it        *)
(* conflicts with others (engine/conflict_solver.rs, then                  *)
(* engine/convergence.rs), passes a checkpoint that counts syntax errors   *)
(* (engine/pipeline/checkpoint.rs), and is committed, committed in part,   *)
(* or rolled back and tried once more.                                     *)
(*                                                                         *)
(* Policies rewrite lines in place; module EditReplay has the line         *)
(* arithmetic of texts that grow and shrink.  A syntax tree is the text it *)
(* describes.  Filters that take lines away from a proposal without        *)
(* looking at the state kept here are in the choice of the proposal.       *)
(***************************************************************************)
EXTENDS Integers, Sequences, FiniteSets

CONSTANTS
  Policies,
  Stages,             (* the policies in dynamic order, then those repaired *)
  Lines,              (* line numbers, a range from 1                       *)
  Values,             (* what a line can read                               *)
  Priority,           (* Priority[p], of the convergence profile of p       *)
  Bypasses,           (* bypasses_line_conflict                             *)
  WhitespaceSafe,     (* whitespace_safe                                    *)
  SemanticRewrite,    (* semantic_rewrite, all others are structural_safe   *)
  ClangInvalidating,  (* clang_invalidating                                 *)
  HasCompdb,          (* has_semantic_compdb of the file                    *)
  RetryBatch,         (* retry_batch of the certainty filter                *)
  ErrorLines(_),      (* lines of a text with a tree-sitter error node      *)
  ClangErrorLines(_), (* lines of a text with a clang error diagnostic      *)
  NoText, NoPolicy

Texts == [Lines -> Values]

ASSUME PipelineAssumption ==
  /\ Stages \in Seq(Policies)
  /\ IsFiniteSet(Lines) /\ Lines \subseteq Nat
  /\ Priority \in [Policies -> Nat]
  /\ HasCompdb \in BOOLEAN /\ RetryBatch \in Nat
  /\ NoText \notin Texts /\ NoPolicy \notin Policies
  /\ \A t \in Texts : ErrorLines(t) \subseteq Lines /\ ClangErrorLines(t) \subseteq Lines

VARIABLES
  original,    (* the text the pass was given                              *)
  current,     (* state.current                                            *)
  stage,       (* index into Stages                                        *)
  pc,          (* where the stage is                                       *)
  attempt,     (* 2 in the retry of a rolled-back stage                    *)
  work,        (* the text of the stage's result                           *)
  tree, prevTree, clang,  (* ParseCache: what text each is of              *)
  semantic,    (* ParseCache: the text and the parses it is made of        *)
  cache,       (* the parser's tree cache: text -> the text its tree is of *)
  selected,    (* cand.selected: policy and line of accepted candidates    *)
  claims,      (* claimed_lines                                            *)
  suppressed,  (* suppressed_lines_by_policy                               *)
  edits,       (* all_edits: policy and line                               *)
  output,      (* the text returned                                        *)
  history,     (* ghost: what let a text in that tree-sitter did not pass  *)
  editor,      (* ghost: the policy that last changed a line               *)
  voided       (* ghost: lines claimed by attempts that were not committed *)

parse     == << tree, prevTree, clang, semantic, cache >>
arbiters  == << claims, suppressed >>
committed == << current, selected, edits, history, editor >>
vars == << original, stage, pc, attempt, work, parse, arbiters, committed, output, voided >>

Policy    == Stages[stage]
Changed(old, new)       == {l \in Lines : old[l] # new[l]}
PutBack(new, old, back) == [l \in Lines |-> IF l \in back THEN old[l] ELSE new[l]]
ErrorNodes(text)        == Cardinality(ErrorLines(text))
ClangErrors(text)       == Cardinality(ClangErrorLines(text))

Phases  == {"parse", "execute", "coordinate", "checkpoint", "done", "failed"}
Excuses == {"unchecked", "unparsed", "overruled", "partial"}

TypeOK ==
  /\ original \in Texts /\ current \in Texts /\ work \in Texts \cup {NoText}
  /\ stage \in 1 .. Len(Stages) + 1 /\ pc \in Phases /\ attempt \in 1 .. 2
  /\ {tree, prevTree, clang} \subseteq Texts \cup {NoText}
  /\ semantic \in [text : Texts, tree : Texts, clang : Texts \cup {NoText}] \cup {NoText}
  /\ DOMAIN cache \subseteq Texts /\ \A t \in DOMAIN cache : cache[t] \in Texts
  /\ selected \subseteq Policies \X Lines /\ edits \subseteq Policies \X Lines
  /\ suppressed \subseteq Policies \X Lines
  /\ claims \in [Lines -> Policies \cup {NoPolicy}]
  /\ editor \in [Lines -> Policies \cup {NoPolicy}]
  /\ output \in Texts /\ history \subseteq Excuses /\ voided \subseteq Lines

Init ==
  /\ original \in Texts
  /\ current = original /\ work = NoText /\ output = original
  /\ stage = 1 /\ pc = "parse" /\ attempt = 1
  /\ tree = NoText /\ prevTree = NoText /\ clang = NoText /\ semantic = NoText
  /\ cache = << >>
  /\ selected = {} /\ edits = {} /\ suppressed = {}
  /\ claims = [l \in Lines |-> NoPolicy] /\ editor = claims
  /\ history = {} /\ voided = {}

Running == stage \in 1 .. Len(Stages)

NextStage ==
  /\ stage' = stage + 1 /\ pc' = "parse" /\ attempt' = 1 /\ work' = NoText

-----------------------------------------------------------------------------
(* ensure_policy_parse_stage                                               *)

(* The tree of a text that is parsed with the tree of an older one at      *)
(* hand.  The older tree has not been told what was edited, so the parser  *)
(* may take it for the new one; whatever comes out is cached by the text.  *)
Reparsed(text, old) ==
  IF text \in DOMAIN cache THEN {cache[text]}
  ELSE IF old = NoText THEN {text} ELSE {text, old}

Remember(text, t) ==
  cache' = [u \in DOMAIN cache \cup {text} |-> IF u = text THEN t ELSE cache[u]]

NeedsTree  == tree = NoText
NeedsClang == clang = NoText /\ HasCompdb

ParseTree ==
  IF NeedsTree
    THEN /\ tree' \in Reparsed(current, prevTree)
         /\ Remember(current, tree')
         /\ prevTree' = NoText
    ELSE UNCHANGED << tree, cache, prevTree >>

(* Parse what is missing.  The semantic context is made from the text and  *)
(* the parses at hand, whatever text these are of: the tree may be an      *)
(* older one, and clang's parse is kept over the edits of most policies.   *)
Parse ==
  /\ Running /\ pc = "parse"
  /\ ParseTree
  /\ clang' = IF NeedsClang THEN current ELSE clang
  /\ semantic' = IF semantic = NoText \/ NeedsClang
                   THEN [text |-> current, tree |-> tree', clang |-> clang'] ELSE semantic
  /\ pc' = "execute"
  /\ UNCHANGED << original, stage, attempt, work, arbiters, committed, output, voided >>

(* A parser that fails or times out here, and a policy that reports a      *)
(* fatal problem, end the pass with an error.                              *)
Abort ==
  /\ Running
  /\ \/ pc = "parse" /\ (NeedsTree \/ NeedsClang)
     \/ pc = "execute"
  /\ pc' = "failed"
  /\ UNCHANGED << original, stage, attempt, work, parse, arbiters, committed, output, voided >>

-----------------------------------------------------------------------------
(* execute_policy_stage                                                    *)

(* The understanding gate: a semantic rewrite stays away from the lines    *)
(* that either parser has not understood, those of clang by its context.   *)
GatedLines ==
  IF Policy \in SemanticRewrite
    THEN ErrorLines(tree) \cup (IF semantic.clang = NoText THEN {} ELSE ClangErrorLines(semantic.clang))
    ELSE {}

Execute ==
  /\ Running /\ pc = "execute"
  /\ work' \in Texts
  /\ Changed(current, work') # {}
  /\ Changed(current, work') \cap GatedLines = {}
  /\ pc' = "coordinate"
  /\ UNCHANGED << original, stage, attempt, parse, arbiters, committed, output, voided >>

(* The policy leaves the text alone. *)
Pass ==
  /\ Running /\ pc = "execute"
  /\ NextStage
  /\ UNCHANGED << original, parse, arbiters, committed, output, voided >>

-----------------------------------------------------------------------------
(* coordinate_policy_stage                                                 *)

Conflicts(p, q) == p = q \/ {p, q} \cap Bypasses = {}

(* Mutant: only the policy's own candidates are looked at. *)
TakenBySelf ==
  {l \in Changed(current, work) : << Policy, l >> \in selected}

(* Lines the solver drops: an accepted candidate is in the way.            *)
Taken ==
  {l \in Changed(current, work) : \E q \in Policies : << q, l >> \in selected /\ Conflicts(Policy, q)}

(* A semantic rewrite that loses a line is reverted as a whole.            *)
Solved ==
  IF Taken # {} /\ Policy \in SemanticRewrite THEN current ELSE PutBack(work, current, Taken)

Contested == {l \in Changed(current, Solved) : claims[l] # NoPolicy}

(* Mutant: the lower priority wins. *)
BeatenByLower == {l \in Contested : Priority[claims[l]] <= Priority[Policy]}

Beaten == {l \in Contested : Priority[claims[l]] >= Priority[Policy]}

Outranked == {<< claims[l], l >> : l \in Contested \ Beaten}

(* reconcile_policy_result: lines of a claimant of at least the priority   *)
(* are put back, others are taken from their claimants' reports; what is   *)
(* left is claimed, before the checkpoint decides.                         *)
Coordinate ==
  /\ Running /\ pc = "coordinate"
  /\ work' = PutBack(Solved, current, Beaten)
  /\ suppressed' = suppressed \cup Outranked
  /\ claims' = [l \in Lines |-> IF l \in Changed(current, work') THEN Policy ELSE claims[l]]
  /\ pc' = "checkpoint"
  /\ UNCHANGED << original, stage, attempt, parse, committed, output, voided >>

-----------------------------------------------------------------------------
(* checkpoint_policy_stage and commit_policy_stage                         *)

(* The incremental parse: the tree at hand, told of the edit.  What lies   *)
(* outside the edit is taken from it.                                      *)
Span(old, new) ==
  {l \in Lines : \E i, j \in Changed(old, new) : i <= l /\ l <= j}

Reparse(new) ==
  {new, [l \in Lines |-> IF l \in Span(current, new) THEN new[l] ELSE tree[l]]}

AtCheckpoint == Running /\ pc = "checkpoint"

(* Mutant: one more error node is let through. *)
WorseByTwo(t) == ErrorNodes(t) > ErrorNodes(tree) + 1

Worse(t) == ErrorNodes(t) > ErrorNodes(tree)

(* Mutant: the semantic context is kept. *)
InvalidateTree ==
  /\ prevTree' = tree
  /\ clang' = IF Policy \in SemanticRewrite \cap ClangInvalidating THEN NoText ELSE clang
  /\ UNCHANGED << semantic, cache >>

(* ParseCache::invalidate *)
Invalidate ==
  /\ prevTree' = tree
  /\ semantic' = NoText
  /\ clang' = IF Policy \in SemanticRewrite \cap ClangInvalidating THEN NoText ELSE clang
  /\ UNCHANGED cache

Record(text, excuses) ==
  LET lines == Changed(current, text)
  IN /\ current' = text
     /\ edits' = edits \cup ({Policy} \X lines)
     /\ editor' = [l \in Lines |-> IF l \in lines THEN Policy ELSE editor[l]]
     /\ history' = history \cup excuses

Commit(t, excuses) ==
  /\ Record(work, excuses)
  /\ selected' = selected \cup ({Policy} \X Changed(current, work))
  /\ tree' = t /\ Invalidate
  /\ NextStage
  /\ UNCHANGED << original, arbiters, output, voided >>

(* The arbiters have left nothing of the result. *)
CommitNothing ==
  /\ AtCheckpoint /\ work = current
  /\ NextStage
  /\ UNCHANGED << original, parse, arbiters, committed, output, voided >>

(* A whitespace-safe policy has no checkpoint. *)
CommitUnchecked ==
  /\ AtCheckpoint /\ work # current
  /\ Policy \in WhitespaceSafe
  /\ Commit(NoText, {"unchecked"})

Checked == AtCheckpoint /\ work # current /\ Policy \notin WhitespaceSafe

(* The parse for the checkpoint fails: the result is accepted without. *)
CommitUnparsed == Checked /\ Commit(NoText, {"unparsed"})

(* Mutant: the tree of the old text stays. *)
CommitKeepsTree ==
  /\ Checked
  /\ \E t \in Reparse(work) : ~Worse(t) /\ Commit(tree, {})

(* No more error nodes than before. *)
CommitParsed ==
  /\ Checked
  /\ \E t \in Reparse(work) : ~Worse(t) /\ Commit(t, {})

(* There are more error nodes, but clang has no more to say of the new     *)
(* text than of the text it was last given.                                *)
CommitOverruled ==
  /\ Checked
  /\ ClangErrors(work) <= ClangErrors(IF clang = NoText THEN current ELSE clang)
  /\ \E t \in Reparse(work) : Worse(t) /\ Commit(t, {"overruled"})

(* attempt_partial_rollback: the edits that are not on error lines.        *)
Recovered(t) == PutBack(work, current, ErrorLines(t))

(* Text and tree are replaced; the context of a semantic rewrite is        *)
(* invalidated, but not in a retry.                                        *)
KeepPart(rest, u) ==
  /\ \/ /\ Policy \in SemanticRewrite /\ attempt = 1
        /\ tree' = NoText /\ prevTree' = u /\ semantic' = NoText
        /\ clang' = IF Policy \in ClangInvalidating THEN NoText ELSE clang
     \/ /\ Policy \notin SemanticRewrite \/ attempt = 2
        /\ tree' = u /\ UNCHANGED << prevTree, semantic, clang >>
  /\ Record(rest, {"partial"})
  /\ voided' = voided \cup Changed(rest, work)
  /\ NextStage
  /\ UNCHANGED << original, cache, selected, arbiters, output >>

(* Clang agrees with the error nodes, or fails, and the rest parses well.  *)
PartialRollback ==
  /\ Checked
  /\ \E t \in Reparse(work) :
       /\ Worse(t) /\ Recovered(t) # current
       /\ \E u \in Reparse(Recovered(t)) : ~Worse(u) /\ KeepPart(Recovered(t), u)

(* Mutant: the retry is tried again as well. *)
RollbackAgain ==
  /\ Checked
  /\ \E t \in Reparse(work) : Worse(t)
  /\ voided' = voided \cup Changed(current, work)
  /\ IF RetryBatch < Cardinality(Lines)
       THEN pc' = "parse" /\ attempt' = attempt + 1 /\ work' = NoText /\ UNCHANGED stage
       ELSE NextStage
  /\ UNCHANGED << original, parse, arbiters, committed, output >>

(* Clang agrees or fails, and the rest parses badly or not at all: the     *)
(* stage is tried once more, in smaller batches, if there are lines        *)
(* enough.  Its claims stay.                                               *)
Rollback ==
  /\ Checked
  /\ \E t \in Reparse(work) : Worse(t)
  /\ voided' = voided \cup Changed(current, work)
  /\ IF attempt = 1 /\ RetryBatch < Cardinality(Lines)
       THEN pc' = "parse" /\ attempt' = 2 /\ work' = NoText /\ UNCHANGED stage
       ELSE NextStage
  /\ UNCHANGED << original, parse, arbiters, committed, output >>

-----------------------------------------------------------------------------
(* finalize and stabilize_output_text                                      *)

(* Mutant: whoever edited a suppressed line leaves the report. *)
ReportOfUnsuppressed ==
  {e \in edits : \A p \in Policies : << p, e[2] >> \notin suppressed}

Report == edits \ suppressed

(* Outranked edits leave the report; without any edit left the original    *)
(* text is returned.                                                       *)
Finish ==
  /\ ~Running /\ pc = "parse"
  /\ output' = IF Report = {} THEN original ELSE current
  /\ pc' = "done"
  /\ UNCHANGED << original, stage, attempt, work, parse, arbiters, committed, voided >>

Ended == pc \in {"done", "failed"} /\ UNCHANGED vars

Next ==
  \/ Parse \/ Abort \/ Execute \/ Pass \/ Coordinate
  \/ CommitNothing \/ CommitUnchecked \/ CommitUnparsed \/ CommitParsed \/ CommitOverruled
  \/ PartialRollback \/ Rollback
  \/ Finish \/ Ended

Spec == Init /\ [][Next]_vars

-----------------------------------------------------------------------------
(* Properties                                                              *)

(* A policy works on a tree of the text it edits, as long as no text was   *)
(* committed that was not parsed at its commit: the commits without a      *)
(* checkpoint parse leave an older tree to the parser (reparse_tree).      *)
TreeIsCurrent ==
  pc = "execute" /\ history \cap {"unchecked", "unparsed"} = {} => tree = current

(* The semantic context a policy works on is as new as the parses allow:   *)
(* it is made from clang's parse at hand and, as long as no commit was     *)
(* unparsed, from a tree of its own text; that text is the one the policy  *)
(* edits, and clang's parse has seen every edit of a clang-invalidating    *)
(* rewrite, but for lines that a partial roll-back changed, which are not  *)
(* among the accepted candidates.                                          *)
SemanticIsCurrent ==
  pc = "execute" =>
    /\ semantic.clang = clang
    /\ history \cap {"unchecked", "unparsed"} = {} => semantic.tree = semantic.text
    /\ \A l \in Changed(semantic.text, current) : << editor[l], l >> \notin selected
    /\ clang # NoText =>
         \A l \in Changed(clang, current) :
           editor[l] \in SemanticRewrite \cap ClangInvalidating => << editor[l], l >> \notin selected

(* "Per-policy checkpoint via tree-sitter re-parse": across all stages,    *)
(* retries and partial roll-backs no error node is added to the text the   *)
(* pass was given, as long as no exception to the checkpoint was used.     *)
ErrorBudget ==
  history \subseteq {"partial"} => ErrorNodes(current) <= ErrorNodes(original)

(* "The policy with the higher priority number wins": of the policies      *)
(* whose edits of a line were committed, the last has the top priority.    *)
HigherPriorityWins ==
  \A e \in edits : Priority[e[1]] <= Priority[editor[e[2]]]

(* Two policies that may conflict both change a line only if one of them   *)
(* did so in a partial roll-back, which the solver does not hear of.       *)
OneOwnerPerLine ==
  \A e, f \in edits :
    e[2] = f[2] /\ e[1] # f[1] /\ Conflicts(e[1], f[1]) => {e, f} \cap (edits \ selected) # {}

(* The pass returns what its stages committed, and its report names a      *)
(* policy for every line that differs; only lines that an attempt claimed  *)
(* and then did not commit may be missing, or take the text back.          *)
ReportCoversChanges ==
  pc = "done" =>
    /\ output # current => voided # {}
    /\ \A l \in Changed(original, output) \ voided : \E p \in Policies : << p, l >> \in Report

=============================================================================
