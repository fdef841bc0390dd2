------------------------- MODULE PolicyPipelineProofs -------------------------
(***************************************************************************)
(* Proofs about PolicyPipeline, for any policies in any order, any texts   *)
(* and any two parsers: every invariant that TLC checks on small texts.    *)
(***************************************************************************)
EXTENDS PolicyPipeline, TLAPS, FiniteSetTheorems

(* A stage that has parsed has a tree, one that has executed has a result. *)
Working ==
  /\ pc \in {"execute", "coordinate", "checkpoint"} => tree # NoText
  /\ pc \in {"coordinate", "checkpoint"} => work \in Texts

(* As long as every commit was parsed, no tree is older than its text:     *)
(* neither the one at hand, nor the one kept for the next parse, nor any   *)
(* in the parser's cache.                                                  *)
AllParsed == history \cap {"unchecked", "unparsed"} = {}

Faithful ==
  AllParsed =>
    /\ tree \in {NoText, current}
    /\ tree = NoText => prevTree \in {NoText, current}
    /\ \A t \in DOMAIN cache : cache[t] = t

(* The semantic context is of the parses at hand, and of the text but for  *)
(* what partial roll-backs have left; clang has seen what it has to see.   *)
ContextIsFresh ==
  /\ semantic.clang = clang
  /\ AllParsed => semantic.tree = semantic.text
  /\ \A l \in Changed(semantic.text, current) : << editor[l], l >> \notin selected

Fresh ==
  /\ semantic = NoText \/ ContextIsFresh
  /\ pc = "execute" => ContextIsFresh

ClangIsFresh ==
  clang # NoText =>
    \A l \in Changed(clang, current) :
      editor[l] \in SemanticRewrite \cap ClangInvalidating => << editor[l], l >> \notin selected

(* A claim outranks every edit and every claim before it on the line; the  *)
(* lines a result still changes at the checkpoint are its policy's.        *)
Ranked ==
  /\ \A e \in edits :
       claims[e[2]] # NoPolicy /\ Priority[e[1]] <= Priority[claims[e[2]]]
  /\ \A e \in suppressed :
       claims[e[2]] # NoPolicy /\ Priority[e[1]] < Priority[claims[e[2]]]
  /\ pc = "checkpoint" => \A l \in Changed(current, work) : claims[l] = Policy

(* Accepted candidates that conflict are on different lines, and so are    *)
(* those and the lines a result still changes at the checkpoint.           *)
Owned ==
  /\ \A e, f \in selected : e[2] = f[2] /\ e[1] # f[1] => ~Conflicts(e[1], f[1])
  /\ pc = "checkpoint" =>
       \A e \in selected : e[2] \in Changed(current, work) => ~Conflicts(Policy, e[1])

(* A changed line is in the report, or voided, or in the result of a stage *)
(* that is at its checkpoint.                                              *)
Pending == IF pc = "checkpoint" THEN Changed(current, work) ELSE {}

Reported ==
  \A l \in Changed(original, current) \ (voided \cup Pending) :
    \E p \in Policies : << p, l >> \in Report

Returned == pc = "done" => output = IF Report = {} THEN original ELSE current

IInv ==
  /\ TypeOK /\ Working /\ Faithful /\ Fresh /\ ClangIsFresh /\ ErrorBudget
  /\ Ranked /\ HigherPriorityWins /\ Owned /\ Reported /\ Returned

-----------------------------------------------------------------------------
(* What the helpers return.                                                *)

LEMMA PutBackType ==
  ASSUME NEW old \in Texts, NEW new \in Texts, NEW back
  PROVE  /\ PutBack(new, old, back) \in Texts
         /\ Changed(old, PutBack(new, old, back)) = Changed(old, new) \ back
BY DEF PutBack, Changed, Texts

LEMMA ChangedLines ==
  ASSUME NEW old \in Texts, NEW new \in Texts
  PROVE  Changed(old, new) \subseteq Lines /\ (Changed(old, new) = {} <=> old = new)
BY DEF Changed, Texts

LEMMA ErrorsAreCounted ==
  ASSUME NEW t \in Texts
  PROVE  ErrorNodes(t) \in Nat
BY PipelineAssumption, FS_Subset, FS_CardinalityType DEF ErrorNodes

LEMMA PolicyType == TypeOK /\ Running => Policy \in Policies
BY PipelineAssumption DEF TypeOK, Running, Policy

LEMMA NextStageType ==
  TypeOK /\ Running /\ NextStage =>
    /\ stage' \in 1 .. Len(Stages) + 1 /\ attempt' \in 1 .. 2
    /\ pc' = "parse" /\ work' = NoText
<1>1. Len(Stages) \in Nat
  BY PipelineAssumption
<1> QED
  BY <1>1 DEF TypeOK, Running, NextStage

LEMMA ReparseType ==
  ASSUME TypeOK, tree # NoText, NEW new \in Texts, NEW t \in Reparse(new)
  PROVE  t \in Texts
BY DEF TypeOK, Reparse, Texts

(* Told of the edit, a faithful tree becomes a tree of the new text.       *)
LEMMA ReparseFaithful ==
  ASSUME TypeOK, tree = current, NEW new \in Texts, NEW t \in Reparse(new)
  PROVE  t = new
<1>1. \A l \in Lines \ Span(current, new) : current[l] = new[l]
  <2> SUFFICES ASSUME NEW l \in Lines, current[l] # new[l] PROVE l \in Span(current, new)
    OBVIOUS
  <2>1. l \in Changed(current, new) /\ l \in Nat
    BY PipelineAssumption DEF Changed
  <2> QED
    BY <2>1 DEF Span
<1> QED
  BY <1>1 DEF TypeOK, Reparse, Texts

-----------------------------------------------------------------------------
(* The result of a stage when the solver and the arbiter are done with it. *)
LEMMA SolvedType ==
  ASSUME TypeOK, work \in Texts
  PROVE  /\ Solved \in Texts
         /\ Changed(current, Solved) \subseteq Changed(current, work) \ Taken
<1> USE DEF TypeOK
<1>1. Changed(current, current) = {}
  BY DEF Changed
<1> QED
  BY <1>1, PutBackType DEF Solved

LEMMA InitIInv == Init => IInv
<1> SUFFICES ASSUME Init PROVE IInv
  OBVIOUS
<1> USE PipelineAssumption DEF Init
<1>1. TypeOK
  BY DEF TypeOK, Phases
<1>2. Changed(original, current) = {}
  BY DEF Changed
<1>3. ErrorBudget
  BY ErrorsAreCounted DEF ErrorBudget
<1>4. Working /\ Faithful /\ Fresh /\ ClangIsFresh /\ Ranked /\ HigherPriorityWins /\ Owned
  BY DEF Working, Faithful, Fresh, ClangIsFresh, Ranked, HigherPriorityWins, Owned
<1>5. Reported /\ Returned
  BY <1>2 DEF Reported, Returned
<1> QED
  BY <1>1, <1>3, <1>4, <1>5 DEF IInv

-----------------------------------------------------------------------------
(* The four full commits: what was parsed gives the tree, what was passed  *)
(* by the checkpoint needs no excuse.                                      *)
Commits == CommitUnchecked \/ CommitUnparsed \/ CommitParsed \/ CommitOverruled

LEMMA CommitCase ==
  ASSUME TypeOK, Working, Commits
  PROVE  /\ AtCheckpoint /\ work \in Texts /\ Policy \in Policies
         /\ Changed(current, work) \subseteq Lines
         /\ \E t \in Texts \cup {NoText}, x \in SUBSET Excuses :
              /\ Commit(t, x)
              /\ x \cap {"unchecked", "unparsed"} = {} => t \in Reparse(work)
              /\ x = {} => ~Worse(t)
              /\ "partial" \notin x
<1> USE DEF Commits, CommitUnchecked, CommitUnparsed, CommitParsed, CommitOverruled, Checked, Excuses
<1>1. AtCheckpoint /\ work \in Texts /\ tree # NoText
  BY DEF AtCheckpoint, Working
<1>2. Policy \in Policies /\ Changed(current, work) \subseteq Lines
  BY <1>1, PolicyType, ChangedLines DEF AtCheckpoint, TypeOK
<1>3. \A t \in Reparse(work) : t \in Texts
  BY <1>1, ReparseType
<1> QED
  BY <1>1, <1>2, <1>3

LEMMA PartialCase ==
  ASSUME TypeOK, Working, PartialRollback
  PROVE  /\ AtCheckpoint /\ work \in Texts /\ Policy \in Policies
         /\ \E rest, u \in Texts :
              /\ KeepPart(rest, u)
              /\ u \in Reparse(rest) /\ ~Worse(u)
              /\ Changed(current, rest) \subseteq Changed(current, work)
              /\ Changed(current, work) \subseteq Changed(current, rest) \cup Changed(rest, work)
              /\ Changed(current, work) \cup Changed(rest, work) \subseteq Lines
<1>1. AtCheckpoint /\ work \in Texts /\ tree # NoText
  BY DEF PartialRollback, Checked, AtCheckpoint, Working
<1>2. PICK t \in Reparse(work) : \E u \in Reparse(Recovered(t)) : ~Worse(u) /\ KeepPart(Recovered(t), u)
  BY DEF PartialRollback
<1>3. Recovered(t) \in Texts
        /\ Changed(current, Recovered(t)) = Changed(current, work) \ ErrorLines(t)
  BY <1>1, PutBackType DEF Recovered, TypeOK
<1>4. Changed(current, work) \subseteq Changed(current, Recovered(t)) \cup Changed(Recovered(t), work)
  BY DEF Changed
<1>5. Policy \in Policies
  BY <1>1, PolicyType DEF AtCheckpoint
<1>6. Changed(current, work) \cup Changed(Recovered(t), work) \subseteq Lines
  BY DEF Changed
<1> QED
  BY <1>1, <1>2, <1>3, <1>4, <1>5, <1>6, ReparseType

LEMMA CoordinateCase ==
  ASSUME TypeOK, Working, Coordinate
  PROVE  /\ work \in Texts /\ work' \in Texts /\ Policy \in Policies
         /\ Solved \in Texts
         /\ Changed(current, work') = Changed(current, Solved) \ Beaten
         /\ Changed(current, work') \subseteq Lines
         /\ Contested \subseteq Lines
<1>1. Policy \in Policies /\ work \in Texts
  BY PolicyType DEF Coordinate, Working
<1>2. work' \in Texts /\ Changed(current, work') = Changed(current, Solved) \ Beaten
  BY <1>1, SolvedType, PutBackType DEF Coordinate, TypeOK
<1>3. Changed(current, work') \subseteq Lines /\ Contested \subseteq Lines
  BY DEF Changed, Contested
<1> QED
  BY <1>1, <1>2, <1>3, SolvedType

LEMMA TypeStep == IInv /\ [Next]_vars => TypeOK'
<1> SUFFICES ASSUME IInv, [Next]_vars PROVE TypeOK'
  OBVIOUS
<1>0. TypeOK /\ Working
  BY DEF IInv
<1> USE <1>0 DEF TypeOK, Phases, Excuses
<1>1. CASE Parse
  <2>1. tree' \in Texts /\ prevTree' \in Texts \cup {NoText}
    BY <1>1 DEF Parse, ParseTree, NeedsTree, Reparsed
  <2>2. CASE NeedsTree
    <3>1. cache' = [u \in DOMAIN cache \cup {current} |-> IF u = current THEN tree' ELSE cache[u]]
      BY <1>1, <2>2 DEF Parse, ParseTree, Remember
    <3>2. DOMAIN cache' \subseteq Texts /\ \A t \in DOMAIN cache' : cache'[t] \in Texts
      BY <2>1, <3>1
    <3> QED
      BY <1>1, <2>1, <3>2 DEF Parse, arbiters, committed
  <2>3. CASE ~NeedsTree
    BY <1>1, <2>1, <2>3 DEF Parse, ParseTree, arbiters, committed
  <2> QED
    BY <2>2, <2>3
<1>2. CASE Abort
  BY <1>2 DEF Abort, parse, arbiters, committed
<1>3. CASE Execute
  BY <1>3 DEF Execute, parse, arbiters, committed
<1>4. CASE Pass \/ CommitNothing
  BY <1>4, NextStageType DEF Pass, CommitNothing, AtCheckpoint, parse, arbiters, committed
<1>5. CASE Coordinate
  <2>1. Outranked \subseteq Policies \X Lines
    BY <1>5, CoordinateCase DEF Outranked, Contested
  <2> QED
    BY <1>5, <2>1, CoordinateCase DEF Coordinate, parse, committed
<1>6. CASE Commits
  <2>1. PICK t \in Texts \cup {NoText}, x \in SUBSET Excuses : Commit(t, x)
    BY <1>6, CommitCase
  <2> QED
    BY <1>6, <2>1, CommitCase, NextStageType DEF Commit, Record, Invalidate, AtCheckpoint, arbiters
<1>7. CASE PartialRollback
  <2>1. PICK rest, u \in Texts :
          /\ KeepPart(rest, u)
          /\ Changed(current, rest) \cup Changed(rest, work) \subseteq Lines
    BY <1>7, PartialCase
  <2> QED
    BY <1>7, <2>1, PartialCase, NextStageType DEF KeepPart, Record, AtCheckpoint, arbiters
<1>8. CASE Rollback
  <2>1. Changed(current, work) \subseteq Lines
    BY DEF Changed
  <2> QED
    BY <1>8, <2>1, NextStageType
    DEF Rollback, Checked, AtCheckpoint, parse, arbiters, committed
<1>9. CASE Finish
  BY <1>9 DEF Finish, parse, arbiters, committed
<1>10. CASE UNCHANGED vars
  BY <1>10 DEF vars, parse, arbiters, committed
<1> QED
  BY <1>1, <1>2, <1>3, <1>4, <1>5, <1>6, <1>7, <1>8, <1>9, <1>10 DEF Next, Ended, Commits

-----------------------------------------------------------------------------
(* Steps by what they leave alone.                                         *)

Quiet == Parse \/ Abort \/ Execute \/ Pass \/ CommitNothing \/ Finish \/ UNCHANGED vars

LEMMA StepCases ==
  [Next]_vars => Quiet \/ Coordinate \/ Commits \/ PartialRollback \/ Rollback
BY DEF Next, Ended, Quiet, Commits

LEMMA QuietFrame ==
  Quiet =>
    /\ UNCHANGED << original, arbiters, committed, voided >>
    /\ pc' = "checkpoint" => UNCHANGED << pc, stage, work >>
    /\ pc = "checkpoint" /\ pc' # "checkpoint" => work = current
BY DEF Quiet, Parse, Abort, Execute, Pass, CommitNothing, Finish, AtCheckpoint, NextStage,
       vars, arbiters, committed

LEMMA RollbackFrame ==
  Rollback =>
    /\ UNCHANGED << original, parse, arbiters, committed >>
    /\ pc = "checkpoint" /\ pc' = "parse" /\ work' = NoText
    /\ voided' = voided \cup Changed(current, work)
BY DEF Rollback, Checked, AtCheckpoint, NextStage

LEMMA WorkingStep == IInv /\ [Next]_vars => Working'
<1> SUFFICES ASSUME IInv, [Next]_vars PROVE Working'
  OBVIOUS
<1>0. TypeOK /\ Working
  BY DEF IInv
<1>1. CASE Parse
  <2>1. tree' # NoText
    BY <1>0, <1>1, PipelineAssumption
    DEF TypeOK, Parse, ParseTree, NeedsTree, Reparsed
  <2> QED
    BY <1>1, <2>1 DEF Parse, Working
<1>2. CASE Coordinate
  BY <1>0, <1>2, CoordinateCase DEF Coordinate, Working, parse
<1>3. CASE Commits \/ PartialRollback \/ Rollback
  <2>1. pc' = "parse"
    BY <1>0, <1>3, CommitCase, PartialCase, RollbackFrame DEF Commit, KeepPart, NextStage
  <2> QED
    BY <2>1 DEF Working
<1>4. CASE Quiet /\ ~Parse
  BY <1>0, <1>4
  DEF Quiet, Abort, Execute, Pass, CommitNothing, Finish, NextStage, vars, parse, Working
<1> QED
  BY <1>1, <1>2, <1>3, <1>4, StepCases

-----------------------------------------------------------------------------
(* Parses                                                                  *)

LEMMA FaithfulStep == IInv /\ [Next]_vars => Faithful'
<1> SUFFICES ASSUME IInv, [Next]_vars, AllParsed'
             PROVE  /\ tree' \in {NoText, current'}
                    /\ tree' = NoText => prevTree' \in {NoText, current'}
                    /\ \A t \in DOMAIN cache' : cache'[t] = t
  BY DEF Faithful
<1>0. TypeOK /\ Working /\ Faithful
  BY DEF IInv
<1>1. CASE Parse
  <2>1. AllParsed /\ current' = current
    BY <1>1 DEF Parse, committed, AllParsed
  <2>2. CASE NeedsTree
    <3>1. tree' = current
      BY <1>0, <1>1, <2>1, <2>2 DEF Faithful, Parse, ParseTree, NeedsTree, Reparsed
    <3>2. cache' = [u \in DOMAIN cache \cup {current} |-> IF u = current THEN tree' ELSE cache[u]]
      BY <1>1, <2>2 DEF Parse, ParseTree, Remember
    <3>3. tree' # NoText
      BY <1>0, <3>1, PipelineAssumption DEF TypeOK
    <3> QED
      BY <1>0, <2>1, <3>1, <3>2, <3>3 DEF Faithful
  <2>3. CASE ~NeedsTree
    BY <1>0, <1>1, <2>1, <2>3 DEF Faithful, Parse, ParseTree
  <2> QED
    BY <2>2, <2>3
<1>2. CASE (Quiet /\ ~Parse) \/ Coordinate \/ Rollback
  <2>1. UNCHANGED << parse, current, history >>
    BY <1>2, RollbackFrame
    DEF Quiet, Abort, Execute, Pass, CommitNothing, Finish, Coordinate, vars, committed
  <2> QED
    BY <1>0, <2>1 DEF Faithful, AllParsed, parse
<1>3. CASE Commits
  <2>1. PICK t \in Texts \cup {NoText}, x \in SUBSET Excuses :
          /\ Commit(t, x)
          /\ x \cap {"unchecked", "unparsed"} = {} => t \in Reparse(work)
    BY <1>0, <1>3, CommitCase
  <2>2. AllParsed /\ t \in Reparse(work)
    BY <2>1 DEF Commit, Record, AllParsed
  <2>3. t = work
    BY <1>0, <1>3, <2>2, CommitCase, ReparseFaithful DEF Faithful, Working, AtCheckpoint
  <2>4. work # NoText
    BY <1>0, <1>3, CommitCase, PipelineAssumption
  <2> QED
    BY <1>0, <2>1, <2>2, <2>3, <2>4 DEF Commit, Record, Invalidate, Faithful
<1>4. CASE PartialRollback
  <2>1. PICK rest, u \in Texts : KeepPart(rest, u) /\ u \in Reparse(rest)
    BY <1>0, <1>4, PartialCase
  <2>2. AllParsed
    BY <2>1 DEF KeepPart, Record, AllParsed
  <2>3. u = rest
    BY <1>0, <1>4, <2>1, <2>2, PartialCase, ReparseFaithful DEF Faithful, Working, AtCheckpoint
  <2>4. rest # NoText
    BY PipelineAssumption
  <2> QED
    BY <1>0, <2>1, <2>2, <2>3, <2>4 DEF KeepPart, Record, Faithful
<1> QED
  BY <1>1, <1>2, <1>3, <1>4, StepCases

(* What a stage records is its policy's; a full commit accepts it, and what *)
(* a partial roll-back has left is not accepted: it would be in conflict.  *)
LEMMA PartIsNotAccepted ==
  ASSUME IInv, NEW rest \in Texts, NEW u \in Texts, KeepPart(rest, u), AtCheckpoint,
         Policy \in Policies,
         Changed(current, rest) \subseteq Changed(current, work),
         NEW l \in Lines
  PROVE  /\ rest[l] # current[l] => editor'[l] = Policy /\ << Policy, l >> \notin selected
         /\ rest[l] = current[l] => editor'[l] = editor[l]
         /\ current' = rest /\ UNCHANGED selected
<1>1. editor' = [m \in Lines |-> IF m \in Changed(current, rest) THEN Policy ELSE editor[m]]
  BY DEF KeepPart, Record
<1>2. \A e \in selected : e[2] \in Changed(current, work) => ~Conflicts(Policy, e[1])
  BY DEF IInv, Owned, AtCheckpoint
<1>3. rest[l] # current[l] => << Policy, l >> \notin selected
  <2>1. Conflicts(Policy, Policy)
    BY DEF Conflicts
  <2>2. rest[l] # current[l] => l \in Changed(current, work)
    BY DEF Changed
  <2>3. << Policy, l >>[1] = Policy /\ << Policy, l >>[2] = l
    OBVIOUS
  <2> QED
    BY <1>2, <2>1, <2>2, <2>3
<1> QED
  BY <1>1, <1>3 DEF KeepPart, Record, Changed

LEMMA FreshStep == IInv /\ [Next]_vars => Fresh'
<1> SUFFICES ASSUME IInv, [Next]_vars PROVE Fresh'
  OBVIOUS
<1>0. TypeOK /\ Working /\ Faithful /\ Fresh
  BY DEF IInv
<1>1. CASE Parse
  <2>1. UNCHANGED << current, history, editor, selected >> /\ tree' \in Texts
    BY <1>0, <1>1, TypeStep, WorkingStep DEF Parse, committed, Working, TypeOK
  <2>2. CASE semantic = NoText \/ NeedsClang
    <3>1. semantic'.text = current /\ semantic'.tree = tree' /\ semantic'.clang = clang'
      BY <1>1, <2>2 DEF Parse
    <3>2. AllParsed' => tree' = current
      <4>1. Faithful' /\ Working' /\ pc' = "execute"
        BY <1>1, FaithfulStep, WorkingStep DEF Parse
      <4> QED
        BY <2>1, <4>1 DEF Faithful, Working
    <3>3. Changed(semantic'.text, current') = {}
      BY <2>1, <3>1 DEF Changed
    <3>4. ContextIsFresh'
      <4>1. Changed(semantic.text, current)' = {}
        BY <3>3 DEF Changed
      <4> QED
        BY <3>1, <3>2, <4>1 DEF ContextIsFresh
    <3> QED
      BY <3>4 DEF Fresh
  <2>3. CASE ~(semantic = NoText \/ NeedsClang)
    <3>1. UNCHANGED << semantic, clang >> /\ ContextIsFresh
      BY <1>0, <1>1, <2>3 DEF Parse, Fresh
    <3> QED
      BY <2>1, <3>1 DEF Fresh, ContextIsFresh, AllParsed, Changed
  <2> QED
    BY <2>2, <2>3
<1>2. CASE (Quiet /\ ~Parse) \/ Coordinate \/ Rollback
  <2>1. UNCHANGED << semantic, clang, current, history, editor, selected >>
        /\ (pc' # "execute" \/ pc = "execute")
    BY <1>2, RollbackFrame
    DEF Quiet, Abort, Execute, Pass, CommitNothing, Finish, Coordinate, NextStage, vars, parse, committed
  <2> QED
    BY <1>0, <2>1 DEF Fresh, ContextIsFresh, AllParsed, Changed
<1>3. CASE Commits
  <2>1. PICK t \in Texts \cup {NoText}, x \in SUBSET Excuses : Commit(t, x)
    BY <1>0, <1>3, CommitCase
  <2> QED
    BY <2>1 DEF Commit, Invalidate, NextStage, Fresh
<1>4. CASE PartialRollback
  <2>1. PICK rest, u \in Texts :
          KeepPart(rest, u) /\ Changed(current, rest) \subseteq Changed(current, work)
    BY <1>0, <1>4, PartialCase
  <2>2. AtCheckpoint /\ Policy \in Policies /\ pc' = "parse"
    BY <1>0, <1>4, <2>1, PartialCase DEF KeepPart, NextStage
  <2>3. CASE semantic' = NoText
    BY <2>2, <2>3 DEF Fresh
  <2>4. CASE UNCHANGED << semantic, clang >>
    <3>1. AllParsed' => AllParsed
      BY <2>1 DEF KeepPart, Record, AllParsed
    <3>2. ASSUME ContextIsFresh, NEW l \in Lines, semantic.text[l] # rest[l]
          PROVE  << editor'[l], l >> \notin selected
      BY <2>1, <2>2, <3>2, PartIsNotAccepted DEF ContextIsFresh, Changed
    <3>3. current' = rest /\ UNCHANGED selected
      BY <2>1 DEF KeepPart, Record
    <3> QED
      BY <1>0, <2>2, <2>4, <3>1, <3>2, <3>3 DEF Fresh, ContextIsFresh, Changed
  <2> QED
    BY <2>1, <2>3, <2>4 DEF KeepPart
<1> QED
  BY <1>1, <1>2, <1>3, <1>4, StepCases

LEMMA ClangFreshStep == IInv /\ [Next]_vars => ClangIsFresh'
<1> SUFFICES ASSUME IInv, [Next]_vars, clang' # NoText, NEW l \in Lines, clang'[l] # current'[l],
                    editor'[l] \in SemanticRewrite \cap ClangInvalidating
             PROVE  << editor'[l], l >> \notin selected'
  BY DEF ClangIsFresh, Changed
<1>0. TypeOK /\ Working /\ ClangIsFresh
  BY DEF IInv
<1>1. CASE Parse
  <2>1. UNCHANGED << current, editor, selected >> /\ clang' \in {clang, current}
    BY <1>1 DEF Parse, committed
  <2> QED
    BY <1>0, <2>1 DEF ClangIsFresh, Changed
<1>2. CASE (Quiet /\ ~Parse) \/ Coordinate \/ Rollback
  <2>1. UNCHANGED << clang, current, editor, selected >>
    BY <1>2, RollbackFrame
    DEF Quiet, Abort, Execute, Pass, CommitNothing, Finish, Coordinate, vars, parse, committed
  <2> QED
    BY <1>0, <2>1 DEF ClangIsFresh, Changed
<1>3. CASE Commits
  <2>1. PICK t \in Texts \cup {NoText}, x \in SUBSET Excuses : Commit(t, x)
    BY <1>0, <1>3, CommitCase
  <2>2. clang' = clang /\ Policy \notin SemanticRewrite \cap ClangInvalidating
    BY <2>1 DEF Commit, Invalidate
  <2>3. /\ current' = work
        /\ editor'[l] = IF current[l] # work[l] THEN Policy ELSE editor[l]
        /\ selected' = selected \cup ({Policy} \X Changed(current, work))
    BY <2>1 DEF Commit, Record, Changed
  <2>4. current[l] = work[l] /\ l \notin Changed(current, work) /\ editor'[l] = editor[l]
    BY <2>2, <2>3 DEF Changed
  <2>5. << editor[l], l >> \notin selected
    BY <1>0, <2>2, <2>3, <2>4 DEF ClangIsFresh, Changed
  <2> QED
    BY <2>3, <2>4, <2>5
<1>4. CASE PartialRollback
  <2>1. PICK rest, u \in Texts :
          KeepPart(rest, u) /\ Changed(current, rest) \subseteq Changed(current, work)
    BY <1>0, <1>4, PartialCase
  <2>2. AtCheckpoint /\ Policy \in Policies /\ clang' = clang
    BY <1>0, <1>4, <2>1, PartialCase DEF KeepPart
  <2>3. /\ rest[l] # current[l] => editor'[l] = Policy /\ << Policy, l >> \notin selected
        /\ rest[l] = current[l] => editor'[l] = editor[l]
        /\ current' = rest /\ UNCHANGED selected
    BY <2>1, <2>2, PartIsNotAccepted
  <2> QED
    BY <1>0, <2>2, <2>3 DEF ClangIsFresh, Changed
<1> QED
  BY <1>1, <1>2, <1>3, <1>4, StepCases

LEMMA BudgetStep == IInv /\ [Next]_vars => ErrorBudget'
<1> SUFFICES ASSUME IInv, [Next]_vars, history' \subseteq {"partial"}
             PROVE  ErrorNodes(current') <= ErrorNodes(original')
  BY DEF ErrorBudget, ErrorNodes
<1>0. TypeOK /\ Working /\ Faithful /\ ErrorBudget
  BY DEF IInv
<1>1. CASE Quiet \/ Coordinate \/ Rollback
  <2>1. UNCHANGED << original, current, history >>
    BY <1>1, QuietFrame, RollbackFrame DEF Coordinate, committed
  <2> QED
    BY <1>0, <2>1 DEF ErrorBudget, ErrorNodes
<1>2. CASE Commits
  <2>1. PICK t \in Texts \cup {NoText}, x \in SUBSET Excuses :
          /\ Commit(t, x)
          /\ x \cap {"unchecked", "unparsed"} = {} => t \in Reparse(work)
          /\ x = {} => ~Worse(t)
          /\ "partial" \notin x
    BY <1>0, <1>2, CommitCase
  <2>2. x = {} /\ history \subseteq {"partial"} /\ current' = work /\ original' = original
    BY <2>1 DEF Commit, Record
  <2>3. tree = current /\ t = work
    BY <1>0, <1>2, <2>1, <2>2, CommitCase, ReparseFaithful DEF Faithful, AllParsed, Working, AtCheckpoint
  <2>4. ErrorNodes(work) <= ErrorNodes(current)
    BY <1>0, <1>2, <2>1, <2>2, <2>3, CommitCase, ErrorsAreCounted DEF Worse, TypeOK
  <2> QED
    BY <1>0, <1>2, <2>2, <2>4, CommitCase, ErrorsAreCounted DEF ErrorBudget, TypeOK
<1>3. CASE PartialRollback
  <2>1. PICK rest, u \in Texts : KeepPart(rest, u) /\ u \in Reparse(rest) /\ ~Worse(u)
    BY <1>0, <1>3, PartialCase
  <2>2. history \subseteq {"partial"} /\ current' = rest /\ original' = original
    BY <2>1 DEF KeepPart, Record
  <2>3. tree = current /\ u = rest
    BY <1>0, <1>3, <2>1, <2>2, PartialCase, ReparseFaithful DEF Faithful, AllParsed, Working, AtCheckpoint
  <2>4. ErrorNodes(rest) <= ErrorNodes(current)
    BY <1>0, <2>1, <2>3, ErrorsAreCounted DEF Worse, TypeOK
  <2> QED
    BY <1>0, <2>2, <2>4, ErrorsAreCounted DEF ErrorBudget, TypeOK
<1> QED
  BY <1>1, <1>2, <1>3, StepCases

-----------------------------------------------------------------------------
(* Priorities                                                              *)

LEMMA PriorityType == \A p \in Policies : Priority[p] \in Nat
BY PipelineAssumption

LEMMA RankedStep == IInv /\ [Next]_vars => Ranked' /\ HigherPriorityWins'
<1> SUFFICES ASSUME IInv, [Next]_vars PROVE Ranked' /\ HigherPriorityWins'
  OBVIOUS
<1>0. TypeOK /\ Working /\ Ranked /\ HigherPriorityWins
  BY DEF IInv
<1>1. CASE Quiet
  <2>1. UNCHANGED << claims, suppressed, current, edits, editor >>
    BY <1>1, QuietFrame DEF arbiters, committed
  <2>2. pc' = "checkpoint" => UNCHANGED << pc, stage, work >>
    BY <1>1, QuietFrame
  <2> QED
    BY <1>0, <2>1, <2>2 DEF Ranked, HigherPriorityWins, Changed, Policy
<1>2. CASE Rollback
  BY <1>0, <1>2, RollbackFrame DEF arbiters, committed, Ranked, HigherPriorityWins
<1>3. CASE Coordinate
  <2> DEFINE kept == Changed(current, work')
  <2>1. /\ UNCHANGED << current, edits, editor, stage >>
        /\ suppressed' = suppressed \cup Outranked
        /\ claims' = [l \in Lines |-> IF l \in kept THEN Policy ELSE claims[l]]
    BY <1>3 DEF Coordinate, committed
  <2>2. Policy \in Policies /\ Policy # NoPolicy
    BY <1>0, <1>3, CoordinateCase, PipelineAssumption
  <2>3. \A l \in kept : claims[l] # NoPolicy =>
          claims[l] \in Policies /\ Priority[claims[l]] < Priority[Policy]
    BY <1>0, <1>3, <2>2, CoordinateCase, PriorityType DEF Contested, Beaten, TypeOK
  <2>4. \A l \in Contested \ Beaten : l \in kept /\ claims[l] \in Policies
    BY <1>0, <1>3, CoordinateCase DEF Contested, TypeOK
  <2> HIDE DEF kept
  <2>5. kept \subseteq Lines
    BY <1>0, <1>3, CoordinateCase DEF kept
  <2>6. \A e \in edits : claims'[e[2]] # NoPolicy /\ Priority[e[1]] <= Priority[claims'[e[2]]]
    <3> SUFFICES ASSUME NEW e \in edits
                 PROVE  claims'[e[2]] # NoPolicy /\ Priority[e[1]] <= Priority[claims'[e[2]]]
      OBVIOUS
    <3>1. e[1] \in Policies /\ e[2] \in Lines
      BY <1>0 DEF TypeOK
    <3>2. claims[e[2]] # NoPolicy /\ Priority[e[1]] <= Priority[claims[e[2]]]
      BY <1>0 DEF Ranked
    <3> QED
      BY <2>1, <2>2, <2>3, <3>1, <3>2, PriorityType
  <2>7. \A e \in suppressed : claims'[e[2]] # NoPolicy /\ Priority[e[1]] < Priority[claims'[e[2]]]
    <3> SUFFICES ASSUME NEW e \in suppressed
                 PROVE  claims'[e[2]] # NoPolicy /\ Priority[e[1]] < Priority[claims'[e[2]]]
      OBVIOUS
    <3>1. e[1] \in Policies /\ e[2] \in Lines
      BY <1>0 DEF TypeOK
    <3>2. claims[e[2]] # NoPolicy /\ Priority[e[1]] < Priority[claims[e[2]]]
      BY <1>0 DEF Ranked
    <3> QED
      BY <2>1, <2>2, <2>3, <3>1, <3>2, PriorityType
  <2>8. \A e \in Outranked : claims'[e[2]] # NoPolicy /\ Priority[e[1]] < Priority[claims'[e[2]]]
    BY <2>1, <2>2, <2>3, <2>4, <2>5 DEF Outranked, Contested
  <2>9. \A l \in Changed(current', work') : claims'[l] = Policy'
    BY <2>1, <2>5 DEF kept, Changed, Policy
  <2>10. Ranked'
    BY <2>1, <2>6, <2>7, <2>8, <2>9 DEF Ranked
  <2> QED
    BY <1>0, <2>1, <2>10 DEF HigherPriorityWins
<1>4. ASSUME AtCheckpoint, Policy \in Policies, pc' = "parse", UNCHANGED arbiters,
             NEW text \in Texts, NEW x, Record(text, x),
             Changed(current, text) \subseteq Changed(current, work) \cap Lines
      PROVE  Ranked' /\ HigherPriorityWins'
  <2> DEFINE lines == Changed(current, text)
  <2>1. /\ edits' = edits \cup ({Policy} \X lines)
        /\ editor' = [l \in Lines |-> IF l \in lines THEN Policy ELSE editor[l]]
        /\ UNCHANGED << claims, suppressed >>
    BY <1>4 DEF Record, arbiters
  <2>2. \A l \in lines : l \in Lines /\ claims[l] = Policy
    BY <1>0, <1>4 DEF AtCheckpoint, Ranked
  <2>3. Policy # NoPolicy /\ Priority[Policy] \in Nat
    BY <1>4, PipelineAssumption
  <2> HIDE DEF lines
  <2>4. Ranked'
    BY <1>0, <1>4, <2>1, <2>2, <2>3 DEF Ranked
  <2>5. ASSUME NEW e \in edits'
        PROVE  Priority[e[1]] <= Priority[editor'[e[2]]]
    <3>1. CASE e \in {Policy} \X lines
      BY <2>1, <2>2, <2>3, <3>1
    <3>2. CASE e \in edits /\ e[2] \in lines
      <4>1. Priority[e[1]] <= Priority[claims[e[2]]]
        BY <1>0, <3>2 DEF Ranked
      <4> QED
        BY <2>1, <2>2, <3>2, <4>1
    <3>3. CASE e \in edits /\ e[2] \notin lines
      <4>1. e[2] \in Lines
        BY <1>0, <3>3 DEF TypeOK
      <4> QED
        BY <1>0, <2>1, <3>3, <4>1 DEF HigherPriorityWins
    <3> QED
      BY <2>1, <2>5, <3>1, <3>2, <3>3
  <2> QED
    BY <2>4, <2>5 DEF HigherPriorityWins
<1>5. CASE Commits
  <2>1. PICK t \in Texts \cup {NoText}, x \in SUBSET Excuses : Commit(t, x)
    BY <1>0, <1>5, CommitCase
  <2> QED
    BY <1>0, <1>4, <1>5, <2>1, CommitCase DEF Commit, NextStage
<1>6. CASE PartialRollback
  <2>1. PICK rest, u \in Texts :
          /\ KeepPart(rest, u)
          /\ Changed(current, rest) \subseteq Changed(current, work)
          /\ Changed(current, work) \subseteq Lines
    BY <1>0, <1>6, PartialCase
  <2> QED
    BY <1>0, <1>4, <1>6, <2>1, PartialCase DEF KeepPart, NextStage
<1> QED
  BY <1>1, <1>2, <1>3, <1>5, <1>6, StepCases

-----------------------------------------------------------------------------
(* Ownership of lines                                                      *)

LEMMA ConflictsSymmetric == \A p, q : Conflicts(p, q) <=> Conflicts(q, p)
BY DEF Conflicts

LEMMA OwnedStep == IInv /\ [Next]_vars => Owned'
<1> SUFFICES ASSUME IInv, [Next]_vars PROVE Owned'
  OBVIOUS
<1>0. TypeOK /\ Working /\ Owned
  BY DEF IInv
<1>1. CASE Quiet
  <2>1. UNCHANGED << selected, current >>
    BY <1>1, QuietFrame DEF committed
  <2>2. pc' = "checkpoint" => UNCHANGED << pc, stage, work >>
    BY <1>1, QuietFrame
  <2> QED
    BY <1>0, <2>1, <2>2 DEF Owned, Changed, Policy
<1>2. CASE PartialRollback \/ Rollback
  <2>1. UNCHANGED selected /\ pc' = "parse"
    BY <1>0, <1>2, PartialCase, RollbackFrame DEF KeepPart, NextStage, committed
  <2> QED
    BY <1>0, <2>1 DEF Owned
<1>3. CASE Coordinate
  <2>1. UNCHANGED << current, selected, stage >>
    BY <1>3 DEF Coordinate, committed
  <2>2. Changed(current, work') \subseteq Changed(current, work) \ Taken
    BY <1>0, <1>3, CoordinateCase, SolvedType
  <2>3. \A e \in selected : e[2] \in Changed(current, work') => ~Conflicts(Policy, e[1])
    BY <1>0, <2>2 DEF Taken, TypeOK
  <2> QED
    BY <1>0, <2>1, <2>3 DEF Owned, Changed, Policy
<1>4. CASE Commits
  <2> DEFINE new == {Policy} \X Changed(current, work)
  <2>1. selected' = selected \cup new /\ pc' = "parse"
    BY <1>0, <1>4, CommitCase DEF Commit, NextStage
  <2>2. \A e \in selected : \A f \in new : e[2] = f[2] => ~Conflicts(f[1], e[1])
    BY <1>0, <1>4, CommitCase DEF Owned, AtCheckpoint
  <2>3. \A e, f \in new : e[1] = f[1]
    OBVIOUS
  <2> HIDE DEF new
  <2>4. ASSUME NEW e \in selected', NEW f \in selected', e[2] = f[2], e[1] # f[1]
        PROVE  ~Conflicts(e[1], f[1])
    BY <1>0, <2>1, <2>2, <2>3, <2>4, ConflictsSymmetric DEF Owned
  <2> QED
    BY <2>1, <2>4 DEF Owned
<1> QED
  BY <1>1, <1>2, <1>3, <1>4, StepCases

-----------------------------------------------------------------------------
(* The report                                                              *)

LEMMA ReportedStep == IInv /\ [Next]_vars => Reported'
<1> SUFFICES ASSUME IInv, [Next]_vars, NEW l \in Lines, original'[l] # current'[l],
                    l \notin voided', l \notin Pending'
             PROVE  \E p \in Policies : << p, l >> \in Report'
  BY DEF Reported, Changed
<1>0. TypeOK /\ Working /\ Ranked /\ Reported
  BY DEF IInv
<1>1. CASE Quiet
  <2>1. UNCHANGED << original, current, edits, suppressed, voided >>
    BY <1>1, QuietFrame DEF arbiters, committed
  <2>2. l \notin Pending
    <3>1. CASE pc' = "checkpoint"
      BY <1>1, <2>1, <3>1, QuietFrame DEF Pending, Changed
    <3>2. CASE pc = "checkpoint" /\ pc' # "checkpoint"
      BY <1>1, <3>2, QuietFrame DEF Pending, Changed
    <3> QED
      BY <3>1, <3>2 DEF Pending
  <2> QED
    BY <1>0, <2>1, <2>2 DEF Reported, Changed, Report
<1>2. CASE Coordinate
  <2>1. /\ UNCHANGED << original, current, edits, voided >>
        /\ pc = "coordinate" /\ pc' = "checkpoint"
        /\ suppressed' = suppressed \cup Outranked
    BY <1>2 DEF Coordinate, committed
  <2>2. l \notin Changed(current, work')
    BY <2>1 DEF Pending, Changed
  <2>3. l \notin Contested \ Beaten
    BY <1>0, <1>2, <2>2, CoordinateCase DEF Contested
  <2>4. PICK p \in Policies : << p, l >> \in Report
    BY <1>0, <2>1 DEF Reported, Changed, Pending
  <2>5. << p, l >> \notin Outranked
    BY <2>3 DEF Outranked
  <2> QED
    BY <2>1, <2>4, <2>5 DEF Report
<1>3. CASE Rollback
  BY <1>0, <1>3, RollbackFrame DEF arbiters, committed, Reported, Changed, Pending, Report
<1>4. ASSUME AtCheckpoint, Policy \in Policies, pc' = "parse",
             UNCHANGED << original, arbiters >>,
             NEW text \in Texts, NEW x, Record(text, x),
             Changed(current, text) \subseteq Changed(current, work) \cap Lines,
             voided \subseteq voided',
             Changed(current, work) \subseteq Changed(current, text) \cup voided'
      PROVE  \E p \in Policies : << p, l >> \in Report'
  <2>1. /\ current' = text /\ suppressed' = suppressed
        /\ edits' = edits \cup ({Policy} \X Changed(current, text))
    BY <1>4 DEF Record, arbiters
  <2>2. CASE l \in Changed(current, text)
    <3>1. claims[l] = Policy
      BY <1>0, <1>4, <2>2 DEF Ranked, AtCheckpoint
    <3>2. << Policy, l >> \notin suppressed
      BY <1>0, <1>4, <3>1, PriorityType DEF Ranked
    <3> QED
      BY <1>4, <2>1, <2>2, <3>2 DEF Report
  <2>3. CASE l \notin Changed(current, text)
    <3>1. l \in Changed(original, current) \ (voided \cup Pending)
      BY <1>4, <2>1, <2>3 DEF Changed, Pending, AtCheckpoint
    <3> QED
      BY <1>0, <2>1, <3>1 DEF Reported, Report
  <2> QED
    BY <2>2, <2>3
<1>5. CASE Commits
  <2>1. PICK t \in Texts \cup {NoText}, x \in SUBSET Excuses : Commit(t, x)
    BY <1>0, <1>5, CommitCase
  <2> QED
    BY <1>0, <1>4, <1>5, <2>1, CommitCase DEF Commit, NextStage
<1>6. CASE PartialRollback
  <2>1. PICK rest, u \in Texts :
          /\ KeepPart(rest, u)
          /\ Changed(current, rest) \subseteq Changed(current, work)
          /\ Changed(current, work) \subseteq Changed(current, rest) \cup Changed(rest, work)
          /\ Changed(current, work) \subseteq Lines
    BY <1>0, <1>6, PartialCase
  <2> QED
    BY <1>0, <1>4, <1>6, <2>1, PartialCase DEF KeepPart, NextStage
<1> QED
  BY <1>1, <1>2, <1>3, <1>5, <1>6, StepCases

LEMMA ReturnedStep == IInv /\ [Next]_vars => Returned'
<1> SUFFICES ASSUME IInv, [Next]_vars, pc' = "done"
             PROVE  output' = IF Report' = {} THEN original' ELSE current'
  BY DEF Returned
<1>0. TypeOK /\ Working /\ Returned
  BY DEF IInv
<1>1. CASE Finish
  BY <1>1 DEF Finish, Report, arbiters, committed
<1>2. CASE UNCHANGED vars
  BY <1>0, <1>2 DEF vars, Returned, Report, arbiters, committed
<1>3. CASE Commits \/ PartialRollback \/ Rollback
  BY <1>0, <1>3, CommitCase, PartialCase, RollbackFrame DEF Commit, KeepPart, NextStage
<1>4. CASE Parse \/ Abort \/ Execute \/ Pass \/ CommitNothing \/ Coordinate
  BY <1>4 DEF Parse, Abort, Execute, Pass, CommitNothing, Coordinate, NextStage
<1> QED
  BY <1>1, <1>2, <1>3, <1>4, StepCases DEF Quiet

-----------------------------------------------------------------------------
(* The invariant and the theorems.                                         *)

LEMMA InductiveStep == IInv /\ [Next]_vars => IInv'
BY TypeStep, WorkingStep, FaithfulStep, FreshStep, ClangFreshStep, BudgetStep, RankedStep, OwnedStep,
   ReportedStep, ReturnedStep DEF IInv

LEMMA Invariance == Spec => []IInv
BY InitIInv, InductiveStep, PTL DEF Spec

(* Every variable of a pass keeps its type.                                *)
THEOREM TypeCorrect == Spec => []TypeOK
<1>1. IInv => TypeOK
  BY DEF IInv
<1> QED
  BY <1>1, Invariance, PTL

(* A policy works on a tree of the text it edits, as long as every commit  *)
(* was parsed (ensure_policy_parse_stage, ParseCache).                     *)
THEOREM TreesAreCurrent == Spec => []TreeIsCurrent
<1>1. IInv => TreeIsCurrent
  BY DEF IInv, Working, Faithful, AllParsed, TreeIsCurrent
<1> QED
  BY <1>1, Invariance, PTL

(* A policy works on a semantic context of the parses at hand, of the text *)
(* it edits and on a parse of clang that has seen every edit that outdates *)
(* it, but for lines that partial roll-backs changed                       *)
(* (ensure_policy_parse_stage, ParseCache::invalidate).                    *)
THEOREM SemanticsAreCurrent == Spec => []SemanticIsCurrent
<1>1. IInv => SemanticIsCurrent
  BY DEF IInv, Fresh, ContextIsFresh, ClangIsFresh, AllParsed, SemanticIsCurrent
<1> QED
  BY <1>1, Invariance, PTL

(* Stages that pass the checkpoint, retries and partial roll-backs add no  *)
(* error node to the text of the file (checkpoint_policy_stage).           *)
THEOREM ErrorsAreBounded == Spec => []ErrorBudget
<1>1. IInv => ErrorBudget
  BY DEF IInv
<1> QED
  BY <1>1, Invariance, PTL

(* The last policy to change a line has the highest priority of all that   *)
(* changed it, in whatever order they run (reconcile_policy_result).       *)
THEOREM HigherPrioritiesWin == Spec => []HigherPriorityWins
<1>1. IInv => HigherPriorityWins
  BY DEF IInv
<1> QED
  BY <1>1, Invariance, PTL

(* No two policies that may conflict change one line, but for partial      *)
(* roll-backs (ConflictSolver::solve).                                     *)
THEOREM LinesHaveOneOwner == Spec => []OneOwnerPerLine
<1>1. IInv => OneOwnerPerLine
  BY DEF IInv, Owned, OneOwnerPerLine
<1> QED
  BY <1>1, Invariance, PTL

(* The report names a policy for every line that differs, but for lines    *)
(* claimed by an attempt that was not committed (finalize,                 *)
(* stabilize_output_text).                                                 *)
THEOREM ReportsCoverChanges == Spec => []ReportCoversChanges
<1>1. IInv => ReportCoversChanges
  <2> SUFFICES ASSUME IInv, pc = "done"
               PROVE  /\ output # current => voided # {}
                      /\ \A l \in Changed(original, output) \ voided :
                           \E p \in Policies : << p, l >> \in Report
    BY DEF ReportCoversChanges
  <2>1. /\ output = IF Report = {} THEN original ELSE current
        /\ \A l \in Changed(original, current) \ voided : \E p \in Policies : << p, l >> \in Report
    BY DEF IInv, Returned, Reported, Pending
  <2>2. Changed(original, original) = {}
    BY DEF Changed
  <2>3. original # current => Changed(original, current) # {}
    BY ChangedLines DEF IInv, TypeOK
  <2> QED
    BY <2>1, <2>2, <2>3
<1> QED
  BY <1>1, Invariance, PTL
=============================================================================
