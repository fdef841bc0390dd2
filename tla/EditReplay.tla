------------------------------ MODULE EditReplay ------------------------------
(***************************************************************************)
(* What happens to the result of one policy between its apply and the      *)
(* commit of its stage (engine/pipeline/mod.rs, execute_policy_stage and   *)
(* coordinate_policy_stage; engine/pipeline/checkpoint.rs): filters take   *)
(* lines away from it (disabled lines, retry scope, semantic guideline),   *)
(* the output guard makes its edits account for its text, the              *)
(* understanding gate drops the edits of lines the parser did not          *)
(* understand, more filters follow (guardian, conflict solver), the        *)
(* convergence controller takes the lines other policies claim, and a      *)
(* failed checkpoint may keep the edits away from the new error lines.     *)
(***************************************************************************)
EXTENDS LineEdits

CONSTANTS
  Words,       (* what a line can consist of, one or none                  *)
  MaxBefore,   (* bound on the lines of the text the policy reads          *)
  MaxAfter,    (* bound on the lines of the text it returns                *)
  MaxStrips    (* bound on the filters and gates that take lines away      *)

ASSUME EditReplayAssumption ==
  /\ End \notin Words
  /\ MaxBefore \in Nat /\ MaxAfter \in Nat /\ MaxStrips \in Nat

(* The texts policies read and return end every line, a last one too. *)
Contents == {<< End >>} \cup {<< word, End >> : word \in Words}
Line     == Seq(Words \cup {End}) \ {NoLine}

VARIABLES
  before,      (* state.current while the stage runs                       *)
  proposal,    (* the text the policy returned                             *)
  result,      (* its PolicyResult: text and edits                         *)
  forbidden,   (* lines the filters have taken away                        *)
  excluded,    (* lines of edits that the understanding gate has dropped   *)
  strips,      (* filters and gates that took something away               *)
  phase        (* "apply", "execute", "coordinate", "arbiter", "done",     *)
               (* "partial"                                                *)

vars == << before, proposal, result, forbidden, excluded, strips, phase >>

Texts(n) == UNION {[1 .. k -> Contents] : k \in 0 .. n}
Lines    == 1 .. (IF MaxBefore < MaxAfter THEN MaxAfter ELSE MaxBefore)

TypeOK ==
  /\ before \in Texts(MaxBefore) /\ proposal \in Texts(MaxAfter)
  /\ result.text \in Seq(Line)
  /\ \A l \in DOMAIN result.text :
       Ends(result.text[l]) \/ (l = Len(result.text) /\ l > Len(before))
  /\ \A l \in DOMAIN result.edits : result.edits[l].before # result.edits[l].after
  /\ forbidden \subseteq Lines /\ excluded \subseteq Lines
  /\ strips \in 0 .. MaxStrips
  /\ phase \in {"apply", "execute", "coordinate", "arbiter", "done", "partial"}

Init ==
  /\ before \in Texts(MaxBefore)
  /\ proposal = << >>
  /\ result = Result(before, NoEdits)
  /\ forbidden = {} /\ excluded = {} /\ strips = 0 /\ phase = "apply"

(* Edits as policies other than the one that records them declare them, no *)
(* line break on either side: a pair of lines for a line number, where a   *)
(* blank line is an empty string, or a line that is inserted.              *)
Pairs(text) ==
  [l \in {k \in 1 .. Longer(before, text) :
            Bare(LineOf(before, k)) # Bare(LineOf(text, k))} |->
     [before |-> Bare(LineOf(before, l)), after |-> Bare(LineOf(text, l))]]
Insertions(text) ==
  [l \in {k \in DOMAIN text : Bare(text[k]) # NoLine} |->
     [before |-> NoLine, after |-> Bare(text[l])]]

(* A policy returns any text, and declares its edits or some of them only. *)
Apply ==
  /\ phase = "apply"
  /\ \E text \in Texts(MaxAfter) :
       /\ proposal' = text
       /\ \E edits \in {Synthesize(before, text), Pairs(text), Insertions(text)} :
            \E lines \in SUBSET DOMAIN edits : result' = Result(text, Only(edits, lines))
  /\ phase' = "execute"
  /\ UNCHANGED << before, forbidden, excluded, strips >>

(* One of the filters drops a set of lines. *)
Filter ==
  /\ phase \in {"execute", "coordinate"} /\ strips < MaxStrips
  /\ \E lines \in SUBSET Lines \ {{}} :
       /\ result' = Suppress(before, result, lines)
       /\ forbidden' = forbidden \cup lines
  /\ strips' = strips + 1
  /\ UNCHANGED << before, proposal, excluded, phase >>

(* The output guard: edits that account for the text, or the old text. *)
Guarded(r) ==
  LET covered == NormalizeCoverage(before, r)
  IN IF DOMAIN covered.edits = {} THEN Result(before, NoEdits) ELSE covered

(* The edits outside some lines alone: replayed leniently, or none. *)
Outside(edits, lines) ==
  LET kept == Without(edits, lines)
  IN IF DOMAIN kept = {} THEN Result(before, NoEdits)
                         ELSE Result(ReplayedLeniently(before, kept), kept)

(* The output guard, and the understanding gate when it drops some edits. *)
Gate ==
  /\ phase = "execute"
  /\ \/ result' = Guarded(result) /\ UNCHANGED << excluded, strips >>
     \/ /\ strips < MaxStrips
        /\ \E lines \in SUBSET DOMAIN Guarded(result).edits \ {{}} :
             /\ result' = Outside(Guarded(result).edits, lines)
             /\ excluded' = lines
        /\ strips' = strips + 1
  /\ phase' = "coordinate"
  /\ UNCHANGED << before, proposal, forbidden >>

(* The lines that others claim are among the lines of the edits; what is   *)
(* left goes through the output guard again.                               *)
Reconcile ==
  /\ phase = "coordinate"
  /\ \E claimed \in SUBSET DOMAIN result.edits :
       result' = Guarded(ConvergenceSuppress(before, result, claimed))
  /\ phase' = "arbiter"
  /\ UNCHANGED << before, proposal, forbidden, excluded, strips >>

Accept ==
  /\ phase = "arbiter"
  /\ phase' = "done"
  /\ UNCHANGED << before, proposal, result, forbidden, excluded, strips >>

(* The new tree has errors on some lines: the edits elsewhere are replayed. *)
PartialRollback ==
  /\ phase = "arbiter"
  /\ \E errors \in SUBSET Lines :
       /\ DOMAIN result.edits \ errors # {}
       /\ result' = Outside(result.edits, errors)
  /\ phase' = "partial"
  /\ UNCHANGED << before, proposal, forbidden, excluded, strips >>

Finished == phase \in {"done", "partial"} /\ UNCHANGED vars

Next ==
  Apply \/ Filter \/ Gate \/ Reconcile \/ Accept \/ PartialRollback \/ Finished

Spec == Init /\ [][Next]_vars

-----------------------------------------------------------------------------
(* Properties                                                              *)

(* Some lines of s are still in t, in their order. *)
Survive(s, lines, t) ==
  \E place \in [lines \cap DOMAIN s -> DOMAIN t] :
    /\ \A l \in lines \cap DOMAIN s : t[place[l]] = s[l]
    /\ \A k, l \in lines \cap DOMAIN s : k < l => place[k] < place[l]

(* Recording and replaying are inverse as long as at most one line more    *)
(* comes back than went in: the strict replay of synthesize_line_edits     *)
(* gives the text they were made of.                                       *)
ReplayInvertsRecording ==
  phase # "apply" /\ Len(proposal) <= Len(before) + 1 =>
    LET edits == Synthesize(before, proposal)
    IN Replayable(before, edits) /\ Replayed(before, edits) = proposal

(* A result that one filter has been at loses no forbidden line: they are  *)
(* all still there, in their order, and still are behind the output guard  *)
(* (suppress_lines_impl, normalize_edit_coverage).                         *)
ForbiddenLinesSurvive ==
  phase \in {"execute", "coordinate"} /\ strips <= 1 =>
    Survive(before, forbidden, result.text)

(* The edits a stage ends with account for what it has taken from the text: *)
(* every line none of them names is still there, whichever filters, gates  *)
(* and claims came before (normalize_edit_coverage).  A roll-back keeps    *)
(* that as long as it deletes no more than two lines and leaves none open: *)
(* the lenient replay looks for the next line as many lines too early as   *)
(* it has deleted, and a line without a break runs into the next one.      *)
LeavesOpen(e) == e.after # NoLine /\ ~Ends(e.after) /\ (e.before = NoLine \/ Ends(e.before))

RecordedEditsExplain ==
  \/ phase = "done"
  \/ /\ phase = "partial"
     /\ \A l \in DOMAIN result.edits : ~LeavesOpen(result.edits[l])
     /\ Cardinality({l \in DOMAIN result.edits :
          Deletes(result.edits[l]) /\ Ends(result.edits[l].before)}) <= 2
  => Survive(before, DOMAIN before \ DOMAIN result.edits, result.text)

(* "The parser tells us which lines it did not fully understand - we do    *)
(* not edit those" (execute_policy_stage, the understanding gate).         *)
ErrorLinesAreNotEdited ==
  phase = "coordinate" => Survive(before, excluded, result.text)

=============================================================================
