------------------------------- MODULE LineEdits -------------------------------
(***************************************************************************)
(* The line arithmetic of the formatting pipeline                          *)
(* (engine/pipeline/edit_utils.rs, engine/pipeline/suppression.rs and the  *)
(* suppression of engine/convergence.rs): how a difference of two texts is *)
(* recorded as edits, how edits are replayed, and how a policy's result is *)
(* stripped of the lines it may not touch.                                 *)
(*                                                                         *)
(* A text is the sequence of its lines, and a line is a sequence of words  *)
(* with End behind them, the line break; the last line of a text may lack  *)
(* it.  A list of edits sorted by line is a function from line numbers to  *)
(* [before, after]; NoLine, the empty string, is there on either side, an  *)
(* insertion or a deletion.  The list can name a line once only.  Edits    *)
(* recorded of two texts hold whole lines; many policies declare theirs    *)
(* without line breaks, which the replays do not add.                      *)
(***************************************************************************)
EXTENDS Naturals, Integers, Sequences, FiniteSetsExt, SequencesExt

CONSTANT End

NoLine == << >>

Ends(line) == line # NoLine /\ Last(line) = End
Bare(line) == IF Ends(line) THEN Front(line) ELSE line

(* Lines pushed behind a text: the first continues an open last line. *)
Joined(text, more) ==
  IF text = << >> \/ more = << >> \/ Ends(Last(text)) THEN text \o more
  ELSE Front(text) \o << Last(text) \o Head(more) >> \o Tail(more)

NoEdits == << >>

Only(edits, lines)    == [l \in DOMAIN edits \cap lines |-> edits[l]]
Without(edits, lines) == [l \in DOMAIN edits \ lines |-> edits[l]]

LineOf(text, l) == IF l \in DOMAIN text THEN text[l] ELSE NoLine
Shorter(a, b)   == IF Len(a) < Len(b) THEN Len(a) ELSE Len(b)
Longer(a, b)    == IF Len(a) < Len(b) THEN Len(b) ELSE Len(a)

-----------------------------------------------------------------------------
(* Recording a difference                                                  *)

CommonPrefix(before, after) ==
  Max({k \in 0 .. Shorter(before, after) :
         \A l \in 1 .. k : before[l] = after[l]})

(* Mutant: the tail is compared without stopping at the prefix. *)
CommonSuffixOverlapping(before, after) ==
  Max({k \in 0 .. Shorter(before, after) :
         \A i \in 0 .. (k - 1) :
            before[Len(before) - i] = after[Len(after) - i]})

(* The common tail never reaches into the common prefix. *)
CommonSuffix(before, after) ==
  LET free == Shorter(before, after) - CommonPrefix(before, after)
  IN Max({k \in 0 .. free :
            \A i \in 0 .. (k - 1) :
               before[Len(before) - i] = after[Len(after) - i]})

(* The stretches between them are paired line by line; the longer of the   *)
(* two is paired with nothing at its end.                                  *)
Synthesize(before, after) ==
  LET prefix == CommonPrefix(before, after)
      suffix == CommonSuffix(before, after)
      old    == SubSeq(before, prefix + 1, Len(before) - suffix)
      new    == SubSeq(after,  prefix + 1, Len(after) - suffix)
  IN [l \in {prefix + i : i \in {j \in 1 .. Longer(old, new) :
                                   LineOf(old, j) # LineOf(new, j)}} |->
        [before |-> LineOf(old, l - prefix), after |-> LineOf(new, l - prefix)]]

-----------------------------------------------------------------------------
(* Replaying edits                                                         *)

Inserts(e) == e.before = NoLine /\ e.after # NoLine
Deletes(e) == e.before # NoLine /\ e.after = NoLine

(* Every edit must find its line, an insertion a place at or before the end. *)
Replayable(before, edits) ==
  \A l \in DOMAIN edits :
     \/ Inserts(edits[l]) /\ l <= Len(before) + 1
     \/ l \in DOMAIN before /\ before[l] = edits[l].before

(* An inserted line that is open runs into the line it stands before.  No  *)
(* other edit that finds its line leaves it open: what is recorded is of   *)
(* texts that can only have an open line behind the last line of before.   *)
Replayed(before, edits) ==
  LET Kept(l)  == IF l \in DOMAIN before THEN << before[l] >> ELSE << >>
      Piece(l) == IF l \notin DOMAIN edits     THEN Kept(l)
                  ELSE IF Inserts(edits[l])    THEN Joined(<< edits[l].after >>, Kept(l))
                  ELSE IF Deletes(edits[l])    THEN << >>
                  ELSE << edits[l].after >>
  IN FlattenSeq([l \in 1 .. Len(before) + 1 |-> Piece(l)])

(* The lenient replay keeps a running offset, one up for every insertion   *)
(* and one down for every deletion, moves each later edit by it, and skips *)
(* an edit that does not find its line there.                              *)
Step(before, s, l, e) ==
  LET index == l - 1 + s.offset
      moved == IF s.src < index THEN index ELSE s.src
      out   == Joined(s.out, SubSeq(before, s.src + 1, moved))
      found == moved < Len(before) /\ before[moved + 1] = e.before
  IN IF index < 0 \/ index > Len(before) THEN s
     ELSE IF Inserts(e)
       THEN [src |-> moved, out |-> Joined(out, << e.after >>), offset |-> s.offset + 1]
     ELSE IF index = Len(before) THEN s
     ELSE IF ~found THEN [s EXCEPT !.src = moved, !.out = out]
     ELSE IF Deletes(e)
       THEN [src |-> moved + 1, out |-> out, offset |-> s.offset - 1]
     ELSE [s EXCEPT !.src = moved + 1, !.out = Joined(out, << e.after >>)]

ReplayedLeniently(before, edits) ==
  LET top == Max({0} \cup DOMAIN edits)
      upTo[l \in 0 .. top] ==
        IF l = 0 THEN [src |-> 0, out |-> << >>, offset |-> 0]
        ELSE IF l \in DOMAIN edits THEN Step(before, upTo[l - 1], l, edits[l])
        ELSE upTo[l - 1]
      end == upTo[top]
  IN Joined(end.out, SubSeq(before, end.src + 1, Len(before)))

-----------------------------------------------------------------------------
(* Stripping a policy's result of forbidden lines                          *)

Result(text, edits) == [text |-> text, edits |-> edits]

Touches(before, after, lines) ==
  \E l \in lines : LineOf(before, l) # LineOf(after, l)

(* With lines added or removed the difference is recorded, stripped and    *)
(* replayed; if the outcome still touches a forbidden line, nothing stays. *)
SuppressNonLocal(before, result, lines) ==
  LET partial  == Without(Synthesize(before, result.text), lines)
      adjusted == IF Replayable(before, partial)
                    THEN Replayed(before, partial)
                    ELSE ReplayedLeniently(before, partial)
      edits    == Synthesize(before, adjusted)
  IN IF DOMAIN edits \cap lines = {} THEN Result(adjusted, edits)
                                     ELSE Result(before, NoEdits)

(* Mutant: lines are put back by number even when some were added or removed. *)
SuppressByNumber(before, result, lines) ==
  LET kept == Without(result.edits, lines)
  IN IF ~Touches(before, result.text, lines) THEN Result(result.text, kept)
     ELSE IF DOMAIN kept = {} THEN Result(before, NoEdits)
     ELSE Result([l \in DOMAIN result.text |->
                    IF l \in lines \cap DOMAIN before
                      THEN before[l] ELSE result.text[l]], kept)

(* A result that leaves the forbidden lines alone keeps its other edits;   *)
(* otherwise the forbidden lines are put back.                             *)
Suppress(before, result, lines) ==
  LET kept == Without(result.edits, lines)
  IN IF ~Touches(before, result.text, lines) THEN Result(result.text, kept)
     ELSE IF Len(before) # Len(result.text)
       THEN SuppressNonLocal(before, result, lines)
     ELSE IF DOMAIN kept = {} THEN Result(before, NoEdits)
     ELSE Result([l \in DOMAIN before |->
                    IF l \in lines THEN before[l] ELSE result.text[l]], kept)

(* The convergence controller has a suppression of its own: it puts the    *)
(* old lines back by number, whatever happened to the number of lines.     *)
ConvergenceSuppress(before, result, lines) ==
  LET kept == Without(result.edits, lines)
  IN IF lines = {} THEN result
     ELSE IF DOMAIN kept = {} THEN Result(before, NoEdits)
     ELSE Result([l \in DOMAIN result.text |->
                    IF l \in lines /\ l <= Len(before)
                      THEN before[l] ELSE result.text[l]], kept)

(* Mutant: edits that are there are believed. *)
NormalizeNothing(before, result) ==
  IF DOMAIN result.edits # {} THEN result
  ELSE Result(result.text, Synthesize(before, result.text))

(* A result whose text is unchanged has no edits; one whose edits do not   *)
(* account for its text gets the edits that do.                            *)
NormalizeCoverage(before, result) ==
  LET recorded == Synthesize(before, result.text)
  IN IF result.text = before THEN Result(before, NoEdits)
     ELSE IF /\ DOMAIN result.edits # {}
             /\ \/ /\ Replayable(before, result.edits)
                   /\ Replayed(before, result.edits) = result.text
                \/ DOMAIN result.edits = DOMAIN recorded
       THEN result
     ELSE Result(result.text, recorded)

=============================================================================
