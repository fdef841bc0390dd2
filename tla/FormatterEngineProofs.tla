----------------------- MODULE FormatterEngineProofs -----------------------
(***************************************************************************)
(* What the threads of a process learn is lost to races only, a            *)
(* declaration that is taken from under its uses is reported, and lines    *)
(* that only move are not, for any number of files, any texts and any      *)
(* configuration.                                                          *)
(*                                                                         *)
(* An observation is open between its load and its store, and settled      *)
(* after the store.  The property is about settled observations; it is     *)
(* inductive together with what the open clones hold (Clones), with the    *)
(* mark on all who are open at the same time (Marked), and with the fact   *)
(* that nothing is loaded ahead of its stage (InOrder), without which a    *)
(* file could reach an observation that was settled before.  The other two *)
(* properties are about the text of a pass and its original (Texts).       *)
(***************************************************************************)
EXTENDS FormatterEngine, TLAPS, FiniteSetTheorems, SequenceTheorems, WellFoundedInduction

Stages == {"new", "run", "decide", "done"} \union Observing

Ahead(s) ==
  CASE s = "new" -> {"first", "overlap", "last"}
    [] s = "first" -> {"overlap", "last"}
    [] s = "run" -> {"overlap", "last"}
    [] s = "overlap" -> {"last"}
    [] s = "decide" -> {"last"}
    [] OTHER -> {}

Open(f) == stage[f] \in Observing /\ <<f, stage[f]>> \in loaded
Cell(f) == CellOf(stage[f])

(* Settled observations that raced with no other. *)
Kept(c) == {o \in loaded \ raced : stage[o[1]] # o[2] /\ CellOf(o[2]) = c}

Shapes ==
  /\ scenario \in Scenarios
  /\ stage \in [Files -> Stages]
  /\ seen \in [Files -> SUBSET Observations]
  /\ learned \in [Cells -> SUBSET Observations]
  /\ loaded \subseteq Observations /\ raced \subseteq loaded

InOrder == \A f \in Files : \A s \in Ahead(stage[f]) : <<f, s>> \notin loaded

Clones ==
  \A f \in Files : Open(f) => <<f, stage[f]>> \in seen[f] /\ Kept(Cell(f)) \subseteq seen[f]

Marked ==
  \A f, g \in Files : f # g /\ Open(f) /\ Open(g) /\ Cell(f) = Cell(g) => <<f, stage[f]>> \in raced

Settled == \A c \in Cells : Kept(c) \subseteq learned[c]

IInv == Shapes /\ InOrder /\ Clones /\ Marked /\ Settled

(* Only files take part. *)
LEMMA PartsAreFiles == ASSUME scenario \in Scenarios PROVE DOMAIN scenario.texts \subseteq Files
BY EngineAssumption

(* Every observation works on one of the two cells. *)
LEMMA CellsAreCells == \A s : CellOf(s) \in Cells
BY DEF CellOf, Cells

(* A stage that follows a store is none of those that are still ahead, and *)
(* whatever is ahead of it was ahead before.                               *)
LEMMA AfterIsLater ==
  ASSUME NEW s \in Observing
  PROVE  After(s) \in Stages /\ After(s) \notin Observing /\ After(s) # s /\ Ahead(After(s)) \subseteq Ahead(s)
BY DEF Observing, After, Ahead, Stages

(* In the beginning nothing is loaded. *)
THEOREM InitEstablishes == Init => IInv
<1> SUFFICES ASSUME Init PROVE IInv
  OBVIOUS
<1>1. Shapes
  BY DEF Init, Shapes, Stages, Cells
<1>2. \A c : Kept(c) = {}
  BY DEF Init, Kept
<1>3. QED
  BY <1>1, <1>2 DEF IInv, Init, InOrder, Clones, Marked, Settled, Open

(***************************************************************************)
(* Steps that neither load nor store.  They start outside observations and *)
(* do not reach one that is already loaded.                                *)
(***************************************************************************)
Moves(f, t) ==
  /\ stage[f] \notin Observing /\ t \in Stages
  /\ Ahead(t) \subseteq Ahead(stage[f])
  /\ t \in Observing => t \in Ahead(stage[f])
  /\ stage' = [stage EXCEPT ![f] = t]
  /\ UNCHANGED <<scenario, seen, learned, loaded, raced>>

LEMMA MovesPreserve ==
  ASSUME IInv, NEW f \in Files, NEW t, Moves(f, t)
  PROVE  IInv'
<1>1. /\ stage' \in [Files -> Stages] /\ stage'[f] = t
      /\ \A g \in Files \ {f} : stage'[g] = stage[g]
  BY DEF IInv, Shapes, Moves
<1>2. Shapes'
  BY <1>1 DEF IInv, Shapes, Moves
<1>3. InOrder'
  BY <1>1 DEF IInv, InOrder, Moves
<1>4. ~Open(f)' /\ \A g \in Files \ {f} : Open(g)' <=> Open(g)
  BY <1>1 DEF IInv, InOrder, Moves, Open
<1>5. ASSUME NEW c, NEW o \in Kept(c)' PROVE o \in Kept(c)
  <2>1. o \in Observations
    BY <1>5 DEF IInv, Shapes, Moves, Kept
  <2>2. o[1] \in Files /\ o[2] \in Observing
    BY <2>1 DEF Observations
  <2>3. QED
    BY <1>1, <1>5, <2>2 DEF Moves, Kept
<1>6. Clones'
  BY <1>1, <1>4, <1>5 DEF IInv, Clones, Moves, Cell
<1>7. Marked'
  BY <1>1, <1>4 DEF IInv, Marked, Moves, Cell
<1>8. Settled'
  BY <1>5 DEF IInv, Settled, Moves
<1>9. QED
  BY <1>2, <1>3, <1>6, <1>7, <1>8 DEF IInv

LEMMA BeginPreserves == ASSUME IInv, NEW f \in Files, Begin(f) PROVE IInv'
<1>1. PICK t \in {"done", "first", "run"} : Moves(f, t)
  BY DEF IInv, Shapes, Begin, Refuse, Moves, Ahead, Observing, Stages
<1>2. QED
  BY <1>1, MovesPreserve

LEMMA RunPreserves == ASSUME IInv, NEW f \in Files, Run(f) \/ RunFails(f) PROVE IInv'
<1>1. PICK t \in {"overlap", "done"} : Moves(f, t)
  <2>1. stage[f] = "run" /\ UNCHANGED <<scenario, seen, learned, loaded, raced>>
    BY DEF Run, RunFails
  <2>2. stage' = [stage EXCEPT ![f] = "overlap"] \/ stage' = [stage EXCEPT ![f] = "done"]
    BY DEF Run, RunFails, Refuse
  <2>3. QED
    BY <2>1, <2>2 DEF Moves, Ahead, Observing, Stages
<1>2. QED
  BY <1>1, MovesPreserve

LEMMA DecidePreserves == ASSUME IInv, NEW f \in Files, Decide(f) PROVE IInv'
<1>1. PICK t \in {"last", "done"} : Moves(f, t)
  <2>1. stage[f] = "decide" /\ UNCHANGED <<scenario, seen, learned, loaded, raced>>
    BY DEF Decide
  <2>2. stage' = [stage EXCEPT ![f] = "last"] \/ stage' = [stage EXCEPT ![f] = "done"]
    BY DEF Decide
  <2>3. QED
    BY <2>1, <2>2 DEF Moves, Ahead, Observing, Stages
<1>2. QED
  BY <1>1, MovesPreserve

(***************************************************************************)
(* A load: the clone has what the cell has, and whoever is open is marked. *)
(***************************************************************************)
LEMMA LoadPreserves == ASSUME IInv, NEW f \in Files, Load(f) PROVE IInv'
<1> DEFINE own == <<f, stage[f]>>
           rivals == {g \in Files \ {f} : Open(g) /\ Cell(g) = Cell(f)}
<1>1. /\ stage[f] \in Observing /\ own \notin loaded
      /\ raced' = raced \union (IF rivals = {} THEN {} ELSE {own}) \union {<<g, stage[g]>> : g \in rivals}
      /\ seen' = [seen EXCEPT ![f] = learned[Cell(f)] \union {own}]
      /\ loaded' = loaded \union {own}
      /\ UNCHANGED <<scenario, stage, learned>>
  BY DEF Load, Open, Cell
<1>2. Shapes'
  <2>1. own \in Observations /\ Cell(f) \in Cells
    BY <1>1, CellsAreCells DEF Observations, Cell
  <2>2. seen' \in [Files -> SUBSET Observations]
    BY <1>1, <2>1 DEF IInv, Shapes
  <2>3. \A g \in rivals : <<g, stage[g]>> \in loaded
    BY DEF Open
  <2>4. loaded' \subseteq Observations /\ raced' \subseteq loaded'
    BY <1>1, <2>1, <2>3 DEF IInv, Shapes
  <2>5. QED
    BY <1>1, <2>2, <2>4 DEF IInv, Shapes
<1>3. InOrder'
  <2>1. stage[f] \notin Ahead(stage[f])
    BY <1>1 DEF Ahead, Observing
  <2>2. QED
    BY <1>1, <2>1 DEF IInv, InOrder
<1>4. Open(f)' /\ \A g \in Files \ {f} : Open(g)' <=> Open(g)
  BY <1>1 DEF Open
<1>5. /\ \A c \in Cells : Kept(c)' \subseteq Kept(c)
      /\ \A g \in Files : Cell(g)' = Cell(g) /\ Kept(Cell(g))' \subseteq Kept(Cell(g))
  BY <1>1 DEF Kept, Cell
<1>6. Clones'
  <2>1. own \in seen'[f] /\ Kept(Cell(f))' \subseteq seen'[f]
    <3>1. Kept(Cell(f)) \subseteq learned[Cell(f)]
      BY CellsAreCells DEF IInv, Settled, Cell
    <3>2. seen'[f] = learned[Cell(f)] \union {own}
      BY <1>1 DEF IInv, Shapes
    <3>3. QED
      BY <1>5, <3>1, <3>2
  <2>2. ASSUME NEW g \in Files \ {f}, Open(g)
        PROVE  <<g, stage[g]>> \in seen'[g] /\ Kept(Cell(g))' \subseteq seen'[g]
    <3>1. seen'[g] = seen[g]
      BY <1>1 DEF IInv, Shapes
    <3>2. QED
      BY <1>5, <2>2, <3>1 DEF IInv, Clones
  <2>3. QED
    BY <1>1, <1>4, <2>1, <2>2 DEF Clones
<1>7. Marked'
  <2> SUFFICES ASSUME NEW g \in Files, NEW h \in Files, g # h, Open(g)', Open(h)', Cell(g) = Cell(h)
               PROVE  <<g, stage[g]>> \in raced'
    BY <1>1 DEF Marked, Cell
  <2>1. CASE g = f
    <3>1. h \in rivals
      BY <1>4, <2>1
    <3>2. QED
      BY <1>1, <2>1, <3>1
  <2>2. CASE h = f
    <3>1. g \in rivals
      BY <1>4, <2>2
    <3>2. QED
      BY <1>1, <3>1
  <2>3. CASE g # f /\ h # f
    BY <1>1, <1>4, <2>3 DEF IInv, Marked
  <2>4. QED
    BY <2>1, <2>2, <2>3
<1>8. Settled'
  BY <1>1, <1>5 DEF IInv, Settled
<1>9. QED
  BY <1>2, <1>3, <1>6, <1>7, <1>8 DEF IInv

(***************************************************************************)
(* A store: what it settles is in the cell, and unless it is marked there  *)
(* is no other clone that could overwrite it.                              *)
(***************************************************************************)
LEMMA StorePreserves == ASSUME IInv, NEW f \in Files, Store(f) PROVE IInv'
<1> DEFINE own == <<f, stage[f]>>
<1>1. /\ stage[f] \in Observing /\ own \in loaded /\ Open(f)
      /\ learned' = [learned EXCEPT ![Cell(f)] = seen[f]]
      /\ seen' = [seen EXCEPT ![f] = {}]
      /\ stage' = [stage EXCEPT ![f] = After(stage[f])]
      /\ UNCHANGED <<scenario, loaded, raced>>
  BY DEF Store, Open, Cell
<1>2. /\ After(stage[f]) \in Stages /\ After(stage[f]) \notin Observing
      /\ Ahead(After(stage[f])) \subseteq Ahead(stage[f])
  BY <1>1, AfterIsLater
<1>3. /\ stage' \in [Files -> Stages] /\ stage'[f] = After(stage[f])
      /\ \A g \in Files \ {f} : stage'[g] = stage[g] /\ seen'[g] = seen[g] /\ Cell(g)' = Cell(g)
  BY <1>1, <1>2 DEF IInv, Shapes, Cell
<1>4. Shapes'
  BY <1>1, <1>3, CellsAreCells DEF IInv, Shapes
<1>5. InOrder'
  BY <1>1, <1>2, <1>3 DEF IInv, InOrder
<1>6. ~Open(f)' /\ \A g \in Files \ {f} : Open(g)' <=> Open(g)
  BY <1>1, <1>2, <1>3 DEF Open
<1>7. ASSUME NEW c, NEW o \in Kept(c)'
      PROVE  o \in Kept(c) \/ (o = own /\ own \notin raced /\ c = Cell(f))
  <2>1. o \in Observations /\ o \in loaded \ raced /\ CellOf(o[2]) = c
    BY <1>1, <1>7 DEF Kept, IInv, Shapes
  <2>2. o[1] \in Files /\ o[2] \in Observing /\ o = <<o[1], o[2]>>
    BY <2>1 DEF Observations
  <2>3. CASE o[1] # f
    BY <1>3, <1>7, <2>1, <2>2, <2>3 DEF Kept
  <2>4. CASE o[1] = f
    BY <2>1, <2>2, <2>4 DEF Kept, Cell
  <2>5. QED
    BY <2>3, <2>4
<1>8. Clones'
  <2> SUFFICES ASSUME NEW g \in Files, Open(g)'
               PROVE  <<g, stage'[g]>> \in seen'[g] /\ Kept(Cell(g))' \subseteq seen'[g]
    BY DEF Clones
  <2>1. g # f /\ Open(g)
    BY <1>6
  <2>2. <<g, stage[g]>> \in seen[g] /\ Kept(Cell(g)) \subseteq seen[g]
    BY <2>1 DEF IInv, Clones
  <2>3. ASSUME own \notin raced PROVE Cell(g) # Cell(f)
    BY <1>1, <2>1, <2>3 DEF IInv, Marked
  <2>4. QED
    BY <1>3, <1>7, <2>1, <2>2, <2>3
<1>9. Marked'
  BY <1>1, <1>3, <1>6 DEF IInv, Marked
<1>10. Settled'
  <2> SUFFICES ASSUME NEW c \in Cells, NEW o \in Kept(c)' PROVE o \in learned'[c]
    BY DEF Settled
  <2>1. CASE c = Cell(f)
    <3>1. learned'[c] = seen[f]
      BY <1>1, <2>1 DEF IInv, Shapes
    <3>2. own \in seen[f] /\ Kept(Cell(f)) \subseteq seen[f]
      BY <1>1 DEF IInv, Clones
    <3>3. QED
      BY <1>7, <2>1, <3>1, <3>2
  <2>2. CASE c # Cell(f)
    <3>1. learned'[c] = learned[c]
      BY <1>1, <2>2 DEF IInv, Shapes
    <3>2. QED
      BY <1>7, <2>2, <3>1 DEF IInv, Settled
  <2>3. QED
    BY <2>1, <2>2
<1>11. QED
  BY <1>4, <1>5, <1>8, <1>9, <1>10 DEF IInv

(***************************************************************************)
(* The theorem.                                                            *)
(***************************************************************************)
LEMMA NextPreserves == IInv /\ [Next]_vars => IInv'
<1> SUFFICES ASSUME IInv, [Next]_vars PROVE IInv'
  OBVIOUS
<1>1. CASE Next
  <2>1. PICK f \in DOMAIN scenario.texts :
          Begin(f) \/ Load(f) \/ Store(f) \/ Run(f) \/ RunFails(f) \/ Decide(f)
    BY <1>1 DEF Next
  <2>2. f \in Files
    BY <2>1, PartsAreFiles DEF IInv, Shapes
  <2>3. QED
    BY <2>1, <2>2, BeginPreserves, LoadPreserves, StorePreserves, RunPreserves, DecidePreserves
<1>2. CASE UNCHANGED vars
  BY <1>2 DEF vars, IInv, Shapes, InOrder, Clones, Marked, Settled, Open, Cell, Kept
<1>3. QED
  BY <1>1, <1>2

(* An observation that raced with no other stays in its cell, in every run *)
(* of any number of files (observe_adaptive and the end of                 *)
(* run_with_options): what the threads learn is lost to races only.        *)
THEOREM LosesToRacesOnly == Spec => []LostOnlyToRaces
<1>1. IInv => LostOnlyToRaces
  <2> SUFFICES ASSUME IInv, NEW o \in loaded \ raced, stage[o[1]] # o[2]
               PROVE  o \in learned[CellOf(o[2])]
    BY DEF LostOnlyToRaces
  <2>1. o \in Kept(CellOf(o[2])) /\ CellOf(o[2]) \in Cells
    BY CellsAreCells DEF Kept
  <2>2. QED
    BY <2>1 DEF IInv, Settled
<1>2. QED
  BY InitEstablishes, NextPreserves, <1>1, PTL DEF Spec

(***************************************************************************)
(* What the check after the edits finds.  It counts, so the proof needs    *)
(* that a text has finitely many lines: whatever the pipeline makes of a   *)
(* sequence of lines is one again (Texts).                                 *)
(***************************************************************************)
AllLines ==
  scenario.writes \union UNION {{Original(f)[i] : i \in DOMAIN Original(f)} : f \in DOMAIN scenario.texts}

Ran == {"overlap", "decide"}

Texts ==
  /\ DOMAIN pass = Files
  /\ \A f \in DOMAIN scenario.texts : stage[f] \in Ran => pass[f].text \in Seq(AllLines)

(* The texts of a scenario are sequences of its lines.                     *)
LEMMA OriginalsAreTexts ==
  ASSUME scenario \in Scenarios, NEW f \in DOMAIN scenario.texts
  PROVE  Original(f) \in Seq(AllLines)
<1> DEFINE own == {Original(f)[i] : i \in DOMAIN Original(f)}
<1>1. Original(f) \in Seq(own)
  BY EngineAssumption DEF Original
<1>2. own \subseteq AllLines
  BY DEF AllLines
<1>3. QED
  BY <1>1, <1>2

(* An edit replaces, inserts or deletes a line of a text.                  *)
LEMMA RewritingsAreTexts ==
  ASSUME NEW t \in Seq(AllLines), NEW r \in Rewritings(t)
  PROVE  r.text \in Seq(AllLines)
<1>1. scenario.writes \subseteq AllLines
  BY DEF AllLines
<1>2. ASSUME NEW i \in Lines(t), r \in Replaced(t, i) PROVE r.text \in Seq(AllLines)
  <2>1. PICK l \in scenario.writes : r = [text |-> [t EXCEPT ![i] = l], lines |-> {i}]
    BY <1>2 DEF Replaced
  <2>2. QED
    BY <1>1, <2>1 DEF Lines
<1>3. ASSUME NEW i \in {0} \union Lines(t), r \in Inserted(t, i) PROVE r.text \in Seq(AllLines)
  <2> DEFINE front == SubSeq(t, 1, i)
             back == SubSeq(t, i + 1, Len(t))
  <2>1. front \in Seq(AllLines) /\ back \in Seq(AllLines)
    BY DEF Lines
  <2>2. PICK l \in scenario.writes : r = [text |-> front \o <<l>> \o back, lines |-> {i + 1}]
    BY <1>3 DEF Inserted
  <2>3. <<l>> \in Seq(AllLines)
    BY <1>1
  <2> HIDE DEF front, back
  <2>4. front \o <<l>> \in Seq(AllLines)
    BY <2>1, <2>3, ConcatProperties
  <2>5. (front \o <<l>>) \o back \in Seq(AllLines)
    BY <2>1, <2>4, ConcatProperties
  <2>6. QED
    BY <2>2, <2>5
<1>4. ASSUME NEW i \in {j \in Lines(t) : Len(t) > 1}, r = Deleted(t, i)
      PROVE  r.text \in Seq(AllLines)
  <2> DEFINE front == SubSeq(t, 1, i - 1)
             back == SubSeq(t, i + 1, Len(t))
  <2>1. front \in Seq(AllLines) /\ back \in Seq(AllLines)
    BY DEF Lines
  <2>2. r = [text |-> front \o back, lines |-> {i}]
    BY <1>4 DEF Deleted
  <2> HIDE DEF front, back
  <2>3. front \o back \in Seq(AllLines)
    BY <2>1, ConcatProperties
  <2>4. QED
    BY <2>2, <2>3
<1>5. \/ \E i \in Lines(t) : r \in Replaced(t, i)
      \/ \E i \in {0} \union Lines(t) : r \in Inserted(t, i)
      \/ \E i \in {j \in Lines(t) : Len(t) > 1} : r = Deleted(t, i)
  BY Zenon DEF Rewritings
<1>6. QED
  BY <1>2, <1>3, <1>4, <1>5

LEMMA RunKeepsTexts ==
  ASSUME Shapes, Texts, NEW f \in DOMAIN scenario.texts, Run(f)
  PROVE  Texts'
<1>1. f \in Files
  BY PartsAreFiles DEF Shapes
<1>2. Original(f) \in Seq(AllLines)
  BY OriginalsAreTexts DEF Shapes
<1>3. \A t, e : Normalized(f, t, e).text \in {t, Original(f)}
  BY DEF Normalized
<1>4. PICK p : pass' = [pass EXCEPT ![f] = p] /\ p.text \in Seq(AllLines)
  <2>1. CASE \E r \in Rewritings(Original(f)) \union {[text |-> Original(f), lines |-> {}]} :
               \E recorded \in {{}, r.lines} :
                 pass' = [pass EXCEPT ![f] = Normalized(f, r.text, recorded)]
    <3>1. PICK r \in Rewritings(Original(f)) \union {[text |-> Original(f), lines |-> {}]} :
            \E recorded \in {{}, r.lines} :
              pass' = [pass EXCEPT ![f] = Normalized(f, r.text, recorded)]
      BY <2>1
    <3>2. r.text \in Seq(AllLines)
      <4>1. CASE r \in Rewritings(Original(f))
        BY <1>2, <4>1, RewritingsAreTexts
      <4>2. CASE r = [text |-> Original(f), lines |-> {}]
        BY <1>2, <4>2
      <4>3. QED
        BY <4>1, <4>2
    <3>3. PICK recorded \in {{}, r.lines} : pass' = [pass EXCEPT ![f] = Normalized(f, r.text, recorded)]
      BY <3>1
    <3>4. Normalized(f, r.text, recorded).text \in Seq(AllLines)
      BY <1>2, <1>3, <3>2
    <3> DEFINE p == Normalized(f, r.text, recorded)
    <3>5. pass' = [pass EXCEPT ![f] = p] /\ p.text \in Seq(AllLines)
      BY <3>3, <3>4
    <3>6. QED
      BY <3>5
  <2>2. CASE \E r \in Rewritings(Original(f)) :
               pass' = [pass EXCEPT ![f] = [text |-> Original(f), edits |-> r.lines]]
    <3>1. PICK r : pass' = [pass EXCEPT ![f] = [text |-> Original(f), edits |-> r.lines]]
      BY <2>2
    <3> DEFINE p == [text |-> Original(f), edits |-> r.lines]
    <3>2. pass' = [pass EXCEPT ![f] = p] /\ p.text \in Seq(AllLines)
      BY <1>2, <3>1
    <3>3. QED
      BY <3>2
  <2>3. QED
    BY <2>1, <2>2 DEF Run
<1>5. UNCHANGED scenario /\ AllLines' = AllLines /\ stage' = [stage EXCEPT ![f] = "overlap"]
  BY DEF Run, AllLines, Original
<1>6. pass'[f] = p /\ \A g \in Files \ {f} : pass'[g] = pass[g] /\ stage'[g] = stage[g]
  BY <1>1, <1>4, <1>5 DEF Texts, Shapes
<1>7. QED
  BY <1>1, <1>4, <1>5, <1>6, PartsAreFiles DEF Texts, Shapes

(* Whatever comes to the decision comes from a pass.                       *)
LEMMA OthersKeepTexts ==
  ASSUME Shapes, Texts, NEW f \in DOMAIN scenario.texts,
         Begin(f) \/ Load(f) \/ Store(f) \/ RunFails(f) \/ Decide(f)
  PROVE  Texts'
<1>1. f \in Files /\ DOMAIN scenario.texts \subseteq Files
  BY PartsAreFiles DEF Shapes
<1>2. UNCHANGED <<scenario, pass>>
  BY DEF Begin, Load, Store, RunFails, Decide
<1>3. AllLines' = AllLines
  BY <1>2 DEF AllLines, Original
<1>4. ASSUME NEW g \in Files, stage'[g] \in Ran PROVE stage[g] \in Ran
  <2>1. CASE Begin(f)
    BY <1>1, <1>4, <2>1 DEF Begin, Refuse, Ran, Shapes
  <2>2. CASE Load(f)
    BY <1>4, <2>2 DEF Load
  <2>3. CASE Store(f)
    <3>1. stage' = [stage EXCEPT ![f] = After(stage[f])] /\ stage[f] \in Observing
      BY <2>3 DEF Store
    <3>2. After(stage[f]) \in Ran => stage[f] \in Ran
      BY <3>1 DEF After, Ran, Observing
    <3>3. QED
      BY <1>1, <1>4, <3>1, <3>2 DEF Shapes
  <2>4. CASE RunFails(f)
    BY <1>1, <1>4, <2>4 DEF RunFails, Refuse, Ran, Shapes
  <2>5. CASE Decide(f)
    BY <1>1, <1>4, <2>5 DEF Decide, Ran, Shapes
  <2>6. QED
    BY <2>1, <2>2, <2>3, <2>4, <2>5
<1>5. QED
  BY <1>1, <1>2, <1>3, <1>4 DEF Texts

LEMMA TextsStay == Shapes /\ Texts /\ [Next]_vars => Texts'
<1>1. ASSUME Shapes, Texts, Next PROVE Texts'
  BY <1>1, RunKeepsTexts, OthersKeepTexts DEF Next
<1>2. ASSUME Texts, UNCHANGED vars PROVE Texts'
  BY <1>2 DEF Texts, vars, AllLines, Original
<1>3. QED
  BY <1>1, <1>2

(* Errors that a text without errors gets are counted, whatever the lines  *)
(* they are on.                                                            *)
LEMMA ErrorsAreCounted ==
  ASSUME NEW S, NEW text \in Seq(S), NEW old,
         Unresolved(Parsed(old)) = {}, Unresolved(Parsed(text)) # {}
  PROVE  NewErrors(Parsed(old), Parsed(text)) \in Nat \ {0}
<1> DEFINE n == Cardinality(Unresolved(Parsed(text)))
<1>1. Unresolved(Parsed(text)) \subseteq 1..Len(text)
  BY DEF Unresolved, Sees, Parsed
<1>2. IsFiniteSet(Unresolved(Parsed(text)))
  BY <1>1, FS_Interval, FS_Subset
<1>3. n \in Nat \ {0}
  BY <1>2, FS_CardinalityType, FS_EmptySet
<1>4. Cardinality(Unresolved(Parsed(old))) = 0
  BY FS_EmptySet
<1>5. NewErrors(Parsed(old), Parsed(text)) = Max({0, n})
  <2>1. NewErrors(Parsed(old), Parsed(text)) = Max({0, n - Cardinality(Unresolved(Parsed(old)))})
    BY DEF NewErrors, Parsed
  <2>2. n - 0 = n
    BY <1>3
  <2>3. QED
    BY <1>4, <2>1, <2>2
<1> HIDE DEF n
<1>6. n \in {0, n} /\ \A y \in {0, n} : n >= y
  BY <1>3
<1>7. Max({0, n}) \in {0, n} /\ Max({0, n}) >= n
  BY <1>6 DEF Max
<1>8. QED
  BY <1>3, <1>5, <1>7

(* In an exact context nothing is tolerated and nothing relaxed, so that   *)
(* one new error refuses the text, whatever else the check finds.          *)
LEMMA ExactRefusesErrors ==
  ASSUME NEW strict, NEW b, NEW a, NEW edited, NewErrors(b, a) \in Nat \ {0}
  PROVE  ~Validate(strict, "exact", b, a, edited).accepted
<1> DEFINE others == TreeFailures(strict, b, a)
                       \union (IF TreeDown(strict, b) THEN {"tree unavailable"} ELSE {})
                       \union SemanticFailures(strict, "exact", b, a, edited)
<1>1. "clang errors" \in ClangFailures(strict, "exact", b, a, edited, others)
  BY DEF ClangFailures, Tolerated, Relaxed
<1>2. others \union ClangFailures(strict, "exact", b, a, edited, others) # {}
  BY <1>1
<1>3. QED
  BY <1>2 DEF Validate

(* A pass that takes a declaration from under its uses is refused by the   *)
(* full check of an exact context, for any text and any edit (validate,    *)
(* should_tolerate_nonlocal_diagnostic_delta_for_context,                  *)
(* should_relax_consensus_diagnostic_failure): the tolerances for moved    *)
(* names and lost references never hide it.                                *)
THEOREM RemovalsAreReported == Spec => []RemovalInUseIsReported
<1>1. Init => Texts
  <2> SUFFICES ASSUME Init PROVE Texts
    OBVIOUS
  <2>1. \A f \in Files : stage[f] \notin Ran
    BY DEF Init, Ran
  <2>2. QED
    BY <2>1, PartsAreFiles DEF Init, Texts
<1>2. Texts => RemovalInUseIsReported
  <2> SUFFICES ASSUME Texts, NEW f \in DOMAIN scenario.texts, stage[f] = "decide",
                      Unresolved(Parsed(Original(f))) = {},
                      Unresolved(Parsed(pass[f].text)) # {}
               PROVE  ~Validate(scenario.strict, "exact", Parsed(Original(f)),
                                Parsed(pass[f].text), pass[f].edits).accepted
    BY DEF RemovalInUseIsReported
  <2>1. pass[f].text \in Seq(AllLines)
    BY DEF Texts, Ran
  <2>2. QED
    BY <2>1, ErrorsAreCounted, ExactRefusesErrors
<1>3. IInv /\ Texts /\ [Next]_vars => IInv' /\ Texts'
  BY NextPreserves, TextsStay DEF IInv
<1>4. QED
  BY InitEstablishes, <1>1, <1>2, <1>3, PTL DEF Spec
-----------------------------------------------------------------------------
(* Layout.  A pass that only moves lines places every declaration and every *)
(* use; what they are called afterwards follows from where they are placed. *)

(* What place does to the lines of two texts.                              *)
Placed(s, t, place) ==
  /\ Len(s) \in Nat /\ DOMAIN s = 1..Len(s) /\ Len(t) \in Nat /\ DOMAIN t = 1..Len(t)
  /\ place \in [Filled(s) -> Filled(t)] /\ MovedBy(s, t, place)

(* A line that is placed is the same line, not far from where it was.      *)
LEMMA Stays ==
  ASSUME NEW s, NEW t, NEW place, Placed(s, t, place), NEW i \in Filled(s)
  PROVE  /\ i \in 1..Len(s) /\ place[i] \in 1..Len(t) /\ place[i] \in Filled(t)
         /\ t[place[i]] = s[i]
         /\ place[i] \in (i - IdentityShift)..(i + IdentityShift)
<1>1. i \in 1..Len(s) /\ place[i] \in Filled(t) /\ place[i] \in 1..Len(t)
  BY DEF Placed, Filled, Lines, MovedBy
<1>2. t[place[i]] = s[i] /\ place[i] - i \in (-IdentityShift)..IdentityShift
  BY DEF Placed, MovedBy
<1>3. IdentityShift \in Nat
  BY CheckAssumption
<1>4. QED
  BY <1>1, <1>2, <1>3

(* What is on a line says that the line is not blank.                      *)
LEMMA SeenIsFilled ==
  ASSUME NEW s, NEW what \in {"decl", "use", "extern"}, NEW i \in Sees(Parsed(s), what)
  PROVE  i \in Filled(s) /\ s[i].is = what /\ i \in DOMAIN s
<1>1. i \in DOMAIN s /\ s[i].is = what
  BY DEF Sees, Parsed
<1>2. Blank.is = "blank"
  BY DEF Blank
<1>3. s[i] # Blank
  BY <1>1, <1>2
<1>4. QED
  BY <1>1, <1>3 DEF Filled, Lines

(* The parsers see on a line what they saw on it where it was.             *)
LEMMA SeenThere ==
  ASSUME NEW s, NEW t, NEW place, Placed(s, t, place), NEW what \in {"decl", "use", "extern"}
  PROVE  /\ \A i \in Filled(s) : i \in Sees(Parsed(s), what) <=> place[i] \in Sees(Parsed(t), what)
         /\ \A j \in Sees(Parsed(t), what) : \E i \in Sees(Parsed(s), what) : place[i] = j
<1>1. ASSUME NEW i \in Filled(s)
      PROVE  i \in Sees(Parsed(s), what) <=> place[i] \in Sees(Parsed(t), what)
  <2>1. i \in DOMAIN s /\ place[i] \in DOMAIN t /\ t[place[i]] = s[i]
    BY <1>1, Stays DEF Placed
  <2>2. QED
    BY <2>1 DEF Sees, Parsed
<1>2. ASSUME NEW j \in Sees(Parsed(t), what)
      PROVE  \E i \in Sees(Parsed(s), what) : place[i] = j
  <2>1. j \in Filled(t)
    BY SeenIsFilled
  <2>2. PICK i \in Filled(s) : place[i] = j
    BY <2>1 DEF Placed, MovedBy
  <2>3. QED
    BY <1>1, <2>2
<1>3. QED
  BY <1>1, <1>2

(* A set of lines has a first one. *)
LEMMA FirstLine ==
  ASSUME NEW S \in SUBSET Nat, S # {}
  PROVE  Min(S) \in S /\ \A k \in S : Min(S) <= k
<1> DEFINE R == {p \in Nat \X Nat : p[1] < p[2]}
<1>1. IsWellFoundedOn(R, Nat)
  BY NatLessThanWellFounded DEF OpToRel
<1>2. \A k, m \in Nat : <<k, m>> \notin R => m <= k
  OBVIOUS
<1> HIDE DEF R
<1>3. \E m \in S : \A k \in S : <<k, m>> \notin R
  BY <1>1, WFMin
<1>4. \E m \in S : \A k \in S : m <= k
  BY <1>2, <1>3
<1>5. QED
  BY <1>4 DEF Min

(* A use is resolved where its declaration was placed. *)
LEMMA TargetThere ==
  ASSUME NEW s, NEW t, NEW place, Placed(s, t, place), NEW i \in Sees(Parsed(s), "use")
  PROVE  /\ (Target(Parsed(s), i) = {}) <=> (Target(Parsed(t), place[i]) = {})
         /\ Target(Parsed(s), i) # {} =>
              /\ Min(Target(Parsed(s), i)) \in Target(Parsed(s), i)
              /\ Min(Target(Parsed(t), place[i])) = place[Min(Target(Parsed(s), i))]
<1> DEFINE S == Target(Parsed(s), i)
           T == Target(Parsed(t), place[i])
<1>0. i \in Filled(s) /\ t[place[i]] = s[i]
  BY SeenIsFilled, Stays
<1>1. S = {k \in Sees(Parsed(s), "decl") : s[i].name \in s[k].names}
  BY DEF Target, Parsed
<1>2. T = {k \in Sees(Parsed(t), "decl") : s[i].name \in t[k].names}
  BY <1>0 DEF Target, Parsed
<1> HIDE DEF S, T
<1>3. ASSUME NEW k \in S PROVE k \in Filled(s) /\ place[k] \in T
  <2>1. k \in Sees(Parsed(s), "decl") /\ s[i].name \in s[k].names
    BY <1>1
  <2>2. k \in Filled(s)
    BY <2>1, SeenIsFilled
  <2>3. t[place[k]] = s[k] /\ place[k] \in Sees(Parsed(t), "decl")
    BY <2>1, <2>2, Stays, SeenThere
  <2>4. QED
    BY <1>2, <2>1, <2>2, <2>3
<1>4. ASSUME NEW j \in T PROVE \E k \in S : place[k] = j
  <2>1. j \in Sees(Parsed(t), "decl") /\ s[i].name \in t[j].names
    BY <1>2
  <2>2. PICK k \in Sees(Parsed(s), "decl") : place[k] = j
    BY <2>1, SeenThere
  <2>3. s[k] = t[j]
    BY <2>2, SeenIsFilled, Stays
  <2>4. QED
    BY <1>1, <2>1, <2>2, <2>3
<1>5. S \in SUBSET Nat /\ T \in SUBSET Nat
  <2>1. DOMAIN s \subseteq Nat /\ DOMAIN t \subseteq Nat
    BY DEF Placed
  <2>2. QED
    BY <1>1, <1>2, <2>1 DEF Sees, Parsed
<1>6. ASSUME S # {} PROVE Min(S) \in S /\ Min(T) = place[Min(S)]
  <2>1. Min(S) \in S /\ \A k \in S : Min(S) <= k
    BY <1>5, <1>6, FirstLine
  <2>2. T # {}
    BY <1>3, <2>1
  <2>3. Min(T) \in T /\ \A j \in T : Min(T) <= j
    BY <1>5, <2>2, FirstLine
  <2>4. PICK k \in S : place[k] = Min(T)
    BY <1>4, <2>3
  <2>5. Min(T) <= place[Min(S)]
    BY <1>3, <2>1, <2>3
  <2>6. ~(Min(S) < k)
    <3>1. CASE Min(S) < k
      <4>1. place[Min(S)] < place[k]
        BY <1>3, <2>1, <3>1 DEF Placed, MovedBy
      <4>2. place[Min(S)] \in Nat /\ place[k] \in Nat
        BY <1>3, <1>5, <2>1
      <4>3. QED
        BY <2>4, <2>5, <4>1, <4>2
    <3>2. QED
      BY <3>1
  <2>7. Min(S) = k
    <3>1. k \in Nat /\ Min(S) \in Nat /\ Min(S) <= k
      BY <1>5, <2>1
    <3> HIDE DEF S
    <3>2. QED
      BY <2>6, <3>1
  <2>8. QED
    BY <2>1, <2>4, <2>7
<1>7. QED
  BY <1>3, <1>4, <1>6 DEF S, T


(* The declared names are those on the lines of declarations but for       *)
(* templates.                                                              *)
LEMMA Declared ==
  ASSUME NEW s, NEW d
  PROVE  d \in Decls(Parsed(s)) <=>
           /\ d[1] \in Sees(Parsed(s), "decl") /\ d[2] \in s[d[1]].names /\ d = <<d[1], d[2]>>
           /\ s[d[1]].kind # "template"
BY DEF Decls, Parsed

(* A text that uses no header refers to its own declarations only, and so  *)
(* does a text that was made by moving its lines.                          *)
Own(s) == OwnNames(Parsed(s))

LEMMA OwnThere ==
  ASSUME NEW s, NEW t, NEW place, Placed(s, t, place), Own(s)
  PROVE  Own(t)
<1>1. Sees(Parsed(t), "extern") = {}
  BY SeenThere DEF Own, OwnNames
<1>2. ASSUME NEW j \in Sees(Parsed(t), "decl"), t[j].kind = "template" PROVE t[j].usr
  <2>1. PICK i \in Sees(Parsed(s), "decl") : place[i] = j
    BY SeenThere
  <2>2. t[j] = s[i]
    BY <2>1, SeenIsFilled, Stays
  <2>3. QED
    BY <1>2, <2>2 DEF Own, OwnNames, Parsed
<1>3. QED
  BY <1>1, <1>2 DEF Own, OwnNames, Parsed

LEMMA OwnRefs ==
  ASSUME NEW s, Own(s)
  PROVE  Refs(Parsed(s)) = {i \in Sees(Parsed(s), "use") : Target(Parsed(s), i) # {}}
<1>1. Sees(Parsed(s), "extern") = {} /\ Parsed(s).clang = "ok"
  BY DEF Own, OwnNames, Parsed
<1>2. QED
  BY <1>1 DEF Refs, Unresolved

(* The references of a text are placed as its uses are.                    *)
LEMMA RefsThere ==
  ASSUME NEW s, NEW t, NEW place, Placed(s, t, place), Own(s)
  PROVE  /\ \A i \in Refs(Parsed(s)) : i \in Filled(s) /\ place[i] \in Refs(Parsed(t))
         /\ \A j \in Refs(Parsed(t)) : \E i \in Refs(Parsed(s)) : place[i] = j
<1>1. Refs(Parsed(s)) = {i \in Sees(Parsed(s), "use") : Target(Parsed(s), i) # {}}
  BY OwnRefs
<1>2. Refs(Parsed(t)) = {j \in Sees(Parsed(t), "use") : Target(Parsed(t), j) # {}}
  BY OwnRefs, OwnThere
<1>3. ASSUME NEW i \in Refs(Parsed(s)) PROVE i \in Filled(s) /\ place[i] \in Refs(Parsed(t))
  <2>1. i \in Filled(s) /\ place[i] \in Sees(Parsed(t), "use")
    BY <1>1, SeenIsFilled, SeenThere
  <2>2. QED
    BY <1>1, <1>2, <2>1, TargetThere
<1>4. ASSUME NEW j \in Refs(Parsed(t)) PROVE \E i \in Refs(Parsed(s)) : place[i] = j
  <2>1. PICK i \in Sees(Parsed(s), "use") : place[i] = j
    BY <1>2, SeenThere
  <2>2. QED
    BY <1>1, <1>2, <2>1, TargetThere
<1>5. QED
  BY <1>3, <1>4

(* The use on line i refers to the name n that line m declares.            *)
RefersTo(s, i, m, n) ==
  /\ m \in Sees(Parsed(s), "decl") /\ n \in s[m].names
  /\ RefId(Parsed(s), i) = Id(Parsed(s), <<m, n>>)

(* A reference follows the declaration at which it aims.                   *)
LEMMA RefThere ==
  ASSUME NEW s, NEW t, NEW place, Placed(s, t, place), Own(s), NEW i \in Refs(Parsed(s))
  PROVE  \E m, n : RefersTo(s, i, m, n) /\ RefersTo(t, place[i], place[m], n)
<1>1. i \in Sees(Parsed(s), "use") /\ Target(Parsed(s), i) # {}
  BY OwnRefs
<1> DEFINE m == Min(Target(Parsed(s), i))
           n == s[i].name
<1>2. m \in Target(Parsed(s), i) /\ Min(Target(Parsed(t), place[i])) = place[m]
  BY <1>1, TargetThere
<1>3. m \in Sees(Parsed(s), "decl") /\ n \in s[m].names
  BY <1>2 DEF Target, Parsed
<1>4. m \in Filled(s) /\ i \in Filled(s) /\ s[i].is = "use"
  BY <1>1, <1>3, SeenIsFilled
<1>5. t[place[i]] = s[i] /\ t[place[m]] = s[m] /\ place[m] \in Sees(Parsed(t), "decl")
  BY <1>3, <1>4, Stays, SeenThere
<1>6. RefId(Parsed(s), i) = Id(Parsed(s), <<m, n>>)
  BY <1>4 DEF RefId, Parsed
<1>7. RefId(Parsed(t), place[i]) = Id(Parsed(t), <<place[m], n>>)
  <2>1. RefId(Parsed(t), place[i]) = Id(Parsed(t), <<Min(Target(Parsed(t), place[i])), t[place[i]].name>>)
    BY <1>4, <1>5 DEF RefId, Parsed
  <2>2. QED
    BY <1>2, <1>5, <2>1
<1> HIDE DEF m, n
<1>8. RefersTo(s, i, m, n)
  BY <1>3, <1>6 DEF RefersTo
<1>9. RefersTo(t, place[i], place[m], n)
  BY <1>3, <1>5, <1>7 DEF RefersTo
<1>10. QED
  BY <1>8, <1>9, Zenon

(* What becomes of the name of a symbol when the lines move: a USR stays,  *)
(* and a name that carries its line gets the line where it was placed.     *)
There(place, id) == IF id[1] = "usr" THEN id ELSE <<"loc", id[2], place[id[3]], id[4]>>

(* The name of a symbol is made of its USR or of its line, and it changes  *)
(* as its line is placed.                                                  *)
LEMMA IdThere ==
  ASSUME NEW s, NEW t, NEW place, Placed(s, t, place), NEW i \in Filled(s), NEW n
  PROVE  /\ Id(Parsed(s), <<i, n>>) \in {<<"usr", n>>, <<"loc", n, i, s[i].kind>>}
         /\ Id(Parsed(t), <<place[i], n>>) = There(place, Id(Parsed(s), <<i, n>>))
<1>1. t[place[i]] = s[i]
  BY Stays
<1>2. /\ Id(Parsed(s), <<i, n>>) = IF s[i].usr THEN <<"usr", n>> ELSE <<"loc", n, i, s[i].kind>>
      /\ Id(Parsed(t), <<place[i], n>>)
           = IF s[i].usr THEN <<"usr", n>> ELSE <<"loc", n, place[i], s[i].kind>>
  BY <1>1 DEF Id, Parsed
<1>3. QED
  BY <1>2 DEF There

(* No two lines are placed on one. *)
LEMMA PlacedApart ==
  ASSUME NEW s, NEW t, NEW place, Placed(s, t, place),
         NEW i \in Filled(s), NEW k \in Filled(s), place[i] = place[k]
  PROVE  i = k
<1>1. i \in Nat /\ k \in Nat /\ place[i] \in Nat
  <2>1. Len(s) \in Nat /\ Len(t) \in Nat /\ i \in 1..Len(s) /\ k \in 1..Len(s) /\ place[i] \in 1..Len(t)
    BY Stays DEF Placed
  <2>2. QED
    BY <2>1
<1>2. (i < k => place[i] < place[k]) /\ (k < i => place[k] < place[i])
  BY DEF Placed, MovedBy
<1>3. QED
  BY <1>1, <1>2

(* Names that differ still differ afterwards.                              *)
LEMMA IdsApart ==
  ASSUME NEW s, NEW t, NEW place, Placed(s, t, place),
         NEW i \in Filled(s), NEW k \in Filled(s), NEW n, NEW m,
         There(place, Id(Parsed(s), <<i, n>>)) = There(place, Id(Parsed(s), <<k, m>>))
  PROVE  Id(Parsed(s), <<i, n>>) = Id(Parsed(s), <<k, m>>)
<1>1. CASE Id(Parsed(s), <<i, n>>) = <<"usr", n>> /\ Id(Parsed(s), <<k, m>>) = <<"usr", m>>
  BY <1>1 DEF There
<1>2. CASE /\ Id(Parsed(s), <<i, n>>) = <<"loc", n, i, s[i].kind>>
           /\ Id(Parsed(s), <<k, m>>) = <<"loc", m, k, s[k].kind>>
  <2>1. <<"loc", n, place[i], s[i].kind>> = <<"loc", m, place[k], s[k].kind>>
    BY <1>2 DEF There
  <2>2. n = m /\ place[i] = place[k] /\ s[i].kind = s[k].kind
    BY <2>1
  <2>3. i = k
    BY <2>2, PlacedApart
  <2>4. QED
    BY <1>2, <2>2, <2>3
<1>3. CASE Id(Parsed(s), <<i, n>>) = <<"usr", n>> /\ Id(Parsed(s), <<k, m>>) = <<"loc", m, k, s[k].kind>>
  BY <1>3 DEF There
<1>4. CASE Id(Parsed(s), <<i, n>>) = <<"loc", n, i, s[i].kind>> /\ Id(Parsed(s), <<k, m>>) = <<"usr", m>>
  BY <1>4 DEF There
<1>5. QED
  BY <1>1, <1>2, <1>3, <1>4, IdThere

(* As many lines are placed as there are places.                           *)
LEMMA AsManyThere ==
  ASSUME NEW s, NEW t, NEW place, Placed(s, t, place), NEW A \in SUBSET Filled(s), NEW B,
         \A i \in A : place[i] \in B, \A j \in B : \E i \in A : place[i] = j
  PROVE  Cardinality(A) \in Nat /\ Cardinality(B) = Cardinality(A)
<1> DEFINE at == [i \in A |-> place[i]]
<1>1. at \in Injection(A, B)
  BY PlacedApart DEF Injection, IsInjective
<1>2. at \in Surjection(A, B)
  BY DEF Surjection
<1>3. ExistsBijection(A, B)
  BY <1>1, <1>2 DEF ExistsBijection, Bijection
<1>4. IsFiniteSet(A)
  <2>1. A \subseteq 1..Len(s) /\ Len(s) \in Nat
    BY DEF Placed, Filled, Lines
  <2>2. IsFiniteSet(1..Len(s))
    BY <2>1, FS_Interval
  <2>3. QED
    BY <2>1, <2>2, FS_Subset
<1>5. QED
  BY <1>3, <1>4, FS_Bijection, FS_CardinalityType

(* A symbol has as many references as before.                              *)
LEMMA CountThere ==
  ASSUME NEW s, NEW t, NEW place, Placed(s, t, place), Own(s), NEW m \in Filled(s), NEW n
  PROVE  LET id == Id(Parsed(s), <<m, n>>)
         IN  /\ RefCount(Parsed(s), id) \in Nat
             /\ RefCount(Parsed(t), There(place, id)) = RefCount(Parsed(s), id)
<1> DEFINE id == Id(Parsed(s), <<m, n>>)
           A == {i \in Refs(Parsed(s)) : RefId(Parsed(s), i) = id}
           B == {j \in Refs(Parsed(t)) : RefId(Parsed(t), j) = There(place, id)}
<1>1. ASSUME NEW i \in Refs(Parsed(s))
      PROVE  RefId(Parsed(s), i) = id <=> RefId(Parsed(t), place[i]) = There(place, id)
  <2>1. PICK k, l : RefersTo(s, i, k, l) /\ RefersTo(t, place[i], place[k], l)
    BY RefThere
  <2>2. /\ k \in Filled(s) /\ RefId(Parsed(s), i) = Id(Parsed(s), <<k, l>>)
        /\ RefId(Parsed(t), place[i]) = Id(Parsed(t), <<place[k], l>>)
    BY <2>1, SeenIsFilled DEF RefersTo
  <2>3. RefId(Parsed(t), place[i]) = There(place, RefId(Parsed(s), i))
    BY <2>2, IdThere
  <2>4. QED
    BY <2>2, <2>3, IdsApart
<1>2. A \in SUBSET Filled(s)
  BY RefsThere
<1>3. \A i \in A : place[i] \in B
  BY <1>1, RefsThere
<1>4. \A j \in B : \E i \in A : place[i] = j
  BY <1>1, RefsThere
<1>5. Cardinality(A) \in Nat /\ Cardinality(B) = Cardinality(A)
  <2> HIDE DEF A, B
  <2>1. QED
    BY <1>2, <1>3, <1>4, AsManyThere
<1>6. QED
  BY <1>5 DEF RefCount

(* A declared name is declared where its line was placed.                  *)
LEMMA DeclaredThere ==
  ASSUME NEW s, NEW t, NEW place, Placed(s, t, place), NEW d \in Decls(Parsed(s))
  PROVE  /\ d[1] \in Filled(s) /\ d = <<d[1], d[2]>>
         /\ <<place[d[1]], d[2]>> \in Decls(Parsed(t))
         /\ Id(Parsed(t), <<place[d[1]], d[2]>>) = There(place, Id(Parsed(s), d))
<1>1. /\ d[1] \in Sees(Parsed(s), "decl") /\ d[2] \in s[d[1]].names /\ d = <<d[1], d[2]>>
      /\ s[d[1]].kind # "template"
  BY Declared
<1>2. d[1] \in Filled(s)
  BY <1>1, SeenIsFilled
<1>3. t[place[d[1]]] = s[d[1]] /\ place[d[1]] \in Sees(Parsed(t), "decl")
  BY <1>1, <1>2, Stays, SeenThere
<1> DEFINE e == <<place[d[1]], d[2]>>
<1>4. e[1] = place[d[1]] /\ e[2] = d[2] /\ e = <<e[1], e[2]>>
  OBVIOUS
<1> HIDE DEF e
<1>5. e \in Decls(Parsed(t))
  BY <1>1, <1>3, <1>4, Declared
<1>6. Id(Parsed(t), <<place[d[1]], d[2]>>) = There(place, Id(Parsed(s), <<d[1], d[2]>>))
  BY <1>2, IdThere
<1>7. QED
  BY <1>1, <1>2, <1>5, <1>6 DEF e

(* A name that carries its line says on which line it is declared.         *)
LEMMA LineOfName ==
  ASSUME NEW s, DOMAIN s \subseteq Nat, NEW d \in Decls(Parsed(s)),
         Id(Parsed(s), d) = <<"loc", d[2], d[1], s[d[1]].kind>>
  PROVE  /\ DeclLine(Parsed(s), Id(Parsed(s), d)) = d[1]
         /\ KindOf(Parsed(s), Id(Parsed(s), d)) = s[d[1]].kind
<1> DEFINE id == Id(Parsed(s), d)
           at == {e[1] : e \in {c \in Decls(Parsed(s)) : Id(Parsed(s), c) = id}}
<1>1. ASSUME NEW e \in Decls(Parsed(s)), Id(Parsed(s), e) = id PROVE e[1] = d[1]
  <2>1. Id(Parsed(s), e) \in {<<"usr", e[2]>>, <<"loc", e[2], e[1], s[e[1]].kind>>}
    BY DEF Id, Parsed
  <2>2. QED
    BY <1>1, <2>1
<1>2. at = {d[1]}
  BY <1>1
<1>3. d[1] \in Nat
  <2>1. d[1] \in Sees(Parsed(s), "decl")
    BY Declared
  <2>2. QED
    BY <2>1 DEF Sees, Parsed
<1>4. \A n \in Nat : Max({n}) = n
  BY DEF Max
<1>5. DeclLine(Parsed(s), id) = d[1]
  BY <1>2, <1>3, <1>4 DEF DeclLine
<1>6. KindOf(Parsed(s), id) = s[d[1]].kind
  BY <1>5 DEF KindOf, Parsed
<1>7. QED
  BY <1>5, <1>6

(* A name that carries its line is found where its line was placed, with   *)
(* its references (symbol_identity_migrated_locally).                      *)
LEMMA NoneLost ==
  ASSUME NEW s, NEW t, NEW place, Placed(s, t, place), Own(s)
  PROVE  LostIdentities(Parsed(s), Parsed(t)) = {}
<1> SUFFICES ASSUME NEW id \in DeclIds(Parsed(s)), id \notin DeclIds(Parsed(t))
             PROVE  MigratedLocally(Parsed(s), Parsed(t), id)
  BY DEF LostIdentities
<1>1. PICK d \in Decls(Parsed(s)) : id = Id(Parsed(s), d)
  BY DEF DeclIds
<1> DEFINE i == d[1]
           n == d[2]
           j == place[i]
           e == <<j, n>>
           x == Id(Parsed(t), e)
<1>2. i \in Filled(s) /\ d = <<i, n>> /\ e \in Decls(Parsed(t)) /\ x = There(place, id)
  BY <1>1, DeclaredThere
<1>3. x \in DeclIds(Parsed(t)) /\ x # id
  BY <1>2 DEF DeclIds
<1>4. id = <<"loc", n, i, s[i].kind>>
  <2>1. id \in {<<"usr", n>>, <<"loc", n, i, s[i].kind>>}
    BY <1>1, <1>2, IdThere
  <2>2. id # <<"usr", n>>
    BY <1>2, <1>3 DEF There
  <2>3. QED
    BY <2>1, <2>2
<1>5. DeclLine(Parsed(s), id) = i /\ KindOf(Parsed(s), id) = s[i].kind
  <2>1. DOMAIN s \subseteq Nat
    BY DEF Placed
  <2>2. QED
    BY <1>1, <1>4, <2>1, LineOfName
<1>6. t[j] = s[i] /\ j \in (i - IdentityShift)..(i + IdentityShift)
  BY <1>2, Stays
<1>7. x \in IdsAt(Parsed(t), j)
  <2>1. e[1] = j
    OBVIOUS
  <2>2. QED
    BY <1>2, <2>1 DEF IdsAt
<1>8. KindOf(Parsed(t), x) = s[i].kind
  <2>1. x = <<"loc", n, j, s[i].kind>>
    BY <1>2, <1>4 DEF There
  <2>2. e[1] = j /\ e[2] = n
    OBVIOUS
  <2>3. DOMAIN t \subseteq Nat
    BY DEF Placed
  <2>4. KindOf(Parsed(t), x) = t[e[1]].kind
    BY <1>2, <1>6, <2>1, <2>2, <2>3, LineOfName
  <2>5. QED
    BY <1>6, <2>2, <2>4
<1>9. RefCount(Parsed(t), x) >= RefCount(Parsed(s), id) - 1
  <2>1. RefCount(Parsed(s), id) \in Nat /\ RefCount(Parsed(t), x) = RefCount(Parsed(s), id)
    BY <1>1, <1>2, CountThere
  <2>2. QED
    BY <2>1
<1> HIDE DEF i, j, n, e, x
<1>10. QED
  BY <1>5, <1>6, <1>7, <1>8, <1>9 DEF MigratedLocally

(* A name that clang gives keeps all its references.                       *)
LEMMA NoneDropped ==
  ASSUME NEW s, NEW t, NEW place, Placed(s, t, place), Own(s), NEW tolerance \in Nat
  PROVE  DroppedReferences(Parsed(s), Parsed(t), tolerance) = {}
<1> SUFFICES ASSUME NEW id \in UsrIds(Parsed(s))
             PROVE  /\ id \in UsrIds(Parsed(t)) /\ RefCount(Parsed(s), id) \in Nat
                    /\ RefCount(Parsed(t), id) = RefCount(Parsed(s), id)
  BY DEF DroppedReferences
<1>1. PICK d \in Decls(Parsed(s)) : id = Id(Parsed(s), d) /\ s[d[1]].usr
  BY DEF UsrIds, Parsed
<1>2. /\ d[1] \in Filled(s) /\ d = <<d[1], d[2]>>
      /\ <<place[d[1]], d[2]>> \in Decls(Parsed(t))
      /\ Id(Parsed(t), <<place[d[1]], d[2]>>) = There(place, id)
  BY <1>1, DeclaredThere
<1>3. id = <<"usr", d[2]>>
  BY <1>1 DEF Id, Parsed
<1>4. There(place, id) = id
  BY <1>3 DEF There
<1>5. t[place[d[1]]] = s[d[1]]
  BY <1>2, Stays
<1>6. id \in UsrIds(Parsed(t))
  BY <1>1, <1>2, <1>4, <1>5 DEF UsrIds, Parsed
<1>7. QED
  BY <1>1, <1>2, <1>4, <1>6, CountThere

(* A reference without a declaration in the snapshot is one to a template, *)
(* and it was there before.                                                *)
LEMMA NoOrphans ==
  ASSUME NEW s, NEW t, NEW place, Placed(s, t, place), Own(s)
  PROVE  Orphans(Parsed(s), Parsed(t)) = {}
<1> SUFFICES ASSUME NEW id \in RefIds(Parsed(t)), id \notin DeclIds(Parsed(t))
             PROVE  /\ id \notin DeclIds(Parsed(s)) /\ RefCount(Parsed(s), id) \in Nat
                    /\ RefCount(Parsed(t), id) = RefCount(Parsed(s), id)
  BY DEF Orphans
<1>1. PICK j \in Refs(Parsed(t)) : id = RefId(Parsed(t), j)
  BY DEF RefIds
<1>2. PICK i \in Refs(Parsed(s)) : place[i] = j
  BY <1>1, RefsThere
<1>3. PICK m, n : RefersTo(s, i, m, n) /\ RefersTo(t, place[i], place[m], n)
  BY RefThere
<1>4. /\ m \in Sees(Parsed(s), "decl") /\ n \in s[m].names /\ m \in Filled(s)
      /\ id = Id(Parsed(t), <<place[m], n>>)
  BY <1>1, <1>2, <1>3, SeenIsFilled DEF RefersTo
<1>5. s[m].kind = "template"
  <2> DEFINE d == <<m, n>>
  <2>1. d[1] = m /\ d[2] = n /\ d = <<d[1], d[2]>>
    OBVIOUS
  <2> HIDE DEF d
  <2>2. ASSUME s[m].kind # "template" PROVE FALSE
    <3>1. d \in Decls(Parsed(s))
      BY <1>4, <2>1, <2>2, Declared
    <3>2. <<place[m], n>> \in Decls(Parsed(t))
      BY <2>1, <3>1, DeclaredThere
    <3>3. QED
      BY <1>4, <3>2 DEF DeclIds
  <2>3. QED
    BY <2>2
<1>6. Id(Parsed(s), <<m, n>>) = <<"usr", n>>
  BY <1>4, <1>5 DEF Own, OwnNames, Id, Parsed
<1>7. id = <<"usr", n>> /\ There(place, id) = id
  <2>1. id = There(place, Id(Parsed(s), <<m, n>>))
    BY <1>4, IdThere
  <2>2. QED
    BY <1>6, <2>1 DEF There
<1>8. id \notin DeclIds(Parsed(s))
  <2>1. ASSUME NEW d \in Decls(Parsed(s)), id = Id(Parsed(s), d) PROVE FALSE
    <3>1. /\ <<place[d[1]], d[2]>> \in Decls(Parsed(t))
          /\ Id(Parsed(t), <<place[d[1]], d[2]>>) = There(place, id)
      BY <2>1, DeclaredThere
    <3>2. QED
      BY <1>7, <3>1 DEF DeclIds
  <2>2. QED
    BY <2>1 DEF DeclIds
<1>9. RefCount(Parsed(s), id) \in Nat /\ RefCount(Parsed(t), id) = RefCount(Parsed(s), id)
  BY <1>4, <1>6, <1>7, CountThere
<1>10. QED
  BY <1>8, <1>9

(* Blank lines that come or go, and lines that move with them no further   *)
(* than the tolerance, cost no symbol its identity and no reference its    *)
(* declaration, for any text, any layout and any configuration             *)
(* (evaluate_identity, evaluate_reference_integrity).                      *)
THEOREM LayoutIsHarmless == Spec => []LayoutKeepsSymbols
<1>1. Init => Texts
  <2> SUFFICES ASSUME Init PROVE Texts
    OBVIOUS
  <2>1. \A f \in Files : stage[f] \notin Ran
    BY DEF Init, Ran
  <2>2. QED
    BY <2>1, PartsAreFiles DEF Init, Texts
<1>2. Shapes /\ Texts => LayoutKeepsSymbols
  <2> SUFFICES ASSUME Shapes, Texts, NEW f \in DOMAIN scenario.texts, stage[f] = "decide",
                      OwnNames(Parsed(Original(f))), LayoutOnly(Original(f), pass[f].text)
               PROVE  TransitionFailures(scenario.kind, Parsed(Original(f)),
                                         Parsed(pass[f].text), pass[f].edits)
                        \intersect {"identity", "reference"} = {}
    BY DEF LayoutKeepsSymbols
  <2> DEFINE s == Original(f)
             t == pass[f].text
  <2>1. s \in Seq(AllLines) /\ t \in Seq(AllLines)
    BY OriginalsAreTexts DEF Shapes, Texts, Ran
  <2>2. PICK place \in [Filled(s) -> Filled(t)] : MovedBy(s, t, place)
    BY DEF LayoutOnly
  <2> HIDE DEF s, t
  <2>3. Placed(s, t, place)
    BY <2>1, <2>2 DEF Placed
  <2>4. Own(s)
    BY DEF Own, s
  <2>5. ReferenceTolerance(scenario.kind) \in Nat
    BY DEF ReferenceTolerance
  <2>6. /\ LostIdentities(Parsed(s), Parsed(t)) = {}
        /\ DroppedReferences(Parsed(s), Parsed(t), ReferenceTolerance(scenario.kind)) = {}
        /\ Orphans(Parsed(s), Parsed(t)) = {}
    BY <2>3, <2>4, <2>5, NoneLost, NoneDropped, NoOrphans
  <2>7. TransitionFailures(scenario.kind, Parsed(s), Parsed(t), pass[f].edits)
          \intersect {"identity", "reference"} = {}
    BY <2>6 DEF TransitionFailures
  <2>8. QED
    BY <2>7 DEF s, t
<1>3. IInv /\ Texts /\ [Next]_vars => IInv' /\ Texts'
  BY NextPreserves, TextsStay DEF IInv
<1>4. IInv /\ Texts => LayoutKeepsSymbols
  BY <1>2 DEF IInv
<1>5. QED
  BY InitEstablishes, <1>1, <1>3, <1>4, PTL DEF Spec
=============================================================================
