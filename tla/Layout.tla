------------------------------- MODULE Layout -------------------------------
(***************************************************************************)
(* The policies that work on the lines of a file (src/policy).  A file is  *)
(* whether it is a header and its lines; a line has what its kind needs:   *)
(*   of       the text of a comment, or the quotes of an include           *)
(*   at       the length of a comment or of what precedes a "=", the rank  *)
(*            of the header of an include                                  *)
(*   column   where the "=" is                                             *)
(*   within   the sets of headers that the header of an include is in      *)
(*   closes   the kinds of the blocks that end here, the outer first       *)
(*   decls    its declarations: a type and the plain names after it        *)
(*   comment, spaces, unsafe  whether a comment follows, whether a blank   *)
(*            line has spaces, whether it must not be edited               *)
(***************************************************************************)
LOCAL INSTANCE Integers
LOCAL INSTANCE Sequences
LOCAL INSTANCE FiniteSets
LOCAL INSTANCE SequencesExt
LOCAL INSTANCE FiniteSetsExt

CONSTANTS ShortDash, LongDash, DashThreshold, MinDash, TitleLength,
          BlankAfter, MinGroup, NamedBlocks

Line(is) == [is |-> is, of |-> "", at |-> 0, column |-> 0, within |-> {}, closes |-> <<>>,
             decls |-> <<>>, comment |-> FALSE, spaces |-> FALSE, unsafe |-> FALSE]
Blank == Line("blank")

EachLine(f, New(_, _)) == [f EXCEPT !.lines = [i \in DOMAIN f.lines |-> New(f.lines, i)]]
Comment(line, texts) == line.is = "comment" /\ line.of \in texts
Rule(line) == Comment(line, {"dash", "empty"})

----------------------------------------------------------------------------
(* dash_comment_normalizer, mode auto: a rule is at least as long as the   *)
(* title above it, or below it.                                            *)
TitleNear(lines, i) ==
  LET near == SelectSeq(<<i - 1, i + 1>>, LAMBDA j :
                j \in DOMAIN lines /\ lines[j].is = "comment" /\ ~Rule(lines[j]))
  IN IF near = <<>> THEN {} ELSE {lines[near[1]].at, MinDash}
DashLength(lines, i) ==
  Max({IF lines[i].at >= DashThreshold THEN LongDash ELSE ShortDash} \cup TitleNear(lines, i))
Dashed(lines, i) ==
  IF Comment(lines[i], {"dash"}) /\ ~lines[i].unsafe
  THEN [lines[i] EXCEPT !.at = DashLength(lines, i)] ELSE lines[i]

(* section_title_normalizer: an alias of a title becomes the title.        *)
Titled(lines, i) ==
  IF Comment(lines[i], {"alias"}) /\ ~lines[i].unsafe
  THEN [lines[i] EXCEPT !.of = "title", !.at = TitleLength] ELSE lines[i]

(* lua_macro_spacing: a blank line after the heading of the macros.        *)
MacroHeading(lines, i) ==
  /\ i > 1 /\ i < Len(lines) /\ Comment(lines[i], {"macros"})
  /\ Rule(lines[i - 1]) /\ Rule(lines[i + 1])
MacroSpacing(f) ==
  IF f.header THEN f
  ELSE [f EXCEPT !.lines = FlattenSeq([i \in DOMAIN f.lines |->
    IF i > 2 /\ MacroHeading(f.lines, i - 2) /\ f.lines[i].is = "define" /\ ~f.lines[i].unsafe
    THEN <<Blank, f.lines[i]>> ELSE <<f.lines[i]>>])]

(* namespace_end_comments: of the blocks that end on a line the outermost  *)
(* is named, unless something follows the brace.                           *)
Appended(kind) == kind \in {"namespace", "class", "struct"}
Unremarked(line) == FALSE
HasComment(line) == line.comment
EndNamed(lines, i) ==
  LET kinds == SelectSeq(lines[i].closes, LAMBDA k : k \in NamedBlocks /\ Appended(k))
  IN IF lines[i].unsafe \/ HasComment(lines[i]) \/ kinds = <<>> THEN lines[i]
     ELSE [lines[i] EXCEPT !.comment = TRUE, !.of = lines[i].of \o Head(kinds)]

----------------------------------------------------------------------------
FirstOf(lines, S) == LET at == {i \in DOMAIN lines : i \in S} IN IF at = {} THEN 0 ELSE Min(at)
Being(lines, is) == {i \in DOMAIN lines : lines[i].is = is}
Safe(lines, S) == \A i \in S \cap DOMAIN lines : ~lines[i].unsafe

(* pragma_once_spacing: a line that is missing counts as one without       *)
(* spaces, so only blank lines that have some count as an edit.            *)
PragmaSpacing(f) ==
  LET p == FirstOf(f.lines, Being(f.lines, "pragma"))
      next == FirstOf(f.lines, {i \in DOMAIN f.lines : i > p /\ f.lines[i].is # "blank"})
      blanks == IF next = 0 THEN Len(f.lines) - p ELSE next - p - 1
      edited == \E i \in p + 1 .. p + blanks : f.lines[i].spaces
  IN IF p = 0 \/ blanks = BlankAfter \/ ~edited
        \/ ~Safe(f.lines, p .. p + Max({blanks, BlankAfter}))
     THEN f
     ELSE [f EXCEPT !.lines = SubSeq(f.lines, 1, p) \o [i \in 1 .. BlankAfter |-> Blank]
                              \o SubSeq(f.lines, p + blanks + 1, Len(f.lines))]

(* include_guards: of what a header lacks, the pragma goes below the first *)
(* comments, the guard around everything.  Whether lines are safe is asked *)
(* by number of the text as it came, for the guard below a new pragma too. *)
TopInsert(lines) ==
  LET code == FirstOf(lines, {i \in DOMAIN lines : lines[i].is \notin {"blank", "comment"}})
  IN IF code = 0 THEN Len(lines) + 1 ELSE code
Guarded(lines) ==
  \E i \in Being(lines, "ifndef"), j \in Being(lines, "guard") : i < j
WithPragma(lines) ==
  IF Safe(lines, {TopInsert(lines)})
  THEN InsertAt(lines, TopInsert(lines), Line("pragma")) ELSE lines
WithGuard(f, lines) ==
  IF ~Safe(f.lines, {1, Len(lines)}) THEN lines
  ELSE <<Line("ifndef"), Line("guard")>> \o lines
       \o (IF lines # <<>> /\ Last(lines).is = "blank" THEN <<>> ELSE <<Blank>>) \o <<Line("endif")>>
IncludeGuards(f, mode) ==
  LET pragma == mode \in {"pragma_once", "both"} /\ Being(f.lines, "pragma") = {}
      guard == mode \in {"include_guard", "both"} /\ ~Guarded(f.lines)
      topped == IF pragma THEN WithPragma(f.lines) ELSE f.lines
  IN IF ~f.header THEN f
     ELSE [f EXCEPT !.lines = IF guard THEN WithGuard(f, topped) ELSE topped]

(* include_order: the first includes that follow each other, by group.     *)
Group(line, header) ==
  IF ~header /\ "main" \in line.within THEN "main"
  ELSE IF line.of = "angle" THEN IF "standard" \in line.within THEN "standard" ELSE "third_party"
  ELSE IF "project" \in line.within THEN "project" ELSE "local"
GroupOrder(header) ==
  (IF header THEN <<>> ELSE <<"main">>) \o <<"standard", "third_party", "project", "local">>
Spelled(line) == [line EXCEPT !.comment = FALSE, !.unsafe = FALSE]
IncludeOrder(f) ==
  LET first == FirstOf(f.lines, Being(f.lines, "include"))
      end == FirstOf(f.lines, {i \in DOMAIN f.lines : i > first /\ f.lines[i].is # "include"})
      last == IF end = 0 THEN Len(f.lines) ELSE end - 1
      Members(g) == {i \in first .. last : Group(f.lines[i], f.header) = g}
      Earlier(i, j) == \/ f.lines[i].at < f.lines[j].at
                       \/ f.lines[i].at = f.lines[j].at /\ i < j
      block == FlattenSeq([g \in DOMAIN GroupOrder(f.header) |->
                 LET members == SetToSortSeq(Members(GroupOrder(f.header)[g]), Earlier)
                 IN [k \in DOMAIN members |-> Spelled(f.lines[members[k]])]])
  IN IF first = 0 THEN f
     ELSE [f EXCEPT !.lines = SubSeq(f.lines, 1, first - 1) \o block
                              \o SubSeq(f.lines, last + 1, Len(f.lines))]

----------------------------------------------------------------------------
(* declaration_alignment: the "=" of lines that follow each other, at most *)
(* a blank line or a rule between them, come to stand in one column;       *)
(* clauses ("= delete", "= default") first, then the other lines.          *)
Near(lines, i, j) ==
  /\ j - i <= 2
  /\ \A k \in i + 1 .. j - 1 : lines[k].is = "blank" \/ Rule(lines[k])
Linked(lines, hits, i, j) ==
  LET lo == Min({i, j})
      hi == Max({i, j})
  IN \A a \in hits \cap (lo .. hi - 1) :
       Near(lines, a, Min({b \in hits : b > a}))
Aligned(lines, is) ==
  LET hits == Being(lines, is)
      Peers(i) == {j \in hits : Linked(lines, hits, i, j)}
  IN [i \in DOMAIN lines |->
       IF i \in hits /\ Peers(i) # {i}
       THEN [lines[i] EXCEPT !.column = Max({lines[j].at : j \in Peers(i)}) + 1] ELSE lines[i]]
DeclarationAlignment(f) == [f EXCEPT !.lines = Aligned(Aligned(f.lines, "clause"), "assign")]

(* compact_declarations: lines of one type that follow each other become   *)
(* one; of a line it knows the last declaration, of that its first name.   *)
Candidate(lines, i) == Last(lines[i].decls)
Groupable(lines, i, j) ==
  \A k \in i .. j : /\ k \in Being(lines, "decl")
                    /\ Candidate(lines, k).type = Candidate(lines, i).type
GroupEnd(lines, i) == Max({j \in i .. Len(lines) : Groupable(lines, i, j)})
OneLine(lines, i, j) ==
  [Line("decl") EXCEPT !.decls =
     <<[type |-> Candidate(lines, i).type,
        names |-> [k \in 1 .. j - i + 1 |-> Head(Candidate(lines, i + k - 1).names)]]>>]
CompactDeclarations(f) ==
  LET from[i \in 1 .. Len(f.lines) + 1] ==
        IF i > Len(f.lines) THEN <<>>
        ELSE LET j == IF f.lines[i].is = "decl" THEN GroupEnd(f.lines, i) ELSE i
             IN IF j - i + 1 >= MinGroup /\ f.lines[i].is = "decl" /\ Safe(f.lines, i .. j)
                THEN <<OneLine(f.lines, i, j)>> \o from[j + 1]
                ELSE <<f.lines[i]>> \o from[i + 1]
  IN [f EXCEPT !.lines = from[1]]

----------------------------------------------------------------------------
Apply(policy, f) ==
  CASE policy = "dash_comment_normalizer" -> EachLine(f, Dashed)
    [] policy = "section_title_normalizer" -> EachLine(f, Titled)
    [] policy = "lua_macro_spacing" -> MacroSpacing(f)
    [] policy = "namespace_end_comments" -> EachLine(f, EndNamed)
    [] policy = "pragma_once_spacing" -> PragmaSpacing(f)
    [] policy = "include_guards" -> IncludeGuards(f, "pragma_once")
    [] policy = "include_guards both" -> IncludeGuards(f, "both")
    [] policy = "include_order" -> IncludeOrder(f)
    [] policy = "declaration_alignment" -> DeclarationAlignment(f)
    [] policy = "compact_declarations" -> CompactDeclarations(f)
Formatted(policies, f) == FoldLeft(LAMBDA g, p : Apply(p, g), f, policies)

(* What a file says: its includes, in whatever order, and the rest of it.  *)
Names(line) ==
  FlattenSeq([d \in DOMAIN line.decls |->
    [k \in DOMAIN line.decls[d].names |-> <<line.decls[d].type, line.decls[d].names[k]>>]])
Declared(lines) == FlattenSeq([i \in DOMAIN lines |-> Names(lines[i])])
Included(lines) ==
  LET includes == SelectSeq(lines, LAMBDA l : l.is = "include")
      Key(l) == <<l.of, l.at>>
  IN {<<Key(includes[i]), Cardinality({j \in DOMAIN includes : Key(includes[j]) = Key(includes[i])})>> :
        i \in DOMAIN includes}
Rest(lines) ==
  LET rest == SelectSeq(lines, LAMBDA l : l.is \in {"code", "clause", "assign", "define", "end"})
  IN [i \in DOMAIN rest |-> <<rest[i].is, rest[i].at>>]

(* Of a line that declares one variable, the variable stays; grouping      *)
(* loses the further ones of a line (candidate_from_node takes one).       *)
KeepsNames(before, after) ==
  LET alone == {i \in DOMAIN before : Len(Names(before[i])) = 1} IN
  /\ \A i \in alone : Names(before[i])[1] \in ToSet(Declared(after))
  /\ ToSet(Declared(after)) \subseteq ToSet(Declared(before))

KeepsCode(before, after) ==
  /\ KeepsNames(before.lines, after.lines)
  /\ Included(after.lines) = Included(before.lines)
  /\ Rest(after.lines) = Rest(before.lines)

(* A file whose layout the policies have changed three times stays as it   *)
(* is, and says what it said before (each policy's apply).                 *)
LayoutSettles(policies, f, formatted) ==
  LET third == Formatted(policies, Formatted(policies, formatted)) IN
    /\ Formatted(policies, third) = third
    /\ KeepsCode(f, third)

=============================================================================
