---------------------------- MODULE MCAlgorithms ----------------------------
(* The algorithms that decide on what they are given: in a behaviour one   *)
(* of them gets an input and has its output.  See README.md for the inputs.*)
EXTENDS Integers, Sequences, FiniteSets, SequencesExt, FiniteSetsExt, TLC

CONSTANTS MinSamples, MaxUnits, MaxPaths, FuzzyMin, MaxSets, MinScore,
          TargetSize, MinShards, MaxShards, Parity

VARIABLES input, output

BP == INSTANCE BatchPlan
CS == INSTANCE ConflictSolver
PC == INSTANCE ParseConsensus
SF == INSTANCE StateFrames
NS == INSTANCE NamingStyle
Y == INSTANCE Layout WITH ShortDash <- 4, LongDash <- 8, DashThreshold <- 6, MinDash <- 4,
       TitleLength <- 7, BlankAfter <- 1, MinGroup <- 3, NamedBlocks <- {"namespace", "class", "if"}
R == INSTANCE Rewrites
Q == INSTANCE ContextQueries WITH Width <- 10, LastLine <- 6

ASSUME FrameSizes == SF!Sizes

NoOutput == [is |-> "none"]

(* A header with its implementation, which is in the directory src, one of *)
(* the same name elsewhere, and two headers.                               *)
Files ==
  <<[path |-> 1, parent |-> 1, stem |-> 1, role |-> "header", static |-> 4],
    [path |-> 2, parent |-> 1, stem |-> 1, role |-> "implementation", static |-> 7],
    [path |-> 3, parent |-> 2, stem |-> 1, role |-> "implementation", static |-> 3],
    [path |-> 4, parent |-> 1, stem |-> 2, role |-> "header", static |-> 10],
    [path |-> 5, parent |-> 2, stem |-> 2, role |-> "header", static |-> 1]>>

Observed(e) == [error |-> FALSE, elapsed |-> e, penalty |-> e \div 4]
Observations ==
  {<<>>, <<Observed(90), Observed(90)>>, <<Observed(2), Observed(90), Observed(30)>>,
   <<Observed(1), [Observed(9) EXCEPT !.error = TRUE], Observed(1), Observed(1)>>}
HistoryOf(seen) == FoldLeft(BP!Recorded, BP!NoEntry, seen)

PlanInputs ==
  [is : {"plan"}, files : {SetToSortSeq({Files[i] : i \in S}, LAMBDA f, g : f.path < g.path) :
                             S \in SUBSET DOMAIN Files},
   history : {[p \in DOMAIN Files |-> HistoryOf(IF p = q THEN a ELSE b)] :
                q \in DOMAIN Files, a \in Observations, b \in Observations},
   parallelism : 1 .. 3, mode : {"pass", "worker"}]

(* Edits of five policies around lines 1 to 4: symbols that are shared, a  *)
(* range that covers its neighbours, zones that are not allowed, a clause  *)
(* that is hard, an edit that is worth nothing and two of one line.        *)
Code(policy, line, style) ==
  [policy |-> policy, line |-> line, before |-> 0, after |-> line, zone |-> "code",
   clauses |-> {}, symbols |-> {}, range |-> <<line, line>>, radius |-> 1,
   style |-> style, confidence |-> 20]
Edits ==
  <<[Code("naming_conventions", 1, 30) EXCEPT !.symbols = {1, 2}, !.confidence = 10],
    [Code("class_layout", 2, 20) EXCEPT !.range = <<1, 3>>, !.clauses = {"macro_region_safety"}],
    [Code("include_order", 3, 25) EXCEPT !.zone = "preprocessor", !.symbols = {2}],
    [Code("snake_case", 4, 24) EXCEPT !.symbols = {1}],
    [Code("snake_case", 3, 0) EXCEPT !.confidence = 0, !.symbols = {3}],
    [Code("class_layout", 4, 9) EXCEPT !.clauses = {"edit_safety"}],
    [Code("declaration_alignment", 2, 5) EXCEPT !.confidence = 5],
    [Code("class_layout", 1, 22) EXCEPT !.zone = "comments"],
    [Code("include_guards", 5, 18) EXCEPT !.symbols = {1}, !.range = <<4, 5>>],
    Code("class_layout", 4, 33)>>

SolveInputs ==
  {[is |-> "solve", edits |-> {Edits[i] : i \in S}, selected |-> {Edits[i] : i \in T},
    threshold |-> t, narrow |-> n] :
     S \in {S \in SUBSET DOMAIN Edits : Cardinality(S) \in 1 .. 6},
     T \in {{}, {3}, {9}}, t \in {2, 8}, n \in {0, 2}}

Incoming == SetToSeq(CS!Assess(CS!Candidates(input.edits)).allowed)

(* A header, its companion in another directory, a source next to it, the  *)
(* test of another one and a source far away, which has the arguments of   *)
(* the companion.                                                          *)
Source(path, parent, stem, base, ext) ==
  [path |-> path, parent |-> parent, stem |-> stem, base |-> base, ext |-> ext]
Header == Source(1, "include", "a", "a", "h")
Companion == Source(2, "src", "a", "a", "cpp")
Beside == Source(3, "include", "ab", "ab", "cpp")
Test == Source(4, "src", "a_test", "a", "cpp")
Far == Source(5, "far", "c", "c", "cpp")
Entries ==
  {[file |-> Companion, args |-> 1, includes |-> {"include"}], [file |-> Beside, args |-> 2, includes |-> {}],
   [file |-> Test, args |-> 3, includes |-> {"src"}], [file |-> Far, args |-> 1, includes |-> {}]}
Longer == [b \in {"a", "ab", "c"} |-> IF b = "a" THEN {"ab"} ELSE {}]
Units == {{"include", "src"}}

Problem(severity) == [place |-> 1, severity |-> severity]
Symbol(x) == [name |-> x, place |-> 1]
Clean == [ok |-> TRUE, symbols |-> {Symbol("x"), Symbol("y")},
          renames |-> {<<"x", 1>>, <<"x", 2>>}, entries |-> <<>>]
Replies ==
  {<<>>, <<Clean>>, <<[Clean EXCEPT !.symbols = {Symbol("x")}, !.renames = {<<"x", 2>>}]>>,
   <<[Clean EXCEPT !.symbols = {}, !.renames = {}, !.entries = <<Problem("warning")>>]>>,
   <<[Clean EXCEPT !.ok = FALSE, !.entries = <<Problem("fatal")>>]>>,
   <<[Clean EXCEPT !.ok = FALSE, !.entries = <<Problem("fatal"), Problem("fatal")>>]>>}

ParseInputs ==
  [is : {"parse"}, file : {Header, Companion, Test, Beside}, entries : SUBSET Entries,
   mode : {"args", "merge"}, replies : [1 .. 3 -> Replies]]

(* Payloads that fill their shards, that do not, and that are long; damage *)
(* to any three shards, to the table and to each field of the header.      *)
Payloads == UNION {[1 .. n -> {0, 1}] : n \in 0 .. 3} \union {[i \in 1 .. n |-> i] : n \in 5 .. 8}
Few(S) == {T \in SUBSET S : Cardinality(T) <= 3}
DamageInputs ==
  [is : {"frame"}, kind : {"state", "stream"}, payload : Payloads,
   damage : [shards : Few(1 .. 5), table : {{}, {1}, {2, 4}}, len : {0, 2, 5, 10},
             payload : BOOLEAN, data : {0, 3}, size : {0}]
            \union [shards : {{}}, table : {{}}, len : {0}, payload : {FALSE}, data : {0}, size : {0, 1}]]

(* Names of up to four characters, among them prefixes and capitals.       *)
Letters == {"a", "s", "A", "S", "1", "_"}
Names == UNION {{n \in [1 .. k -> Letters] : n[1] # "1"} : k \in 1 .. 4}
Plain == [is |-> "declaration", seen |-> "variable", name |-> <<>>, global |-> FALSE,
          static |-> FALSE, const |-> FALSE, volatile |-> FALSE, inMethod |-> FALSE,
          type |-> "plain", template |-> "none", thread |-> FALSE, loop |-> FALSE,
          operator |-> FALSE, ofClass |-> FALSE]
Subjects ==
  {Plain, [Plain EXCEPT !.global = TRUE, !.const = TRUE], [Plain EXCEPT !.seen = "none", !.static = TRUE],
   [Plain EXCEPT !.static = TRUE, !.inMethod = TRUE, !.type = "pointer"],
   [Plain EXCEPT !.type = "template", !.template = "shared_ptr", !.volatile = TRUE],
   [Plain EXCEPT !.global = TRUE, !.type = "template", !.template = "other", !.thread = TRUE],
   [Plain EXCEPT !.seen = "parameter"], [Plain EXCEPT !.seen = "field", !.type = "reference"],
   [Plain EXCEPT !.is = "function", !.seen = "function"],
   [Plain EXCEPT !.is = "function", !.seen = "none", !.ofClass = TRUE],
   [Plain EXCEPT !.is = "function", !.seen = "constructor"],
   [Plain EXCEPT !.is = "parameter", !.seen = "parameter"]}
NameInputs ==
  [is : {"name"}, of : {[s EXCEPT !.name = n] : s \in Subjects, n \in Names}, spare : BOOLEAN]

(* Files of a few lines for the policies that look at lines of one kind,   *)
(* in any order.                                                           *)
Lines(of, n) == UNION {[1 .. k -> of] : k \in 1 .. n}
Comments ==
  {[Y!Line("comment") EXCEPT !.of = "dash", !.at = n] : n \in {4, 7}} \cup
  {[Y!Line("comment") EXCEPT !.of = t, !.at = 5] : t \in {"alias", "macros"}} \cup
  {[Y!Line("comment") EXCEPT !.of = "title", !.at = 7],
   [Y!Line("end") EXCEPT !.closes = <<"if", "class", "namespace">>], Y!Line("define")}
Include(quotes, rank, within) ==
  [Y!Line("include") EXCEPT !.of = quotes, !.at = rank, !.within = within, !.comment = rank = 2]
Tops ==
  {Include("angle", 2, {"standard"}), Include("angle", 1, {}), Include("double", 2, {"project"}),
   Include("double", 1, {"main"}), Y!Blank, [Y!Blank EXCEPT !.spaces = TRUE],
   Y!Line("pragma"), Y!Line("ifndef"), Y!Line("guard"), [Y!Line("code") EXCEPT !.unsafe = TRUE]}
Decl(type, names) == [Y!Line("decl") EXCEPT !.decls = <<[type |-> type, names |-> names]>>]
Decls ==
  {Decl("int", <<1>>), Decl("int", <<2, 3>>), [Decl("int", <<4>>) EXCEPT !.unsafe = TRUE],
   Decl("long", <<5>>), Y!Blank} \cup
  {[Y!Line(is) EXCEPT !.at = n, !.column = n + 2] : is \in {"clause", "assign"}, n \in {3, 6}}

LayoutInputs ==
  [is : {"layout"}, header : BOOLEAN, lines : Lines(Comments, 4),
   policies : SetToAllKPermutations({"dash_comment_normalizer", "section_title_normalizer"})
              \cup {<<"lua_macro_spacing">>, <<"namespace_end_comments">>}]
  \cup [is : {"layout"}, header : BOOLEAN, lines : Lines(Tops, 4),
        policies : {<<g, "pragma_once_spacing", "include_order">> :
                      g \in {"include_guards", "include_guards both"}}]
  \cup [is : {"layout"}, header : {FALSE}, lines : Lines(Decls, 5),
        policies : {<<"compact_declarations", "declaration_alignment">>}]

(* Texts: operators between operands, declarators, names of operators.     *)
Spaces(n) == {[k \in 1 .. m |-> " "] : m \in 0 .. n}
Operands == {<<"x">>, <<"(", "x", ")">>, <<"'&&'">>}
Conditions ==
  {a \o s \o <<op>> \o r \o b \o <<";">> :
     a \in Operands \cup {<<"x", " ", "||", "x">>}, s \in Spaces(1), op \in {"&&", "||"},
     r \in Spaces(1), b \in Operands}
Declarators ==
  {<<f>> \o s \o <<"(">> \o p \o <<")">> :
     f \in R!Functions, s \in Spaces(2), p \in {<<>>, <<" ">>, <<"void">>, <<" ", "void">>, <<"x">>}}
OperatorTexts ==
  {<<"x", " ", "operator">> \o s \o <<k, "(", ")">> : s \in Spaces(2), k \in {"+", "-", "new"}}
TextInputs ==
  [is : {"text"}, policy : {"keywords", "and"}, text : Conditions]
  \cup [is : {"text"}, policy : {"void", "no void"},
        text : {a \o <<";">> \o b : a \in Declarators, b \in Declarators}
               \cup {<<"(">> \o d \o <<")", "(", ")">> : d \in Declarators}]
  \cup [is : {"text"}, policy : {"operators"},
        text : OperatorTexts \cup {a \o <<";">> \o b : a \in OperatorTexts, b \in OperatorTexts}]

NumberTypes == {"int", "long", "long long", "unsigned", "unsigned long", "unsigned long long",
                "float", "double", "long double", "float128"}
NumberInputs ==
  [is : {"number"}, types : {<<t>> : t \in NumberTypes} \cup {<<"int", "long">>, <<"double", "float">>},
   literal : [form : {"whole", "hex"}, digits : {1}, zeros : {0}, suffix : {"", "U", "L", "UL", "LL", "ULL"}]
             \cup [form : {"float"}, digits : {1, 2}, zeros : 0 .. 2, suffix : {"", "f", "L", "Q"}]]

(* A header of six lines: its guard and the macro of it, whose node ends   *)
(* with the line after it, a namespace, a class, a function and its        *)
(* declarator, conditionals in and around them, two on one line.           *)
Scope(kind, from, to) == [kind |-> kind, from |-> from, to |-> to]
ScopesMC ==
  {Scope("preproc_ifdef", 10, 66), Scope("preproc_def", 20, 30), Scope("namespace_definition", 30, 65),
   Scope("class_specifier", 32, 55), Scope("function_definition", 41, 54), Scope("function_declarator", 43, 47),
   Scope("preproc_if", 31, 49), Scope("preproc_else", 44, 49), Scope("preproc_if", 50, 61),
   Scope("template_declaration", 40, 47)}
Nested(S) ==
  \A s, t \in S : s.to <= t.from \/ t.to <= s.from \/ Q!Inside(s, t) \/ Q!Inside(t, s) \/ s = t
ContextInputs ==
  [is : {"context"},
   of : [scopes : {S \in SUBSET ScopesMC : Cardinality(S) <= 4 /\ Nested(S)},
         decls : SUBSET {3, 4}, refs : SUBSET {4, 5}, errors : SUBSET {3, 4}, warnings : SUBSET {4}]]

Init == input \in PlanInputs \union SolveInputs \union ParseInputs \union DamageInputs
                  \union NameInputs \union LayoutInputs \union TextInputs \union NumberInputs
                  \union ContextInputs
        /\ output = NoOutput

Plan ==
  /\ input.is = "plan" /\ output = NoOutput
  /\ output' = [is |-> "plan", batches |-> BP!PlanBatches(input.files, input.history,
                                                         input.parallelism, input.mode)]
  /\ UNCHANGED input

Solve ==
  /\ input.is = "solve" /\ output = NoOutput
  /\ output' = [is |-> "solve", choice |-> CS!Solve(Incoming, input.selected,
                                                   input.threshold, input.narrow)]
  /\ UNCHANGED input

(* Of the arguments of a parse the last ones tell it apart.                *)
Configured == 1
Reply(args) == input.replies[Last(PC!Selected(input.mode, Configured, args))]
Context == PC!Context(input.file, input.entries, Units, Longer)
Answers(context) == [i \in DOMAIN context.sets |-> Reply(context.sets[i])]

Parse ==
  /\ input.is = "parse" /\ output = NoOutput
  /\ output' = [is |-> "parse", result |-> PC!Consensus(Context, Answers(Context))]
  /\ UNCHANGED input

Decode ==
  /\ input.is = "frame" /\ output = NoOutput
  /\ LET frame == SF!Encoded(input.kind, input.payload) IN
     output' = [is |-> "frame", result |-> SF!Decode(SF!Damage(frame, input.damage), frame)]
  /\ UNCHANGED input

Rename ==
  /\ input.is = "name" /\ output = NoOutput
  /\ output' = [is |-> "name", name |-> NS!Wanted(input.of)]
  /\ UNCHANGED input

File == [header |-> input.header, lines |-> input.lines]
Format ==
  /\ input.is = "layout" /\ output = NoOutput
  /\ output' = [is |-> "layout", file |-> Y!Formatted(input.policies, File)]
  /\ UNCHANGED input

Rewrite ==
  /\ input.is = "text" /\ output = NoOutput
  /\ output' = [is |-> "text", text |-> R!Rewritten(input.policy, input.text)]
  /\ UNCHANGED input

Suffix ==
  /\ input.is = "number" /\ output = NoOutput
  /\ output' = [is |-> "number", literal |-> R!NumericSuffix(input.literal, input.types)]
  /\ UNCHANGED input

Query ==
  /\ input.is = "context" /\ output = NoOutput
  /\ output' = [is |-> "context", profiles |-> [l \in 1 .. 6 |-> Q!Profile(input.of, l)]]
  /\ UNCHANGED input

Next == Plan \/ Solve \/ Parse \/ Decode \/ Rename \/ Format \/ Rewrite \/ Suffix \/ Query
Spec == Init /\ [][Next]_<<input, output>>

(* Batches split the files, keep headers with their implementations and    *)
(* the limits of their mode (BatchPlan: scheduler.rs, plan_batches).       *)
PlanIsFair ==
  output.is = "plan" =>
    BP!PlanIsFair(input.files, input.history, input.parallelism, input.mode, output.batches)

(* Accepted edits are not in each other's way, and no other choice is      *)
(* worth more (ConflictSolver: conflict_solver.rs, solve).                 *)
ChoiceIsBest ==
  output.is = "solve" =>
    CS!ChoiceIsBest(Incoming, input.selected, input.threshold, input.narrow, output.choice)

(* A file is parsed with the arguments that fit it best, and a header says *)
(* what more than half of its parses say (ParseConsensus: compdb_index.rs, *)
(* consensus.rs).                                                          *)
ConsensusIsMajority ==
  output.is = "parse" =>
    /\ PC!ContextFits(input.file, input.entries, Units, Longer)
    /\ PC!MajorityRules(Context, Answers(Context), output.result)

(* A damaged state file reads as what was written or as an error           *)
(* (StateFrames: codec.rs, decode_binary; ecc_frame.rs, read_frame).       *)
FrameIsTrue ==
  output.is = "frame" =>
    SF!FrameIsTrue(input.kind, input.payload, input.damage, output.result)

(* What a policy has formatted it leaves alone, at the latest after three  *)
(* passes, and it says what it said before (NamingStyle, Layout, Rewrites: *)
(* apply of the policies).                                                 *)
PoliciesSettle ==
  CASE output.is = "name" -> NS!NamesSettle(input.of, "both", input.spare, output.name)
    [] output.is = "layout" -> Y!LayoutSettles(input.policies, File, output.file)
    [] output.is = "text" -> R!RewriteSettles(input.policy, input.text, output.text)
    [] output.is = "number" -> R!SuffixSettles(input.literal, input.types, output.literal)
    [] OTHER -> TRUE

(* What policies are told of a line is what the tree and clang say of it   *)
(* (ContextQueries: context_query.rs, the queries by line).                  *)
ProfileIsTrue ==
  output.is = "context" =>
    \A l \in 1 .. 6 : Q!ProfileIsTrue(input.of, l, output.profiles[l])
=============================================================================
