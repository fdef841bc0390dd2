--------------------------- MODULE ParseConsensus ---------------------------
(***************************************************************************)
(* How a file without a compile command of its own is parsed by the        *)
(* commands of others (parser/compdb_index.rs, parser/arg_resolver.rs,     *)
(* parser/manager.rs), and what is made of the parses                      *)
(* (parser/consensus.rs).                                                  *)
(*                                                                         *)
(* A file is [path, parent, stem, base, ext], where base is the stem       *)
(* without _test, _bench and the like, an entry of the compile commands    *)
(* [file, args, includes]: its arguments, and the directories of its -I.   *)
(* A parse is [ok, symbols, renames, entries]: the declarations, the pairs *)
(* <<symbol, offset>> and the diagnostics [place, severity], in a sequence.*)
(***************************************************************************)
EXTENDS Integers, Sequences, FiniteSets, SequencesExt, FiniteSetsExt

CONSTANTS
  MaxSets,      (* MAX_HEADER_CONSENSUS_ARGSETS, MAX_SOURCE_CONSENSUS_...  *)
  MinScore      (* SOURCE_CONSENSUS_MIN_SCORE                              *)

If(condition, points) == IF condition THEN points ELSE 0

----------------------------------------------------------------------------
(* Whose arguments to take.                                                *)

IsHeader(file) == file.ext = "h"

(* The companions of a header: the same stem, in its directory or one that *)
(* only has src or source for include.                                     *)
Paired(header, entry, units) ==
  /\ entry.file.stem = header.stem /\ entry.file.ext # "h"
  /\ {entry.file.parent, header.parent} \in units

HeaderScore(header, entry, units) ==
  If(entry.file.parent = header.parent, 6) + If(Paired(header, entry, units), 12)
  + If(entry.file.stem = header.stem, 5) + If(entry.file.ext # "h", 2)
  + If(header.parent \in entry.includes, 1)

(* One of two different bases may be the start of the other: longer[b] are *)
(* the bases that start with b.                                            *)
SourceScore(source, entry, longer) ==
  If(entry.file.parent = source.parent, 6) + If(entry.file.ext = source.ext, 2)
  + (CASE entry.file.base = source.base -> 10
       [] entry.file.base \in longer[source.base] -> 6
       [] source.base \in longer[entry.file.base] -> 6
       [] OTHER -> 0)
  + If(source.parent \in entry.includes, 1)

Ranked(entries, score) ==
  SetToSortSeq(entries, LAMBDA d, e : \/ score[d] > score[e]
                                      \/ score[d] = score[e] /\ d.file.path < e.file.path)

(* The first MaxSets different arguments of entries that are good enough.  *)
ArgumentSets(enough, score) ==
  LET Add(sets, e) ==
        IF Len(sets) < MaxSets /\ e.args \notin ToSet(sets) THEN Append(sets, e.args) ELSE sets
  IN FoldLeft(Add, <<>>, Ranked(enough, score))

(* header_arg_sets_with_context: the companions, if there are any.         *)
HeaderContext(header, entries, units) ==
  LET score == [e \in entries |-> HeaderScore(header, e, units)]
      paired == ArgumentSets({e \in entries : Paired(header, e, units)}, score)
      others == ArgumentSets({e \in entries : score[e] > 0}, score)
  IN CASE paired # <<>> -> [kind |-> "paired", sets |-> paired]
       [] paired = <<>> /\ others # <<>> -> [kind |-> "consensus", sets |-> others]
       [] OTHER -> [kind |-> "none", sets |-> <<>>]

SourceContext(source, entries, longer) ==
  LET score == [e \in entries |-> SourceScore(source, e, longer)]
      sets == ArgumentSets({e \in entries : score[e] >= MinScore}, score)
  IN [kind |-> IF sets = <<>> THEN "none" ELSE "source", sets |-> sets]

(* semantic_context_kind_for_path: an entry of its own comes first; of two *)
(* entries for one file the later one counts.                              *)
Context(file, entries, units, longer) ==
  LET own == {e \in entries : e.file = file} IN
  CASE own # {} -> [kind |-> "exact", sets |-> <<(CHOOSE e \in own : TRUE).args>>]
    [] own = {} /\ IsHeader(file) -> HeaderContext(file, entries, units)
    [] OTHER -> SourceContext(file, entries, longer)

(* selected_clang_args: what a mode takes of the configured arguments and  *)
(* of those of an entry.                                                   *)
Selected(mode, configured, args) ==
  CASE mode = "args" -> <<configured>>
    [] mode = "compdb" -> <<args>>
    [] mode = "compdb_then_args" -> <<args>>
    [] mode = "merge" -> <<configured, args>>

----------------------------------------------------------------------------
(* What is made of the parses.                                             *)

(* Mutant of Threshold: half is enough.                                    *)
HalfOf(voters) == IF voters = 0 THEN 1 ELSE (voters + 1) \div 2

(* strict_majority_threshold.                                              *)
Threshold(voters) == IF voters = 0 THEN 1 ELSE voters \div 2 + 1

Count(parse, severity) ==
  Cardinality({i \in DOMAIN parse.entries : parse.entries[i].severity = severity})

(* A parse that failed may vote if it has symbols and few errors.          *)
Eligible(parse) ==
  /\ parse.symbols # {}
  /\ parse.ok \/ (Count(parse, "fatal") <= 1 /\ Count(parse, "fatal") + Count(parse, "error") <= 6)

VotersOf(parses) == {i \in DOMAIN parses : Eligible(parses[i])}
Votes(parses, Has(_)) == Cardinality({i \in VotersOf(parses) : Has(parses[i])})

Elected(parses, Has(_)) == Votes(parses, Has) >= Threshold(Cardinality(VotersOf(parses)))

(* A place counts as often as a parse has a diagnostic there.              *)
Mentions(parses, entry) ==
  MapThenSumSet(LAMBDA i : Cardinality({j \in DOMAIN parses[i].entries :
                                          parses[i].entries[j] = entry}),
                DOMAIN parses)

(* merge_header_results, of at least one parse.                            *)
Merged(parses) ==
  LET all(Of(_)) == UNION {Of(parses[i]) : i \in DOMAIN parses} IN
  [ok |-> Cardinality({i \in DOMAIN parses : parses[i].ok}) >= Threshold(Len(parses)),
   symbols |-> {s \in all(LAMBDA p : p.symbols) : Elected(parses, LAMBDA p : s \in p.symbols)},
   renames |-> {r \in all(LAMBDA p : p.renames) : Elected(parses, LAMBDA p : r \in p.renames)},
   entries |-> SetToSeq({e \in all(LAMBDA p : ToSet(p.entries)) :
                           Mentions(parses, e) >= Threshold(Len(parses))})]

Heaviness(parse) ==
  1000 * Count(parse, "fatal") + 100 * Count(parse, "error") + 10 * Count(parse, "warning")

(* should_replace_source_parse: successful, then with lighter diagnostics, *)
(* then with more symbols.                                                 *)
Replaces(p, q) ==
  \/ p.ok /\ ~q.ok
  \/ p.ok = q.ok /\ Heaviness(p) < Heaviness(q)
  \/ p.ok = q.ok /\ Heaviness(p) = Heaviness(q) /\ Cardinality(p.symbols) > Cardinality(q.symbols)

BestOf(parses) ==
  FoldLeft(LAMBDA best, p : IF Replaces(p, best) THEN p ELSE best, Head(parses), parses)

(* A failed request does not vote; without a parse there is no result.     *)
Consensus(context, answers) ==
  LET parses == SelectSeq(answers, LAMBDA a : a # <<>>)
      came == [i \in DOMAIN parses |-> parses[i][1]]
  IN CASE came = <<>> -> <<>>
       [] came # <<>> /\ context.kind \in {"paired", "consensus"} -> <<Merged(came)>>
       [] OTHER -> <<BestOf(came)>>

----------------------------------------------------------------------------
(* A file with an entry of its own is parsed with its arguments; another   *)
(* one with different ones, and none that are left out come from an entry  *)
(* that fits better; a header with companions listens to nobody else       *)
(* (compdb_index.rs).                                                      *)
ContextFits(file, entries, units, longer) ==
  LET context == Context(file, entries, units, longer)
      sets == ToSet(context.sets)
      Score(e) == IF IsHeader(file) THEN HeaderScore(file, e, units)
                  ELSE SourceScore(file, e, longer)
      Best(args) == Max({Score(e) : e \in {d \in entries : d.args = args}})
      heard == IF context.kind = "paired" THEN {e \in entries : Paired(file, e, units)} ELSE entries
  IN /\ Cardinality(sets) = Len(context.sets)
     /\ (\E e \in entries : e.file = file) => context.kind = "exact"
     /\ context.kind = "paired" => \A a \in sets : \E e \in heard : e.args = a
     /\ context.kind \in {"consensus", "source"} =>
          \A e \in heard : e.args \notin sets =>
            \/ Score(e) < (IF IsHeader(file) THEN 1 ELSE MinScore)
            \/ Len(context.sets) = MaxSets /\ \A a \in sets : Best(a) >= Score(e)

(* What the merged parse of a header says was seen by more than half of    *)
(* those that may vote, and everything they agree on is in it; a header is *)
(* well parsed only if more than half of its parses are; and no parse of a *)
(* source is better than the one taken for it (consensus.rs).              *)
MajorityRules(context, answers, result) ==
  LET parses == {answers[i][1] : i \in {j \in DOMAIN answers : answers[j] # <<>>}}
      came == {j \in DOMAIN answers : answers[j] # <<>>}
      voters == {j \in came : Eligible(answers[j][1])}
      Most(in, Has(_)) == 2 * Cardinality({j \in in : Has(answers[j][1])}) > Cardinality(in)
  IN /\ (result = <<>>) = (came = {})
     /\ result # <<>> /\ context.kind \in {"paired", "consensus"} =>
          /\ result[1].ok = Most(came, LAMBDA p : p.ok)
          /\ \A s \in UNION {p.symbols : p \in parses} :
               s \in result[1].symbols <=> Most(voters, LAMBDA p : s \in p.symbols)
          /\ \A r \in UNION {p.renames : p \in parses} :
               r \in result[1].renames <=> Most(voters, LAMBDA p : r \in p.renames)
     /\ result # <<>> /\ context.kind \in {"exact", "source"} =>
          result[1] \in parses /\ \A p \in parses : ~Replaces(p, result[1])

=============================================================================
