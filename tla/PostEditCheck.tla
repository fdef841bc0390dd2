--------------------------- MODULE PostEditCheck ---------------------------
(***************************************************************************)
(* What the check after a pass compares: the text before and the text      *)
(* after, each parsed by tree-sitter and by clang                          *)
(* (engine/post_check.rs, post_check/baseline.rs, post_check/delta.rs),    *)
(* and the semantic contract between the two (engine/semantic_contract.rs  *)
(* and its directory) over the stable names that parser/file_context.rs    *)
(* gives to declarations and references.                                   *)
(*                                                                         *)
(* A text is a sequence of lines, and a line is what the parsers see in    *)
(* it: declarations, a use of a name of this file, a use of a name that a  *)
(* header declares, a scope that opens and ends there, a syntax error, or  *)
(* nothing.  Columns, notes and warnings are left out; so are the scores   *)
(* and the lines that only messages show.                                  *)
(***************************************************************************)
EXTENDS Integers, Sequences, FiniteSets, FiniteSetsExt

CONSTANTS
  IdentityShift,   (* identity_shift_tolerance of the certainty filter     *)
  ErrorWeight,     (* weight of a clang error, of the certainty filter     *)
  RatioTolerance   (* post_edit_tree_error_ratio_tolerance, in percent     *)

ASSUME CheckAssumption ==
  IdentityShift \in 1..12 /\ ErrorWeight \in Nat /\ RatioTolerance \in 0..100

(***************************************************************************)
(* Lines and the parse of a text.  A parse p has the text, whether         *)
(* tree-sitter answered, and whether clang answered, failed, or was not    *)
(* asked.                                                                  *)
(***************************************************************************)
Declaring(names, kind, usr) ==
  [is |-> "decl", names |-> names, kind |-> kind, usr |-> usr]
Using(name) == [is |-> "use", name |-> name]
UsingHeader(name, at) == [is |-> "extern", name |-> name, at |-> at]
Scope(kind) == [is |-> "scope", kind |-> kind]
Broken == [is |-> "broken"]
Blank == [is |-> "blank"]

ContextKinds == {"exact", "paired", "header", "source", "none"}

SkipsClang(kind) == kind \in {"header", "source"}

Parses(text, kind) ==
  [text : {text}, tree : BOOLEAN,
   clang : IF SkipsClang(kind) THEN {"skipped"} ELSE {"ok", "failed"}]

Sees(p, what) == {i \in DOMAIN p.text : p.text[i].is = what}

(* Declarations of templates are left out of every snapshot. *)
Decls(p) ==
  IF p.clang # "ok" THEN {}
  ELSE {d \in UNION {{i} \X p.text[i].names : i \in Sees(p, "decl")} :
          p.text[d[1]].kind # "template"}

Id(p, d) ==
  LET line == p.text[d[1]]
  IN  IF line.usr THEN <<"usr", d[2]>> ELSE <<"loc", d[2], d[1], line.kind>>

DeclIds(p) == {Id(p, d) : d \in Decls(p)}
UsrIds(p) == {Id(p, d) : d \in {e \in Decls(p) : p.text[e[1]].usr}}
DeclLine(p, id) == Max({d[1] : d \in {e \in Decls(p) : Id(p, e) = id}})
KindOf(p, id) == p.text[DeclLine(p, id)].kind
IdsAt(p, i) == {Id(p, d) : d \in {e \in Decls(p) : e[1] = i}}

(* The declaration that clang resolves a use to, templates included. *)
Target(p, i) ==
  {j \in Sees(p, "decl") : p.text[i].name \in p.text[j].names}
Unresolved(p) == {i \in Sees(p, "use") : Target(p, i) = {}}

(* The name of what a header declares is looked up at the header's line    *)
(* and column in the text of this file.                                    *)
IdentifierAt(p, at) ==
  IF at \in DOMAIN p.text /\ p.text[at].is \in {"use", "extern"} THEN {p.text[at].name}
  ELSE IF at \in DOMAIN p.text /\ p.text[at].is = "decl" THEN p.text[at].names
  ELSE IF at \in DOMAIN p.text /\ p.text[at].is = "scope" THEN {p.text[at].kind}
  ELSE {}

Refs(p) ==
  IF p.clang # "ok" THEN {}
  ELSE Sees(p, "extern") \union (Sees(p, "use") \ Unresolved(p))

RefId(p, i) ==
  IF p.text[i].is = "use" THEN Id(p, <<Min(Target(p, i)), p.text[i].name>>)
  ELSE <<"decl", IdentifierAt(p, p.text[i].at), p.text[i].at>>

RefIds(p) == {RefId(p, i) : i \in Refs(p)}
RefCount(p, id) == Cardinality({i \in Refs(p) : RefId(p, i) = id})

(* References of a kind that differs from that of their declaration, as    *)
(* with a class that is declared as a struct elsewhere.                    *)
Mismatches(p) ==
  {i \in Sees(p, "use") \intersect Refs(p) :
     /\ RefId(p, i) \in DeclIds(p)
     /\ p.text[Min(Target(p, i))].kind # KindOf(p, RefId(p, i))}

Scopes(p) == IF p.tree THEN {<<p.text[i].kind, i>> : i \in Sees(p, "scope")} ELSE {}

Ready(p, treeDown, clangDown) == ~treeDown /\ ~clangDown /\ Mismatches(p) = {}

(***************************************************************************)
(* The transition from the text before to the text after.                  *)
(***************************************************************************)
(* Mutant: the range of lines leaves out its end. *)
MigratedHalfOpen(before, after, id) ==
  LET line == DeclLine(before, id)
      refs == RefCount(before, id)
      SameKind(x) == KindOf(after, x) = KindOf(before, id)
  IN  \E i \in (line - IdentityShift)..(line + IdentityShift - 1) : \E x \in IdsAt(after, i) :
        \/ x = id
        \/ /\ SameKind(x)
           /\ \/ Cardinality({y \in IdsAt(after, i) : SameKind(y)}) = 1
              \/ refs = 0
              \/ RefCount(after, x) >= refs - 1

MigratedLocally(before, after, id) ==
  LET line == DeclLine(before, id)
      refs == RefCount(before, id)
      SameKind(x) == KindOf(after, x) = KindOf(before, id)
  IN  \E i \in (line - IdentityShift)..(line + IdentityShift) : \E x \in IdsAt(after, i) :
        \/ x = id
        \/ /\ SameKind(x)
           /\ \/ Cardinality({y \in IdsAt(after, i) : SameKind(y)}) = 1
              \/ refs = 0
              \/ RefCount(after, x) >= refs - 1

LostIdentities(before, after) ==
  {id \in DeclIds(before) \ DeclIds(after) : ~MigratedLocally(before, after, id)}

DroppedReferences(before, after, tolerance) ==
  {id \in UsrIds(before) :
     RefCount(before, id) >
       (IF id \in UsrIds(after) THEN RefCount(after, id) ELSE 0) + tolerance}

Orphans(before, after) ==
  {id \in RefIds(after) \ DeclIds(after) :
     RefCount(after, id) >
       (IF id \in DeclIds(before) THEN 0 ELSE RefCount(before, id))}

Near(i, edited, radius) == \E e \in edited : e \in (i - radius)..(i + radius)

RemoteScopeDrift(before, after, edited) ==
  Cardinality({s \in (Scopes(before) \ Scopes(after)) \union (Scopes(after) \ Scopes(before)) :
                 ~Near(s[2], edited, 1)})

ScopeCountDrift(before, after) ==
  LET Count(p, kind) == Cardinality({s \in Scopes(p) : s[1] = kind})
      Drift(kind) == LET c == Count(before, kind)  d == Count(after, kind)
                     IN  IF c > d THEN c - d ELSE d - c
  IN  MapThenSumSet(Drift, {"namespace", "type", "function", "preprocessor"})

(* semantic_transition_tolerances_for_context *)
ReferenceTolerance(kind) ==
  CASE kind = "exact" -> 2 [] kind = "paired" -> 28 [] kind = "header" -> 10
    [] kind = "source" -> 8 [] OTHER -> 6
ScopeTolerance(kind) ==
  CASE kind = "exact" -> 1 [] kind \in {"paired", "header"} -> 7
    [] kind = "source" -> 5 [] OTHER -> 3

TransitionFailures(kind, before, after, edited) ==
  {f \in {"identity", "reference", "scope"} :
     CASE f = "identity" -> LostIdentities(before, after) # {}
       [] f = "reference" ->
            \/ DroppedReferences(before, after, ReferenceTolerance(kind)) # {}
            \/ Orphans(before, after) # {}
       [] f = "scope" ->
            \/ ScopeCountDrift(before, after) > ScopeTolerance(kind)
            \/ RemoteScopeDrift(before, after, edited) > ScopeTolerance(kind)}

(***************************************************************************)
(* The baseline, and the two ways to validate a text against it.           *)
(***************************************************************************)
TreeDown(strict, p) == strict /\ ~p.tree
ClangDown(strict, p) == strict /\ p.clang = "failed"

BaselineReady(strict, before) ==
  Ready(before, TreeDown(strict, before), ClangDown(strict, before))

ErrorRatio(p) == (100 * Cardinality(Sees(p, "broken"))) \div Max({1, Len(p.text)})

TreeFailures(strict, before, after) ==
  {f \in {"tree unavailable", "tree error", "tree ratio"} :
     CASE f = "tree unavailable" -> TreeDown(strict, after)
       [] f = "tree error" ->
            before.tree /\ after.tree /\ Sees(before, "broken") = {} /\ Sees(after, "broken") # {}
       [] f = "tree ratio" ->
            before.tree /\ after.tree /\ ErrorRatio(after) > ErrorRatio(before) + RatioTolerance}

(* diagnostic_delta_lines, and what stands in for it when it is empty *)
DeltaLines(before, after) ==
  LET new == Unresolved(after) \ Unresolved(before)
  IN  IF new # {} THEN new ELSE Unresolved(after)

NewErrors(before, after) ==
  IF before.clang = "ok" /\ after.clang = "ok"
  THEN Max({0, Cardinality(Unresolved(after)) - Cardinality(Unresolved(before))})
  ELSE 0

(* should_tolerate_nonlocal_diagnostic_delta_for_context *)
Tolerated(kind, edited, delta, severe) ==
  /\ edited # {} /\ delta # {}
  /\ kind \in {"paired", "header", "source"}
  /\ severe <= 1
  /\ LET limit  == CASE kind = "paired" -> 0 [] kind = "header" -> 24 [] OTHER -> 6
         radius == IF kind = "paired" THEN 0 ELSE 4
     IN  /\ ErrorWeight * severe <= limit
         /\ \A i \in delta : ~Near(i, edited, radius)

(* Mutant: what a paired source is granted, every context is. *)
RelaxedAnywhere(kind, edited, failures, delta, severe) ==
  /\ failures \intersect {"readiness", "identity", "reference", "scope",
                          "tree error", "tree ratio"} = {}
  /\ \/ /\ severe <= 8 /\ ErrorWeight * severe <= 48
        /\ edited # {}
     \/ /\ kind \in {"header", "source"}
        /\ severe <= 1 /\ ErrorWeight * severe <= 10
        /\ Tolerated(kind, edited, delta, severe)

(* should_relax_consensus_diagnostic_failure *)
Relaxed(kind, edited, failures, delta, severe) ==
  /\ failures \intersect {"readiness", "identity", "reference", "scope",
                          "tree error", "tree ratio"} = {}
  /\ \/ /\ kind = "paired"
        /\ severe <= 8 /\ ErrorWeight * severe <= 48
        /\ edited # {}
     \/ /\ kind \in {"header", "source"}
        /\ severe <= 1 /\ ErrorWeight * severe <= 10
        /\ Tolerated(kind, edited, delta, severe)

ClangFailures(strict, kind, before, after, edited, others) ==
  LET severe == NewErrors(before, after)
      delta  == DeltaLines(before, after)
  IN  {f \in {"clang unavailable", "clang errors"} :
         CASE f = "clang unavailable" -> ClangDown(strict, before) \/ ClangDown(strict, after)
           [] f = "clang errors" ->
                /\ severe > 0
                /\ ~Tolerated(kind, edited, delta, severe)
                /\ ~Relaxed(kind, edited, others, delta, severe)}

SemanticFailures(strict, kind, before, after, edited) ==
  IF ~BaselineReady(strict, before) THEN {}
  ELSE IF ~Ready(after, ~after.tree, after.clang = "failed") THEN {"readiness"}
  ELSE TransitionFailures(kind, before, after, edited)

(* validate; a baseline with mismatches puts their name into a message,    *)
(* and no text with such a message is accepted                             *)
Validate(strict, kind, before, after, edited) ==
  LET others == TreeFailures(strict, before, after)
                  \union (IF TreeDown(strict, before) THEN {"tree unavailable"} ELSE {})
                  \union SemanticFailures(strict, kind, before, after, edited)
      failures == others \union ClangFailures(strict, kind, before, after, edited, others)
  IN  [failures |-> failures, accepted |-> failures = {} /\ Mismatches(before) = {}]

(* validate_structural_only, for edits that only structural policies made *)
ValidateStructural(strict, before, after) ==
  LET failures == TreeFailures(strict, before, after)
  IN  [failures |-> failures, accepted |-> failures = {}]

=============================================================================
