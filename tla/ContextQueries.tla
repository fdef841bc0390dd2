--------------------------- MODULE ContextQueries ---------------------------
(***************************************************************************)
(* What the policies ask of the context of a file: the scopes that the     *)
(* syntax tree has (parser/file_context.rs), the regions made of them and  *)
(* of what clang knows, and whether a line may be edited                   *)
(* (model/context_query.rs).                                               *)
(*                                                                         *)
(* A place is a number, its line the number divided by Width.  A context   *)
(* has scopes, and the lines with declarations, references, errors and     *)
(* warnings.                                                               *)
(***************************************************************************)
EXTENDS Integers, Sequences, FiniteSets, SequencesExt, FiniteSetsExt

CONSTANTS Width, LastLine

Conditionals == {"preproc_if", "preproc_ifdef", "preproc_elif", "preproc_else",
                 "preproc_def", "preproc_function_def"}
FunctionScopes == {"function_definition", "function_declarator", "lambda_expression"}
TypeScopes == {"class_specifier", "struct_specifier", "union_specifier", "enum_specifier"}

FirstLine(scope) == scope.from \div Width
FinalLine(scope) == scope.to \div Width
Height(scope) == FinalLine(scope) - FirstLine(scope)
Covers(scope, line) == FirstLine(scope) <= line /\ line <= FinalLine(scope)

(* collect_scopes: in the order in which they begin, the shorter one first.*)
Scopes(context) ==
  SetToSortSeq(context.scopes, LAMBDA s, t : s.from < t.from \/ (s.from = t.from /\ s.to < t.to))

(* The first of those with the least height, of these one that begins last.*)
NoScope == [kind |-> "none", from |-> 0, to |-> 0]
ScopeAt(context, line) ==
  LET at == {s \in context.scopes : Covers(s, line)}
      low == {s \in at : \A t \in at : Height(s) <= Height(t)}
      late == {s \in low : \A t \in low : s.from >= t.from}
  IN IF at = {} THEN NoScope ELSE CHOOSE s \in late : \A t \in late : s.to <= t.to

-----------------------------------------------------------------------------
(* Regions: the file, its scopes, and a line for each declaration,         *)
(* reference and diagnostic, of one kind on one line only once.  Kinds are *)
(* in the order of their numbers.                                          *)
Region(kind, rank, from, to, error) ==
  [kind |-> kind, rank |-> rank, from |-> from, to |-> to, error |-> error]
OfLine(kind, rank, line, error) == Region(kind, rank, line * Width, line * Width + Width - 1, error)

Regions(context) ==
  {Region("file", 5, Width, LastLine * Width + Width - 1, FALSE)}
  \cup {Region(s.kind, 1, s.from, s.to, FALSE) : s \in context.scopes}
  \cup {OfLine("declaration", 4, l, FALSE) : l \in context.decls}
  \cup {OfLine("reference", 3, l, FALSE) : l \in context.refs}
  \cup {OfLine("diagnostic", 2, l, TRUE) : l \in context.errors}
  \cup {OfLine("diagnostic", 2, l, FALSE) : l \in context.warnings}

(* region_at_location: the lowest, of these the shortest, and then the     *)
(* first as they are sorted.                                               *)
Size(r) == r.to - r.from
Narrower(r, q) ==
  \/ Height(r) < Height(q)
  \/ Height(r) = Height(q) /\ Size(r) < Size(q)
  \/ Height(r) = Height(q) /\ Size(r) = Size(q) /\ (r.from < q.from \/ (r.from = q.from /\ r.rank < q.rank))
RegionAt(context, line) ==
  LET at == {r \in Regions(context) : Covers(r, line)} IN
  CHOOSE r \in at : \A q \in at : ~Narrower(q, r)

-----------------------------------------------------------------------------
(* is_macro_region_at: a binary search in the lines of the conditionals    *)
(* and macros, as the library does it, which takes them to be apart.       *)
Ranges(context) ==
  LET of == SelectSeq(Scopes(context), LAMBDA s : s.kind \in Conditionals)
  IN  [i \in DOMAIN of |-> <<FirstLine(of[i]), FinalLine(of[i])>>]

(* Mutant: the end of a range is not part of it. *)
HitsOpen(range, line) == range[1] <= line /\ line < range[2]

Hits(range, line) == range[1] <= line /\ line <= range[2]

MacroRegion(context, line) ==
  LET ranges == Ranges(context)
      base[at \in 1 .. Len(ranges), size \in 1 .. Len(ranges)] ==
        IF size = 1 THEN at
        ELSE LET half == size \div 2
             IN base[IF line < ranges[at + half][1] THEN at ELSE at + half, size - half]
  IN ranges # <<>> /\ Hits(ranges[base[1, Len(ranges)]], line)

Named(context, line) == line \in context.decls \cup context.refs

(* is_safe_edit_at, is_safe_global of a context that is there.             *)
SafeEdit(context, line) ==
  /\ ~MacroRegion(context, line)
  /\ line \in context.errors =>
       ~Named(context, line) /\ ScopeAt(context, line).kind \notin Conditionals
SafeGlobal(context, line) ==
  /\ line \notin context.errors
  /\ MacroRegion(context, line) \/ ScopeAt(context, line) = NoScope

ScopeOfLine(context, line) ==
  LET kind == ScopeAt(context, line).kind IN
  CASE kind \in Conditionals -> "preprocessor"
    [] kind \in FunctionScopes -> "function"
    [] kind \in TypeScopes -> "type"
    [] kind = "namespace_definition" -> "namespace"
    [] OTHER -> "global"

RoleOfLine(context, line) ==
  IF line \in context.decls \cap context.refs THEN "mixed"
  ELSE IF line \in context.decls THEN "declaration"
  ELSE IF line \in context.refs THEN "reference"
  ELSE "structural"

(* line_profile *)
Profile(context, line) ==
  [role |-> RoleOfLine(context, line), scope |-> ScopeOfLine(context, line),
   macro |-> MacroRegion(context, line), error |-> line \in context.errors,
   safe |-> SafeEdit(context, line), global |-> SafeGlobal(context, line),
   region |-> RegionAt(context, line)]

-----------------------------------------------------------------------------
Inside(s, t) == <<s.from, s.to>> # <<t.from, t.to>> /\ t.from <= s.from /\ s.to <= t.to
Apart(context) ==
  \A s, t \in {s \in context.scopes : s.kind \in Conditionals} :
    s = t \/ FinalLine(s) < FirstLine(t) \/ FinalLine(t) < FirstLine(s)
InConditional(context, line) ==
  \E s \in context.scopes : s.kind \in Conditionals /\ Covers(s, line)

(* Policies are told of each line what the tree and clang say of it: the   *)
(* innermost scope, a region no smaller one lies in, an edit that is safe  *)
(* exactly where neither a conditional or macro reaches nor an error is at *)
(* a name.  What the search says of a conditional is right wherever it     *)
(* finds one, and finds it if they are apart; in conditionals that lie in  *)
(* others it may miss one (scope_at_location, region_at_location,          *)
(* is_macro_region_at, is_safe_edit_at).                                   *)
ProfileIsTrue(context, line, profile) ==
  LET scope == ScopeAt(context, line)
      unsure == line \in context.errors /\ Named(context, line)
  IN /\ scope # NoScope => \A s \in context.scopes : Covers(s, line) => ~Inside(s, scope)
     /\ scope = NoScope => ~\E s \in context.scopes : Covers(s, line)
     /\ \A r \in Regions(context) : Covers(r, line) => ~Inside(r, profile.region)
     /\ profile.macro => InConditional(context, line)
     /\ unsure => ~profile.safe /\ ~profile.global
     /\ Apart(context) =>
          /\ profile.macro = InConditional(context, line)
          /\ profile.safe = (~InConditional(context, line) /\ ~unsure)
=============================================================================
