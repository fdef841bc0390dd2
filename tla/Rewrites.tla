------------------------------ MODULE Rewrites ------------------------------
(***************************************************************************)
(* The policies that replace pieces of a text (src/policy): keyword        *)
(* operators, empty parameter lists, operator names, suffixes of numbers.  *)
(* A text is a sequence of tokens, " " among them; an operator that is     *)
(* protected (in a comment, a literal, the preprocessor) is another token. *)
(* A splice puts "by" in place of the tokens after "from" up to "to".      *)
(***************************************************************************)
LOCAL INSTANCE Integers
LOCAL INSTANCE Sequences
LOCAL INSTANCE FiniteSets
LOCAL INSTANCE SequencesExt
LOCAL INSTANCE FiniteSetsExt

Splice(from, to, by) == [from |-> from, to |-> to, by |-> by]
Spliced(t, splices) ==
  FoldLeft(LAMBDA u, s : SubSeq(u, 1, s.from) \o s.by \o SubSeq(u, s.to + 1, Len(u)), t, splices)
FromTheFront(splices) == SetToSortSeq(splices, LAMBDA a, b : a.from < b.from)
FromTheBack(splices) ==
  LET order == SetToSortSeq(DOMAIN splices, LAMBDA i, j :
                 splices[i].from > splices[j].from \/ (splices[i].from = splices[j].from /\ i < j))
  IN [k \in DOMAIN order |-> splices[order[k]]]

(* The last token before i, and the first after i, that is no space.       *)
Before(t, i) == Max({0} \cup {j \in 1 .. i - 1 : t[j] # " "})
After(t, i) == Min({Len(t) + 1} \cup {j \in i + 1 .. Len(t) : t[j] # " "})

----------------------------------------------------------------------------
(* logical_keyword_operators.                                              *)
Keyword(op) == IF op = "&&" THEN "and" ELSE "or"
LeftSpace(t, i) == IF i = 1 \/ t[i - 1] \in {" ", "("} THEN <<>> ELSE <<" ">>
RightSpace(t, i) == IF i = Len(t) \/ t[i + 1] \in {" ", ")", ";"} THEN <<>> ELSE <<" ">>
KeywordOperators(t, replaced) ==
  FlattenSeq([i \in DOMAIN t |->
    IF t[i] \in replaced THEN LeftSpace(t, i) \o <<Keyword(t[i])>> \o RightSpace(t, i) ELSE <<t[i]>>])

(* function_void_params: each declarator has its first parameter list      *)
(* looked at, which is that of the inner one where one is in another.      *)
Functions == {"f", "g"}
Opens(t) == {i \in DOMAIN t : t[i] = "("}
Lists(t) == {i \in Opens(t) : Before(t, i) # 0 /\ t[Before(t, i)] \in Functions \cup {")"}}
FirstList(t, i) ==
  IF t[Before(t, i)] \in Functions THEN i
  ELSE Min({j \in Lists(t) : j < i /\ t[Before(t, j)] \in Functions})
Close(t, i) == Min({j \in DOMAIN t : j > i /\ t[j] = ")"})
NoParameters(t, i) == \A j \in i + 1 .. Close(t, i) - 1 : t[j] \in {" ", "void"}
Empty(requireVoid) == IF requireVoid THEN <<"(", "void", ")">> ELSE <<"(", ")">>
ListSplices(t, i, requireVoid) ==
  (IF SubSeq(t, i, Close(t, i)) = Empty(requireVoid) THEN <<>>
   ELSE <<Splice(i - 1, Close(t, i), Empty(requireVoid))>>)
  \o (IF Before(t, i) = i - 1 THEN <<>> ELSE <<Splice(Before(t, i), i - 1, <<>>)>>)
VoidParams(t, requireVoid) ==
  LET declarators == SetToSortSeq({i \in Lists(t) : NoParameters(t, FirstList(t, i))},
                                  LAMBDA i, j : i < j)
  IN Spliced(t, FromTheBack(FlattenSeq([k \in DOMAIN declarators |->
                 ListSplices(t, FirstList(t, declarators[k]), requireVoid)])))

(* operator_overload_spacing on a line of which clang knows the operator   *)
(* that is declared there, or none.                                        *)
Canonical(symbol) ==
  IF symbol = "new" THEN <<"operator", " ", symbol>> ELSE <<"operator", symbol>>
OperatorNames(t) ==
  {i \in DOMAIN t : t[i] = "operator" /\ After(t, i) <= Len(t) /\ t[After(t, i)] \in {"+", "-", "new"}}
OperatorSpacing(t, declared) ==
  LET Name(i) == Canonical(IF declared = "none" THEN t[After(t, i)] ELSE declared)
  IN Spliced(t, FromTheFront({Splice(i - 1, After(t, i), Name(i)) : i \in OperatorNames(t)}))

----------------------------------------------------------------------------
(* numeric_literal_suffix.  A literal is whole, hex or float; a float has  *)
(* decimals: digits, then zeros, if it has a point.                        *)
Suffix(type) ==
  CASE type = "float" -> "f"          [] type = "long double" -> "L"
    [] type = "long" -> "L"           [] type = "long long" -> "LL"
    [] type = "unsigned" -> "U"       [] type = "unsigned long" -> "UL"
    [] type = "unsigned long long" -> "ULL"
    [] type = "float128" -> "Q"
    [] OTHER -> ""
IsFloat(type) == type \in {"float", "double", "long double", "float128"}
Plausible(literal) == literal.suffix # "Q"
Suffixed(literal, type) ==
  IF (literal.form = "float") # IsFloat(type) \/ ~Plausible(literal) THEN literal
  ELSE [literal EXCEPT !.suffix = Suffix(type),
                       !.zeros = IF literal.form = "float" /\ Suffix(type) # "" THEN 0 ELSE @]

(* Of the declarations around a literal the first that changes it does.    *)
NumericSuffix(literal, types) ==
  LET changing == {k \in DOMAIN types : Suffixed(literal, types[k]) # literal}
  IN IF changing = {} THEN literal ELSE Suffixed(literal, types[Min(changing)])

----------------------------------------------------------------------------
Rewritten(policy, t) ==
  CASE policy = "keywords" -> KeywordOperators(t, {"&&", "||"})
    [] policy = "and" -> KeywordOperators(t, {"&&"})
    [] policy = "void" -> VoidParams(t, TRUE)
    [] policy = "no void" -> VoidParams(t, FALSE)
    [] policy = "operators" -> OperatorSpacing(t, "none")

Words == Functions \cup {"x", "and", "or", "operator", "new", "void"}
Meaning(t) ==
  LET said == SelectSeq(t, LAMBDA k : k \notin {" ", "void"})
  IN [i \in DOMAIN said |-> CASE said[i] = "and" -> "&&" [] said[i] = "or" -> "||" [] OTHER -> said[i]]
Apart(t) == \A i \in 1 .. Len(t) - 1 : ~(t[i] \in Words /\ t[i + 1] \in Words)

(* The declarators of a text have a list each, and a line one operator     *)
(* name: void_params.rs and op_spacing.rs splice in the same place twice,  *)
(* or where the text no longer is, if not.                                 *)
Separate(policy, t) ==
  CASE policy \in {"void", "no void"} -> \A i \in Lists(t) : FirstList(t, i) = i
    [] policy = "operators" -> Cardinality(OperatorNames(t)) <= 1
    [] OTHER -> TRUE

(* A text that is rewritten says what it said, with no word grown together *)
(* with another, and is left alone the next time.                          *)
RewriteSettles(policy, t, rewritten) ==
  (Apart(t) /\ Separate(policy, t)) =>
    /\ Meaning(rewritten) = Meaning(t)
    /\ Apart(rewritten)
    /\ Rewritten(policy, rewritten) = rewritten

(* A literal of one declaration is left alone the next time, and is the    *)
(* same number.                                                            *)
SuffixSettles(literal, types, suffixed) ==
  Len(types) = 1 =>
    /\ NumericSuffix(suffixed, types) = suffixed
    /\ suffixed.digits = literal.digits
    /\ suffixed.form = literal.form
=============================================================================
