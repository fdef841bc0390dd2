----------------------------- MODULE NamingStyle -----------------------------
(***************************************************************************)
(* The names that naming_conventions wants (policy/naming_conventions) and *)
(* those snake_case accepts (policy/snake_case.rs).  A name is a sequence  *)
(* of characters.  A subject is a declaration: what the tree has, what     *)
(* clang says of it, its name and what its prefix depends on.              *)
(***************************************************************************)
LOCAL INSTANCE Integers
LOCAL INSTANCE Sequences
LOCAL INSTANCE SequencesExt

Lowers == <<"a", "c", "f", "g", "h", "m", "p", "r", "s", "t", "u", "v", "w">>
Uppers == <<"A", "C", "F", "G", "H", "M", "P", "R", "S", "T", "U", "V", "W">>
IsLower(c) == c \in ToSet(Lowers)
IsUpper(c) == c \in ToSet(Uppers)
IsDigit(c) == c \in {"0", "1"}
Cased(c, from, to) == LET at == {i \in DOMAIN from : from[i] = c}
                      IN IF at = {} THEN c ELSE to[CHOOSE i \in at : TRUE]
Lower(c) == Cased(c, Uppers, Lowers)
Uppercase(name) == [i \in DOMAIN name |-> Cased(name[i], Lowers, Uppers)]

(* The default prefixes (PrefixConfig).                                    *)
Prefix(of) ==
  CASE of = "local" -> <<"_">>           [] of = "member" -> <<"m", "_">>
    [] of = "global" -> <<"g", "_">>     [] of = "static" -> <<"s", "_">>
    [] of = "const" -> <<"c", "_">>      [] of = "volatile" -> <<"v", "_">>
    [] of = "pointer" -> <<"p", "_">>    [] of = "shared_ptr" -> <<"s", "p", "_">>
    [] of = "unique_ptr" -> <<"u", "p", "_">> [] of = "weak_ptr" -> <<"w", "p", "_">>
    [] of = "function" -> <<"f", "_">>   [] of = "reference" -> <<"r", "_">>
    [] of = "atomic" -> <<"a", "_">>     [] of = "thread" -> <<"t", "h", "_">>
    [] of = "singleton" -> <<"s", "g", "_">>
    [] of = "static_upper" -> <<"S", "_">> [] of = "constexpr_upper" -> <<"C", "_">>
    [] OTHER -> <<>>
KnownPrefixes == {Prefix(of) : of \in {"local", "member", "global", "static", "const", "volatile",
  "pointer", "shared_ptr", "unique_ptr", "weak_ptr", "function", "reference", "atomic",
  "thread", "singleton", "static_upper", "constexpr_upper"}}

HasKnownPrefix(name) == \E p \in KnownPrefixes : IsPrefix(p, name)

SnakeCharacter(c) == IsLower(c) \/ IsDigit(c) \/ c = "_"
IsSnake(name) ==
  name # <<>> => ~IsDigit(name[1]) /\ \A i \in DOMAIN name : SnakeCharacter(name[i])
IsUpperSnake(name) ==
  /\ \A i \in DOMAIN name : IsUpper(name[i]) \/ IsDigit(name[i]) \/ name[i] = "_"
  /\ \E i \in DOMAIN name : IsUpper(name[i])

(* With one of the prefixes of constants.                                  *)
PrefixedConstant(name) ==
  Len(name) > 2 /\ LET rest == SubSeq(name, 3, Len(name)) IN
    \/ (IsPrefix(<<"C", "_">>, name) \/ IsPrefix(<<"S", "_">>, name)) /\ IsUpperSnake(rest)
    \/ (IsPrefix(<<"c", "_">>, name) \/ IsPrefix(<<"s", "_">>, name)) /\ IsSnake(rest)

IsConstantLike(name) == IsUpperSnake(name) \/ PrefixedConstant(name)

(* Words start at a capital after a small letter or a digit, and at the    *)
(* last of several capitals that a small letter follows.                   *)
Starts(name, i) ==
  /\ IsUpper(name[i]) /\ i > 1
  /\ \/ IsLower(name[i - 1]) \/ IsDigit(name[i - 1])
     \/ IsUpper(name[i - 1]) /\ i < Len(name) /\ IsLower(name[i + 1])
ToSnake(name) ==
  FlattenSeq([i \in DOMAIN name |->
    IF Starts(name, i) THEN <<"_", Lower(name[i])>> ELSE <<Lower(name[i])>>])

SmartPointers == {"shared_ptr", "unique_ptr", "weak_ptr"}
TypePrefix(s) ==
  CASE s.type = "pointer" -> IF s.template \in SmartPointers THEN s.template ELSE "pointer"
    [] s.type = "reference" -> "reference"
    [] s.type = "template" /\ s.template \in SmartPointers \cup {"function", "atomic"} -> s.template
    [] OTHER -> IF s.thread THEN "thread" ELSE "none"

StackedPrefix(s) ==
  Prefix(CASE s.seen = "field" -> "member" [] s.seen = "variable" /\ s.global -> "global" [] OTHER -> "local")
  \o (IF s.static THEN Prefix(IF s.inMethod THEN "singleton" ELSE "static") ELSE <<>>)
  \o (IF s.const THEN Prefix("const") ELSE <<>>)
  \o (IF s.volatile THEN Prefix("volatile") ELSE <<>>)
  \o Prefix(TypePrefix(s))

Functions_ == {"function", "constructor", "destructor", "conversion"}

(* A function that is neither an operator nor made or destroyed by its     *)
(* class, whether clang sees it as one or the tree has to tell.            *)
FunctionName(s) ==
  IF IsSnake(s.name) \/ s.operator \/ s.seen \in {"constructor", "destructor", "conversion"}
     \/ (s.seen \notin Functions_ /\ s.ofClass)
  THEN s.name ELSE ToSnake(s.name)

(* A variable of a declaration, not of a parameter list, of a class or of  *)
(* the head of a loop.                                                     *)
VariableName(s) ==
  IF s.loop \/ s.seen \notin {"none", "variable", "field"}
     \/ HasKnownPrefix(s.name) \/ IsConstantLike(s.name)
  THEN s.name
  ELSE LET name == StackedPrefix(s) \o ToSnake(s.name)
       IN IF s.seen = "variable" /\ s.global THEN Uppercase(name) ELSE name

Wanted(s) == CASE s.is = "function" -> FunctionName(s)
               [] s.is = "declaration" -> VariableName(s)
               [] OTHER -> s.name

----------------------------------------------------------------------------
(* snake_case only reports, what clang sees and is to be looked at.        *)
IsSnakeOrConstant(name) ==
  \/ (\A i \in DOMAIN name : IsUpper(name[i]) \/ IsDigit(name[i]) \/ name[i] = "_")
     /\ \E i \in DOMAIN name : name[i] = "_"
  \/ IsSnake(name)
Reported(s, target, spareTypes) ==
  /\ CASE s.is = "function" -> target \in {"functions", "both"} /\ s.seen \in {"function", "conversion"}
                               /\ ~s.operator
       [] OTHER -> target \in {"variables", "both"} /\ s.seen \in {"variable", "field", "parameter"}
  /\ ~(spareTypes /\ s.name # <<>> /\ IsUpper(s.name[1]))
  /\ ~IsSnakeOrConstant(s.name)

(* A name that naming_conventions has given is what it wants the next time *)
(* and snake_case has nothing against it; else a file would never settle,  *)
(* or two policies would ask for different names (naming_conventions,      *)
(* apply; snake_case.rs, apply).                                           *)
NamesSettle(s, target, spareTypes, wanted) ==
  LET renamed == [s EXCEPT !.name = wanted] IN
    /\ Wanted(renamed) = wanted
    /\ wanted # s.name => ~Reported(renamed, target, spareTypes)
=============================================================================
