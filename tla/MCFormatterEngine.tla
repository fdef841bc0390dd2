------------------------- MODULE MCFormatterEngine -------------------------
(* Instances of FormatterEngine for TLC. *)
EXTENDS FormatterEngine, TLC

CONSTANTS f1, f2

Var(names, usr) == Declaring(names, "variable", usr)
Struct == Declaring({"a"}, "struct", TRUE)
Template == Declaring({"b"}, "template", TRUE)

Config == [strict |-> TRUE, check |-> TRUE, required |-> FALSE, closed |-> FALSE,
           enabled |-> FALSE, minimum |-> 95, samples |-> 0, dryRun |-> FALSE]

(* Texts whose symbols matter, one file each. *)
SymbolLines ==
  {Var({"a"}, TRUE), Var({"a", "b"}, FALSE), Struct, Template, Using("a"), Using("b"), Scope("function")}

Symbols ==
  {[Config EXCEPT !.check = FALSE] @@
   [kind |-> "exact", texts |-> (f1 :> t), writes |-> {Blank, Broken, Var({"b"}, TRUE)}] :
     t \in [1..2 -> SymbolLines] \union [1..3 -> SymbolLines]}

(* Every configuration of gate and check, for one text. *)
Gates ==
  {[strict |-> strict, check |-> check, required |-> required, closed |-> closed,
    enabled |-> enabled, minimum |-> 95, samples |-> samples, dryRun |-> dryRun, kind |-> kind,
    texts |-> (f1 :> <<Var({"a"}, TRUE), Using("a")>>), writes |-> {Blank, Using("b")}] :
     strict, check, required, closed, enabled, dryRun \in BOOLEAN, samples \in {0, 3}, kind \in ContextKinds}

(* Two files at the same time. *)
Threads ==
  {Config @@ [kind |-> "header", texts |-> (f1 :> <<Blank>> @@ f2 :> <<Blank>>), writes |-> {Blank}]}

PassScenarios == Symbols \union Gates \union Threads

=============================================================================
