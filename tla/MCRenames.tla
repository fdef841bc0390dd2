------------------------------ MODULE MCRenames ------------------------------
(* A header with two declarations, files that include it, and names of     *)
(* which one is as it should be.  See README.md for the bounds.            *)
EXTENDS RenamePropagation, TLC

CONSTANTS head, user, reader

Token(name, is, safe, known) == [name |-> name, is |-> is, safe |-> safe, known |-> known]
Text(tokens) == [blank |-> 0, tokens |-> tokens]
Def(name, safe, known) == Token(name, "definition", safe, known)
Use(name) == Token(name, "use", TRUE, TRUE)

SuggestedMC == [n \in {"fooBar", "foo_bar", "plain", "UseIt", "use_it"} |->
                  IF n = "fooBar" THEN "foo_bar" ELSE IF n = "UseIt" THEN "use_it" ELSE n]

(* The header may declare what fooBar would be renamed to, may define it   *)
(* where nothing may be edited or where clang does not see it.             *)
HeadTexts ==
  {Text(<<Def("fooBar", safe, known), Def(other, TRUE, TRUE), Use("fooBar"),
          Token("fooBar", "comment", TRUE, TRUE)>>) :
     safe \in BOOLEAN, known \in BOOLEAN, other \in {"plain", "foo_bar"}}
UserTexts ==
  {Text(<<Use("fooBar"), Def("UseIt", TRUE, known), Token("plain", "use", safe, TRUE)>>) :
     safe \in BOOLEAN, known \in BOOLEAN}

TextsMC == (head :> HeadTexts) @@ (user :> UserTexts)
IncludesMC == (head :> {}) @@ (user :> {head})

(* A file that defines nothing, for what the documents say.                *)
TextsReader == (head :> {Text(<<Def("fooBar", TRUE, TRUE), Use("fooBar")>>)})
               @@ (user :> {Text(<<Use("fooBar"), Def("UseIt", TRUE, TRUE)>>)})
               @@ (reader :> {Text(<<Use("fooBar")>>)})
IncludesReader == (head :> {}) @@ (user :> {head}) @@ (reader :> {head})
=============================================================================
