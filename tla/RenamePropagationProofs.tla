---------------------- MODULE RenamePropagationProofs ----------------------
(***************************************************************************)
(* Renames reach what they mean, and nothing else, for any number of       *)
(* files, texts, includes and names.                                       *)
(*                                                                         *)
(* A text of a file is a version of the one at the start: its tokens have  *)
(* their names or the suggested ones.  Every renamed token is explained by *)
(* the plans (Explained), which passes from the local rename to what is    *)
(* pending and on to what is propagated and written.  The argument turns   *)
(* on names that the policy is not content with: no token ever gets one,   *)
(* so that such a name still stands for what it stood for at the start.    *)
(***************************************************************************)
EXTENDS RenamePropagation, TLAPS, FiniteSetTheorems

(* A version of the text of f.                                             *)
Version(f, text) ==
  /\ text \in [blank : Nat, tokens : [Places(f) -> Tokens]]
  /\ \A i \in Places(f) :
       /\ text.tokens[i].name \in {Was(f, i).name, Suggested[Was(f, i).name]}
       /\ text.tokens[i].is = Was(f, i).is /\ text.tokens[i].known = Was(f, i).known

(* Plans P account for a new name of the token at i of f.                  *)
Justified(P, f, i) ==
  /\ Was(f, i).is # "comment"
  /\ \/ \E g \in Files : \E p \in P[g] : p.old = Was(f, i).name /\ Meant(f, i).path = g
     \/ \E j \in Places(f) :
          Was(f, j).is = "definition" /\ ~Was(f, j).known /\ Was(f, j).name = Was(f, i).name

NewIn(f, text, i) == text.tokens[i].name # Was(f, i).name

Explained(P, f, text) ==
  /\ Version(f, text)
  /\ \A i \in Places(f) : NewIn(f, text, i) =>
       /\ Justified(P, f, i)
       /\ Meant(f, i).path = f => NewIn(f, text, Meant(f, i).line)

(* The plans of f rename, to what is suggested, names that are not it.     *)
Plans(f) ==
  [decl : [path : {f}, line : Nat, canonical : BOOLEAN], old : DOMAIN Suggested, new : DOMAIN Suggested]
PlansOf(f) == {p \in Plans(f) : p.new = Suggested[p.old] /\ p.new # p.old}

(* What the renames of other files' declarations do to a text of f.        *)
Follows(f, text) ==
  \A i \in Places(f) : \A g \in Files : \A p \in plans[g] :
    Was(f, i).is = "use" /\ Meant(f, i).path # f /\ p.decl = Meant(f, i) /\ p.old = Was(f, i).name
      => text.tokens[i].name = p.new

Planning == {f \in Files : plans[f] # {}}

Shapes ==
  /\ original \in [Files -> UNION {Texts[f] : f \in Files}]
  /\ \A f \in Files : original[f] \in Texts[f]
  /\ DOMAIN disk = Files /\ DOMAIN pending = Files /\ DOMAIN plans = Files
  /\ \A f \in Files : plans[f] \subseteq PlansOf(f)
  /\ phase \in {"format", "write", "done"} /\ allowed \in Nat /\ root \in BOOLEAN

(* While files are formatted the disk is as it was at the start, and what  *)
(* is still to be formatted has neither plans nor an error.                *)
Untouched ==
  phase = "format" =>
    /\ disk = original
    /\ \A f \in Files : f \in todo \/ f \in error => plans[f] = {}
    /\ \A f \in todo : f \notin error

Accounted ==
  \A f \in Files :
    /\ Explained(plans, f, disk[f])
    /\ pending[f] # None => Explained(plans, f, pending[f])

Followed ==
  phase # "format" /\ Cardinality(Planning) <= allowed =>
    \A f \in Planning : f \in Compdb /\ f \notin error => Follows(f, Now(f))

RenameInv == Shapes /\ Untouched /\ Accounted /\ Followed

(***************************************************************************)
(* What a name stands for.                                                 *)
(***************************************************************************)
LEMMA Originals ==
  ASSUME Shapes, NEW f \in Files
  PROVE  /\ original[f] \in [blank : {0}, tokens : Seq(Tokens)]
         /\ Places(f) \subseteq Nat \ {0}
         /\ \A i \in Places(f) : Was(f, i) \in Tokens
         /\ \A i, j \in Places(f) :
              Was(f, i).is = "definition" /\ Was(f, j).is = "definition" /\ Was(f, i).name = Was(f, j).name
                => i = j
<1>1. original[f] \in Texts[f]
  BY DEF Shapes
<1>2. original[f] \in [blank : {0}, tokens : Seq(Tokens)]
  BY <1>1, RenameAssumption
<1>3. original[f].tokens \in Seq(Tokens)
  BY <1>2
<1>4. Places(f) \subseteq Nat \ {0} /\ \A i \in Places(f) : Was(f, i) \in Tokens
  BY <1>3 DEF Places, Was
<1>5. QED
  BY <1>1, <1>2, <1>4, RenameAssumption DEF Places, Was

LEMMA OriginalIsVersion ==
  ASSUME Shapes, NEW f \in Files PROVE Version(f, original[f])
<1>1. original[f] \in [blank : {0}, tokens : Seq(Tokens)]
  BY Originals
<1>2. original[f].blank = 0 /\ original[f].tokens \in Seq(Tokens)
      /\ original[f] = [blank |-> original[f].blank, tokens |-> original[f].tokens]
  BY <1>1
<1>3. original[f].tokens \in [Places(f) -> Tokens]
  BY <1>2 DEF Places
<1>4. original[f] \in [blank : Nat, tokens : [Places(f) -> Tokens]]
  BY <1>2, <1>3
<1>5. QED
  BY <1>4 DEF Version, Was

(* What is defined in a text has its key there.                            *)
LEMMA KeysAreOwn ==
  ASSUME NEW f \in Files, NEW text, NEW name
  PROVE  /\ Defining(text, name) = {} => KeyOf(f, text, name) = NoKey
         /\ Defining(text, name) # {} =>
              KeyOf(f, text, name).path = f /\ KeyOf(f, text, name) # NoKey
BY RenameAssumption DEF KeyOf, NoKey

LEMMA OneDefinition ==
  ASSUME Shapes, NEW f \in Files, NEW name, NEW d \in Defining(original[f], name)
  PROVE  /\ d \in Places(f) /\ Was(f, d).is = "definition" /\ Was(f, d).name = name /\ Was(f, d).known
         /\ Defining(original[f], name) = {d}
         /\ KeyOf(f, original[f], name) = [path |-> f, line |-> d, canonical |-> TRUE]
<1>1. d \in Places(f) /\ Was(f, d).is = "definition" /\ Was(f, d).name = name /\ Was(f, d).known
  BY DEF Defining, Defines, Places, Was
<1>2. ASSUME NEW e \in Defining(original[f], name) PROVE e = d
  <2>1. e \in Places(f) /\ Was(f, e).is = "definition" /\ Was(f, e).name = name
    BY DEF Defining, Defines, Places, Was
  <2>2. QED
    BY <1>1, <2>1, Originals
<1>3. Defining(original[f], name) = {d}
  BY <1>2
<1>4. d \in Nat /\ original[f].blank = 0
  BY <1>1, Originals
<1>5. Min({d}) = d
  BY <1>4 DEF Min
<1>6. original[f].blank + Min(Defining(original[f], name)) = d
  BY <1>3, <1>4, <1>5
<1>7. Defining(original[f], name) # {}
  BY <1>3
<1>8. KeyOf(f, original[f], name) = [path |-> f, line |-> d, canonical |-> TRUE]
  BY <1>6, <1>7, Zenon DEF KeyOf
<1>9. QED
  BY <1>1, <1>3, <1>8

(* What a use refers to if its own file does not define it.                *)
Abroad(f, on, name) ==
  LET found == {KeyOf(g, on[g], name) : g \in Includes[f]} \ {NoKey}
  IN  IF found # {} THEN CHOOSE k \in found : TRUE ELSE NoKey

LEMMA Meanings ==
  ASSUME NEW f \in Files, NEW text, NEW on, NEW i,
         text.tokens[i].is \in {"definition", "use", "comment"}
  PROVE  LET token == text.tokens[i] IN
         /\ token.is = "comment" => Refers(f, text, on, i) = NoKey
         /\ token.is # "comment" /\ Defining(text, token.name) # {} =>
              Refers(f, text, on, i) = KeyOf(f, text, token.name)
         /\ token.is = "use" /\ Defining(text, token.name) = {} =>
              Refers(f, text, on, i) = Abroad(f, on, token.name)
         /\ token.is = "definition" /\ Defining(text, token.name) = {} =>
              Refers(f, text, on, i) = NoKey
<1> DEFINE token == text.tokens[i]
           found == {KeyOf(g, on[g], token.name) : g \in Includes[f]} \ {NoKey}
<1> DEFINE key == KeyOf(f, text, token.name)
           chosen == CHOOSE k \in found : TRUE
<1>1. Refers(f, text, on, i) =
        IF token.is = "comment" THEN NoKey
        ELSE IF key # NoKey THEN key
        ELSE IF token.is = "use" /\ found # {} THEN chosen
        ELSE NoKey
  BY Zenon DEF Refers
<1>2. Abroad(f, on, token.name) = IF found # {} THEN chosen ELSE NoKey
  BY Zenon DEF Abroad
<1>3. /\ Defining(text, token.name) = {} => key = NoKey
      /\ Defining(text, token.name) # {} => key # NoKey
  BY KeysAreOwn
<1> HIDE DEF found, chosen, key
<1>4. CASE token.is = "comment"
  BY <1>1, <1>4
<1>5. CASE token.is # "comment" /\ Defining(text, token.name) # {}
  BY <1>1, <1>3, <1>5 DEF key
<1>6. CASE token.is = "use" /\ Defining(text, token.name) = {}
  <2>1. key = NoKey
    BY <1>3, <1>6
  <2>2. Refers(f, text, on, i) = IF found # {} THEN chosen ELSE NoKey
    BY <1>1, <1>6, <2>1
  <2>3. QED
    BY <1>2, <1>6, <2>2
<1>7. CASE token.is = "definition" /\ Defining(text, token.name) = {}
  <2>1. key = NoKey
    BY <1>3, <1>7
  <2>2. Refers(f, text, on, i) = NoKey
    BY <1>1, <1>7, <2>1
  <2>3. QED
    BY <1>7, <2>2
<1>8. QED
  BY <1>4, <1>5, <1>6, <1>7

(* What is found abroad is defined in a file that is included.             *)
LEMMA AbroadIsIncluded ==
  ASSUME NEW f \in Files, NEW on, NEW name, Abroad(f, on, name) # NoKey
  PROVE  \E g \in Includes[f] : Abroad(f, on, name) = KeyOf(g, on[g], name)
                                /\ Defining(on[g], name) # {}
<1> DEFINE found == {KeyOf(g, on[g], name) : g \in Includes[f]} \ {NoKey}
<1>1. Abroad(f, on, name) \in found
  BY DEF Abroad
<1>2. PICK g \in Includes[f] : Abroad(f, on, name) = KeyOf(g, on[g], name)
  BY <1>1
<1>3. g \in Files
  BY RenameAssumption
<1>4. QED
  BY <1>2, <1>3, KeysAreOwn

(* A token that its own file defines means what is defined there.          *)
LEMMA MeantAtHome ==
  ASSUME Shapes, NEW f \in Files, NEW i \in Places(f), Was(f, i).is # "comment",
         NEW d \in Defining(original[f], Was(f, i).name)
  PROVE  Meant(f, i) = [path |-> f, line |-> d, canonical |-> TRUE]
<1>1. Was(f, i).is \in {"definition", "use", "comment"}
  BY Originals DEF Tokens
<1>2. Meant(f, i) = KeyOf(f, original[f], Was(f, i).name)
  BY <1>1, Meanings DEF Meant, Was
<1>3. KeyOf(f, original[f], Was(f, i).name) = [path |-> f, line |-> d, canonical |-> TRUE]
  BY OneDefinition, SMTT(20)
<1>4. QED
  BY <1>2, <1>3

(* And whatever means something of its own file is defined there.          *)
LEMMA HomeIsDefined ==
  ASSUME Shapes, NEW f \in Files, NEW i \in Places(f), Meant(f, i).path = f
  PROVE  Was(f, i).is # "comment" /\ \E d \in Places(f) : d \in Defining(original[f], Was(f, i).name)
<1>1. Was(f, i).is \in {"definition", "use", "comment"}
  BY Originals DEF Tokens
<1>2. Meant(f, i) # NoKey
  BY RenameAssumption DEF NoKey
<1>3. Was(f, i).is # "comment"
  BY <1>1, <1>2, Meanings DEF Meant, Was
<1>4. ASSUME Defining(original[f], Was(f, i).name) = {} PROVE FALSE
  <2>1. Meant(f, i) = Abroad(f, original, Was(f, i).name)
    BY <1>1, <1>2, <1>3, <1>4, Meanings DEF Meant, Was
  <2>2. PICK g \in Includes[f] : Meant(f, i) = KeyOf(g, original[g], Was(f, i).name)
                                 /\ Defining(original[g], Was(f, i).name) # {}
    BY <1>2, <2>1, AbroadIsIncluded
  <2>3. g \in Files
    BY RenameAssumption
  <2>4. g = f
    BY <2>2, <2>3, KeysAreOwn
  <2>5. QED
    BY <1>4, <2>2, <2>4
<1>5. QED
  BY <1>3, <1>4, OneDefinition

(***************************************************************************)
(* Names that the policy is not content with.                              *)
(***************************************************************************)
Unwanted(n) == n \in DOMAIN Suggested /\ Suggested[n] # n

(* A token that has such a name had it at the start.                       *)
LEMMA KeptNames ==
  ASSUME Shapes, NEW f \in Files, NEW text, Version(f, text), NEW i \in Places(f),
         Unwanted(text.tokens[i].name)
  PROVE  Was(f, i).name = text.tokens[i].name
<1>1. Was(f, i).name \in DOMAIN Suggested
  BY Originals DEF Tokens
<1>2. text.tokens[i].name \in {Was(f, i).name, Suggested[Was(f, i).name]}
  BY DEF Version
<1>3. QED
  BY <1>1, <1>2, RenameAssumption DEF Unwanted

LEMMA KeptDefinitions ==
  ASSUME Shapes, NEW f \in Files, NEW text, Version(f, text), NEW n, Unwanted(n),
         NEW d \in Defining(text, n)
  PROVE  d \in Defining(original[f], n)
<1>1. DOMAIN text.tokens = Places(f)
  BY DEF Version
<1>2. d \in Places(f) /\ text.tokens[d].is = "definition" /\ text.tokens[d].name = n /\ text.tokens[d].known
  BY <1>1 DEF Defining, Defines
<1>3. Was(f, d).is = "definition" /\ Was(f, d).known
  BY <1>2 DEF Version
<1>4. Was(f, d).name = n
  BY <1>2, KeptNames
<1>5. QED
  BY <1>2, <1>3, <1>4 DEF Defining, Defines, Was, Places

(* Lines that are put before a text change none of its names.              *)
LEMMA LinesBefore ==
  ASSUME NEW P, NEW f \in Files, NEW text, Explained(P, f, text), NEW k \in Nat
  PROVE  Explained(P, f, [text EXCEPT !.blank = @ + k])
<1> DEFINE moved == [text EXCEPT !.blank = @ + k]
<1>1. /\ moved \in [blank : Nat, tokens : [Places(f) -> Tokens]]
      /\ moved.tokens = text.tokens
  BY DEF Explained, Version
<1> HIDE DEF moved
<1>2. Explained(P, f, moved)
  BY <1>1 DEF Explained, Version, NewIn
<1>3. QED
  BY <1>2 DEF moved

LEMMA StartIsExplained ==
  ASSUME Shapes, NEW f \in Files, NEW P PROVE Explained(P, f, original[f])
BY OriginalIsVersion DEF Explained, NewIn, Was

(***************************************************************************)
(* The local rename.                                                       *)
(***************************************************************************)
LEMMA LocalIsExplained ==
  ASSUME Shapes, NEW f \in Files, NEW k \in Nat, NEW P, NEW on,
         P[f] = Exported(f, [original[f] EXCEPT !.blank = @ + k])
  PROVE  Explained(P, f, LocallyRenamed(f, [original[f] EXCEPT !.blank = @ + k], on))
<1> DEFINE given == [original[f] EXCEPT !.blank = @ + k]
           text == LocallyRenamed(f, given, on)
           Hit(i) == \E d \in Planned(given) : i \in Replacements(f, given, on, d)
<1>1. Explained(P, f, given)
  BY StartIsExplained, LinesBefore
<1>2. given.tokens = original[f].tokens /\ given \in [blank : Nat, tokens : [Places(f) -> Tokens]]
  <2>1. original[f] \in [blank : {0}, tokens : Seq(Tokens)]
    BY Originals
  <2>2. QED
    BY <1>1, <2>1 DEF Explained, Version
<1> HIDE DEF given
<1>3. ASSUME NEW d \in Planned(given)
      PROVE  /\ d \in Places(f) /\ Was(f, d).is = "definition" /\ Unwanted(Was(f, d).name)
             /\ Was(f, d).known =>
                  \E p \in P[f] : p.old = Was(f, d).name
  <2>1. d \in Places(f) /\ given.tokens[d] = Was(f, d)
    BY <1>2, <1>3 DEF Planned, Places, Was
  <2>2. Was(f, d).name \in DOMAIN Suggested
    BY <2>1, Originals DEF Tokens
  <2>3. Was(f, d).is = "definition" /\ Suggested[Was(f, d).name] # Was(f, d).name
    BY <1>3, <2>1 DEF Planned
  <2> DEFINE p == [decl |-> [path |-> f, line |-> given.blank + d, canonical |-> root], old |-> given.tokens[d].name,
                   new |-> Suggested[given.tokens[d].name]]
  <2>4. Was(f, d).known => p \in P[f] /\ p.old = Was(f, d).name
    BY <1>3, <2>1 DEF Exported, given
  <2>5. QED
    BY <2>1, <2>2, <2>3, <2>4 DEF Unwanted
<1>4. ASSUME NEW d \in Planned(given), NEW i \in Replacements(f, given, on, d)
      PROVE  /\ i \in Places(f) /\ Was(f, i).name = Was(f, d).name /\ Was(f, i).is # "comment"
             /\ d \in Replacements(f, given, on, d)
  <2>1. i \in Occurrences(f, given, on, d) /\ d \in Replacements(f, given, on, d)
    BY <1>4 DEF Replacements
  <2>2. i \in DOMAIN given.tokens
    BY <2>1, <1>3 DEF Occurrences, RefOffsets, Planned
  <2>3. QED
    BY <1>2, <2>1, <2>2 DEF Occurrences, Places, Was
<1>5. ASSUME NEW i \in Places(f)
      PROVE  text.tokens[i] = IF Hit(i) THEN [Was(f, i) EXCEPT !.name = Suggested[@]] ELSE Was(f, i)
  <2> DEFINE tokens == [j \in DOMAIN given.tokens |->
                          IF Hit(j) THEN [given.tokens[j] EXCEPT !.name = Suggested[@]] ELSE given.tokens[j]]
  <2>1. text = [given EXCEPT !.tokens = tokens]
    BY DEF LocallyRenamed
  <2>2. text.tokens = tokens
    BY <1>2, <2>1
  <2>3. tokens[i] = IF Hit(i) THEN [given.tokens[i] EXCEPT !.name = Suggested[@]] ELSE given.tokens[i]
    BY <1>2 DEF Places
  <2>4. given.tokens[i] = Was(f, i)
    BY <1>2 DEF Was
  <2>5. QED
    BY <2>2, <2>3, <2>4
<1>6. text \in [blank : Nat, tokens : [Places(f) -> Tokens]]
  <2>1. text = [given EXCEPT !.tokens = text.tokens]
    BY <1>2 DEF LocallyRenamed
  <2>2. text.tokens = [i \in Places(f) |-> text.tokens[i]]
    BY <1>2 DEF LocallyRenamed
  <2>3. ASSUME NEW i \in Places(f) PROVE text.tokens[i] \in Tokens
    <3>1. Was(f, i) \in Tokens /\ Was(f, i).name \in DOMAIN Suggested
      BY Originals DEF Tokens
    <3>2. [Was(f, i) EXCEPT !.name = Suggested[@]] \in Tokens
      BY <3>1, RenameAssumption DEF Tokens
    <3>3. QED
      BY <1>5, <3>1, <3>2
  <2> HIDE DEF text
  <2>4. text.tokens \in [Places(f) -> Tokens]
    BY <2>2, <2>3
  <2>5. QED
    BY <1>2, <2>1, <2>4
<1>7. ASSUME NEW i \in Places(f)
      PROVE  /\ text.tokens[i].name = IF Hit(i) THEN Suggested[Was(f, i).name] ELSE Was(f, i).name
             /\ text.tokens[i].is = Was(f, i).is /\ text.tokens[i].known = Was(f, i).known
  <2>1. Was(f, i) \in Tokens
    BY Originals
  <2>2. QED
    BY <1>5, <2>1 DEF Tokens
<1> HIDE DEF text
<1>8. Version(f, text)
  BY <1>6, <1>7 DEF Version
<1>9. ASSUME NEW i \in Places(f), NewIn(f, text, i)
      PROVE  Justified(P, f, i) /\ (Meant(f, i).path = f => NewIn(f, text, Meant(f, i).line))
  <2>1. PICK d \in Planned(given) : i \in Replacements(f, given, on, d)
    BY <1>7, <1>9 DEF NewIn
  <2>2. /\ d \in Places(f) /\ Was(f, d).is = "definition" /\ Was(f, i).is # "comment"
        /\ Was(f, i).name = Was(f, d).name /\ Unwanted(Was(f, d).name)
        /\ Was(f, d).known => \E p \in P[f] : p.old = Was(f, d).name
        /\ d \in Replacements(f, given, on, d)
    BY <1>3, <1>4, <2>1
  <2>3. NewIn(f, text, d)
    BY <1>7, <2>1, <2>2 DEF NewIn, Unwanted
  <2>4. CASE Was(f, d).known
    <3>1. d \in Defining(original[f], Was(f, i).name)
      BY <2>2, <2>4 DEF Defining, Defines, Places, Was
    <3>2. Meant(f, i) = [path |-> f, line |-> d, canonical |-> TRUE]
      BY <2>2, <3>1, MeantAtHome
    <3>3. QED
      BY <2>2, <2>3, <2>4, <3>2 DEF Justified
  <2>5. CASE ~Was(f, d).known
    <3>1. Justified(P, f, i)
      BY <2>2, <2>5 DEF Justified
    <3>2. ASSUME Meant(f, i).path = f PROVE FALSE
      <4>1. PICK e \in Places(f) : e \in Defining(original[f], Was(f, i).name)
        BY <3>2, HomeIsDefined
      <4>2. Was(f, e).is = "definition" /\ Was(f, e).name = Was(f, i).name /\ Was(f, e).known
        BY <4>1 DEF Defining, Defines, Places, Was
      <4>3. e = d
        BY <2>2, <4>2, Originals
      <4>4. QED
        BY <2>5, <4>2, <4>3
    <3>3. QED
      BY <3>1, <3>2
  <2>6. QED
    BY <2>4, <2>5
<1>10. Explained(P, f, text)
  BY <1>8, <1>9 DEF Explained
<1>11. QED
  BY <1>10 DEF text, given

(***************************************************************************)
(* The renames of other files.                                             *)
(***************************************************************************)
Hit(f, text, i) == \E p \in Agreed : i \in Matching(f, text, p)

LEMMA AgreedArePlans ==
  ASSUME Shapes, NEW p \in Agreed
  PROVE  \E g \in Planners : /\ p \in plans[g] /\ p.decl.path = g /\ Unwanted(p.old)
                             /\ p.new = Suggested[p.old]
<1>1. PICK g \in Planners : p \in plans[g]
  BY DEF Agreed
<1>2. g \in Files
  BY DEF Planners
<1>3. p \in PlansOf(g)
  BY <1>1, <1>2 DEF Shapes
<1>4. QED
  BY <1>1, <1>3 DEF PlansOf, Plans, Unwanted

(* What is hit reads as the old name of a plan, and had it at the start.   *)
LEMMA HitsAreOld ==
  ASSUME Shapes, NEW f \in Files, NEW text, Version(f, text),
         NEW p \in Agreed, NEW i \in Matching(f, text, p)
  PROVE  /\ i \in Places(f) /\ Refers(f, text, disk, i) = p.decl
         /\ text.tokens[i].name = p.old /\ Was(f, i).name = p.old /\ Unwanted(p.old)
<1>1. Unwanted(p.old)
  BY AgreedArePlans
<1>2. DOMAIN text.tokens = Places(f)
  BY DEF Version
<1>3. i \in Places(f) /\ Refers(f, text, disk, i) = p.decl /\ text.tokens[i].name = p.old
  BY <1>2 DEF Matching, RefOffsets
<1>4. QED
  BY <1>1, <1>3, KeptNames

LEMMA PropagatedNames ==
  ASSUME Shapes, NEW f \in Files, NEW text, Version(f, text)
  PROVE  /\ Version(f, Propagated(f, text))
         /\ \A i \in Places(f) :
              Propagated(f, text).tokens[i].name =
                IF Hit(f, text, i) THEN Suggested[Was(f, i).name] ELSE text.tokens[i].name
<1> DEFINE final == Propagated(f, text)
           Chosen(i) == CHOOSE p \in Agreed : i \in Matching(f, text, p)
           tokens == [i \in DOMAIN text.tokens |->
                        IF Hit(f, text, i) THEN [text.tokens[i] EXCEPT !.name = Chosen(i).new]
                        ELSE text.tokens[i]]
<1>1. /\ text \in [blank : Nat, tokens : [Places(f) -> Tokens]]
      /\ text.tokens \in [Places(f) -> Tokens] /\ DOMAIN text.tokens = Places(f)
  BY DEF Version
<1>2. final = [text EXCEPT !.tokens = tokens]
  BY DEF Propagated, Hit
<1>3. final.tokens = tokens
  BY <1>1, <1>2
<1>4. ASSUME NEW i \in Places(f)
      PROVE  tokens[i] = IF Hit(f, text, i) THEN [text.tokens[i] EXCEPT !.name = Suggested[Was(f, i).name]]
                         ELSE text.tokens[i]
  <2>1. CASE Hit(f, text, i)
    <3>1. Chosen(i) \in Agreed /\ i \in Matching(f, text, Chosen(i))
      BY <2>1 DEF Hit
    <3>2. tokens[i] = [text.tokens[i] EXCEPT !.name = Chosen(i).new]
      BY <1>1, <2>1
    <3> HIDE DEF Chosen
    <3>3. Chosen(i).new = Suggested[Was(f, i).name]
      BY <3>1, HitsAreOld, AgreedArePlans
    <3>4. QED
      BY <2>1, <3>2, <3>3
  <2>2. CASE ~Hit(f, text, i)
    BY <1>1, <2>2
  <2>3. QED
    BY <2>1, <2>2
<1>5. tokens = [i \in Places(f) |-> tokens[i]]
  BY <1>1
<1> HIDE DEF tokens, final
<1>6. ASSUME NEW i \in Places(f)
      PROVE  /\ final.tokens[i] \in Tokens
             /\ final.tokens[i].name = IF Hit(f, text, i) THEN Suggested[Was(f, i).name]
                                       ELSE text.tokens[i].name
             /\ final.tokens[i].is = text.tokens[i].is /\ final.tokens[i].known = text.tokens[i].known
  <2>1. text.tokens[i] \in Tokens /\ Was(f, i) \in Tokens
    BY <1>1, Originals
  <2>2. Suggested[Was(f, i).name] \in DOMAIN Suggested
    BY <2>1, RenameAssumption DEF Tokens
  <2>3. CASE Hit(f, text, i)
    <3> DEFINE new == Suggested[Was(f, i).name]
    <3>1. final.tokens[i] = [text.tokens[i] EXCEPT !.name = new] /\ new \in DOMAIN Suggested
      BY <1>3, <1>4, <2>2, <2>3
    <3> HIDE DEF new
    <3>2. /\ final.tokens[i] \in Tokens /\ final.tokens[i].name = new
          /\ final.tokens[i].is = text.tokens[i].is /\ final.tokens[i].known = text.tokens[i].known
      BY <2>1, <3>1 DEF Tokens
    <3>3. QED
      BY <2>3, <3>2 DEF new
  <2>4. CASE ~Hit(f, text, i)
    BY <1>3, <1>4, <2>1, <2>4
  <2>5. QED
    BY <2>3, <2>4
<1>7. final.tokens \in [Places(f) -> Tokens]
  BY <1>3, <1>5, <1>6
<1>8. final \in [blank : Nat, tokens : [Places(f) -> Tokens]]
  BY <1>1, <1>2, <1>3, <1>7
<1>9. Version(f, final)
  BY <1>6, <1>8 DEF Version
<1>10. QED
  BY <1>6, <1>9 DEF final

LEMMA PropagatedIsExplained ==
  ASSUME Shapes, disk = original, NEW f \in Files, NEW text, Explained(plans, f, text)
  PROVE  Explained(plans, f, Propagated(f, text))
<1> DEFINE final == Propagated(f, text)
<1>1. Version(f, text)
  BY DEF Explained
<1>2. /\ Version(f, final)
      /\ \A i \in Places(f) :
           final.tokens[i].name = IF Hit(f, text, i) THEN Suggested[Was(f, i).name] ELSE text.tokens[i].name
  BY <1>1, PropagatedNames
<1> HIDE DEF final
<1>3. ASSUME NEW i \in Places(f), Hit(f, text, i) PROVE NewIn(f, final, i)
  <2>1. PICK p \in Agreed : i \in Matching(f, text, p)
    BY <1>3 DEF Hit
  <2>2. Was(f, i).name = p.old /\ Unwanted(p.old)
    BY <1>1, <2>1, HitsAreOld
  <2>3. QED
    BY <1>2, <1>3, <2>2 DEF NewIn, Unwanted
<1>4. ASSUME NEW i \in Places(f), NewIn(f, text, i) PROVE NewIn(f, final, i)
  BY <1>2, <1>3, <1>4 DEF NewIn
<1>5. ASSUME NEW i \in Places(f), Hit(f, text, i)
      PROVE  Justified(plans, f, i) /\ (Meant(f, i).path = f => NewIn(f, final, Meant(f, i).line))
  <2>1. PICK p \in Agreed : i \in Matching(f, text, p)
    BY <1>5 DEF Hit
  <2> DEFINE n == Was(f, i).name
  <2>2. /\ Refers(f, text, disk, i) = p.decl /\ text.tokens[i].name = n /\ n = p.old /\ Unwanted(n)
    BY <1>1, <2>1, HitsAreOld
  <2>3. PICK g \in Files : p \in plans[g] /\ p.decl.path = g
    BY AgreedArePlans DEF Planners
  <2>4. Was(f, i).is \in {"definition", "use", "comment"} /\ text.tokens[i].is = Was(f, i).is
    BY <1>1, Originals DEF Tokens, Version
  <2>5. p.decl # NoKey
    BY <2>3, RenameAssumption DEF NoKey
  <2>6. Was(f, i).is # "comment"
    BY <2>2, <2>4, <2>5, Meanings
  <2>7. CASE Defining(text, n) # {}
    <3>1. PICK d : d \in Defining(text, n)
      BY <2>7
    <3>2. d \in Defining(original[f], n)
      BY <1>1, <2>2, <3>1, KeptDefinitions
    <3>3. Meant(f, i) = [path |-> f, line |-> d, canonical |-> TRUE]
      BY <2>6, <3>2, MeantAtHome
    <3>4. Refers(f, text, disk, i) = KeyOf(f, text, n)
      BY <2>2, <2>4, <2>6, <2>7, Meanings
    <3>5. g = f
      BY <2>2, <2>3, <2>7, <3>4, KeysAreOwn
    <3>6. d \in Places(f) /\ Was(f, d).is = "definition"
      <4> HIDE DEF n
      <4>1. QED
        BY <3>2 DEF Defining, Defines, Places, Was
    <3>7. text.tokens[d].name = n /\ text.tokens[d].is = "definition" /\ d \in DOMAIN text.tokens
      BY <3>1 DEF Defining, Defines
    <3>8. Refers(f, text, disk, d) = KeyOf(f, text, n)
      BY <2>7, <3>7, Meanings
    <3>9. d \in Matching(f, text, p)
      BY <2>2, <3>4, <3>7, <3>8 DEF Matching, RefOffsets
    <3>10. NewIn(f, final, d)
      BY <1>3, <3>6, <3>9 DEF Hit
    <3>11. QED
      BY <2>2, <2>3, <2>6, <3>3, <3>5, <3>10 DEF Justified
  <2>8. CASE Defining(text, n) = {}
    <3>1. Was(f, i).is = "use" /\ p.decl = Abroad(f, disk, n)
      BY <2>2, <2>4, <2>5, <2>6, <2>8, Meanings
    <3>2. CASE Defining(original[f], n) = {}
      <4>1. Meant(f, i) = p.decl
        BY <2>4, <3>1, <3>2, Meanings DEF Meant, Was
      <4>2. Meant(f, i).path # f
        BY <3>2, HomeIsDefined
      <4>3. QED
        BY <2>2, <2>3, <2>6, <4>1, <4>2 DEF Justified
    <3>3. CASE Defining(original[f], n) # {}
      <4>1. PICK d : d \in Defining(original[f], n)
        BY <3>3
      <4>2. /\ d \in Places(f) /\ Was(f, d).is = "definition" /\ Was(f, d).name = n /\ Was(f, d).known
        BY <4>1 DEF Defining, Defines, Places, Was
      <4>3. Meant(f, i) = [path |-> f, line |-> d, canonical |-> TRUE] /\ Meant(f, d) = [path |-> f, line |-> d, canonical |-> TRUE]
        BY <2>6, <4>1, <4>2, MeantAtHome
      <4>4. NewIn(f, text, d)
        <5>1. DOMAIN text.tokens = Places(f) /\ text.tokens[d].is = "definition" /\ text.tokens[d].known
          BY <1>1, <4>2 DEF Version
        <5>2. d \notin Defining(text, n)
          BY <2>8
        <5>3. QED
          BY <4>2, <5>1, <5>2 DEF Defining, Defines, NewIn
      <4>5. Justified(plans, f, d)
        BY <4>2, <4>4 DEF Explained
      <4>6. Justified(plans, f, i)
        BY <2>6, <4>2, <4>3, <4>5 DEF Justified
      <4>7. QED
        BY <1>4, <4>2, <4>3, <4>4, <4>6
    <3>4. QED
      BY <3>2, <3>3
  <2>9. QED
    BY <2>7, <2>8
<1>6. ASSUME NEW i \in Places(f), NewIn(f, final, i)
      PROVE  Justified(plans, f, i) /\ (Meant(f, i).path = f => NewIn(f, final, Meant(f, i).line))
  <2>1. CASE Hit(f, text, i)
    BY <1>5, <2>1
  <2>2. CASE ~Hit(f, text, i)
    <3>1. NewIn(f, text, i)
      BY <1>2, <1>6, <2>2 DEF NewIn
    <3>2. Justified(plans, f, i) /\ (Meant(f, i).path = f => NewIn(f, text, Meant(f, i).line))
      BY <3>1 DEF Explained
    <3>3. ASSUME Meant(f, i).path = f PROVE Meant(f, i).line \in Places(f)
      <4>1. PICK d \in Places(f) : d \in Defining(original[f], Was(f, i).name)
        BY <3>3, HomeIsDefined
      <4>2. Meant(f, i) = [path |-> f, line |-> d, canonical |-> TRUE]
        BY <3>3, <4>1, HomeIsDefined, MeantAtHome
      <4>3. QED
        BY <4>1, <4>2
    <3>4. QED
      BY <1>4, <3>2, <3>3
  <2>3. QED
    BY <2>1, <2>2
<1>7. Explained(plans, f, final)
  BY <1>2, <1>6 DEF Explained
<1>8. QED
  BY <1>7 DEF final

(* Uses of what another file declares follow its plan.                     *)
LEMMA PropagatedFollows ==
  ASSUME Shapes, disk = original, NEW f \in Files, NEW text, Version(f, text),
         Agreed = UNION {plans[g] : g \in Planners}, \A g \in Files : plans[g] # {} => g \in Planners
  PROVE  Follows(f, Propagated(f, text))
<1> SUFFICES ASSUME NEW i \in Places(f), NEW g \in Files, NEW p \in plans[g],
                    Was(f, i).is = "use", Meant(f, i).path # f,
                    p.decl = Meant(f, i), p.old = Was(f, i).name
             PROVE  Propagated(f, text).tokens[i].name = p.new
  BY DEF Follows
<1> DEFINE n == Was(f, i).name
<1>1. p \in Agreed
  <2>1. g \in Planners
    OBVIOUS
  <2>2. QED
    BY <2>1
<1>2. p.new = Suggested[n] /\ Unwanted(n) /\ p.decl.path = g
  <2>1. p \in PlansOf(g)
    BY DEF Shapes
  <2>2. QED
    BY <2>1 DEF PlansOf, Plans, Unwanted
<1>3. Propagated(f, text).tokens[i].name = IF Hit(f, text, i) THEN Suggested[n] ELSE text.tokens[i].name
  BY PropagatedNames
<1>4. text.tokens[i].name \in {n, Suggested[n]} /\ text.tokens[i].is = "use" /\ i \in DOMAIN text.tokens
  BY DEF Version
<1>5. CASE text.tokens[i].name = n
  <2>1. Defining(original[f], n) = {}
    <3>1. ASSUME NEW d \in Defining(original[f], n) PROVE FALSE
      BY <3>1, MeantAtHome
    <3>2. QED
      BY <3>1
  <2>2. Defining(text, n) = {}
    BY <1>2, <2>1, KeptDefinitions
  <2>3. Meant(f, i) = Abroad(f, original, n)
    BY <2>1, Meanings DEF Meant, Was
  <2>4. Refers(f, text, disk, i) = Abroad(f, disk, n)
    BY <1>4, <1>5, <2>2, Meanings
  <2>5. i \in Matching(f, text, p)
    BY <1>4, <1>5, <2>3, <2>4 DEF Matching, RefOffsets
  <2>6. QED
    BY <1>1, <1>2, <1>3, <2>5 DEF Hit
<1>6. CASE text.tokens[i].name = Suggested[n]
  BY <1>2, <1>3, <1>6
<1>7. QED
  BY <1>4, <1>5, <1>6

(***************************************************************************)
(* The actions.                                                            *)
(***************************************************************************)
LEMMA InitRenames == Init => RenameInv
<1> SUFFICES ASSUME Init PROVE RenameInv
  OBVIOUS
<1>1. original = disk /\ disk \in [Files -> UNION {Texts[f] : f \in Files}] /\ \A f \in Files : disk[f] \in Texts[f]
  BY DEF Init
<1>2. Shapes
  BY <1>1, RenameAssumption DEF Init, Shapes
<1>3. Untouched
  BY DEF Init, Untouched
<1>4. Accounted
  BY <1>1, <1>2, StartIsExplained DEF Init, Accounted
<1>5. Followed
  BY DEF Init, Followed
<1>6. QED
  BY <1>2, <1>3, <1>4, <1>5 DEF RenameInv

(* More plans explain no less.                                             *)
LEMMA MorePlans ==
  ASSUME NEW P, NEW Q, \A g \in Files : P[g] \subseteq Q[g],
         NEW f \in Files, NEW text, Explained(P, f, text)
  PROVE  Explained(Q, f, text)
BY DEF Explained, Justified

(* What was meant does not change.                                         *)
LEMMA StaysAccounted ==
  ASSUME UNCHANGED original,
         \A f \in Files : /\ Explained(plans', f, disk'[f])
                          /\ pending'[f] # None => Explained(plans', f, pending'[f])
  PROVE  Accounted'
<1>1. \A f : /\ Places(f)' = Places(f)
             /\ \A i : Was(f, i)' = Was(f, i) /\ Meant(f, i)' = Meant(f, i)
  BY DEF Places, Was, Meant
<1>2. ASSUME NEW f \in Files PROVE Explained(plans, f, disk[f])'
  <2>1. Explained(plans', f, disk'[f])
    BY <1>2
  <2>2. Version(f, disk[f])'
    BY <1>1, <2>1 DEF Explained, Version
  <2>3. ASSUME NEW i \in Places(f), NewIn(f, disk[f], i)'
        PROVE  Justified(plans, f, i)' /\ ((Meant(f, i).path = f)' => NewIn(f, disk[f], Meant(f, i).line)')
    <3>1. NewIn(f, disk'[f], i)
      BY <1>1, <2>3 DEF NewIn
    <3>2. Justified(plans', f, i) /\ (Meant(f, i).path = f => NewIn(f, disk'[f], Meant(f, i).line))
      BY <2>1, <3>1 DEF Explained
    <3>3. Justified(plans, f, i)'
      BY <1>1, <3>2 DEF Justified
    <3>4. (Meant(f, i).path = f)' => NewIn(f, disk[f], Meant(f, i).line)'
      BY <1>1, <3>2 DEF NewIn
    <3>5. QED
      BY <3>3, <3>4
  <2>4. QED
    BY <1>1, <2>2, <2>3 DEF Explained
<1>3. ASSUME NEW f \in Files, (pending[f] # None)' PROVE Explained(plans, f, pending[f])'
  <2>1. Explained(plans', f, pending'[f])
    BY <1>3
  <2>2. Version(f, pending[f])'
    BY <1>1, <2>1 DEF Explained, Version
  <2>3. ASSUME NEW i \in Places(f), NewIn(f, pending[f], i)'
        PROVE  Justified(plans, f, i)' /\ ((Meant(f, i).path = f)' => NewIn(f, pending[f], Meant(f, i).line)')
    <3>1. NewIn(f, pending'[f], i)
      BY <1>1, <2>3 DEF NewIn
    <3>2. Justified(plans', f, i) /\ (Meant(f, i).path = f => NewIn(f, pending'[f], Meant(f, i).line))
      BY <2>1, <3>1 DEF Explained
    <3>3. Justified(plans, f, i)'
      BY <1>1, <3>2 DEF Justified
    <3>4. (Meant(f, i).path = f)' => NewIn(f, pending[f], Meant(f, i).line)'
      BY <1>1, <3>2 DEF NewIn
    <3>5. QED
      BY <3>3, <3>4
  <2>4. QED
    BY <1>1, <2>2, <2>3 DEF Explained
<1>4. QED
  BY <1>2, <1>3 DEF Accounted

LEMMA FormatKeeps == ASSUME RenameInv, NEW f \in Files, Format(f) PROVE RenameInv'
<1>1. /\ Shapes /\ phase = "format" /\ disk = original /\ f \in todo /\ todo' = todo \ {f}
      /\ plans[f] = {} /\ \A g \in error : g \in Files => plans[g] = {}
      /\ UNCHANGED <<disk, phase, allowed, root, original>>
  BY DEF RenameInv, Untouched, Format
<1>2. CASE error' = error \cup {f} /\ UNCHANGED <<plans, pending>>
  <2>1. Shapes'
    BY <1>1, <1>2 DEF Shapes
  <2>2. Untouched'
    BY <1>1, <1>2 DEF RenameInv, Untouched
  <2>3. Accounted'
    BY <1>1, <1>2, StaysAccounted DEF RenameInv, Accounted
  <2>4. Followed'
    BY <1>1 DEF Followed
  <2>5. QED
    BY <2>1, <2>2, <2>3, <2>4 DEF RenameInv
<1> DEFINE Given(before) == [disk[f] EXCEPT !.blank = @ + before]
           Named(before, kept) ==
             IF kept THEN LocallyRenamed(f, Given(before), disk) ELSE Given(before)
           Final(before, after, kept) == [Named(before, kept) EXCEPT !.blank = @ + after]
           Leaves(before, after, kept) ==
             /\ plans' = [plans EXCEPT ![f] = Exported(f, Given(before))]
             /\ pending' = [pending EXCEPT ![f] =
                   IF Final(before, after, kept) = disk[f] THEN None ELSE Final(before, after, kept)]
             /\ UNCHANGED error
<1>a. \/ error' = error \cup {f} /\ UNCHANGED <<plans, pending>>
      \/ \E before, after \in {0, 1}, kept \in BOOLEAN : Leaves(before, after, kept)
  BY Zenon DEF Format
<1>3. ASSUME NEW before \in {0, 1}, NEW after \in {0, 1}, NEW kept \in BOOLEAN,
             Leaves(before, after, kept)
      PROVE  RenameInv'
  <2> DEFINE given == Given(before)
             named == Named(before, kept)
             final == Final(before, after, kept)
  <2>1. /\ plans' = [plans EXCEPT ![f] = Exported(f, given)]
        /\ pending' = [pending EXCEPT ![f] = IF final = disk[f] THEN None ELSE final]
        /\ UNCHANGED error
    BY <1>3
  <2>2. plans'[f] = Exported(f, given) /\ \A g \in Files \ {f} : plans'[g] = plans[g]
    BY <1>1, <2>1 DEF Shapes
  <2>3. \A g \in Files : plans[g] \subseteq plans'[g]
    BY <1>1, <2>2
  <2>4. Explained(plans', f, given)
    <3>1. Explained(plans', f, disk[f])
      BY <1>1, StartIsExplained
    <3>2. QED
      BY <1>1, <3>1, LinesBefore
  <2>5. Explained(plans', f, LocallyRenamed(f, given, disk))
    BY <1>1, <2>2, LocalIsExplained
  <2>6. Explained(plans', f, named)
    BY <2>4, <2>5
  <2>7. Explained(plans', f, final)
    <3>1. final = [named EXCEPT !.blank = @ + after] /\ after \in Nat
      OBVIOUS
    <3> HIDE DEF given, named, final, Given, Named, Final, Leaves
    <3>2. QED
      BY <2>6, <3>1, LinesBefore
  <2>8. Exported(f, given) \subseteq PlansOf(f)
    <3> HIDE DEF given, named, final, Given, Named, Final, Leaves
    <3>a. Version(f, given)
      BY <2>4 DEF Explained
    <3>b. Places(f) \subseteq Nat
      BY <1>1, Originals
    <3>1. given \in [blank : Nat, tokens : [Places(f) -> Tokens]] /\ Places(f) \subseteq Nat
      BY <3>a, <3>b DEF Version
    <3>2. given.blank \in Nat /\ given.tokens \in [Places(f) -> Tokens]
      BY <3>1
    <3>3. ASSUME NEW i \in Planned(given), given.tokens[i].known
          PROVE  [decl |-> [path |-> f, line |-> given.blank + i, canonical |-> root], old |-> given.tokens[i].name,
                  new |-> Suggested[given.tokens[i].name]] \in PlansOf(f)
      <4>1. i \in Places(f) /\ Suggested[given.tokens[i].name] # given.tokens[i].name
        BY <3>2 DEF Planned
      <4>2. given.tokens[i].name \in DOMAIN Suggested
        BY <3>2, <4>1 DEF Tokens
      <4>3. given.blank + i \in Nat
        BY <3>1, <3>2, <4>1
      <4>4. Suggested[given.tokens[i].name] \in DOMAIN Suggested
        BY <4>2, RenameAssumption
      <4>5. root \in BOOLEAN
        BY <1>1 DEF Shapes
      <4>6. QED
        BY <4>1, <4>2, <4>3, <4>4, <4>5, Zenon DEF PlansOf, Plans
    <3>4. QED
      BY <3>3 DEF Exported
  <2> HIDE DEF final, named, given
  <2>9. Shapes'
    <3>1. \A g \in Files : plans'[g] \subseteq PlansOf(g)
      BY <1>1, <2>2, <2>8 DEF Shapes
    <3>2. DOMAIN plans' = Files /\ DOMAIN pending' = Files
      BY <1>1, <2>1 DEF Shapes
    <3>3. QED
      BY <1>1, <3>1, <3>2 DEF Shapes, PlansOf, Plans
  <2>10. Untouched'
    BY <1>1, <2>1, <2>2 DEF RenameInv, Untouched
  <2>11. ASSUME NEW g \in Files
         PROVE  /\ Explained(plans', g, disk'[g])
                /\ pending'[g] # None => Explained(plans', g, pending'[g])
    <3>1. Explained(plans', g, disk'[g])
      BY <1>1, StartIsExplained
    <3>2. CASE g = f
      <4>1. pending'[g] # None => pending'[g] = final
        BY <1>1, <2>1, <3>2 DEF Shapes
      <4>2. QED
        BY <2>7, <3>1, <3>2, <4>1
    <3>3. CASE g # f
      <4>1. pending'[g] = pending[g]
        BY <1>1, <2>1, <3>3 DEF Shapes
      <4>2. pending[g] # None => Explained(plans, g, pending[g])
        BY DEF RenameInv, Accounted
      <4>3. QED
        BY <2>3, <3>1, <4>1, <4>2, MorePlans
    <3>4. QED
      BY <3>2, <3>3
  <2>12. Accounted'
    BY <1>1, <2>11, StaysAccounted
  <2>13. Followed'
    BY <1>1 DEF Followed
  <2>14. QED
    BY <2>9, <2>10, <2>12, <2>13 DEF RenameInv
<1> HIDE DEF Leaves
<1>4. QED
  BY <1>a, <1>2, <1>3

LEMMA NowIsExplained ==
  ASSUME Accounted, NEW f \in Files PROVE Explained(plans, f, Now(f))
BY DEF Accounted, Now

LEMMA StaysFollowed ==
  ASSUME UNCHANGED <<original, plans, allowed, root>>,
         \A f \in Planning : Cardinality(Planning) <= allowed /\ f \in Compdb /\ f \notin error' =>
           Follows(f, Now(f)')
  PROVE  Followed'
<1>1. Planning' = Planning
  BY DEF Planning
<1>2. ASSUME NEW f \in Planning, Follows(f, Now(f)') PROVE Follows(f, Now(f))'
  <2>1. Places(f)' = Places(f) /\ \A i : Was(f, i)' = Was(f, i) /\ Meant(f, i)' = Meant(f, i)
    BY DEF Places, Was, Meant
  <2>2. QED
    BY <1>2, <2>1 DEF Follows
<1>3. QED
  BY <1>1, <1>2 DEF Followed

LEMMA PropagateKeeps == ASSUME RenameInv, Propagate PROVE RenameInv'
<1>1. /\ Shapes /\ Accounted /\ phase = "format" /\ phase' = "write" /\ disk = original
      /\ \A g \in Files : g \in error => plans[g] = {}
      /\ UNCHANGED <<disk, plans, allowed, root, original>>
  BY DEF RenameInv, Untouched, Propagate
<1>2. PICK failing \in IF MayFail THEN SUBSET (Planners \cap Compdb) ELSE {{}} :
        LET failed == IF Agreed = {} THEN {} ELSE failing
            Current(f) == IF pending[f] = None THEN disk[f] ELSE pending[f]
        IN /\ error' = error \cup failed
           /\ pending' = [f \in Files |->
                CASE f \in failed -> None
                  [] f \in (Planners \cap Compdb) \ failed /\ Propagated(f, Current(f)) # Current(f) ->
                       Propagated(f, Current(f))
                  [] OTHER -> pending[f]]
  BY DEF Propagate
<1> DEFINE failed == IF Agreed = {} THEN {} ELSE failing
<1>3. /\ error' = error \cup failed /\ DOMAIN pending' = Files
      /\ \A f \in Files :
           /\ f \in failed => pending'[f] = None
           /\ f \in Planners \cap Compdb /\ f \notin failed /\ Propagated(f, Now(f)) # Now(f) =>
                pending'[f] = Propagated(f, Now(f))
           /\ f \notin failed /\ ~(f \in Planners \cap Compdb /\ Propagated(f, Now(f)) # Now(f)) =>
                pending'[f] = pending[f]
  BY <1>2 DEF Now
<1> HIDE DEF failed
<1>4. \A f \in Files : pending'[f] \in {None, Propagated(f, Now(f)), pending[f]}
  BY <1>3
<1>5. Shapes'
  BY <1>1, <1>3 DEF Shapes, PlansOf, Plans
<1>6. Untouched'
  BY <1>1 DEF Untouched
<1>7. ASSUME NEW f \in Files
      PROVE  /\ Explained(plans', f, disk'[f])
             /\ pending'[f] # None => Explained(plans', f, pending'[f])
  <2>1. Explained(plans, f, Propagated(f, Now(f)))
    BY <1>1, NowIsExplained, PropagatedIsExplained
  <2>2. QED
    BY <1>1, <1>4, <2>1 DEF Accounted
<1>8. Accounted'
  BY <1>1, <1>7, StaysAccounted
<1>9. Planners = Planning
  BY <1>1 DEF Planners, Planning
<1>10. ASSUME NEW f \in Planning, Cardinality(Planning) <= allowed, f \in Compdb, f \notin error'
       PROVE  Follows(f, Now(f)')
  <2> DEFINE text == Propagated(f, Now(f))
  <2>1. f \in Files /\ f \in Planners \cap Compdb /\ f \notin failed
    BY <1>3, <1>9, <1>10 DEF Planning
  <2>2. Agreed = UNION {plans[g] : g \in Planners}
    BY <1>9, <1>10 DEF Agreed
  <2>3. Version(f, Now(f))
    BY <1>1, <2>1, NowIsExplained DEF Explained
  <2>4. Follows(f, text)
    BY <1>1, <1>9, <2>1, <2>2, <2>3, PropagatedFollows DEF Planning
  <2>5. Version(f, text)
    BY <1>1, <2>1, <2>3, PropagatedNames
  <2> HIDE DEF text
  <2>6. CASE text = Now(f)
    <3>1. pending'[f] = pending[f]
      BY <1>3, <2>1, <2>6 DEF text
    <3>2. Now(f)' = Now(f)
      BY <1>1, <3>1 DEF Now
    <3>3. QED
      BY <2>4, <2>6, <3>2
  <2>7. CASE text # Now(f)
    <3>1. pending'[f] = text
      BY <1>3, <2>1, <2>7 DEF text
    <3>2. CASE text # None
      BY <2>4, <3>1, <3>2 DEF Now
    <3>3. CASE text = None
      <4>1. Places(f) = {}
        BY <2>5, <3>3 DEF Version, None
      <4>2. QED
        BY <4>1 DEF Follows
    <3>4. QED
      BY <3>2, <3>3
  <2>8. QED
    BY <2>6, <2>7
<1>11. Followed'
  BY <1>1, <1>10, StaysFollowed
<1>12. QED
  BY <1>5, <1>6, <1>8, <1>11 DEF RenameInv

LEMMA WriteKeeps == ASSUME RenameInv, NEW f \in Files, Write(f) PROVE RenameInv'
<1>1. /\ Shapes /\ Accounted /\ Followed /\ phase = "write" /\ phase' \in {"write", "done"}
      /\ pending' = [pending EXCEPT ![f] = None]
      /\ UNCHANGED <<plans, allowed, root, original>>
  BY DEF RenameInv, Write
<1>2. \/ /\ disk' = IF f \in error \/ pending[f] = None THEN disk ELSE [disk EXCEPT ![f] = pending[f]]
         /\ UNCHANGED error
      \/ error' = error \cup {f} /\ UNCHANGED disk
  BY DEF Write
<1>3. /\ DOMAIN disk' = Files /\ DOMAIN pending' = Files /\ pending'[f] = None
      /\ \A g \in Files \ {f} : disk'[g] = disk[g] /\ pending'[g] = pending[g]
      /\ disk'[f] = disk[f] \/ (pending[f] # None /\ disk'[f] = pending[f])
      /\ f \notin error' => disk'[f] = IF pending[f] = None THEN disk[f] ELSE pending[f]
      /\ error \subseteq error'
  BY <1>1, <1>2 DEF Shapes
<1>4. Shapes'
  BY <1>1, <1>3 DEF Shapes, PlansOf, Plans
<1>5. Untouched'
  BY <1>1 DEF Untouched
<1>6. \A g \in Files : /\ Explained(plans', g, disk'[g])
                       /\ pending'[g] # None => Explained(plans', g, pending'[g])
  BY <1>1, <1>3 DEF Accounted
<1>7. Accounted'
  BY <1>1, <1>6, StaysAccounted
<1>8. ASSUME NEW g \in Files, g \notin error' PROVE Now(g)' = Now(g)
  BY <1>1, <1>3, <1>8 DEF Now
<1>9. ASSUME NEW g \in Planning, Cardinality(Planning) <= allowed, g \in Compdb, g \notin error'
      PROVE  Follows(g, Now(g)')
  <2>1. g \in Files /\ g \notin error
    BY <1>3, <1>9 DEF Planning
  <2>2. Follows(g, Now(g))
    BY <1>1, <1>9, <2>1 DEF Followed
  <2>3. QED
    BY <1>8, <1>9, <2>1, <2>2
<1>10. Followed'
  BY <1>1, <1>9, StaysFollowed
<1>11. QED
  BY <1>4, <1>5, <1>7, <1>10 DEF RenameInv

LEMMA StutterKeeps == ASSUME RenameInv, UNCHANGED vars PROVE RenameInv'
<1>1. UNCHANGED <<disk, pending, plans, error, phase, todo, allowed, root, original>>
  BY DEF vars
<1>2. Shapes' /\ Untouched'
  BY <1>1 DEF RenameInv, Shapes, Untouched, PlansOf, Plans
<1>3. Accounted'
  BY <1>1, StaysAccounted DEF RenameInv, Accounted
<1>4. ASSUME phase # "format" PROVE Followed'
  <2>1. \A f : Now(f)' = Now(f)
    BY <1>1 DEF Now
  <2>2. QED
    BY <1>1, <1>4, <2>1, StaysFollowed DEF RenameInv, Followed
<1>5. ASSUME phase = "format" PROVE Followed'
  BY <1>1, <1>5 DEF Followed
<1>6. QED
  BY <1>2, <1>3, <1>4, <1>5 DEF RenameInv

LEMMA NextRenames == RenameInv /\ [Next]_vars => RenameInv'
BY FormatKeeps, PropagateKeeps, WriteKeeps, StutterKeeps DEF Next

(***************************************************************************)
(* The theorems.                                                           *)
(***************************************************************************)
LEMMA RenamesHold == RenameInv => OnlyMeant /\ RenamesFollow
<1> SUFFICES ASSUME RenameInv PROVE OnlyMeant /\ RenamesFollow
  OBVIOUS
<1>1. OnlyMeant
  <2> SUFFICES ASSUME NEW f \in Files, NEW i \in Places(f), Changed(f, i)
               PROVE  /\ Justified(plans, f, i) /\ Name(f, i) = Suggested[Was(f, i).name]
                      /\ Meant(f, i).path = f => Changed(f, Meant(f, i).line)
    BY DEF OnlyMeant, Justified
  <2>1. Explained(plans, f, Now(f))
    BY NowIsExplained DEF RenameInv
  <2>2. NewIn(f, Now(f), i)
    BY DEF Changed, Name, NewIn
  <2>3. Now(f).tokens[i].name \in {Was(f, i).name, Suggested[Was(f, i).name]}
    BY <2>1 DEF Explained, Version
  <2>4. QED
    BY <2>1, <2>2, <2>3 DEF Explained, NewIn, Changed, Name
<1>2. RenamesFollow
  <2> SUFFICES ASSUME phase # "format", Cardinality(Planning) <= allowed,
                      NEW f \in Files, NEW i \in Places(f), f \in Compdb \ error, plans[f] # {},
                      Was(f, i).is = "use", Meant(f, i).path # f,
                      NEW g \in Files, NEW p \in plans[g],
                      p.decl = Meant(f, i), p.old = Was(f, i).name
               PROVE  Name(f, i) = p.new
    BY DEF RenamesFollow, Planning
  <2>1. f \in Planning
    BY DEF Planning
  <2>2. Follows(f, Now(f))
    BY <2>1 DEF RenameInv, Followed
  <2>3. QED
    BY <2>2 DEF Follows, Name
<1>3. QED
  BY <1>1, <1>2

(* A token gets a new name only if it is what a plan, or a definition that *)
(* clang does not see, means, and a use only if its declaration gets it    *)
(* (replacement.rs, build_replacements; propagation.rs,                    *)
(* apply_semantic_rename_target), in every project.                        *)
THEOREM RenamesHitWhatTheyMean == Spec => []OnlyMeant
BY InitRenames, NextRenames, RenamesHold, PTL DEF Spec

(* Files with plans of their own use the new names of what other files     *)
(* declare (propagation.rs, apply_project_wide_semantic_renames), in every *)
(* project, whatever fails in other files.                                 *)
THEOREM RenamesArePropagated == Spec => []RenamesFollow
BY InitRenames, NextRenames, RenamesHold, PTL DEF Spec
=============================================================================
