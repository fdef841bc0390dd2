-------------------------- MODULE RenamePropagation --------------------------
(***************************************************************************)
(* Renames: the naming policy renames in the file at hand what is defined  *)
(* there (policy/naming_conventions) and leaves its plans as warnings of   *)
(* the result; when all files are formatted, the run applies the plans to  *)
(* the pending texts (app/propagation.rs) and writes them.                 *)
(*                                                                         *)
(* A text is blank lines followed by a token per line.  What a name refers *)
(* to is looked up as clang does it: in the file, then in the files it     *)
(* includes, as these are on disk.                                         *)
(***************************************************************************)
EXTENDS Naturals, Sequences, FiniteSets, FiniteSetsExt

CONSTANTS
  Texts,      (* file -> the texts it may have when the run starts          *)
  Includes,   (* file -> the files it includes                              *)
  Suggested,  (* name -> the name the policy wants; itself if it is content *)
  Compdb,     (* the files with compile-command context                     *)
  Allowed,    (* how many files may have plans before agreement is too low, *)
              (* for the values of the population's edit success            *)
  Roots,      (* whether the root of the run may be (TRUE) its canonical    *)
              (* path, or (FALSE) another path of it, such as "."           *)
  MayFail     (* whether engine, parse and write may fail                   *)

Files == DOMAIN Texts

Tokens ==
  [name : DOMAIN Suggested, is : {"definition", "use", "comment"}, safe : BOOLEAN, known : BOOLEAN]

(* A name stands for one entity of its file, so that it is defined there   *)
(* at most once; and what the policy suggests it leaves alone (NamingStyle *)
(* in module MCAlgorithms).                                                *)
ASSUME RenameAssumption ==
  /\ IsFiniteSet(Files) /\ "none" \notin Files
  /\ Includes \in [Files -> SUBSET Files] /\ Allowed \subseteq Nat
  /\ Roots \subseteq BOOLEAN
  /\ \A n \in DOMAIN Suggested :
       Suggested[n] \in DOMAIN Suggested /\ Suggested[Suggested[n]] = Suggested[n]
  /\ \A f \in Files : \A t \in Texts[f] :
       /\ t \in [blank : {0}, tokens : Seq(Tokens)]
       /\ \A i, j \in {k \in DOMAIN t.tokens : t.tokens[k].is = "definition"} :
            t.tokens[i].name = t.tokens[j].name => i = j

VARIABLES
  disk,       (* file -> text                                               *)
  pending,    (* file -> text, or None                                      *)
  plans,      (* file -> the plans of its result                            *)
  error,      (* the files whose result has an error                        *)
  phase,      (* "format", "write" or "done"                                *)
  todo,       (* files the phase has not gone through                       *)
  allowed,    (* the member of Allowed in force                             *)
  root,       (* the member of Roots in force                               *)
  original    (* the texts at the start, for the properties                 *)

vars == <<disk, pending, plans, error, phase, todo, allowed, root, original>>

None == [blank |-> 0, tokens |-> <<>>]

(* A token has a name; it is a "definition", a "use" or a "comment"; safe  *)
(* tells whether its line may be edited, known whether clang sees it.      *)
Defines(text, i, name) ==
  text.tokens[i].is = "definition" /\ text.tokens[i].name = name /\ text.tokens[i].known
Defining(text, name) == {i \in DOMAIN text.tokens : Defines(text, i, name)}

(* clang's keys have canonical paths.                                      *)
NoKey == [path |-> "none", line |-> 0, canonical |-> TRUE]
KeyOf(f, text, name) ==
  IF Defining(text, name) = {} THEN NoKey
  ELSE [path |-> f, line |-> text.blank + Min(Defining(text, name)), canonical |-> TRUE]

(* The declaration that the token at i of a text of f refers to.           *)
Refers(f, text, on, i) ==
  LET name == text.tokens[i].name
      found == {KeyOf(g, on[g], name) : g \in Includes[f]} \ {NoKey}
  IN  IF text.tokens[i].is = "comment" THEN NoKey
      ELSE IF KeyOf(f, text, name) # NoKey THEN KeyOf(f, text, name)
      ELSE IF text.tokens[i].is = "use" /\ found # {} THEN CHOOSE k \in found : TRUE
      ELSE NoKey

RefOffsets(f, text, on, key) == {i \in DOMAIN text.tokens : Refers(f, text, on, i) = key}

----------------------------------------------------------------------------
(* The policy.  A name that another line declares is not suggested again;  *)
(* a definition that clang does not know is planned without a stable id.   *)
Planned(text) ==
  {i \in DOMAIN text.tokens :
     LET token == text.tokens[i] IN
       /\ token.is = "definition" /\ Suggested[token.name] # token.name
       /\ token.known => Defining(text, Suggested[token.name]) \subseteq {i}}

(* The occurrences of a plan: references of a known declaration, else what *)
(* reads the same; outside comments, on lines that may be edited.          *)
Occurrences(f, text, on, i) ==
  {j \in IF text.tokens[i].known THEN RefOffsets(f, text, on, Refers(f, text, on, i)) \cup {i}
         ELSE DOMAIN text.tokens :
     /\ text.tokens[j].name = text.tokens[i].name
     /\ text.tokens[j].is # "comment" /\ text.tokens[j].safe}

Replacements(f, text, on, i) ==
  LET found == Occurrences(f, text, on, i) IN IF i \in found THEN found ELSE {}

LocallyRenamed(f, text, on) ==
  [text EXCEPT !.tokens = [j \in DOMAIN text.tokens |->
     IF \E i \in Planned(text) : j \in Replacements(f, text, on, i)
     THEN [text.tokens[j] EXCEPT !.name = Suggested[@]] ELSE text.tokens[j]]]

(* The plans that leave the policy: those with a stable id, whether their  *)
(* replacements were made or not.  Their keys have the path by which the   *)
(* run knows the file, which begins with the root as it was given.         *)
Exported(f, text) ==
  {[decl |-> [path |-> f, line |-> text.blank + i, canonical |-> root],
    old |-> text.tokens[i].name, new |-> Suggested[text.tokens[i].name]] :
     i \in {k \in Planned(text) : text.tokens[k].known}}

(* The engine formats f.  Other policies may add a line before the policy  *)
(* runs or after it; the pipeline may revert what the policy did to the    *)
(* text, and keeps its warnings.                                           *)
Format(f) ==
  /\ phase = "format" /\ f \in todo
  /\ todo' = todo \ {f}
  /\ \/ \E before, after \in {0, 1}, kept \in BOOLEAN :
          LET given == [disk[f] EXCEPT !.blank = @ + before]
              named == IF kept THEN LocallyRenamed(f, given, disk) ELSE given
              final == [named EXCEPT !.blank = @ + after]
          IN /\ plans' = [plans EXCEPT ![f] = Exported(f, given)]
             /\ pending' = [pending EXCEPT ![f] = IF final = disk[f] THEN None ELSE final]
             /\ UNCHANGED error
     \/ MayFail /\ error' = error \cup {f} /\ UNCHANGED <<plans, pending>>
  /\ UNCHANGED <<disk, phase, allowed, root, original>>

----------------------------------------------------------------------------
(* Propagation.  A declaration is proposed by its own file alone, so the   *)
(* agreement on it is one of the files with plans.                         *)
Planners == {f \in Files \ error : plans[f] # {}}
Agreed == IF Cardinality(Planners) <= allowed THEN UNION {plans[f] : f \in Planners} ELSE {}

(* Mutant of Matching: a reference is taken as it is found.                *)
AllMatching(f, text, plan) == RefOffsets(f, text, disk, plan.decl)

(* What a plan replaces in a text: the references of its declaration that  *)
(* read as its old name; neither comments nor safety are asked about.      *)
Matching(f, text, plan) ==
  {i \in RefOffsets(f, text, disk, plan.decl) : text.tokens[i].name = plan.old}

(* Mutant of Propagated: only the renames of the file itself.              *)
OwnPropagated(f, text) ==
  [text EXCEPT !.tokens = [i \in DOMAIN @ |->
     IF \E p \in Agreed : p.decl.path = f /\ i \in Matching(f, text, p)
     THEN [@[i] EXCEPT !.name = Suggested[@]] ELSE @[i]]]

Propagated(f, text) ==
  [text EXCEPT !.tokens = [i \in DOMAIN text.tokens |->
     IF \E p \in Agreed : i \in Matching(f, text, p)
     THEN [text.tokens[i] EXCEPT !.name = (CHOOSE p \in Agreed : i \in Matching(f, text, p)).new]
     ELSE text.tokens[i]]]

(* The targets are the files with plans of their own.  One whose parse     *)
(* fails loses its text; the others are renamed.                           *)
Propagate ==
  /\ phase = "format" /\ todo = {}
  /\ \E failing \in IF MayFail THEN SUBSET (Planners \cap Compdb) ELSE {{}} :
       LET failed == IF Agreed = {} THEN {} ELSE failing
           Current(f) == IF pending[f] = None THEN disk[f] ELSE pending[f]
       IN /\ error' = error \cup failed
          /\ pending' = [f \in Files |->
               CASE f \in failed -> None
                 [] f \in (Planners \cap Compdb) \ failed /\ Propagated(f, Current(f)) # Current(f) ->
                      Propagated(f, Current(f))
                 [] OTHER -> pending[f]]
  /\ phase' = "write" /\ todo' = Files
  /\ UNCHANGED <<disk, plans, allowed, root, original>>

Write(f) ==
  /\ phase = "write" /\ f \in todo
  /\ todo' = todo \ {f}
  /\ phase' = IF todo = {f} THEN "done" ELSE phase
  /\ pending' = [pending EXCEPT ![f] = None]
  /\ \/ /\ disk' = IF f \in error \/ pending[f] = None THEN disk ELSE [disk EXCEPT ![f] = pending[f]]
        /\ UNCHANGED error
     \/ /\ MayFail /\ f \notin error /\ pending[f] # None
        /\ error' = error \cup {f} /\ UNCHANGED disk
  /\ UNCHANGED <<plans, allowed, root, original>>

Init ==
  /\ disk \in {t \in [Files -> UNION {Texts[f] : f \in Files}] : \A f \in Files : t[f] \in Texts[f]}
  /\ original = disk
  /\ pending = [f \in Files |-> None]
  /\ plans = [f \in Files |-> {}]
  /\ error = {}
  /\ phase = "format" /\ todo = Files
  /\ allowed \in Allowed /\ root \in Roots

Next == (\E f \in Files : Format(f) \/ Write(f)) \/ Propagate

Spec == Init /\ [][Next]_vars

----------------------------------------------------------------------------
(* The properties compare the tokens with those of the start; only their   *)
(* names ever change.                                                      *)
Now(f) == IF pending[f] = None THEN disk[f] ELSE pending[f]
Name(f, i) == Now(f).tokens[i].name
Was(f, i) == original[f].tokens[i]
Changed(f, i) == Name(f, i) # Was(f, i).name
Meant(f, i) == Refers(f, original[f], original, i)
Places(f) == DOMAIN original[f].tokens

(* A token has a new name only if it is not part of a comment and its own  *)
(* declaration is planned for that name, or a definition of its file that  *)
(* clang does not see (replacement.rs, build_replacements; propagation.rs, *)
(* apply_semantic_rename_target: plans whose lines no longer fit do not    *)
(* hit another name).  A use has a new name only if the declaration in its *)
(* file has it, whatever could not be edited there.                        *)
OnlyMeant ==
  \A f \in Files : \A i \in Places(f) : Changed(f, i) =>
     /\ Was(f, i).is # "comment" /\ Name(f, i) = Suggested[Was(f, i).name]
     /\ \/ \E g \in Files : \E p \in plans[g] : p.old = Was(f, i).name /\ Meant(f, i).path = g
        \/ \E j \in Places(f) :
             Was(f, j).is = "definition" /\ ~Was(f, j).known /\ Was(f, j).name = Was(f, i).name
     /\ Meant(f, i).path = f => Changed(f, Meant(f, i).line)

(* What propagation does: once the files have been through it, the uses of *)
(* a renamed declaration of another file have its new name in every file   *)
(* with plans of its own, compile-command context and no error, if the     *)
(* rename has agreement and the key of its plan is the one clang has: its  *)
(* line is that on disk and its path, and hence the root, is canonical     *)
(* (propagation.rs, apply_project_wide_semantic_renames).  With any other  *)
(* root no plan reaches a file.                                            *)
RenamesFollow ==
  phase # "format" /\ Cardinality({f \in Files : plans[f] # {}}) <= allowed =>
    \A f \in Files : \A i \in Places(f) :
      /\ f \in Compdb \ error /\ plans[f] # {}
      /\ Was(f, i).is = "use" /\ Meant(f, i).path # f
      => \A g \in Files : \A p \in plans[g] :
           p.decl = Meant(f, i) /\ p.old = Was(f, i).name => Name(f, i) = p.new

(* What the documents say: a renamed declaration has its new name wherever *)
(* the project refers to it (README.md of the formatter, naming_conventions *)
(* "project-wide reference propagation").  It does not hold, not even with *)
(* a canonical root: a file without plans of its own is no target, and a   *)
(* declaration whose rename was reverted and whose line moved keeps its    *)
(* name while others follow.                                               *)
NamesAgree ==
  phase = "done" /\ error = {} =>
    \A f \in Files : \A i \in Places(f) : LET k == Meant(f, i) IN
      Was(f, i).is = "use" /\ k # NoKey /\ Cardinality({g \in Files : plans[g] # {}}) <= allowed
      => Name(f, i) = Name(k.path, k.line)
=============================================================================
