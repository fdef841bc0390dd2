---------------------------- MODULE MCProjectRuns ----------------------------
(* A header and a file that uses it; see README.md for the bounds. *)
EXTENDS ProjectRuns, TLC

CONSTANTS header, user, a, b

FilesMC == {header, user}
SymbolsMC == {a, b}

InitialTextMC ==
  (header :> [decls |-> (a :> 1), uses |-> {}])
  @@ (user :> [decls |-> (b :> 1), uses |-> {a}])

(* Formatting moves the declaration in the header down, and puts the place *)
(* of another there; in the other file it renames b away.                  *)
Moved1 == [decls |-> (a :> 2) @@ (b :> 1), uses |-> {}]
EditsMC ==
  (header :> (InitialTextMC[header] :> Moved1))
  @@ (user :> (InitialTextMC[user] :> [decls |-> <<>>, uses |-> {a, b}]))

Plain ==
  [kind |-> "format", multi |-> FALSE, graph |-> TRUE, gate |-> FALSE,
   benchmark |-> FALSE, ci |-> FALSE, profile |-> "balanced",
   closed |-> FALSE, deferred |-> FALSE]
Judged(kind, profile) ==
  [Plain EXCEPT !.kind = kind, !.graph = FALSE, !.profile = profile,
                !.closed = TRUE, !.deferred = TRUE]

(* The project graph and what it remembers. *)
Learning ==
  [commands |-> {Plain, [Plain EXCEPT !.kind = "check"]},
   faults |-> {"persist"}, starts |-> 2, ticks |-> 3, learns |-> 0..1]
Mixed ==
  [commands |-> {Plain, [Plain EXCEPT !.multi = TRUE]},
   faults |-> {"parse"}, starts |-> 2, ticks |-> 1, learns |-> {1}]
Damaged ==
  [commands |-> {Plain},
   faults |-> {"write", "corrupt"}, starts |-> 2, ticks |-> 1, learns |-> {1}]

(* The rollout: benchmarks in the background, and runs that are judged. *)
Judging ==
  [commands |-> {[Judged("benchmark", p) EXCEPT !.benchmark = TRUE] : p \in Profiles},
   faults |-> {"corrupt"}, starts |-> 6, ticks |-> 1, learns |-> {0}]

(* Every way to end. *)
Gate(ci, benchmark) ==
  [Judged("check", "adaptive") EXCEPT !.gate = TRUE, !.ci = ci, !.benchmark = benchmark]
Ending ==
  [commands |-> {Gate(ci, benchmark) : ci \in BOOLEAN, benchmark \in BOOLEAN}
                \union {[Plain EXCEPT !.kind = k] : k \in {"worker", "list", "undo"}},
   faults |-> {"kill", "journal", "engine", "report"},
   starts |-> 2, ticks |-> 1, learns |-> {0}]

ProjectsMC == {Learning, Mixed, Damaged, Judging, Ending}
=============================================================================
