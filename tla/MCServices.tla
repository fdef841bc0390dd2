----------------------------- MODULE MCServices -----------------------------
(* The parse lanes, the format lanes, the reporter and the cache of check  *)
(* results share nothing: in a behaviour one of them has something to do.  *)
(* See README.md for the bounds.                                           *)
EXTENDS Services, TLC

CONSTANTS header, batch, ahead, first, second, file, other

Asking(how, key, sets) == [how |-> how, key |-> key, sets |-> sets]

(* A header by consensus, the same header by a thread that goes ahead with *)
(* other arguments, and two texts to be formatted.                         *)
CallsMC ==
  (batch :> Asking("parse", header, {1, 2})) @@ (ahead :> Asking("dispatch", header, {3}))
  @@ (first :> Asking("format", header, {1})) @@ (second :> Asking("format", header, {1}))
LanesMC == [clang |-> 2, format |-> 1]

(* A run checks two files, others one of them. *)
GivenMC == <<{file, other}, {file}, {file}>>

(* The part that this behaviour is about. *)
VARIABLE part
allVars == <<part, vars, reporterVars, cacheVars>>

Asks(c) == ServiceOf(Calls[c].how) = part

InitBoth ==
  /\ part \in {"clang", "format", "reporter", "cache"}
  /\ Init /\ R!Init /\ CacheInit

Clang(A) == part \in {"clang", "format"} /\ A /\ UNCHANGED <<part, reporterVars, cacheVars>>
Report(A) == part = "reporter" /\ A /\ UNCHANGED <<part, vars, cacheVars>>
Cache(A) == part = "cache" /\ A /\ UNCHANGED <<part, vars, reporterVars>>

NextBoth ==
  \/ \E c \in Callers : Asks(c) /\ Clang(CallerStep(c))
  \/ \E l \in ParseLanes : part = "clang" /\ Clang(LaneStep(l) \/ HelperResponds(l) \/ HelperDies(l))
  \/ \E l \in FormatLanes : Clang(Format(l) \/ FormatEnds(l))
  \/ Report(R!Next)
  \/ Cache(CacheNext)

SpecBoth ==
  /\ InitBoth
  /\ [][NextBoth]_allVars
  /\ \A c \in Callers : WF_allVars(Asks(c) /\ Clang(CallerStep(c)))
  /\ \A l \in ParseLanes : WF_allVars(Clang(LaneStep(l)))
  /\ \A l \in FormatLanes : WF_allVars(Clang(Format(l)))
  /\ WF_allVars(Report(R!MainStep))
  /\ WF_allVars(Report(R!ThreadStep))
  /\ WF_allVars(Report(R!ProcessStep))

(* Every caller of the clang lanes has its answer or has given up, every   *)
(* lane that parses becomes idle again, and finish of the reporter         *)
(* returns, whatever helpers hang or die (clang_service.rs,                *)
(* collect_deadline and run_subprocess_lane; reporter.rs, finish).         *)
ServicesReturn ==
  <>(/\ \A c \in Callers : Asks(c) => Returned(c)
     /\ \A l \in ParseLanes : Idle(l)
     /\ part = "reporter" => main = "finished")
=============================================================================
