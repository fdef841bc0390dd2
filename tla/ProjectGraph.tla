---------------------------- MODULE ProjectGraph ----------------------------
(***************************************************************************)
(* The graph of symbols that a project keeps from run to run, as a value:  *)
(* what a parse of a file does to it (graph/state_updater.rs), how it is   *)
(* compacted and how its counters age (graph/state.rs), and which files    *)
(* are near a changed one (graph/snapshot.rs).                             *)
(*                                                                         *)
(* A text says which symbols it declares, on which line, and which it      *)
(* uses.  Names, scopes, columns and the floating consensus scores of      *)
(* nodes are left out, and so are the caps that small graphs never reach.  *)
(***************************************************************************)
EXTENDS Integers, FiniteSets, FiniteSetsExt, Functions

CONSTANTS
  Files,               (* paths of the project                            *)
  Symbols,             (* what has a USR                                  *)
  MaxNodes, MaxEdges,  (* project_graph_max_nodes, project_graph_max_edges *)
  Retention,           (* project_graph_retention_days                    *)
  TombstoneRetention,  (* project_graph_tombstone_retention_days          *)
  Hops                 (* incremental_neighborhood_hops                   *)

ASSUME GraphAssumption ==
  /\ IsFiniteSet(Files) /\ IsFiniteSet(Symbols)
  /\ MaxNodes \in Nat \ {0} /\ MaxEdges \in Nat \ {0}
  /\ Retention \in Nat \ {0} /\ TombstoneRetention \in Nat \ {0}
  /\ Hops \in Nat \ {0}

(* Identities: a file, a symbol with a USR, or the place of a declaration  *)
(* when only the place is known.  A place is a file and a line.            *)
FileId(f) == <<"file", f>>
Usr(s) == <<"usr", s>>
DeclId(place) == <<"decl", place>>
IsFile(id) == id[1] = "file"

EmptyGraph ==
  [nodes |-> <<>>, edges |-> <<>>, metrics |-> <<>>, tombs |-> <<>>,
   pair |-> 0, pairSeen |-> 0, clusters |-> 0, retry |-> 0]

(* What f says, and what g says where f says nothing.                      *)
f ++ g == [x \in DOMAIN f \union DOMAIN g |-> IF x \in DOMAIN f THEN f[x] ELSE g[x]]

Removing(f, S) == Restrict(f, DOMAIN f \ S)

(***************************************************************************)
(* Parses.  clang resolves a use to the place of the declaration, in this  *)
(* text or in a file on disk.                                              *)
(***************************************************************************)
PlacesOf(s, f, text, disk) ==
  IF s \in DOMAIN text.decls THEN {<<f, text.decls[s]>>}
  ELSE {<<g, disk[g].decls[s]>> : g \in {h \in Files \ {f} : s \in DOMAIN disk[h].decls}}

ParseOf(f, text, disk) ==
  [file |-> f,
   decls |-> {<<<<f, text.decls[s]>>, s>> : s \in DOMAIN text.decls},
   refs |-> UNION {PlacesOf(s, f, text, disk) : s \in text.uses}]

Declared(p) == {d[2] : d \in p.decls}
AliasOf(p, id) ==
  IF \E d \in p.decls : id = DeclId(d[1])
  THEN Usr((CHOOSE d \in p.decls : id = DeclId(d[1]))[2]) ELSE id

(* An edge is known by its ends and its kind; one that is already there    *)
(* gets heavier.                                                           *)
Edge(from, to, kind) == <<from, to, kind>>

EdgesUnmoved(g, p) == g.edges

MergedEdges(g, p) ==
  LET moved(e) == Edge(AliasOf(p, e[1]), AliasOf(p, e[2]), e[3])
      sources(e) == {d \in DOMAIN g.edges : moved(d) = e}
  IN  [e \in {moved(d) : d \in DOMAIN g.edges} |->
         [weight |-> MapThenSumSet(LAMBDA d : g.edges[d].weight, sources(e)),
          seen |-> Max({g.edges[d].seen : d \in sources(e)})]]

TargetsOf(p) == {AliasOf(p, DeclId(place)) : place \in p.refs}

(* The edges of the file are replaced by those of the parse. *)
EdgesAfter(g, p, now) ==
  LET merged == MergedEdges(g, p)
      own == {e \in DOMAIN merged :
                e[1] = FileId(p.file) /\ e[3] \in {"contains", "reference"}}
      holding == {Edge(FileId(p.file), Usr(s), "contains") : s \in Declared(p)}
      using == {Edge(FileId(p.file), id, "reference") : id \in TargetsOf(p)}
  IN  [e \in holding |-> [weight |-> 1, seen |-> now]]
      ++ [e \in using |->
            [weight |-> Cardinality({q \in p.refs : AliasOf(p, DeclId(q)) = e[2]}),
             seen |-> now]]
      ++ Removing(merged, own)

WeightTo(edges, id, kind) ==
  MapThenSumSet(LAMBDA e : edges[e].weight,
                {e \in DOMAIN edges : e[2] = id /\ e[3] = kind})
HoldersOf(edges, id) ==
  Cardinality({e \in DOMAIN edges : e[2] = id /\ e[3] = "contains"})

(* apply_clang_parse *)
ApplyParse(g, p, now) ==
  LET aliased == {DeclId(d[1]) : d \in p.decls}
      seen == {Usr(s) : s \in Declared(p)}
      edges == EdgesAfter(g, p, now)
      dropped == {e[2] : e \in {d \in DOMAIN MergedEdges(g, p) :
                    d[1] = FileId(p.file) /\ d[3] \in {"contains", "reference"}}}
      affected == dropped \union seen \union TargetsOf(p)
      recounted(id) ==
        LET weight == WeightTo(edges, id, "reference") IN
        [refs |-> IF weight = 0 /\ id \in seen THEN 1 ELSE weight,
         files |-> HoldersOf(edges, id)]
  IN  [g EXCEPT
        !.nodes = [id \in {FileId(p.file)} \union seen \union TargetsOf(p) |-> now]
                  ++ Removing(g.nodes, aliased),
        !.edges = edges,
        !.metrics = [id \in affected |-> recounted(id)] ++ Removing(g.metrics, aliased)]

(***************************************************************************)
(* Ageing.                                                                 *)
(***************************************************************************)
(* 2^(-n/2) in thousandths: the half-life is two ticks of the clock. *)
Decay == <<1000, 707, 500, 354, 250, 177, 125>>
Decayed(count, elapsed) == (count * Decay[elapsed + 1] + 500) \div 1000

(* decay_convergence_pairs, with the smallest count that is kept 1. *)
DecayPair(g, now) ==
  LET kept == Decayed(g.pair, now - g.pairSeen) IN
  IF g.pair = 0 THEN g
  ELSE [g EXCEPT !.pair = kept, !.pairSeen = IF kept = 0 THEN 0 ELSE now]

Connected(edges) == {e[1] : e \in DOMAIN edges} \union {e[2] : e \in DOMAIN edges}
Between(edges, nodes) ==
  Restrict(edges, {e \in DOMAIN edges : e[1] \in DOMAIN nodes /\ e[2] \in DOMAIN nodes})

PruneStale(g, cutoff) ==
  LET edges == Between(Restrict(g.edges, {e \in DOMAIN g.edges : g.edges[e].seen >= cutoff}),
                       g.nodes)
      nodes == Restrict(g.nodes, {id \in DOMAIN g.nodes :
                 id \in Connected(edges) \/ g.nodes[id] >= cutoff})
  IN  [g EXCEPT !.nodes = nodes, !.edges = Between(edges, nodes)]

(* The S to keep or to drop: no member comes after a non-member in the     *)
(* order the code sorts by; ties, which it breaks by name, go either way.  *)
FirstOf(S, n, rank(_)) ==
  {F \in kSubset(n, S) : \A x \in F, y \in S \ F : rank(x) <= rank(y)}

CapEdges(g) ==
  IF Cardinality(DOMAIN g.edges) <= MaxEdges THEN {g}
  ELSE {[g EXCEPT !.edges = Restrict(g.edges, keep)] :
          keep \in FirstOf(DOMAIN g.edges, MaxEdges,
                     LAMBDA e : -(100 * g.edges[e].seen + g.edges[e].weight))}

(* Unconnected nodes go first, then symbols, then files; the oldest of each. *)
CapNodes(g) ==
  LET excess == Cardinality(DOMAIN g.nodes) - MaxNodes
      class(id) == IF id \notin Connected(g.edges) THEN 0 ELSE IF IsFile(id) THEN 2 ELSE 1
  IN  IF excess <= 0 THEN {g}
      ELSE {LET nodes == Removing(g.nodes, drop)
            IN  [g EXCEPT !.nodes = nodes, !.edges = Between(g.edges, nodes)] :
              drop \in FirstOf(DOMAIN g.nodes, excess,
                         LAMBDA id : 100 * class(id) + g.nodes[id])}

(* compact: the states it may end in. *)
Compactions(g, now) ==
  LET buried(h) ==
        LET removed == {id \in DOMAIN g.nodes \ DOMAIN h.nodes : id \in DOMAIN g.metrics}
            all == [id \in removed |-> g.metrics[id] ++ [removed |-> now]] ++ g.tombs
            kept == {id \in DOMAIN all :
                       id \notin DOMAIN h.nodes /\ all[id].removed >= now - TombstoneRetention}
        IN  Restrict(all, kept)
      counted(h) ==
        [id \in DOMAIN g.metrics \intersect DOMAIN h.nodes |->
           [g.metrics[id] EXCEPT !.files = HoldersOf(h.edges, id)]]
  IN  {[h EXCEPT !.tombs = buried(h), !.metrics = counted(h)] :
         h \in UNION {CapNodes(e) : e \in CapEdges(PruneStale(g, now - Retention))}}

NeedsCompact(g) ==
  \/ Cardinality(DOMAIN g.nodes) > (MaxNodes * 4) \div 5
  \/ Cardinality(DOMAIN g.edges) > (MaxEdges * 4) \div 5

(* What persist_with_stats may write for a state. *)
Persistable(g, now) ==
  LET aged == DecayPair(g, now) IN
  IF NeedsCompact(aged) THEN Compactions(aged, now) ELSE {aged}

(***************************************************************************)
(* affected_file_paths: files that share a symbol with a changed one, and  *)
(* so on for as many hops.                                                 *)
(***************************************************************************)
Sharing(g, F) ==
  {f \in Files : \E e, d \in DOMAIN g.edges :
     /\ e[2] = d[2] /\ e[1] \in {FileId(h) : h \in F} /\ d[1] = FileId(f)}

Neighbours(g, changed) ==
  LET near[n \in 0..Hops] ==
        IF n = 0 THEN changed ELSE near[n - 1] \union Sharing(g, near[n - 1])
  IN  {f \in Files \ changed : f \in near[Hops] /\ FileId(f) \in DOMAIN g.nodes}
=============================================================================
