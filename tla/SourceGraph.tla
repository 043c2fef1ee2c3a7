----------------------------- MODULE SourceGraph -----------------------------
(***************************************************************************)
(* The check of the sources' dependencies before a session starts:         *)
(* RuntimeContext.dependencies and validate_sources (runtime.py).          *)
(*                                                                         *)
(* A wiring has, for each enabled source, the root of the topics it        *)
(* publishes (none when it is empty) and the variables its settings refer  *)
(* to; for each bound variable its topic, for each derived variable the    *)
(* variables of its expression (a constant is one of no variable), and the *)
(* variables its events watch.  A topic is a sequence of levels.           *)
(***************************************************************************)
EXTENDS Integers, Sequences, SequencesExt, FiniteSetsExt

CONSTANT Unknown  (* what an error makes of the variables or of the walk *)

ASSUME GraphAssumption == Unknown \notin STRING

(* The names of a configuration are finitely many, and no variable is both *)
(* bound and derived (RuntimeContext.__init__).                            *)
WiringForm(wiring) ==
  /\ \A names \in {DOMAIN wiring.root, DOMAIN wiring.bound, DOMAIN wiring.derived} :
       names \subseteq STRING /\ IsFiniteSet(names)
  /\ DOMAIN wiring.derived \cap DOMAIN wiring.bound = {}
  /\ wiring.root \in [DOMAIN wiring.root -> Seq(STRING)]
  /\ wiring.bound \in [DOMAIN wiring.bound -> Seq(STRING)]
  /\ wiring.derived \in [DOMAIN wiring.derived -> SUBSET STRING]
  /\ wiring.uses \in [DOMAIN wiring.root -> SUBSET STRING]
  /\ wiring.watched \subseteq STRING

Named(name, chain) == [name |-> name, chain |-> chain]

(* The bound variables a name stands for, given those of the names below   *)
(* it; a name that is its own ancestor or is not defined is refused.       *)
Resolved(wiring, resolved, at) ==
  IF at.name \in at.chain THEN {Unknown}
  ELSE IF at.name \in DOMAIN wiring.derived
  THEN UNION {resolved[Named(n, at.chain \cup {at.name})] : n \in wiring.derived[at.name]}
  ELSE IF at.name \in DOMAIN wiring.bound THEN {at.name} ELSE {Unknown}

(* RuntimeContext.dependencies. *)
dependencies(wiring, name) ==
  LET resolved[at \in [name : STRING, chain : SUBSET DOMAIN wiring.derived]] ==
        Resolved(wiring, resolved, at)
  IN  resolved[Named(name, {})]

(* The sources with a root over a topic; a source with no root publishes    *)
(* nothing a setting can wait for.                                          *)
Over(wiring, topic) ==
  {s \in DOMAIN wiring.root : wiring.root[s] # << >> /\ IsPrefix(wiring.root[s], topic)}

(* Mutant of Producers: the least specific root is taken. *)
ProducersShortest(wiring, topic) ==
  LET over == Over(wiring, topic)
      longest == Min({Len(wiring.root[s]) : s \in over})
  IN  {s \in over : Len(wiring.root[s]) = longest}

(* The sources with the longest root over a topic. *)
Producers(wiring, topic) ==
  LET over == Over(wiring, topic)
      longest == Max({Len(wiring.root[s]) : s \in over})
  IN  {s \in over : Len(wiring.root[s]) = longest}

References(wiring, source) == UNION {dependencies(wiring, name) : name \in wiring.uses[source]}

(* The bound variables of the events. *)
Watched(wiring) == UNION {dependencies(wiring, name) : name \in wiring.watched}

(* graph: the producers a source waits for. *)
Edges(wiring) ==
  [s \in DOMAIN wiring.root |->
     UNION {Producers(wiring, wiring.bound[v]) : v \in References(wiring, s)}]

Walk(todo, visiting, visited) == [todo |-> todo, visiting |-> visiting, visited |-> visited]

(* visit: a walk in depth over the sources to do, one after the other, that *)
(* refuses an edge back into its own path; it returns the sources done      *)
(* with, and Unknown among them when it refuses.                            *)
Visited(graph, visited, at) ==
  IF at.todo = {} THEN at.visited
  ELSE LET source == CHOOSE s \in at.todo : TRUE
           after == IF source \in at.visiting THEN {Unknown}
                    ELSE IF source \in at.visited \/ Unknown \in at.visited THEN at.visited
                    ELSE {source} \cup
                         visited[Walk(graph[source], at.visiting \cup {source}, at.visited)]
       IN  visited[Walk(at.todo \ {source}, at.visiting, after)]

visit_sources(graph) ==
  LET sources == DOMAIN graph
      visited[at \in [todo : SUBSET sources, visiting : SUBSET sources,
                      visited : SUBSET (sources \cup {Unknown})]] ==
        Visited(graph, visited, at)
  IN  visited[Walk(sources, {}, {})]

(* A reference has exactly one producer. *)
HasProducer(wiring, variable) ==
  /\ variable \in DOMAIN wiring.bound
  /\ Over(wiring, wiring.bound[variable]) # {}
  /\ Cardinality(Producers(wiring, wiring.bound[variable])) = 1

(* Every reference of a source and of an event has one producer, and no    *)
(* source waits for itself through others.                                 *)
validate_sources(wiring) ==
  /\ \A d \in DOMAIN wiring.derived : Unknown \notin dependencies(wiring, d)
  /\ \A s \in DOMAIN wiring.root : \A v \in References(wiring, s) : HasProducer(wiring, v)
  /\ \A v \in Watched(wiring) : HasProducer(wiring, v)
  /\ Unknown \notin visit_sources(Edges(wiring))
=============================================================================
