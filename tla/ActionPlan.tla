------------------------------ MODULE ActionPlan ------------------------------
(***************************************************************************)
(* From a configuration to the plan of a request: the sources are checked, *)
(* the coach definition and its overlay are loaded, a controller policy is *)
(* accepted, and then requests are planned for controllers                 *)
(* (ControllerPolicy and CoachRequestPlanner, coach_commands.py) and       *)
(* actions are executed from the command line (Coach.execute, coach.py).   *)
(*                                                                         *)
(* One controller has a policy; every action parameter is the one number   *)
(* "level".  A schema maps parameter names to rules, a rule has some of    *)
(* the keys "min", "max" and "enum".                                       *)
(***************************************************************************)
EXTENDS CoachDefinition, SourceGraph

CONSTANTS
  Wirings,    (* the sources and variables a configuration may have           *)
  Factories,  (* the coach documents                                          *)
  Overlays,   (* the overlays; Bad for none                                   *)
  Policies,   (* the controller's grants, by target and action                *)
  Requests,   (* what the controller may ask and a user may type              *)
  Levels,     (* the numbers a parameter can be                               *)
  MaxChain,   (* the sixteen levels of an expansion                           *)
  MaxSteps,   (* the sixty-four steps of a group, an expansion and a plan     *)
  MaxDuration, (* the thirty seconds of a plan; each frame takes one          *)
  MaxDepth    (* how deep a group may nest before the interpreter refuses     *)

Params == UNION {[names -> Levels] : names \in SUBSET {"level"}}
Step == [entity : STRING, action : STRING, params : Params]

(* The groups of a document are well formed. *)
GroupForm(group) ==
  /\ "listed" \in DOMAIN group => "members" \in DOMAIN group
  /\ "members" \in DOMAIN group => group.members \in Seq(STRING)
  /\ "actions" \in DOMAIN group =>
       \A action \in DOMAIN group.actions : group.actions[action] \in Seq(Step)

ASSUME PlanAssumption ==
  /\ {MaxChain, MaxSteps, MaxDuration, MaxDepth} \subseteq Nat \ {0}
  /\ Levels \subseteq Int
  /\ \A w \in Wirings : WiringForm(w)
  /\ \A document \in Factories \cup (Overlays \ {Bad}) :
       \A g \in DOMAIN document.groups : GroupForm(document.groups[g])
  /\ \A grants \in Policies : DOMAIN grants \subseteq STRING \X STRING
  /\ Requests \subseteq [target : STRING, action : STRING, params : Params,
                         confirmed : BOOLEAN, ready : SUBSET STRING]

VARIABLES
  phase,    (* how far the session has come                                   *)
  wiring,   (* the wiring that is checked                                     *)
  factory,  (* the factory document the coach was loaded from                 *)
  coach,    (* the effective coach                                            *)
  policy,   (* the grants that were accepted                                  *)
  request,  (* the request that is answered                                   *)
  answer,   (* its code, and its steps when it is planned                     *)
  calls,    (* Coach.execute: the calls still to make                         *)
  frames,   (* execute_entity: the prepared frames still to send              *)
  sent      (* the frames sent                                                *)

local == <<calls, frames, sent>>
planVars == <<phase, wiring, factory, coach, policy, request, answer, local>>

-----------------------------------------------------------------------------
(* Parameters. *)

AcceptsValue(rule, value) ==
  Within(rule, value) /\ ("enum" \in DOMAIN rule => value \in rule.enum)

(* validate_params: exactly the declared names, each within its rule. *)
validate_params(params, schema) ==
  /\ DOMAIN params = DOMAIN schema
  /\ \A name \in DOMAIN schema : AcceptsValue(schema[name], params[name])

(* Mutant of Narrows: the upper bound is compared the wrong way round. *)
NarrowsReversed(original, merged) ==
  /\ "min" \in DOMAIN original => merged.min >= original.min
  /\ "max" \in DOMAIN original => merged.max >= original.max
  /\ "enum" \in DOMAIN original => merged.enum \subseteq original.enum

(* ControllerPolicy.schema: bounds and choices may only become fewer. *)
Narrows(original, merged) ==
  /\ "min" \in DOMAIN original => merged.min >= original.min
  /\ "max" \in DOMAIN original => merged.max <= original.max
  /\ "enum" \in DOMAIN original => merged.enum \subseteq original.enum

(* The declared schema of an action under the restrictions of a grant; an  *)
(* entity must declare it, a group that does not takes no parameter.       *)
schema(target, action, restrictions) ==
  LET isGroup == target \in DOMAIN coach.groups
      declared == IF isGroup THEN Get(coach.groups[target], "schemas", << >>)
                  ELSE coach.entities[target].schemas
      original == Get(declared, action, << >>)
      merged == [name \in DOMAIN original |->
                   IF name \in DOMAIN restrictions
                   THEN Updated(original[name], restrictions[name])
                   ELSE original[name]]
  IN  IF \/ ~isGroup /\ action \notin DOMAIN declared
         \/ ~(DOMAIN restrictions \subseteq DOMAIN original)
         \/ \E name \in DOMAIN merged :
              \/ ~validate_rule(original[name]) \/ ~validate_rule(merged[name])
              \/ ~Narrows(original[name], merged[name])
      THEN Bad ELSE merged

-----------------------------------------------------------------------------
(* Expansion. *)

Failure(code) == [code |-> code, steps |-> << >>, groups |-> << >>]
Nothing == [code |-> "plan", steps |-> << >>, groups |-> << >>]
Leaf(call) == [Nothing EXCEPT !.steps = <<call>>]
Call(target, action, params) == [entity |-> target, action |-> action, params |-> params]

(* What a step makes of its caller's parameters, which override its own. *)
StepCall(step, params) == Call(step.entity, step.action, Updated(step.params, params))

(* result.extend, step after step, until one fails or the result is too    *)
(* long.                                                                   *)
Extended(done, more) ==
  IF done.code # "plan" THEN done
  ELSE IF more.code # "plan" THEN more
  ELSE IF Len(done.steps \o more.steps) > MaxSteps THEN Failure("invalid_request")
  ELSE [code |-> "plan", steps |-> done.steps \o more.steps,
        groups |-> done.groups \o more.groups]

Joined(first, results) ==
  LET done[i \in 0..Len(results)] ==
        IF i = 0 THEN first ELSE Extended(done[i - 1], results[i])
  IN  done[Len(results)]

Node(call, chain) == [call |-> call, chain |-> chain]

(* What a call expands to, given what the calls of its steps do.           *)
Expansion(expanded, node) ==
  LET call == node.call
      target == call.entity
      group == coach.groups[target]
      steps == GroupSteps(group, call.action)
      inner == [i \in DOMAIN steps |->
                  expanded[Node(StepCall(steps[i], call.params), Append(node.chain, target))]]
  IN  IF Len(node.chain) >= MaxChain \/ target \in ToSet(node.chain)
      THEN Failure("invalid_request")
      ELSE IF target \in DOMAIN coach.entities
      THEN IF call.action \in DOMAIN coach.entities[target].actions THEN Leaf(call)
           ELSE Failure("unknown_action")
      ELSE IF target \notin DOMAIN coach.groups THEN Failure("unknown_target")
      ELSE IF call.action \notin GroupActions(group) THEN Failure("unknown_action")
      ELSE IF Len(steps) \notin 1..MaxSteps THEN Failure("invalid_request")
      ELSE Joined([Nothing EXCEPT !.groups = <<call>>], inner)

(* ControllerPolicy.expand: the entity actions of a call in order, and the *)
(* groups it passes through.                                               *)
expand(call) ==
  LET expanded[node \in [call : Step, chain : Seq(STRING)]] == Expansion(expanded, node)
  IN  expanded[Node(call, << >>)]

Granted(call) == <<call.entity, call.action>> \in DOMAIN policy
Grant(call) == policy[<<call.entity, call.action>>]
GrantSchema(call) == schema(call.entity, call.action, Grant(call).params)

(* Mutant of _validate_expansion: the members of a group are left alone. *)
ValidateTop(grants, call) == expand(call).code = "plan"

(* _validate_expansion: a grant reaches only granted actions that declare   *)
(* what they take, and the parameters a group without a schema of its own   *)
(* gives to its members fit them.                                           *)
_validate_expansion(grants, call) ==
  LET expanded == expand(call)
      granted(c) == /\ <<c.entity, c.action>> \in DOMAIN grants
                    /\ schema(c.entity, c.action, grants[<<c.entity, c.action>>].params) # Bad
  IN  /\ expanded.code = "plan"
      /\ \A i \in DOMAIN expanded.groups : granted(expanded.groups[i])
      /\ \A i \in DOMAIN expanded.steps :
           LET step == expanded.steps[i]
           IN  /\ granted(step)
               /\ call.entity \in DOMAIN coach.groups
                  /\ schema(call.entity, call.action, << >>) = << >>
                  => validate_params(step.params,
                                     schema(step.entity, step.action,
                                            grants[<<step.entity, step.action>>].params))

(* ControllerPolicy.__init__. *)
AcceptsPolicy(grants) ==
  /\ DOMAIN coach.entities \cap DOMAIN coach.groups = {}
  /\ \A pair \in DOMAIN grants :
       LET target == pair[1]
           actions == IF target \in DOMAIN coach.entities
                      THEN DOMAIN coach.entities[target].actions
                      ELSE IF target \in DOMAIN coach.groups
                      THEN GroupActions(coach.groups[target]) ELSE {}
       IN  /\ pair[2] \in actions
           /\ schema(target, pair[2], << >>) # Bad
           /\ schema(target, pair[2], grants[pair].params) # Bad
  /\ \A pair \in DOMAIN grants : _validate_expansion(grants, Call(pair[1], pair[2], << >>))

-----------------------------------------------------------------------------
(* Start of a session. *)

CheckSources ==
  /\ phase = "start"
  /\ \E w \in Wirings :
       /\ wiring' = w
       /\ phase' = IF validate_sources(w) THEN "wired" ELSE "refused"
  /\ UNCHANGED <<factory, coach, policy, request, answer, local>>

Load ==
  /\ phase = "wired"
  /\ wiring' = Bad
  /\ \E f \in Factories, o \in Overlays :
       /\ factory' = f
       /\ coach' = LoadCoach(f, o)
  /\ phase' = IF coach' = Bad THEN "refused" ELSE "loaded"
  /\ UNCHANGED <<policy, request, answer, local>>

StartPolicy ==
  /\ phase = "loaded"
  /\ \E p \in Policies : AcceptsPolicy(p) /\ policy' = p
  /\ phase' = "serving"
  /\ UNCHANGED <<wiring, factory, coach, request, answer, local>>

RefusePolicy ==
  /\ phase = "loaded"
  /\ \E p \in Policies : ~AcceptsPolicy(p)
  /\ phase' = "refused"
  /\ UNCHANGED <<wiring, factory, coach, policy, request, answer, local>>

-----------------------------------------------------------------------------
(* Planning. *)

Duration(steps) == FoldLeft(LAMBDA sum, step : sum + step.wait + 1, 0, steps)

(* The plan of the expanded calls: each is granted, its parameters fit, it  *)
(* is confirmed where its entity or its grant asks, its frames are prepared *)
(* and its source is ready; otherwise the code of the first that is not.    *)
PlanCall(done, call, confirmed, ready) ==
  LET built == prepare_source_actions(coach, call.entity, call.action, call.params)
  IN  IF done.code # "plan" THEN done
      ELSE IF ~Granted(call) THEN Failure("forbidden")
      ELSE IF GrantSchema(call) = Bad \/ ~validate_params(call.params, GrantSchema(call))
      THEN Failure("invalid_params")
      ELSE IF (Get(coach.entities[call.entity], "confirm", FALSE) \/ Grant(call).confirm) /\ ~confirmed
      THEN Failure("confirmation_required")
      ELSE IF built = Bad THEN Failure("invalid_params")
      ELSE IF built = << >> THEN Failure("no_operations")
      ELSE IF built[1].section \notin ready THEN Failure("source_unavailable")
      ELSE IF Len(done.steps \o built) > MaxSteps \/ Duration(done.steps \o built) > MaxDuration
      THEN Failure("excessive_plan")
      ELSE [code |-> "plan", steps |-> done.steps \o built, groups |-> << >>]

(* The expanded calls, one after the other. *)
PlanCalls(expanded, confirmed, ready) ==
  LET planned[i \in 0..Len(expanded)] ==
        IF i = 0 THEN Nothing ELSE PlanCall(planned[i - 1], expanded[i], confirmed, ready)
  IN  planned[Len(expanded)]

(* Mutant of GroupProblem: only the group that was asked for is looked at. *)
GroupProblemOutermost(groups, confirmed) == "none"

(* The groups passed through: the code of the first that refuses. *)
GroupProblem(groups, confirmed) ==
  LET problem(group) ==
        IF ~Granted(group) THEN "forbidden"
        ELSE IF ~validate_params(group.params, GrantSchema(group)) THEN "invalid_params"
        ELSE IF Grant(group).confirm /\ ~confirmed THEN "confirmation_required" ELSE "none"
      refused == {i \in DOMAIN groups : problem(groups[i]) # "none"}
  IN  IF refused = {} THEN "none"
      ELSE problem(groups[CHOOSE i \in refused : \A j \in refused : i <= j])

(* CoachRequestPlanner.plan.  The code calls the last two failures of a     *)
(* plan, no_operations and excessive_plan, invalid_request.                 *)
PlanOf(r) ==
  LET call == Call(r.target, r.action, r.params)
      known == IF r.target \in DOMAIN coach.entities
               THEN DOMAIN coach.entities[r.target].actions
               ELSE GroupActions(coach.groups[r.target])
      expanded == expand(call)
      problem == GroupProblem(expanded.groups, r.confirmed)
  IN  IF r.target \notin DOMAIN coach.entities \cup DOMAIN coach.groups
      THEN Failure("unknown_target")
      ELSE IF r.action \notin known THEN Failure("unknown_action")
      ELSE IF ~Granted(call) THEN Failure("forbidden")
      ELSE IF ~validate_params(r.params, GrantSchema(call)) THEN Failure("invalid_params")
      ELSE IF expanded.code # "plan" THEN expanded
      ELSE IF Grant(call).confirm /\ ~r.confirmed THEN Failure("confirmation_required")
      ELSE IF problem # "none" THEN Failure(problem)
      ELSE PlanCalls(expanded.steps, r.confirmed, r.ready)

Ask ==
  /\ phase = "serving"
  /\ \E r \in Requests :
       /\ request' = r
       /\ answer' = PlanOf(r)
  /\ phase' = "answered"
  /\ UNCHANGED <<wiring, factory, coach, policy, local>>

-----------------------------------------------------------------------------
(* Execution from the command line. *)

(* Coach.execute of what the user types. *)
Type ==
  /\ phase = "serving"
  /\ \E r \in Requests :
       /\ request' = r
       /\ calls' = <<[call |-> Call(r.target, r.action, r.params), depth |-> 1]>>
  /\ phase' = "executing"
  /\ UNCHANGED <<wiring, factory, coach, policy, answer, frames, sent>>

(* An exception ends the execution; what was sent stays sent. *)
Abort ==
  /\ phase' = "aborted"
  /\ calls' = << >>
  /\ UNCHANGED <<frames, sent>>

(* execute_group: a group gives way to its steps, in order. *)
execute_group ==
  LET call == calls[1].call
      group == coach.groups[call.entity]
      steps == GroupSteps(group, call.action)
  IN  /\ phase = "executing" /\ frames = << >> /\ calls # << >>
      /\ call.entity \in DOMAIN coach.groups
      /\ IF call.action \notin GroupActions(group) \/ calls[1].depth > MaxDepth
         THEN Abort
         ELSE /\ calls' = [i \in DOMAIN steps |->
                             [call |-> StepCall(steps[i], call.params),
                              depth |-> calls[1].depth + 1]] \o Tail(calls)
              /\ UNCHANGED <<phase, frames, sent>>
      /\ UNCHANGED <<wiring, factory, coach, policy, request, answer>>

(* Mutant of execute_entity: a frame is looked at when its turn comes. *)
execute_entity_lazily ==
  LET call == calls[1].call
      raw == coach.entities[call.entity].actions[call.action]
      first == prepare_source_actions(
                 [coach EXCEPT !.entities[call.entity].actions[call.action] = SubSeq(raw, 1, IF raw = << >> THEN 0 ELSE 1)],
                 call.entity, call.action, call.params)
  IN  /\ phase = "executing" /\ frames = << >> /\ calls # << >>
      /\ call.entity \in DOMAIN coach.entities
      /\ IF call.action \in DOMAIN coach.entities[call.entity].actions /\ first # Bad
         THEN frames' = first /\ calls' = Tail(calls) /\ UNCHANGED <<phase, sent>>
         ELSE Abort
      /\ UNCHANGED <<wiring, factory, coach, policy, request, answer>>

(* execute_entity: confirmed, and every frame prepared before the first is *)
(* sent.                                                                   *)
execute_entity ==
  LET call == calls[1].call
      entity == coach.entities[call.entity]
      built == prepare_source_actions(coach, call.entity, call.action, call.params)
  IN  /\ phase = "executing" /\ frames = << >> /\ calls # << >>
      /\ call.entity \in DOMAIN coach.entities
      /\ IF /\ call.action \in DOMAIN entity.actions
            /\ Get(entity, "confirm", FALSE) => request.confirmed
            /\ built # Bad
         THEN frames' = built /\ calls' = Tail(calls) /\ UNCHANGED <<phase, sent>>
         ELSE Abort
      /\ UNCHANGED <<wiring, factory, coach, policy, request, answer>>

(* A target that is neither a group nor an entity. *)
ExecuteUnknown ==
  /\ phase = "executing" /\ frames = << >> /\ calls # << >>
  /\ calls[1].call.entity \notin DOMAIN coach.entities \cup DOMAIN coach.groups
  /\ Abort
  /\ UNCHANGED <<wiring, factory, coach, policy, request, answer>>

(* handle_action: the handler logs a failure and returns.  A handler that   *)
(* raises, and a KeyboardInterrupt in the wait between two frames           *)
(* (coach.py:752-755), end the execution between frames and are left out:   *)
(* the outcome of such a request is a matter of CoachCommands.              *)
SendFrame ==
  /\ phase = "executing" /\ frames # << >>
  /\ frames' = Tail(frames)
  /\ sent' = Append(sent, frames[1])
  /\ UNCHANGED <<phase, wiring, factory, coach, policy, request, answer, calls>>

Executed ==
  /\ phase = "executing" /\ frames = << >> /\ calls = << >>
  /\ phase' = "executed"
  /\ UNCHANGED <<wiring, factory, coach, policy, request, answer, local>>

(* The next request. *)
Again ==
  /\ phase \in {"answered", "executed", "aborted"}
  /\ phase' = "serving"
  /\ request' = Bad /\ answer' = Bad /\ sent' = << >>
  /\ UNCHANGED <<wiring, factory, coach, policy, calls, frames>>

PlanInit ==
  /\ phase = "start"
  /\ wiring = Bad /\ factory = Bad /\ coach = Bad /\ policy = Bad
  /\ request = Bad /\ answer = Bad
  /\ calls = << >> /\ frames = << >> /\ sent = << >>

PlanNext ==
  \/ CheckSources \/ Load \/ StartPolicy \/ RefusePolicy
  \/ Ask \/ Type \/ execute_group \/ execute_entity \/ ExecuteUnknown
  \/ SendFrame \/ Executed \/ Again

PlanSpec == PlanInit /\ [][PlanNext]_planVars

-----------------------------------------------------------------------------
(* A wiring is accepted exactly when the derived variables can be put in   *)
(* an order in which each is made of earlier ones, the sources in one in   *)
(* which each setting has one most specific producer, which is earlier,    *)
(* and what the events watch has such a producer.                          *)
SourcesStartInOrder ==
  LET sources == DOMAIN wiring.root
      closest(p, topic) ==
        /\ wiring.root[p] # << >> /\ IsPrefix(wiring.root[p], topic)
        /\ \A q \in sources \ {p} :
             IsPrefix(wiring.root[q], topic) => Len(wiring.root[q]) < Len(wiring.root[p])
      produces(p, v) == v \in DOMAIN wiring.bound /\ closest(p, wiring.bound[v])
  IN  wiring # Bad =>
        (phase = "wired"
           <=> /\ \E rank \in [DOMAIN wiring.derived -> 1..Cardinality(DOMAIN wiring.derived)] :
                    \A d \in DOMAIN wiring.derived : \A n \in wiring.derived[d] :
                      \/ n \in DOMAIN wiring.bound
                      \/ n \in DOMAIN wiring.derived /\ rank[n] < rank[d]
               /\ \E rank \in [sources -> 1..Cardinality(sources)] :
                    \A s \in sources : \A v \in References(wiring, s) :
                      \E p \in sources : produces(p, v) /\ rank[p] < rank[s]
               /\ \A v \in Watched(wiring) : \E p \in sources : produces(p, v))

(* An overlay changes nothing the factory definition does: its groups      *)
(* expand to the same steps, and its entities' actions to the same frames, *)
(* or are refused by a new reservation.                                    *)
OverlayOnlyAdds ==
  phase = "loaded" /\ Effective(factory) # Bad =>
    LET before == Effective(factory)
        wire(plan) == [i \in DOMAIN plan |-> <<plan[i].instance, plan[i].wait>>]
    IN  /\ \A g \in DOMAIN factory.groups : \A a \in GroupActions(factory.groups[g]) :
             /\ a \in GroupActions(coach.groups[g])
             /\ GroupSteps(coach.groups[g], a) = GroupSteps(factory.groups[g], a)
        /\ \A e \in DOMAIN before.entities :
             \A a \in DOMAIN before.entities[e].actions, params \in Params :
               LET old == prepare_source_actions(before, e, a, params)
                   new == prepare_source_actions(coach, e, a, params)
               IN  old # Bad /\ new # Bad => wire(old) = wire(new)

(* A grant accepts no value of a parameter that its action does not. *)
PolicyOnlyNarrows ==
  policy # Bad =>
    \A pair \in DOMAIN policy :
      LET declared == schema(pair[1], pair[2], << >>)
          narrowed == schema(pair[1], pair[2], policy[pair].params)
      IN  \A name \in DOMAIN narrowed, v \in Levels :
            AcceptsValue(narrowed[name], v) => AcceptsValue(declared[name], v)

(* The calls a call reaches through groups; none of a plan is further away *)
(* than the longest chain.                                                 *)
StepsOf(pair) ==
  IF pair[1] \in DOMAIN coach.groups /\ pair[2] \in GroupActions(coach.groups[pair[1]])
  THEN {<<s.entity, s.action>> : s \in ToSet(GroupSteps(coach.groups[pair[1]], pair[2]))}
  ELSE {}

Reached(pair) ==
  LET within[n \in 0..MaxChain] ==
        IF n = 0 THEN {pair} ELSE within[n - 1] \cup UNION {StepsOf(p) : p \in within[n - 1]}
  IN  within[MaxChain]

(* Everything a planned request reaches, however deep, was granted to its  *)
(* controller, is confirmed where the entity or any grant on the way asks  *)
(* for it, and has a source that is ready.                                 *)
PlanIsAuthorized ==
  phase = "answered" /\ answer.code = "plan" =>
    /\ \A pair \in Reached(<<request.target, request.action>>) :
         /\ pair \in DOMAIN policy
         /\ policy[pair].confirm => request.confirmed
         /\ pair[1] \in DOMAIN coach.entities /\ Get(coach.entities[pair[1]], "confirm", FALSE)
            => request.confirmed
    /\ \A i \in DOMAIN answer.steps : answer.steps[i].section \in request.ready

(* What the policy grants was settled when the session started: a granted  *)
(* request is never refused for want of a target, an action or a grant.    *)
GrantsAreSettled ==
  phase = "answered" /\ <<request.target, request.action>> \in DOMAIN policy =>
    answer.code \notin {"forbidden", "unknown_target", "unknown_action", "invalid_request"}

(* What a session accepts as a policy keeps its promise later: grants only   *)
(* narrow, and a request does not discover that a target, an action or a     *)
(* grant its expansion needs is missing (ControllerPolicy checks the whole   *)
(* expansion at startup).  A granted request may still be refused for its    *)
(* parameters, which the schemas of inner groups check again, for the size   *)
(* of its plan, or because a source is not ready.                            *)
PolicyIsSound == PolicyOnlyNarrows /\ GrantsAreSettled

(* Neither a plan nor an execution addresses a reserved instance. *)
NothingReserved ==
  /\ phase = "answered" =>
       \A i \in DOMAIN answer.steps : answer.steps[i].instance \notin coach.reserved
  /\ \A i \in DOMAIN sent : sent[i].instance \notin coach.reserved

(* Every frame is one of a whole action, sent together and in order. *)
Whole(plan) ==
  \A i \in DOMAIN plan :
    LET frame == plan[i]
    IN  \A j \in DOMAIN coach.entities[frame.entity].actions[frame.action] :
          LET k == i - frame.part + j
          IN  /\ k \in DOMAIN plan
              /\ plan[k].entity = frame.entity /\ plan[k].action = frame.action
              /\ plan[k].part = j

(* Whether an execution is done or is given up at a call it cannot plan or *)
(* authorize, each action it began was sent to its last frame: a bad       *)
(* parameter leaves no motor pair half commanded.  A handler that raises   *)
(* and an interrupt of the wait between two frames are not ends of this    *)
(* kind (SendFrame).                                                       *)
ActionsAreWhole == phase \in {"executed", "aborted"} => Whole(sent)

(* A parameter decides neither what may be addressed nor how much of an      *)
(* action is sent (prepare_source_actions prepares and checks every frame    *)
(* before the first is handed to its source).                                *)
OnlyWholeActions == NothingReserved /\ ActionsAreWhole
=============================================================================
