--------------------------- MODULE CoachDefinition ---------------------------
(***************************************************************************)
(* How a coach definition and an installation overlay become the effective *)
(* entities, groups and reservations (coach.py), and how an action of an   *)
(* entity becomes the frames of its source (coach.py, writable.py,         *)
(* rvc.py).                                                                *)
(*                                                                         *)
(* A document has templates, entities, groups and reserved instances.  A   *)
(* definition is a function whose domain is the keys it declares:          *)
(* "extends" or "template" name a parent, "actions" and "schemas" map the  *)
(* names of actions, every other key is a value; the "actions" of a group  *)
(* that are a list of names are its "listed".  Of a frame the model keeps  *)
(* the instance it addresses, which is a number or a placeholder, and its  *)
(* wait.  A definition that is refused is Bad.  Two checks of              *)
(* _validate_overlay are left out, so that the model accepts more: the     *)
(* range of reserved numbers and the state blocks (EntityStateTracker).    *)
(***************************************************************************)
EXTENDS Integers, Sequences, SequencesExt

CONSTANTS
  Bad,           (* what an error makes of a definition or of a plan          *)
  MaxInstance,   (* the greatest instance a frame can address                 *)
  MaxFrameWait,  (* MAX_FRAME_WAIT_SECONDS                                    *)
  Aliases,       (* the [coach] section: logical names to source sections     *)
  SourceType,    (* the source sections of the configuration and their types  *)
  Writable       (* the types of source that take actions                     *)

ASSUME DefinitionAssumption ==
  /\ MaxInstance \in Nat
  /\ MaxFrameWait \in Nat
  /\ DOMAIN SourceType # {}

Combined == {"actions", "schemas"}

Get(definition, key, default) ==
  IF key \in DOMAIN definition THEN definition[key] ELSE default

(* dict.update *)
Updated(base, override) ==
  [key \in DOMAIN base \cup DOMAIN override |->
     IF key \in DOMAIN override THEN override[key] ELSE base[key]]

Lit(number) == [lit |-> number]
Ref(name) == [ref |-> name]

Frame == [instance : [lit : Int] \cup [ref : STRING], wait : Int]

(* substitute_placeholders: a whole placeholder takes the value of the *)
(* context, one the context does not know stays.                       *)
substitute_placeholders(value, context) ==
  IF "ref" \in DOMAIN value /\ value.ref \in DOMAIN context
  THEN Lit(context[value.ref]) ELSE value

SubstituteFrames(frames, context) ==
  [i \in DOMAIN frames |->
     [frames[i] EXCEPT !.instance = substitute_placeholders(@, context)]]

-----------------------------------------------------------------------------
(* Inheritance. *)

merge_definitions(base, override) ==
  [key \in DOMAIN base \cup DOMAIN override |->
     IF key \notin DOMAIN override THEN base[key]
     ELSE IF key \in Combined /\ key \in DOMAIN base THEN Updated(base[key], override[key])
     ELSE override[key]]

(* A chain of templates, each merged over its parent; a loop and a missing *)
(* template are refused.                                                   *)
resolve_template(document, name) ==
  LET names == DOMAIN document.templates
      resolved[at \in [name : STRING, chain : SUBSET names]] ==
        IF at.name \in at.chain \/ at.name \notin names THEN Bad
        ELSE LET template == document.templates[at.name]
                 parent == IF "extends" \in DOMAIN template
                           THEN resolved[[name  |-> template.extends,
                                          chain |-> at.chain \cup {at.name}]]
                           ELSE << >>
             IN  IF parent = Bad THEN Bad ELSE merge_definitions(parent, template)
  IN  resolved[[name |-> name, chain |-> {}]]

(* The instance of the entity's own definition fills the placeholders of   *)
(* the frames; what is no list of frames is refused, and a frame whose     *)
(* instance is known and reserved.                                         *)
_resolve_entity(document, definition) ==
  LET base == IF "template" \in DOMAIN definition
              THEN resolve_template(document, definition.template)
              ELSE << >>
      merged == merge_definitions(base, definition)
      context == [key \in {"instance"} \cap DOMAIN definition |-> definition[key]]
      raw == Get(merged, "actions", << >>)
      actions == [a \in DOMAIN raw |-> SubstituteFrames(raw[a], context)]
  IN  IF base = Bad THEN Bad
      ELSE IF \E a \in DOMAIN actions :
                \/ actions[a] \notin Seq(Frame)
                \/ \E i \in DOMAIN actions[a] :
                     actions[a][i].instance \in {Lit(n) : n \in document.reserved}
      THEN Bad
      ELSE Updated(merged, [actions |-> actions, schemas |-> Get(merged, "schemas", << >>)])

(* ResolvedCoachDefinition: the effective coach of a document. *)
Effective(document) ==
  LET entities == [e \in DOMAIN document.entities |->
                     _resolve_entity(document, document.entities[e])]
  IN  IF \E e \in DOMAIN entities : entities[e] = Bad THEN Bad
      ELSE [entities |-> entities, groups |-> document.groups,
            reserved |-> document.reserved]

-----------------------------------------------------------------------------
(* Overlays. *)

(* Mutant of Collides: an overlay may replace what it names. *)
CollidesNever(base, addition) == FALSE

(* An overlay adds keys and entries and replaces none; it does not make a   *)
(* list of actions of a mapping, nor a mapping of a list.                   *)
Collides(base, addition) ==
  \E name \in DOMAIN base \cap DOMAIN addition :
    \/ \E key \in DOMAIN base[name] \cap DOMAIN addition[name] :
         key \in Combined => DOMAIN base[name][key] \cap DOMAIN addition[name][key] # {}
    \/ "listed" \in DOMAIN base[name] /\ "actions" \in DOMAIN addition[name]
    \/ "actions" \in DOMAIN base[name] /\ "listed" \in DOMAIN addition[name]

MergeNamed(base, addition) ==
  [name \in DOMAIN base \cup DOMAIN addition |->
     IF name \notin DOMAIN base THEN addition[name]
     ELSE IF name \notin DOMAIN addition THEN base[name]
     ELSE merge_definitions(base[name], addition[name])]

merge_coach_overlay(base, additions) ==
  IF \E section \in {"templates", "entities", "groups"} :
       Collides(base[section], additions[section])
  THEN Bad
  ELSE [templates |-> MergeNamed(base.templates, additions.templates),
        entities  |-> MergeNamed(base.entities, additions.entities),
        groups    |-> MergeNamed(base.groups, additions.groups),
        reserved  |-> base.reserved \cup additions.reserved]

(* A resolved definition keeps every value and every entry it had. *)
_require_preserved(base, merged) ==
  \A key \in DOMAIN base :
    /\ key \in DOMAIN merged
    /\ IF key \in Combined
       THEN \A a \in DOMAIN base[key] :
              a \in DOMAIN merged[key] /\ merged[key][a] = base[key][a]
       ELSE merged[key] = base[key]

-----------------------------------------------------------------------------
(* Groups and schemas. *)

(* A group lists the actions it applies to its members, or maps an action  *)
(* to steps.                                                               *)
GroupActions(group) ==
  IF "listed" \in DOMAIN group THEN group.listed ELSE DOMAIN Get(group, "actions", << >>)

GroupSteps(group, action) ==
  IF "listed" \in DOMAIN group
  THEN LET members == Get(group, "members", << >>)
       IN  [i \in DOMAIN members |->
              [entity |-> members[i], action |-> action, params |-> << >>]]
  ELSE group.actions[action]

(* The values a rule admits, but for its choices. *)
Within(rule, value) ==
  /\ "min" \in DOMAIN rule => value >= rule.min
  /\ "max" \in DOMAIN rule => value <= rule.max

(* validate_schema, for one parameter: bounds are numbers in order, and     *)
(* choices, if there are any, lie within them.                              *)
validate_rule(rule) ==
  /\ \A bound \in {"min", "max"} \cap DOMAIN rule : rule[bound] \in Int
  /\ {"min", "max"} \subseteq DOMAIN rule => rule.min <= rule.max
  /\ "enum" \in DOMAIN rule => rule.enum # {} /\ \A v \in rule.enum : Within(rule, v)

(* The walk from an action of a group: its steps name entities and groups  *)
(* that have the action, and no group is its ancestor.                     *)
visit(coach, group, action) ==
  LET names == DOMAIN coach.groups
      visited[at \in [group : names, action : STRING, chain : SUBSET names]] ==
        /\ at.group \notin at.chain
        /\ at.action \in GroupActions(coach.groups[at.group])
        /\ \A step \in ToSet(GroupSteps(coach.groups[at.group], at.action)) :
             IF step.entity \in DOMAIN coach.entities
             THEN step.action \in DOMAIN coach.entities[step.entity].actions
             ELSE /\ step.entity \in names
                  /\ visited[[group |-> step.entity, action |-> step.action,
                               chain |-> at.chain \cup {at.group}]]
  IN  visited[[group |-> group, action |-> action, chain |-> {}]]

(* A schema is declared for actions there are, and each of its rules is *)
(* well formed.                                                         *)
validate_schemas(schemas, actions) ==
  /\ DOMAIN schemas \subseteq actions
  /\ \A a \in DOMAIN schemas : \A name \in DOMAIN schemas[a] : validate_rule(schemas[a][name])

_validate_overlay(coach) ==
  /\ DOMAIN coach.entities \cap DOMAIN coach.groups = {}
  /\ \A e \in DOMAIN coach.entities :
       LET entity == coach.entities[e]
       IN  /\ entity.actions # << >> => Get(entity, "transport", Bad) \in Writable
           /\ validate_schemas(entity.schemas, DOMAIN entity.actions)
           /\ \A a \in DOMAIN entity.actions : \A i \in DOMAIN entity.actions[a] :
                entity.actions[a][i].wait \in 0..MaxFrameWait
  /\ \A g \in DOMAIN coach.groups :
       /\ validate_schemas(Get(coach.groups[g], "schemas", << >>), GroupActions(coach.groups[g]))
       /\ \A a \in GroupActions(coach.groups[g]) : visit(coach, g, a)

(* Coach.load: without an overlay the factory definition is only resolved. *)
LoadCoach(factory, overlay) ==
  IF overlay = Bad THEN Effective(factory)
  ELSE LET merged == merge_coach_overlay(factory, overlay)
           before == Effective(factory)
           after  == IF merged = Bad THEN Bad ELSE Effective(merged)
       IN  IF \/ before = Bad \/ after = Bad
              \/ \E t \in DOMAIN factory.templates :
                   LET old == resolve_template(factory, t)
                       new == resolve_template(merged, t)
                   IN  old = Bad \/ new = Bad \/ ~_require_preserved(old, new)
              \/ \E t \in DOMAIN merged.templates : resolve_template(merged, t) = Bad
              \/ \E e \in DOMAIN before.entities :
                   ~_require_preserved(before.entities[e], after.entities[e])
              \/ ~_validate_overlay(after)
           THEN Bad ELSE after

-----------------------------------------------------------------------------
(* From an action to the frames of a source. *)

(* The aliases of all candidates come before any section of their names. *)
resolve_config_section(entity) ==
  LET keys == SelectSeq(<<"target", "config_section", "transport">>, LAMBDA key : key \in DOMAIN entity)
      candidates == [i \in DOMAIN keys |-> entity[keys[i]]]
      aliased == SelectSeq(candidates, LAMBDA c : c \in DOMAIN Aliases)
      named == SelectSeq(candidates, LAMBDA c : c \in DOMAIN SourceType)
  IN  IF aliased # << >> THEN Aliases[aliased[1]]
      ELSE IF named # << >> THEN named[1] ELSE Bad

(* Mutant of _encode_action: the reservations are those known at loading. *)
_encode_actionStatic(instance, reserved) == "lit" \in DOMAIN instance /\ instance.lit \in 0..MaxInstance

(* A frame can be sent when its instance is known, in range, not reserved. *)
_encode_action(instance, reserved) ==
  /\ "lit" \in DOMAIN instance
  /\ instance.lit \in 0..MaxInstance
  /\ instance.lit \notin reserved

(* All frames of an action, or none: every placeholder has a value, the     *)
(* section is one of the entity's transport, every frame can be encoded.    *)
prepare_source_actions(coach, name, action, params) ==
  LET entity == coach.entities[name]
      section == resolve_config_section(entity)
      frames == SubstituteFrames(entity.actions[action], params)
  IN  IF \/ section = Bad
         \/ section \notin DOMAIN SourceType
         \/ SourceType[section] \notin Writable \/ SourceType[section] # Get(entity, "transport", Bad)
         \/ \E i \in DOMAIN frames :
              \/ frames[i].wait \notin 0..MaxFrameWait
              \/ ~_encode_action(frames[i].instance, coach.reserved)
      THEN Bad
      ELSE [i \in DOMAIN frames |->
              [entity |-> name, action |-> action, part |-> i, section |-> section,
               instance |-> frames[i].instance.lit, wait |-> frames[i].wait]]
=============================================================================
