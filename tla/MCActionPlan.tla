----------------------------- MODULE MCActionPlan -----------------------------
(* Two dimmers on one bus and a scene of groups; every graph of three       *)
(* sources; overlays that add, replace, shadow and reserve; policies that    *)
(* grant all, or all but one call, narrowed in several ways.                 *)
EXTENDS ActionPlan, TLC

(* Three sources on nested roots or on none, a variable of each root and a  *)
(* derived one.                                                             *)
Roots == {<< >>, <<"a">>, <<"b">>, <<"a", "b">>}
Bound == "va" :> <<"a", "x">> @@ "vb" :> <<"b">> @@ "vab" :> <<"a", "b", "y">>
MCWirings ==
  {[root |-> r, bound |-> Bound, derived |-> "d" :> d, uses |-> u, watched |-> e] :
     r \in [{"s1", "s2", "s3"} -> Roots],
     d \in {{"va", "vb"}, {"d"}, {"none"}},
     u \in [{"s1", "s2", "s3"} -> {{}, {"va"}, {"vb"}, {"vab", "d"}}], e \in {{}, {"vb"}}}

Send(instance, wait) == [instance |-> instance, wait |-> wait]

(* Templates: a base with "on", a dimmer that adds a pair "move" whose second *)
(* frame is addressed by the parameter, and a template that extends itself.   *)
Templates ==
  "base" :> ("actions" :> ("on" :> <<Send(Ref("instance"), 0)>> @@ "stop" :> << >>)
             @@ "schemas" :> ("on" :> << >> @@ "stop" :> << >>)) @@
  "dimmer" :> ("extends" :> "base"
               @@ "actions" :> ("move" :> <<Send(Ref("instance"), 0), Send(Ref("level"), 1)>>)
               @@ "transport" :> "rvc") @@
  "loop" :> ("extends" :> "loop")

Rules == {<< >>, "min" :> 1 @@ "max" :> 3, "enum" :> {1, 3}}
LevelSchema(rule) == "level" :> rule

Lamp(template, instance, rule) ==
  "template" :> template @@ "instance" :> instance
  @@ "schemas" :> ("move" :> LevelSchema(rule))

(* The steps of the scene, and the members of the group it may contain. *)
Do(entity, action, params) == [entity |-> entity, action |-> action, params |-> params]
Steps ==
  {<<Do("e1", "move", << >>), Do("e2", "on", << >>)>>,
   <<Do("e1", "move", << >>), Do("inner", "move", << >>)>>,
   <<Do("inner", "move", << >>), Do("scene", "move", << >>)>>,
   <<Do("e2", "move", << >>), Do("inner", "move", << >>), Do("inner", "move", << >>)>>,
   <<Do("inner", "move", "level" :> 3)>>,
   <<Do("nobody", "on", << >>)>>, << >>}
Members == {<<"e1">>, <<"e1", "e2">>, <<"scene">>}

Groups(steps, members, takes, rule) ==
  "scene" :> ("actions" :> ("move" :> steps)
              @@ "schemas" :> (IF takes THEN "move" :> LevelSchema(rule) ELSE << >>)) @@
  "inner" :> ("members" :> members @@ "listed" :> {"move"}
              @@ "schemas" :> ("move" :> LevelSchema(<< >>)))

Document(templates, entities, groups, reserved) ==
  [templates |-> templates, entities |-> entities, groups |-> groups, reserved |-> reserved]

MCFactories ==
  {Document(IF t = "loop" THEN Templates ELSE [n \in {"base", "dimmer"} |-> Templates[n]],
            "e1" :> Lamp("dimmer", 1, rule)
            @@ "e2" :> ("confirm" :> TRUE @@ Lamp(t, 2, rule)),
            Groups(steps, members, takes, rule), reserved) :
     t \in {"dimmer", "loop"}, rule \in Rules, steps \in Steps, members \in Members,
     takes \in BOOLEAN, reserved \in {{}, {2}}}

Additions(entities, groups, reserved) == Document(<< >>, entities, groups, reserved)
MCOverlays ==
  {Bad,
   Additions("nobody" :> Lamp("dimmer", 4, << >>), << >>, {}),
   Additions("nobody" :> Lamp("dimmer", 4, "min" :> 3 @@ "max" :> 1), << >>, {}),
   Additions("e1" :> ("transport" :> "wled"), << >>, {}),
   Additions(<< >>, "scene" :> ("actions" :> ("on" :> <<Do("e1", "on", << >>)>>)), {3}),
   Additions(<< >>, "scene" :> ("actions" :> ("move" :> <<Do("e1", "on", << >>)>>)), {})}

Calls == {<<"scene", "move">>, <<"inner", "move">>, <<"e1", "move">>, <<"e2", "move">>, <<"e2", "on">>, <<"e1", "stop">>}
Restrictions == {<< >>, "max" :> 2, "max" :> 4, "min" :> 0, "enum" :> {1, 2}}
MCPolicies ==
  {[pair \in Calls \ without |->
      [confirm |-> pair = confirm,
       params |-> IF pair = narrowed THEN "level" :> rule ELSE << >>]] :
     without \in {{<<"e2", "on">>}, {<<"inner", "move">>}, {}},
     confirm \in {<<"inner", "move">>, <<"nothing", "on">>}, narrowed \in {<<"e1", "move">>, <<"scene", "move">>},
     rule \in Restrictions}

Request(target, action, params, confirmed, ready) ==
  [target |-> target, action |-> action, params |-> params, confirmed |-> confirmed,
   ready |-> ready]
MCRequests ==
  {Request(t, "move", p, c, {"bus"}) :
     t \in {"scene", "inner", "e1"}, p \in {<< >>} \cup {"level" :> v : v \in {2, 3}}, c \in BOOLEAN}
  \cup {Request(t, "move", "level" :> 1, TRUE, r) : t \in {"e1", "nobody"}, r \in {{}, {"bus"}}}
  \cup {Request("e1", "stop", << >>, FALSE, {"bus"}), Request("e1", "fly", << >>, FALSE, {"bus"})}

MCAliases == "rvc" :> "bus"
MCSourceType == "bus" :> "rvc" @@ "strip" :> "wled"
=============================================================================
