----------------------------- MODULE MCToolReload -----------------------------
(* ToolReload for TLC: two configurations, two toolsets, two worlds. *)
EXTENDS ToolReload

CONSTANTS sighup, watcher, core, helm, alone, fleet, get, delete, routes, listTargets,
          check, custom

MCReloaders == {sighup, watcher}

MCToolsets == {core, helm}

MCWorlds == {alone, fleet}

MCTools == {get, delete, routes, listTargets}

MCPrompts == {check, custom}

\* Everything, and one of the prompts defined in the file.
permissive == [toolsets |-> {core, helm}, readOnly |-> FALSE,
               disableDestructive |-> FALSE, enabledTools |-> MCTools,
               disabledTools |-> {}, prompts |-> {custom}]

\* Read-only, from one toolset, one tool disabled.
restricted == [toolsets |-> {core}, readOnly |-> TRUE, disableDestructive |-> TRUE,
               enabledTools |-> MCTools, disabledTools |-> {routes},
               prompts |-> {}]

MCConfigs == {permissive, restricted}

\* core shows the routes of an OpenShift cluster, and the list of targets.
MCProvides ==
  [ts \in MCToolsets |-> [w \in MCWorlds |->
     IF ts = helm THEN {delete, check}
     ELSE {get, listTargets} \cup (IF w = fleet THEN {routes} ELSE {})]]

=============================================================================
