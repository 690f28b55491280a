----------------------------- MODULE ToolRegistry -----------------------------
(***************************************************************************)
(* What a client of the MCP server may rely on while the server changes    *)
(* the tools and prompts it offers.  The list a client sees moves from one *)
(* advertised set to the next one item at a time, or several; an item that *)
(* belongs to both is there throughout, an item of neither never appears,  *)
(* and when the update ends the list is exactly what is advertised.        *)
(***************************************************************************)
CONSTANT Items

VARIABLES
  exposed,     \* what tools/list and prompts/list return
  advertised,  \* what GetEnabledTools and GetEnabledPrompts return
  target       \* the set the update in progress leads to

vars == <<exposed, advertised, target>>

Init ==
  /\ exposed \in SUBSET Items
  /\ advertised = exposed
  /\ target = exposed

\* An update towards a new set starts when the last one is over.
Begin ==
  /\ target = advertised
  /\ target' \in SUBSET Items
  /\ UNCHANGED <<exposed, advertised>>

\* Only items that do not stay are withdrawn.
Withdraw ==
  /\ exposed' \subseteq exposed
  /\ exposed \cap target \subseteq exposed'
  /\ UNCHANGED <<advertised, target>>

\* Only items of the new set are offered.
Offer ==
  /\ exposed \subseteq exposed'
  /\ exposed' \subseteq exposed \cup target
  /\ UNCHANGED <<advertised, target>>

\* The update ends when client and server agree.
Finish ==
  /\ exposed = target
  /\ advertised' = target
  /\ UNCHANGED <<exposed, target>>

Next == Begin \/ Withdraw \/ Offer \/ Finish

Spec == Init /\ [][Next]_vars
=============================================================================
