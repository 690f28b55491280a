---------------------------- MODULE MCSighupReload ----------------------------
(* SighupReload for TLC: files that set some of the settings, two issuers. *)
EXTENDS SighupReload

CONSTANTS login, sso, none, openid, groups

Nothing == [s \in {} |-> TRUE]

MCDefaults ==
  [readOnly |-> FALSE, requireOAuth |-> FALSE, issuer |-> none, scopes |-> openid,
   toolsets |-> "core"]

MCParts ==
  {Nothing,
   [requireOAuth |-> TRUE, issuer |-> login],
   [issuer |-> sso],
   [scopes |-> groups],
   [toolsets |-> "no-such-toolset"]}

MCFlags == {Nothing, [requireOAuth |-> TRUE]}

MCReadOnly == {[readOnly |-> TRUE]}
=============================================================================
