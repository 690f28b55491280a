---- MODULE Diagnostics ----
(***************************************************************************)
(* The calls that put an answer together from several requests: the two    *)
(* report prompts and the mesh graph, one call at a time.                  *)
(***************************************************************************)
EXTENDS MeshGraph, HealthReports, TLC

diagnosticsVars == <<mesh, reportVars>>

DiagnosticsInit ==
  /\ world \in Worlds
  /\ story = <<>>
  /\ report = NoReport
  /\ mesh = NoMesh

Idle == ~Called /\ report = NoReport

DiagnosticsNext ==
  \/ Idle /\ AskReport /\ UNCHANGED mesh
  \/ Idle /\ GetMeshGraph /\ UNCHANGED reportVars
  \/ ReportNext /\ UNCHANGED mesh
  \/ MeshNext /\ UNCHANGED reportVars

DiagnosticsSpec == DiagnosticsInit /\ [][DiagnosticsNext]_diagnosticsVars
====
