------------------------------ MODULE Workspace ------------------------------
(***************************************************************************)
(* The parts of the API that share no row with each other: provider        *)
(* configurations, the prompt library and its rendering, the slugs of      *)
(* organizations, usage summaries, and the reader of a provider's stream.  *)
(* A step of one leaves the others as they are, so a behaviour of any of   *)
(* them alone is as good as one of all: part says which one moves.         *)
(***************************************************************************)
EXTENDS Providers, Prompts, Organizations, Analytics, EventStream, Rendering

VARIABLE part

workspaceVars ==
    <<providersVars, promptsVars, organizationsVars, analyticsVars, eventStreamVars,
      renderingVars, part>>

WorkspaceInit ==
    /\ part \in {"providers", "prompts", "organizations", "analytics", "stream", "rendering"}
    /\ ProvidersInit /\ PromptsInit /\ OrganizationsInit /\ AnalyticsInit
    /\ IF part = "stream" THEN EventStreamInit
       ELSE body = <<>> /\ received = 0 /\ buffer = <<>> /\ lines = <<>>
              /\ yielded = <<>> /\ reader = "done"
    /\ IF part = "rendering" THEN RenderingInit
       ELSE template = <<>> /\ inputs = <<>> /\ rendered = <<>> /\ remaining = <<>>

Moves(name, vs) == part = name /\ UNCHANGED <<part, vs>>

ProvidersMove ==
    /\ ProvidersNext
    /\ Moves("providers", <<promptsVars, organizationsVars, analyticsVars, eventStreamVars, renderingVars>>)
PromptsMove ==
    /\ PromptsNext
    /\ Moves("prompts", <<providersVars, organizationsVars, analyticsVars, eventStreamVars, renderingVars>>)
OrganizationsMove ==
    /\ OrganizationsNext
    /\ Moves("organizations", <<providersVars, promptsVars, analyticsVars, eventStreamVars, renderingVars>>)
AnalyticsMove ==
    /\ AnalyticsNext
    /\ Moves("analytics", <<providersVars, promptsVars, organizationsVars, eventStreamVars, renderingVars>>)
StreamMove ==
    /\ EventStreamNext
    /\ Moves("stream", <<providersVars, promptsVars, organizationsVars, analyticsVars, renderingVars>>)
RenderingMove ==
    /\ RenderingNext
    /\ Moves("rendering", <<providersVars, promptsVars, organizationsVars, analyticsVars, eventStreamVars>>)

WorkspaceNext ==
    \/ ProvidersMove \/ PromptsMove \/ OrganizationsMove
    \/ AnalyticsMove \/ StreamMove \/ RenderingMove

WorkspaceSpec == WorkspaceInit /\ [][WorkspaceNext]_workspaceVars

\* Rows and requests of every part have their types, and rows keep the keys
\* of the schema that several requests compete for: names of configurations,
\* slugs of an organization's prompts and of organizations.
WorkspaceTypeOK ==
    ProvidersTypeOK /\ PromptsTypeOK /\ OrganizationsTypeOK /\ AnalyticsTypeOK
=============================================================================
