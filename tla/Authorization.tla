---------------------------- MODULE Authorization ----------------------------
(***************************************************************************)
(* The pure part of the API's access control: the permission catalogue,    *)
(* the role-to-permission matrix and the resource policies.  No state:     *)
(* every operator is a function of its arguments, as in the source.        *)
(* A role, a permission and a user are values that are only compared.      *)
(***************************************************************************)
Roles == {"OWNER", "ADMIN", "MANAGER", "MEMBER", "VIEWER"}

\* A user without an active membership, an absent optional argument.
NoRole == "NONE"

Wildcard == "*"

\* permissions.ts: every permission but the wildcard.
Permissions ==
    {"organization:view", "organization:update", "organization:delete",
     "member:list", "member:view", "member:invite", "member:update",
     "member:remove", "member:transfer_ownership",
     "invitation:create", "invitation:view", "invitation:revoke",
     "settings:update",
     "provider:view", "provider:create", "provider:update",
     "provider:delete", "provider:validate", "provider:setDefault",
     "prompt:view", "prompt:create", "prompt:update", "prompt:delete",
     "prompt:version:create", "prompt:version:view", "prompt:render"}

\* DEFAULT_ROLE_PERMISSIONS
Granted ==
    [ OWNER   |-> {Wildcard},
      ADMIN   |-> Permissions \ {"organization:delete", "member:transfer_ownership"},
      MANAGER |-> {"organization:view", "member:list", "member:view",
                   "invitation:create", "invitation:view", "provider:view",
                   "prompt:view", "prompt:create", "prompt:update",
                   "prompt:version:create", "prompt:version:view", "prompt:render"},
      MEMBER  |-> {"organization:view", "member:list", "member:view",
                   "provider:view", "prompt:view", "prompt:render"},
      VIEWER  |-> {"organization:view", "provider:view", "prompt:view"} ]

\* getPermissionsForRole: the wildcard expands to the whole catalogue, a user
\* with no role has no permission.
PermissionsOf(role) ==
    IF role \notin Roles THEN {}
    ELSE IF Wildcard \in Granted[role] THEN Permissions ELSE Granted[role]

\* hasPermissions
HasPermissions(required, held) == Wildcard \in held \/ required \subseteq held

-----------------------------------------------------------------------------
(* Resource policies.  targetRole is NoRole when the target row was not    *)
(* found (NOT_FOUND), newRole is NoRole when the call passes none.         *)

CanManageMemberNoAdminRule(actor, actorRole, target, targetRole, newRole) ==
    /\ targetRole # NoRole
    /\ target # actor
    /\ targetRole = "OWNER" => actorRole = "OWNER"
    /\ newRole # "OWNER"

CanManageMember(actor, actorRole, target, targetRole, newRole) ==
    /\ targetRole # NoRole
    /\ target # actor
    /\ targetRole = "OWNER" => actorRole = "OWNER"
    /\ actorRole = "ADMIN" => targetRole \notin {"ADMIN", "OWNER"}
    /\ newRole # "OWNER"

CanTransferOwnership(actor, actorRole, target, targetRole) ==
    /\ actorRole = "OWNER"
    /\ targetRole # NoRole
    /\ target # actor
=============================================================================
