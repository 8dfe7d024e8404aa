----------------------------- MODULE ApiRoutes ------------------------------
(***************************************************************************)
(* The endpoints of the API as data: for every operation of routes/*.ts    *)
(* what router.get, router.post, ... register for it (verb, path, the      *)
(* middlewares before the handler, the handler), and what the @swagger     *)
(* block that swagger-jsdoc serves as the API's document says of it (path, *)
(* the status of success).  Every operation is secured by the bearer token *)
(* there, by the security that config/swagger.ts gives to the whole        *)
(* document; the exceptions are listed at the end.                         *)
(*                                                                         *)
(* A path is the sequence of its segments below the router's mount.  The   *)
(* middlewares that check the input are named for what they accept:        *)
(*   body           validateBody of the endpoint's schema                  *)
(*   query          validateQuery of a schema that reads strings           *)
(*   numberQuery    validateQuery of one that demands numbers              *)
(*   uuidParams     validateParams of a schema of UUIDs                    *)
(*   integerParams  validateParams of one with a z.number()                *)
(***************************************************************************)
EXTENDS ApiControllers, FiniteSets, Sequences

(* routes/auth.routes.ts *)

auth_login ==
    [verb |-> "POST", path |-> <<"login">>, stack |-> <<"body">>,
     handler |-> AuthController_login,
     document |-> [path |-> <<"login">>, success |-> 200]]

auth_refresh ==
    [verb |-> "POST", path |-> <<"refresh">>, stack |-> <<"body">>,
     handler |-> AuthController_refresh,
     document |-> [path |-> <<"refresh">>, success |-> 200]]

auth_logout ==
    [verb |-> "POST", path |-> <<"logout">>, stack |-> <<"body">>,
     handler |-> AuthController_logout,
     document |-> [path |-> <<"logout">>, success |-> 200]]

auth_forgotPassword ==
    [verb |-> "POST", path |-> <<"forgot-password">>, stack |-> <<"body">>,
     handler |-> AuthController_forgotPassword,
     document |-> [path |-> <<"forgot-password">>, success |-> 200]]

auth_resetPassword ==
    [verb |-> "POST", path |-> <<"reset-password">>, stack |-> <<"body">>,
     handler |-> AuthController_resetPassword,
     document |-> [path |-> <<"reset-password">>, success |-> 200]]

auth_register ==
    [verb |-> "POST", path |-> <<"register">>, stack |-> <<"body">>,
     handler |-> AuthController_register,
     document |-> [path |-> <<"register">>, success |-> 201]]

authRoutes ==
    <<auth_login, auth_refresh, auth_logout, auth_forgotPassword,
      auth_resetPassword, auth_register>>

(* routes/user.routes.ts *)

user_getAllUsers ==
    [verb |-> "GET", path |-> <<>>, stack |-> <<>>,
     handler |-> UserController_getAllUsers,
     document |-> [path |-> <<>>, success |-> 200]]

user_getProfile ==
    [verb |-> "GET", path |-> <<"profile">>, stack |-> <<>>,
     handler |-> UserController_getProfile,
     document |-> [path |-> <<"profile">>, success |-> 200]]

user_getUserById ==
    [verb |-> "GET", path |-> <<":id">>, stack |-> <<"uuidParams">>,
     handler |-> UserController_getUserById,
     document |-> [path |-> <<":id">>, success |-> 200]]

user_updateProfile ==
    [verb |-> "PUT", path |-> <<"profile">>, stack |-> <<"body">>,
     handler |-> UserController_updateProfile,
     document |-> [path |-> <<"profile">>, success |-> 200]]

user_changePassword ==
    [verb |-> "POST", path |-> <<"change-password">>, stack |-> <<"body">>,
     handler |-> UserController_changePassword,
     document |-> [path |-> <<"change-password">>, success |-> 200]]

user_deactivateAccount ==
    [verb |-> "POST", path |-> <<"deactivate">>, stack |-> <<>>,
     handler |-> UserController_deactivateAccount,
     document |-> [path |-> <<"deactivate">>, success |-> 200]]

user_assignRole ==
    [verb |-> "POST", path |-> <<"assign-role">>, stack |-> <<"body">>,
     handler |-> UserController_assignRole,
     document |-> [path |-> <<"assign-role">>, success |-> 200]]

user_getAllRoles ==
    [verb |-> "GET", path |-> <<"roles">>, stack |-> <<>>,
     handler |-> UserController_getAllRoles,
     document |-> [path |-> <<"roles">>, success |-> 200]]

userRoutes ==
    <<user_getAllUsers, user_getProfile, user_getUserById, user_updateProfile,
      user_changePassword, user_deactivateAccount, user_assignRole,
      user_getAllRoles>>

(* routes/invitationToken.routes.ts *)

invitationToken_create ==
    [verb |-> "POST", path |-> <<>>, stack |-> <<>>,
     handler |-> InvitationTokenController_create,
     document |-> [path |-> <<>>, success |-> 201]]

invitationToken_list ==
    [verb |-> "GET", path |-> <<>>, stack |-> <<>>,
     handler |-> InvitationTokenController_list,
     document |-> [path |-> <<>>, success |-> 200]]

invitationTokenRoutes ==
    <<invitationToken_create, invitationToken_list>>

(* routes/email.routes.ts *)

email_sendEmail ==
    [verb |-> "POST", path |-> <<"send">>, stack |-> <<"authenticate", "authorize">>,
     handler |-> EmailController_sendEmail,
     document |-> [path |-> <<"send">>, success |-> 200]]

email_sendEmailWithRetry ==
    [verb |-> "POST", path |-> <<"send-with-retry">>,
     stack |-> <<"authenticate", "authorize">>,
     handler |-> EmailController_sendEmailWithRetry,
     document |-> [path |-> <<"send-with-retry">>, success |-> 200]]

email_queueEmail ==
    [verb |-> "POST", path |-> <<"queue">>, stack |-> <<"authenticate", "authorize">>,
     handler |-> EmailController_queueEmail,
     document |-> [path |-> <<"queue">>, success |-> 202]]

emailRoutes ==
    <<email_sendEmail, email_sendEmailWithRetry, email_queueEmail>>

(* routes/role.routes.ts *)

role_getAllRoles ==
    [verb |-> "GET", path |-> <<>>, stack |-> <<"authenticate", "authorize", "query">>,
     handler |-> RoleController_getAllRoles,
     document |-> [path |-> <<>>, success |-> 200]]

role_getRoleById ==
    [verb |-> "GET", path |-> <<":id">>,
     stack |-> <<"authenticate", "authorize", "uuidParams">>,
     handler |-> RoleController_getRoleById,
     document |-> [path |-> <<":id">>, success |-> 200]]

role_createRole ==
    [verb |-> "POST", path |-> <<>>, stack |-> <<"authenticate", "authorize", "body">>,
     handler |-> RoleController_createRole,
     document |-> [path |-> <<>>, success |-> 201]]

role_updateRole ==
    [verb |-> "PUT", path |-> <<":id">>,
     stack |-> <<"authenticate", "authorize", "uuidParams", "body">>,
     handler |-> RoleController_updateRole,
     document |-> [path |-> <<":id">>, success |-> 200]]

role_deleteRole ==
    [verb |-> "DELETE", path |-> <<":id">>,
     stack |-> <<"authenticate", "authorize", "uuidParams">>,
     handler |-> RoleController_deleteRole,
     document |-> [path |-> <<":id">>, success |-> 204]]

roleRoutes ==
    <<role_getAllRoles, role_getRoleById, role_createRole, role_updateRole,
      role_deleteRole>>

(* routes/permission.routes.ts *)

permission_getAllPermissions ==
    [verb |-> "GET", path |-> <<>>, stack |-> <<"query">>,
     handler |-> PermissionController_getAllPermissions,
     document |-> [path |-> <<>>, success |-> 200]]

permission_getPermissionById ==
    [verb |-> "GET", path |-> <<":id">>, stack |-> <<"integerParams">>,
     handler |-> PermissionController_getPermissionById,
     document |-> [path |-> <<":id">>, success |-> 200]]

permission_getPermissionsGrouped ==
    [verb |-> "GET", path |-> <<"grouped">>, stack |-> <<>>,
     handler |-> PermissionController_getPermissionsGrouped,
     document |-> [path |-> <<"grouped">>, success |-> 200]]

permission_getPermissionsByRoute ==
    [verb |-> "GET", path |-> <<"routes">>, stack |-> <<>>,
     handler |-> PermissionController_getPermissionsByRoute,
     document |-> [path |-> <<"routes">>, success |-> 200]]

permission_validatePermission ==
    [verb |-> "POST", path |-> <<"validate">>, stack |-> <<"body">>,
     handler |-> PermissionController_validatePermission,
     document |-> [path |-> <<"validate">>, success |-> 200]]

permission_getPermissionStats ==
    [verb |-> "GET", path |-> <<"stats">>, stack |-> <<>>,
     handler |-> PermissionController_getPermissionStats,
     document |-> [path |-> <<"stats">>, success |-> 200]]

permission_getUnusedPermissions ==
    [verb |-> "GET", path |-> <<"unused">>, stack |-> <<>>,
     handler |-> PermissionController_getUnusedPermissions,
     document |-> [path |-> <<"unused">>, success |-> 200]]

permission_getPermissionUsageStats ==
    [verb |-> "GET", path |-> <<"usage">>, stack |-> <<>>,
     handler |-> PermissionController_getPermissionUsageStats,
     document |-> [path |-> <<"usage">>, success |-> 200]]

permission_getPermissionAnalysis ==
    [verb |-> "GET", path |-> <<"analysis">>, stack |-> <<>>,
     handler |-> PermissionController_getPermissionAnalysis,
     document |-> [path |-> <<"analysis">>, success |-> 200]]

permission_createPermission ==
    [verb |-> "POST", path |-> <<>>, stack |-> <<"body">>,
     handler |-> PermissionController_createPermission,
     document |-> [path |-> <<>>, success |-> 201]]

permissionRoutes ==
    <<permission_getAllPermissions, permission_getPermissionById,
      permission_getPermissionsGrouped, permission_getPermissionsByRoute,
      permission_validatePermission, permission_getPermissionStats,
      permission_getUnusedPermissions, permission_getPermissionUsageStats,
      permission_getPermissionAnalysis, permission_createPermission>>

(* routes/rolePermission.routes.ts *)

rolePermission_getRolePermissions ==
    [verb |-> "GET", path |-> <<":roleId", "permissions">>,
     stack |-> <<"authenticate", "authorize", "integerParams", "numberQuery">>,
     handler |-> RolePermissionController_getRolePermissions,
     document |-> [path |-> <<":roleId", "permissions">>, success |-> 200]]

rolePermission_assignPermissionsToRole ==
    [verb |-> "POST", path |-> <<":roleId", "permissions">>,
     stack |-> <<"authenticate", "authorize", "integerParams", "body">>,
     handler |-> RolePermissionController_assignPermissionsToRole,
     document |-> [path |-> <<":roleId", "permissions">>, success |-> 200]]

rolePermission_removePermissionsFromRole ==
    [verb |-> "DELETE", path |-> <<":roleId", "permissions">>,
     stack |-> <<"authenticate", "authorize", "integerParams", "body">>,
     handler |-> RolePermissionController_removePermissionsFromRole,
     document |-> [path |-> <<":roleId", "permissions">>, success |-> 200]]

rolePermission_getPermissionRoles ==
    [verb |-> "GET", path |-> <<"permissions", ":permissionId", "roles">>,
     stack |-> <<"authenticate", "authorize", "integerParams", "numberQuery">>,
     handler |-> RolePermissionController_getPermissionRoles,
     document |-> [path |-> <<"permissions", ":permissionId", "roles">>, success |-> 200]]

rolePermission_hasPermission ==
    [verb |-> "GET", path |-> <<":roleId", "permissions", ":permissionId", "check">>,
     stack |-> <<"authenticate", "authorize", "integerParams", "integerParams">>,
     handler |-> RolePermissionController_hasPermission,
     document |-> [path |-> <<":roleId", "permissions", ":permissionId", "check">>, success |-> 200]]

rolePermission_getAssignmentById ==
    [verb |-> "GET", path |-> <<"role-permissions", ":assignmentId">>,
     stack |-> <<"authenticate", "authorize", "uuidParams">>,
     handler |-> RolePermissionController_getAssignmentById,
     document |-> [path |-> <<":assignmentId">>, success |-> 200]]

rolePermission_removeAssignment ==
    [verb |-> "DELETE", path |-> <<"role-permissions", ":assignmentId">>,
     stack |-> <<"authenticate", "authorize", "uuidParams">>,
     handler |-> RolePermissionController_removeAssignment,
     document |-> [path |-> <<":assignmentId">>, success |-> 204]]

rolePermissionRoutes ==
    <<rolePermission_getRolePermissions, rolePermission_assignPermissionsToRole,
      rolePermission_removePermissionsFromRole,
      rolePermission_getPermissionRoles, rolePermission_hasPermission,
      rolePermission_getAssignmentById, rolePermission_removeAssignment>>

(* routes/userRole.routes.ts *)

userRole_assignRole ==
    [verb |-> "POST", path |-> <<"assign">>,
     stack |-> <<"authenticate", "authorize", "body">>,
     handler |-> UserRoleController_assignRole,
     document |-> [path |-> <<"assign">>, success |-> 200]]

userRole_removeRole ==
    [verb |-> "DELETE", path |-> <<":userId", ":roleId">>,
     stack |-> <<"authenticate", "authorize", "integerParams">>,
     handler |-> UserRoleController_removeRole,
     document |-> [path |-> <<":userId", ":roleId">>, success |-> 200]]

userRole_getUserRoles ==
    [verb |-> "GET", path |-> <<"user", ":userId">>,
     stack |-> <<"authenticate", "authorize", "uuidParams">>,
     handler |-> UserRoleController_getUserRoles,
     document |-> [path |-> <<"user", ":userId">>, success |-> 200]]

userRole_getRoleUsers ==
    [verb |-> "GET", path |-> <<"role", ":roleId", "users">>,
     stack |-> <<"authenticate", "authorize", "integerParams", "query">>,
     handler |-> UserRoleController_getRoleUsers,
     document |-> [path |-> <<"role", ":roleId", "users">>, success |-> 200]]

userRole_checkUserRole ==
    [verb |-> "GET", path |-> <<"check", ":userId", ":roleId">>,
     stack |-> <<"authenticate", "authorize", "integerParams">>,
     handler |-> UserRoleController_checkUserRole,
     document |-> [path |-> <<"check", ":userId", ":roleId">>, success |-> 200]]

userRole_getRoleStats ==
    [verb |-> "GET", path |-> <<"role", ":roleId", "stats">>,
     stack |-> <<"authenticate", "authorize", "integerParams">>,
     handler |-> UserRoleController_getRoleStats,
     document |-> [path |-> <<"role", ":roleId", "stats">>, success |-> 200]]

userRoleRoutes ==
    <<userRole_assignRole, userRole_removeRole, userRole_getUserRoles,
      userRole_getRoleUsers, userRole_checkUserRole, userRole_getRoleStats>>

-----------------------------------------------------------------------------
(* config/routes.ts                                                        *)

\* The routers by their mount below /api/v1, in declaration order of their routes.
Routers ==
    [auth |-> authRoutes, users |-> userRoutes, invitation_tokens |-> invitationTokenRoutes,
     email |-> emailRoutes, roles |-> roleRoutes, permissions |-> permissionRoutes,
     role_permissions |-> rolePermissionRoutes, user_roles |-> userRoleRoutes]

Mounts == DOMAIN Routers

\* The limiter in front of a router.
MountLimiter(mount) == IF mount = "auth" THEN "authRateLimiter" ELSE "apiRateLimiter"

\* Mutant of RouterUse: the users router does not authenticate.
RouterUseNobody(mount) == IF mount = "permissions" THEN <<"authenticate">> ELSE <<>>

\* router.use(authenticate), ahead of every route of a router.
RouterUse(mount) == IF mount \in {"users", "permissions"} THEN <<"authenticate">> ELSE <<>>

Params == {":id", ":roleId", ":userId", ":permissionId", ":assignmentId"}

\* Does a path fit a pattern, whose parameters take any segment?
Matches(pattern, path) ==
    /\ Len(pattern) = Len(path)
    /\ \A i \in DOMAIN path : pattern[i] \in Params \/ pattern[i] = path[i]

\* The routes of a router that a request fits, by their place in it.
Fitting(mount, verb, path) ==
    {i \in DOMAIN Routers[mount] : /\ Routers[mount][i].verb = verb
                                  /\ Matches(Routers[mount][i].path, path)}

\* Express takes the first in declaration order; 0 when there is none.
FirstFit(mount, verb, path) ==
    LET fits == Fitting(mount, verb, path)
    IN  IF fits = {} THEN 0 ELSE CHOOSE i \in fits : \A j \in fits : i <= j

-----------------------------------------------------------------------------
(* What the document says of a request                                     *)

Operations(mount) == {Routers[mount][i] : i \in DOMAIN Routers[mount]}

Documented(r) ==
    IF r.mount \notin Mounts THEN {}
    ELSE {d \in Operations(r.mount) : d.verb = r.verb /\ Matches(d.document.path, r.path)}

ParamCount(path) == Cardinality({i \in DOMAIN path : path[i] \in Params})

\* The operation that the document has for a request: a path without parameters goes
\* before one with them, as the specification of OpenAPI resolves the two.
OperationFor(r) ==
    {d \in Documented(r) : \A e \in Documented(r) :
        ParamCount(d.document.path) <= ParamCount(e.document.path)}

\* The operations for which the repository's README asks for no token.
Public == {auth_login, auth_refresh, auth_forgotPassword, auth_resetPassword, auth_register}

\* Those for which it and the document do ask, but which have no authenticate in front.
\* The handler of logout reads the token itself; the other two run without req.user.
Unauthenticated == {auth_logout, invitationToken_create, invitationToken_list}

\* May the operation run for the request's token?
TokenGood(r, d) == r.token = "good" \/ d \in Public \cup Unauthenticated

\* May it succeed for that token?
Entitled(r, d) == r.token = "good" \/ d \in Public \cup {auth_logout}

\* Two operations are declared below a path that is not the documented one.
Misplaced(r) ==
    {d \in {rolePermission_getAssignmentById, rolePermission_removeAssignment} :
        r.mount = "role_permissions" /\ d.verb = r.verb /\ Matches(d.path, r.path)}

\* The operations that may run for a request.
MayRun(r) == {d \in OperationFor(r) \cup Misplaced(r) : TokenGood(r, d)}
=============================================================================
