------------------------- MODULE ApiRequestsProofs --------------------------
(***************************************************************************)
(* Theorems about ApiRequests, for any requests (whatever their paths),    *)
(* limits and versions: every request is served as the API's document says *)
(* or not at all, and the health probes are honest.                        *)
(*                                                                         *)
(* What is to be known of the endpoints is proved first, by going through  *)
(* the routers; then that the validators of a route leave it only the      *)
(* requests that the document has for it; then an inductive invariant,     *)
(* which carries what the middlewares have checked to the handler; then    *)
(* the theorems.                                                           *)
(***************************************************************************)
EXTENDS ApiRequests, FiniteSetTheorems, SequenceTheorems, WellFoundedInduction, TLAPS

-----------------------------------------------------------------------------
(* What every endpoint keeps to, whichever request it serves               *)

\* Is the middleware, or one of that name, on a stack?
Has(stack, middleware) == \E i \in DOMAIN stack : stack[i] = middleware

IsPath(p) == Len(p) \in Nat /\ DOMAIN p = 1..Len(p)

\* How an operation d of the router at m is declared: at the path of its document, but
\* for two; with its parameters checked; and behind authenticate, but for those that are
\* public or that lack it.
Declared(m, d) ==
    /\ IsPath(d.path) /\ IsPath(d.document.path)
    /\ d.stack \in Seq(Middlewares)
    /\ \/ d.document.path = d.path
       \/ /\ m = "role_permissions"
          /\ d \in {rolePermission_getAssignmentById, rolePermission_removeAssignment}
    /\ \/ \A i \in DOMAIN d.path : d.path[i] \notin Params
       \/ Has(d.stack, "integerParams") \/ Has(d.stack, "uuidParams")
    /\ \/ RouterUse(m) = <<"authenticate">>
       \/ Has(d.stack, "authenticate")
       \/ d \in Public \cup Unauthenticated

\* A handler answers statuses of the contract, and success only as documented.
Settles(handler, success) ==
    \A u \in BOOLEAN :
        /\ handler[u].replies \cup handler[u].errors \subseteq Contract!Statuses
        /\ \A s \in handler[u].replies : Contract!Success(s) => s = success
        /\ \A s \in handler[u].errors : ~Contract!Success(s)

Answers(d) == Settles(d.handler, d.document.success)

\* No stack has more than four middlewares.
LEMMA ShortSequences ==
    ASSUME NEW S, NEW a \in S, NEW b \in S, NEW c \in S, NEW d \in S
    PROVE  /\ <<>> \in Seq(S) /\ <<a>> \in Seq(S) /\ <<a, b>> \in Seq(S)
           /\ <<a, b, c>> \in Seq(S) /\ <<a, b, c, d>> \in Seq(S)
OBVIOUS

\* The three kinds of methods in ApiControllers, and then those that there are.
LEMMA AnyoneSettles ==
    ASSUME NEW replies, NEW errors, NEW success,
           replies \cup errors \subseteq Contract!Statuses,
           \A s \in replies : Contract!Success(s) => s = success,
           \A s \in errors : ~Contract!Success(s)
    PROVE  Settles(Anyone(replies, errors), success)
BY DEF Anyone, Outcomes, Settles, Contract!Statuses, Contract!Success

LEMMA OnlyUsersSettles ==
    ASSUME NEW replies, NEW success,
           replies \subseteq Contract!Statuses,
           \A s \in replies : Contract!Success(s) => s = success
    PROVE  Settles(OnlyUsers(replies), success)
BY DEF OnlyUsers, Outcomes, Settles, Contract!Statuses, Contract!Success

LEMMA OnlyAdminsSettles ==
    ASSUME NEW replies, NEW refusals, NEW success,
           refusals \subseteq Contract!Statuses,
           \A s \in refusals : ~Contract!Success(s)
    PROVE  Settles(OnlyAdmins(replies, refusals), success)
<1> SUFFICES ASSUME NEW u \in BOOLEAN
             PROVE  LET handler == OnlyAdmins(replies, refusals)
                    IN  /\ handler[u].replies \cup handler[u].errors
                               \subseteq Contract!Statuses
                        /\ \A s \in handler[u].replies : Contract!Success(s) => s = success
                        /\ \A s \in handler[u].errors : ~Contract!Success(s)
    BY DEF Settles
<1>1. ~(u /\ AdminNamed)
    BY DEF AdminNamed
<1>2. OnlyAdmins(replies, refusals)[u] = Outcomes(refusals, {})
    BY <1>1 DEF OnlyAdmins
<1> QED
    BY <1>2 DEF Outcomes, Contract!Statuses, Contract!Success

LEMMA UserByIdSettles == Settles(UserController_getUserById, 200)
<1>1. {200, 404} \cup {403} = {200, 404, 403}
    OBVIOUS
<1>2. UserController_getUserById = OnlyUsers({200, 404, 403})
    BY <1>1 DEF UserController_getUserById, AdminNamed
<1> QED
    BY <1>2, OnlyUsersSettles DEF Contract!Statuses, Contract!Success

LEMMA AnyoneHandlers ==
    /\ Settles(Anyone({200, 400}, {400}), 200)
    /\ Settles(Anyone({200, 400}, {}), 200)
    /\ Settles(Anyone({200, 401}, {}), 200)
    /\ Settles(Anyone({200, 404}, {}), 200)
    /\ Settles(Anyone({200}, {401}), 200)
    /\ Settles(Anyone({200}, {}), 200)
    /\ Settles(Anyone({201, 400, 409}, {}), 201)
    /\ Settles(Anyone({201}, {400, 403}), 201)
    /\ Settles(Anyone({201}, {}), 201)
    /\ Settles(Anyone({204}, {}), 204)
<1>1. Settles(Anyone({200, 400}, {400}), 200)
    BY AnyoneSettles DEF Contract!Statuses, Contract!Success
<1>2. Settles(Anyone({200, 400}, {}), 200)
    BY AnyoneSettles DEF Contract!Statuses, Contract!Success
<1>3. Settles(Anyone({200, 401}, {}), 200)
    BY AnyoneSettles DEF Contract!Statuses, Contract!Success
<1>4. Settles(Anyone({200, 404}, {}), 200)
    BY AnyoneSettles DEF Contract!Statuses, Contract!Success
<1>5. Settles(Anyone({200}, {401}), 200)
    BY AnyoneSettles DEF Contract!Statuses, Contract!Success
<1>6. Settles(Anyone({200}, {}), 200)
    BY AnyoneSettles DEF Contract!Statuses, Contract!Success
<1>7. Settles(Anyone({201, 400, 409}, {}), 201)
    BY AnyoneSettles DEF Contract!Statuses, Contract!Success
<1>8. Settles(Anyone({201}, {400, 403}), 201)
    BY AnyoneSettles DEF Contract!Statuses, Contract!Success
<1>9. Settles(Anyone({201}, {}), 201)
    BY AnyoneSettles DEF Contract!Statuses, Contract!Success
<1>10. Settles(Anyone({204}, {}), 204)
    BY AnyoneSettles DEF Contract!Statuses, Contract!Success
<1> QED
    BY <1>1, <1>2, <1>3, <1>4, <1>5, <1>6, <1>7, <1>8, <1>9, <1>10

LEMMA OnlyUsersHandlers ==
    /\ Settles(OnlyUsers({200, 400}), 200)
    /\ Settles(OnlyUsers({200, 404}), 200)
<1>1. Settles(OnlyUsers({200, 400}), 200)
    BY OnlyUsersSettles DEF Contract!Statuses, Contract!Success
<1>2. Settles(OnlyUsers({200, 404}), 200)
    BY OnlyUsersSettles DEF Contract!Statuses, Contract!Success
<1> QED
    BY <1>1, <1>2

LEMMA OnlyAdminsHandlers ==
    /\ Settles(OnlyAdmins({200, 500}, {403}), 200)
    /\ Settles(OnlyAdmins({200}, {}), 200)
    /\ Settles(OnlyAdmins({201}, {}), 201)
    /\ Settles(OnlyAdmins({202}, {403}), 202)
<1>1. Settles(OnlyAdmins({200, 500}, {403}), 200)
    BY OnlyAdminsSettles DEF Contract!Statuses, Contract!Success
<1>2. Settles(OnlyAdmins({200}, {}), 200)
    BY OnlyAdminsSettles DEF Contract!Statuses, Contract!Success
<1>3. Settles(OnlyAdmins({201}, {}), 201)
    BY OnlyAdminsSettles DEF Contract!Statuses, Contract!Success
<1>4. Settles(OnlyAdmins({202}, {403}), 202)
    BY OnlyAdminsSettles DEF Contract!Statuses, Contract!Success
<1> QED
    BY <1>1, <1>2, <1>3, <1>4

-----------------------------------------------------------------------------
(* The routers                                                             *)

LEMMA AuthRouter ==
    \A d \in Operations("auth") : Declared("auth", d) /\ Answers(d)
<1>1. \A d \in Operations("auth") :
        d \in {auth_login, auth_refresh, auth_logout, auth_forgotPassword,
               auth_resetPassword, auth_register}
    BY DEF Operations, Routers, authRoutes
<1>2. /\ Declared("auth", auth_login) /\ Declared("auth", auth_refresh)
      /\ Declared("auth", auth_logout) /\ Declared("auth", auth_forgotPassword)
      /\ Declared("auth", auth_resetPassword) /\ Declared("auth", auth_register)
    BY ShortSequences DEF Declared, Has, IsPath, Middlewares, Params, RouterUse,
                          Public, Unauthenticated, auth_login, auth_refresh,
                          auth_logout, auth_forgotPassword, auth_resetPassword,
                          auth_register
<1>3. /\ Answers(auth_login) /\ Answers(auth_refresh) /\ Answers(auth_logout)
      /\ Answers(auth_forgotPassword) /\ Answers(auth_resetPassword)
      /\ Answers(auth_register)
    BY AnyoneHandlers
    DEF Answers, auth_login, auth_refresh,
        auth_logout, auth_forgotPassword, auth_resetPassword, auth_register,
        AuthController_login, AuthController_refresh, AuthController_logout,
        AuthController_forgotPassword, AuthController_resetPassword,
        AuthController_register
<1> QED
    BY <1>1, <1>2, <1>3

LEMMA UsersRouter ==
    \A d \in Operations("users") : Declared("users", d) /\ Answers(d)
<1>1. \A d \in Operations("users") :
        d \in {user_getAllUsers, user_getProfile, user_getUserById, user_updateProfile,
               user_changePassword, user_deactivateAccount, user_assignRole,
               user_getAllRoles}
    BY DEF Operations, Routers, userRoutes
<1>2. /\ Declared("users", user_getAllUsers) /\ Declared("users", user_getProfile)
      /\ Declared("users", user_getUserById) /\ Declared("users", user_updateProfile)
      /\ Declared("users", user_changePassword)
      /\ Declared("users", user_deactivateAccount)
      /\ Declared("users", user_assignRole) /\ Declared("users", user_getAllRoles)
    BY ShortSequences DEF Declared, Has, IsPath, Middlewares, Params, RouterUse,
                          user_getAllUsers, user_getProfile, user_getUserById,
                          user_updateProfile, user_changePassword,
                          user_deactivateAccount, user_assignRole, user_getAllRoles
<1>3. /\ Answers(user_getAllUsers) /\ Answers(user_getProfile)
      /\ Answers(user_getUserById) /\ Answers(user_updateProfile)
      /\ Answers(user_changePassword) /\ Answers(user_deactivateAccount)
      /\ Answers(user_assignRole) /\ Answers(user_getAllRoles)
    BY AnyoneHandlers, OnlyUsersHandlers, UserByIdSettles
    DEF Answers, user_getAllUsers, user_getProfile,
        user_getUserById, user_updateProfile, user_changePassword,
        user_deactivateAccount, user_assignRole, user_getAllRoles,
        UserController_getAllUsers, UserController_getProfile,
        UserController_updateProfile, UserController_changePassword,
        UserController_deactivateAccount, UserController_assignRole,
        UserController_getAllRoles
<1> QED
    BY <1>1, <1>2, <1>3

LEMMA InvitationTokensRouter ==
    \A d \in Operations("invitation_tokens") : Declared("invitation_tokens", d) /\ Answers(d)
<1>1. \A d \in Operations("invitation_tokens") :
        d \in {invitationToken_create, invitationToken_list}
    BY DEF Operations, Routers, invitationTokenRoutes
<1>2. /\ Declared("invitation_tokens", invitationToken_create)
      /\ Declared("invitation_tokens", invitationToken_list)
    BY ShortSequences DEF Declared, Has, IsPath, Middlewares, Params, RouterUse,
                          Unauthenticated, invitationToken_create,
                          invitationToken_list
<1>3. /\ Answers(invitationToken_create) /\ Answers(invitationToken_list)
    BY OnlyAdminsHandlers
    DEF Answers, invitationToken_create,
        invitationToken_list, InvitationTokenController_create,
        InvitationTokenController_list
<1> QED
    BY <1>1, <1>2, <1>3

\* Nobody carries the name that the service of the invitations asks for.
LEMMA InvitationsRefuse ==
    ASSUME NEW d \in {invitationToken_create, invitationToken_list}, NEW u \in BOOLEAN
    PROVE  d.handler[u].replies = {}
<1>1. OnlyAdmins({201}, {})[u].replies = {} /\ OnlyAdmins({200}, {})[u].replies = {}
    BY DEF OnlyAdmins, Outcomes, AdminNamed
<1>2. d.handler = OnlyAdmins({201}, {}) \/ d.handler = OnlyAdmins({200}, {})
    BY DEF invitationToken_create, invitationToken_list,
           InvitationTokenController_create, InvitationTokenController_list
<1> QED
    BY <1>1, <1>2

LEMMA EmailRouter ==
    \A d \in Operations("email") : Declared("email", d) /\ Answers(d)
<1>1. \A d \in Operations("email") :
        d \in {email_sendEmail, email_sendEmailWithRetry, email_queueEmail}
    BY DEF Operations, Routers, emailRoutes
<1>2. /\ Declared("email", email_sendEmail)
      /\ Declared("email", email_sendEmailWithRetry)
      /\ Declared("email", email_queueEmail)
    BY ShortSequences DEF Declared, Has, IsPath, Middlewares, Params, RouterUse,
                          email_sendEmail, email_sendEmailWithRetry, email_queueEmail
<1>3. /\ Answers(email_sendEmail) /\ Answers(email_sendEmailWithRetry)
      /\ Answers(email_queueEmail)
    BY OnlyAdminsHandlers
    DEF Answers, email_sendEmail,
        email_sendEmailWithRetry, email_queueEmail, EmailController_sendEmail,
        EmailController_sendEmailWithRetry, EmailController_queueEmail
<1> QED
    BY <1>1, <1>2, <1>3

LEMMA RolesRouter ==
    \A d \in Operations("roles") : Declared("roles", d) /\ Answers(d)
<1>1. \A d \in Operations("roles") :
        d \in {role_getAllRoles, role_getRoleById, role_createRole, role_updateRole,
               role_deleteRole}
    BY DEF Operations, Routers, roleRoutes
<1>2. /\ Declared("roles", role_getAllRoles) /\ Declared("roles", role_getRoleById)
      /\ Declared("roles", role_createRole) /\ Declared("roles", role_updateRole)
      /\ Declared("roles", role_deleteRole)
  <2>1. Declared("roles", role_getAllRoles)
    BY ShortSequences DEF Declared, Has, IsPath, Middlewares, Params, role_getAllRoles
  <2>2. Declared("roles", role_getRoleById)
    BY ShortSequences DEF Declared, Has, IsPath, Middlewares, Params, role_getRoleById
  <2>3. Declared("roles", role_createRole)
    BY ShortSequences DEF Declared, Has, IsPath, Middlewares, Params, role_createRole
  <2>4. Declared("roles", role_updateRole)
    BY ShortSequences DEF Declared, Has, IsPath, Middlewares, Params, role_updateRole
  <2>5. Declared("roles", role_deleteRole)
    BY ShortSequences DEF Declared, Has, IsPath, Middlewares, Params, role_deleteRole
  <2> QED
    BY <2>1, <2>2, <2>3, <2>4, <2>5
<1>3. /\ Answers(role_getAllRoles) /\ Answers(role_getRoleById)
      /\ Answers(role_createRole) /\ Answers(role_updateRole)
      /\ Answers(role_deleteRole)
    BY AnyoneHandlers
    DEF Answers, role_getAllRoles,
        role_getRoleById, role_createRole, role_updateRole, role_deleteRole,
        RoleController_getAllRoles, RoleController_getRoleById,
        RoleController_createRole, RoleController_updateRole, RoleController_deleteRole
<1> QED
    BY <1>1, <1>2, <1>3

LEMMA PermissionsRouter ==
    \A d \in Operations("permissions") : Declared("permissions", d) /\ Answers(d)
<1>1. \A d \in Operations("permissions") :
        d \in {permission_getAllPermissions, permission_getPermissionById,
               permission_getPermissionsGrouped, permission_getPermissionsByRoute,
               permission_validatePermission, permission_getPermissionStats,
               permission_getUnusedPermissions, permission_getPermissionUsageStats,
               permission_getPermissionAnalysis, permission_createPermission}
    BY DEF Operations, Routers, permissionRoutes
<1>2. /\ Declared("permissions", permission_getAllPermissions)
      /\ Declared("permissions", permission_getPermissionById)
      /\ Declared("permissions", permission_getPermissionsGrouped)
      /\ Declared("permissions", permission_getPermissionsByRoute)
      /\ Declared("permissions", permission_validatePermission)
      /\ Declared("permissions", permission_getPermissionStats)
      /\ Declared("permissions", permission_getUnusedPermissions)
      /\ Declared("permissions", permission_getPermissionUsageStats)
      /\ Declared("permissions", permission_getPermissionAnalysis)
      /\ Declared("permissions", permission_createPermission)
    BY ShortSequences DEF Declared, Has, IsPath, Middlewares, Params, RouterUse,
                          permission_getAllPermissions, permission_getPermissionById,
                          permission_getPermissionsGrouped,
                          permission_getPermissionsByRoute,
                          permission_validatePermission, permission_getPermissionStats,
                          permission_getUnusedPermissions,
                          permission_getPermissionUsageStats,
                          permission_getPermissionAnalysis, permission_createPermission
<1>3. /\ Answers(permission_getAllPermissions) /\ Answers(permission_getPermissionById)
      /\ Answers(permission_getPermissionsGrouped)
      /\ Answers(permission_getPermissionsByRoute)
      /\ Answers(permission_validatePermission)
      /\ Answers(permission_getPermissionStats)
      /\ Answers(permission_getUnusedPermissions)
      /\ Answers(permission_getPermissionUsageStats)
      /\ Answers(permission_getPermissionAnalysis)
      /\ Answers(permission_createPermission)
    BY AnyoneHandlers
    DEF Answers, permission_getAllPermissions,
        permission_getPermissionById, permission_getPermissionsGrouped,
        permission_getPermissionsByRoute, permission_validatePermission,
        permission_getPermissionStats, permission_getUnusedPermissions,
        permission_getPermissionUsageStats, permission_getPermissionAnalysis,
        permission_createPermission, PermissionController_getAllPermissions,
        PermissionController_getPermissionById,
        PermissionController_getPermissionsGrouped,
        PermissionController_getPermissionsByRoute,
        PermissionController_validatePermission,
        PermissionController_getPermissionStats,
        PermissionController_getUnusedPermissions,
        PermissionController_getPermissionUsageStats,
        PermissionController_getPermissionAnalysis,
        PermissionController_createPermission
<1> QED
    BY <1>1, <1>2, <1>3

LEMMA RolePermissionsRouter ==
    \A d \in Operations("role_permissions") : Declared("role_permissions", d) /\ Answers(d)
<1>1. \A d \in Operations("role_permissions") :
        d \in {rolePermission_getRolePermissions,
               rolePermission_assignPermissionsToRole,
               rolePermission_removePermissionsFromRole,
               rolePermission_getPermissionRoles, rolePermission_hasPermission,
               rolePermission_getAssignmentById, rolePermission_removeAssignment}
    BY DEF Operations, Routers, rolePermissionRoutes
<1>2. /\ Declared("role_permissions", rolePermission_getRolePermissions)
      /\ Declared("role_permissions", rolePermission_assignPermissionsToRole)
      /\ Declared("role_permissions", rolePermission_removePermissionsFromRole)
      /\ Declared("role_permissions", rolePermission_getPermissionRoles)
      /\ Declared("role_permissions", rolePermission_hasPermission)
      /\ Declared("role_permissions", rolePermission_getAssignmentById)
      /\ Declared("role_permissions", rolePermission_removeAssignment)
    BY ShortSequences DEF Declared, Has, IsPath, Middlewares, Params, RouterUse,
                          rolePermission_getRolePermissions,
                          rolePermission_assignPermissionsToRole,
                          rolePermission_removePermissionsFromRole,
                          rolePermission_getPermissionRoles,
                          rolePermission_hasPermission,
                          rolePermission_getAssignmentById,
                          rolePermission_removeAssignment
<1>3. /\ Answers(rolePermission_getRolePermissions)
      /\ Answers(rolePermission_assignPermissionsToRole)
      /\ Answers(rolePermission_removePermissionsFromRole)
      /\ Answers(rolePermission_getPermissionRoles)
      /\ Answers(rolePermission_hasPermission)
      /\ Answers(rolePermission_getAssignmentById)
      /\ Answers(rolePermission_removeAssignment)
    BY AnyoneHandlers
    DEF Answers, rolePermission_getRolePermissions,
        rolePermission_assignPermissionsToRole,
        rolePermission_removePermissionsFromRole, rolePermission_getPermissionRoles,
        rolePermission_hasPermission, rolePermission_getAssignmentById,
        rolePermission_removeAssignment, RolePermissionController_getRolePermissions,
        RolePermissionController_assignPermissionsToRole,
        RolePermissionController_removePermissionsFromRole,
        RolePermissionController_getPermissionRoles,
        RolePermissionController_hasPermission,
        RolePermissionController_getAssignmentById,
        RolePermissionController_removeAssignment
<1> QED
    BY <1>1, <1>2, <1>3

LEMMA UserRolesRouter ==
    \A d \in Operations("user_roles") : Declared("user_roles", d) /\ Answers(d)
<1>1. \A d \in Operations("user_roles") :
        d \in {userRole_assignRole, userRole_removeRole, userRole_getUserRoles,
               userRole_getRoleUsers, userRole_checkUserRole, userRole_getRoleStats}
    BY DEF Operations, Routers, userRoleRoutes
<1>2. /\ Declared("user_roles", userRole_assignRole)
      /\ Declared("user_roles", userRole_removeRole)
      /\ Declared("user_roles", userRole_getUserRoles)
      /\ Declared("user_roles", userRole_getRoleUsers)
      /\ Declared("user_roles", userRole_checkUserRole)
      /\ Declared("user_roles", userRole_getRoleStats)
    BY ShortSequences DEF Declared, Has, IsPath, Middlewares, Params, RouterUse,
                          userRole_assignRole, userRole_removeRole,
                          userRole_getUserRoles, userRole_getRoleUsers,
                          userRole_checkUserRole, userRole_getRoleStats
<1>3. /\ Answers(userRole_assignRole) /\ Answers(userRole_removeRole)
      /\ Answers(userRole_getUserRoles) /\ Answers(userRole_getRoleUsers)
      /\ Answers(userRole_checkUserRole) /\ Answers(userRole_getRoleStats)
    BY AnyoneHandlers
    DEF Answers, userRole_assignRole,
        userRole_removeRole, userRole_getUserRoles, userRole_getRoleUsers,
        userRole_checkUserRole, userRole_getRoleStats, UserRoleController_assignRole,
        UserRoleController_removeRole, UserRoleController_getUserRoles,
        UserRoleController_getRoleUsers, UserRoleController_checkUserRole,
        UserRoleController_getRoleStats
<1> QED
    BY <1>1, <1>2, <1>3

LEMMA MountNames ==
    Mounts = {"auth", "users", "invitation_tokens", "email", "roles", "permissions",
              "role_permissions", "user_roles"}
BY DEF Mounts, Routers

\* Every endpoint of the API is declared at the path of its document (but for two), with
\* a validator when it has parameters, and behind authenticate unless it is one of the
\* five public operations, logout or one of the two of the invitations, which the document
\* secures all the same; its handler succeeds only with the documented status, and those
\* of the invitations never do, as nobody carries the name that their service asks for.
LEMMA EveryEndpoint ==
    ASSUME NEW m \in Mounts, NEW d \in Operations(m)
    PROVE  /\ Declared(m, d) /\ Answers(d)
           /\ d \in Unauthenticated \ {auth_logout} => \A u \in BOOLEAN : d.handler[u].replies = {}
<1>1. Declared(m, d) /\ Answers(d)
    BY MountNames, AuthRouter, UsersRouter, InvitationTokensRouter, EmailRouter, RolesRouter,
       PermissionsRouter, RolePermissionsRouter, UserRolesRouter
<1>2. d \in Unauthenticated \ {auth_logout} => \A u \in BOOLEAN : d.handler[u].replies = {}
    BY InvitationsRefuse DEF Unauthenticated
<1> QED
    BY <1>1, <1>2

-----------------------------------------------------------------------------
(* The route of a request                                                  *)

\* FirstFit has something to choose.
LEMMA SmallestOf ==
    ASSUME NEW S \in SUBSET Nat, S # {}
    PROVE  \E x \in S : \A y \in S : x <= y
<1> DEFINE R == OpToRel(<, Nat)
<1>1. \A x, y \in Nat : <<y, x>> \in R <=> y < x
    BY DEF OpToRel
<1>2. IsWellFoundedOn(R, Nat)
    BY NatLessThanWellFounded, Zenon
<1> HIDE DEF R
<1>3. PICK x \in S : \A y \in S : ~ (<<y, x>> \in R)
    BY <1>2, WFMin, Zenon
<1>4. \A y \in S : x <= y
  <2> TAKE y \in S
  <2>1. ~(y < x)
    BY <1>1, <1>3
  <2> QED
    BY <2>1
<1> QED
    BY <1>3, <1>4

LEMMA RouterPlaces == \A m \in Mounts : DOMAIN Routers[m] \subseteq Nat
BY MountNames DEF Routers, authRoutes, userRoutes, invitationTokenRoutes, emailRoutes,
   roleRoutes, permissionRoutes, rolePermissionRoutes, userRoleRoutes

\* The route of a request is a route of its router that fits it.
LEMMA ChosenFits ==
    ASSUME NEW r, r.mount \in Mounts, Chosen(r) # 0
    PROVE  /\ Chosen(r) \in DOMAIN Routers[r.mount]
           /\ Route(r) \in Operations(r.mount)
           /\ Route(r).verb = r.verb
           /\ Matches(Route(r).path, r.path)
<1> DEFINE fits == Fitting(r.mount, r.verb, r.path)
<1>1. fits \in SUBSET Nat
    BY RouterPlaces DEF Fitting
<1>2. fits # {} /\ Chosen(r) = CHOOSE i \in fits : \A j \in fits : i <= j
    BY DEF Chosen, FirstFit
<1>3. \E i \in fits : \A j \in fits : i <= j
    BY <1>1, <1>2, SmallestOf
<1>4. Chosen(r) \in fits
  <2> HIDE DEF fits
  <2> QED
    BY <1>2, <1>3
<1> QED
    BY <1>4 DEF Fitting, Route, Operations

\* A path has at least as many parameters as one whose parameters are parameters of it.
LEMMA MoreParameters ==
    ASSUME NEW p, NEW q, IsPath(q), IsPath(p),
           \A i \in DOMAIN p : p[i] \in Params => i \in DOMAIN q /\ q[i] \in Params
    PROVE  ParamCount(p) <= ParamCount(q)
<1> DEFINE P(s) == {i \in DOMAIN s : s[i] \in Params}
<1>1. IsFiniteSet(1..Len(q))
  <2>1. 1 \in Int /\ Len(q) \in Int
    BY DEF IsPath
  <2> QED
    BY <2>1, FS_Interval
<1>2. IsFiniteSet(P(q))
    BY <1>1, FS_Subset DEF IsPath
<1>3. P(p) \subseteq P(q)
    OBVIOUS
<1> QED
    BY <1>2, <1>3, FS_Subset DEF ParamCount

\* What the validators of its route have let pass is served by the operation that the
\* document has for the request: where the route has a parameter, the request has a UUID
\* (no number passes a validator), and so every documented path that the request fits has
\* a parameter there too.  The order of the declarations is not needed.
LEMMA RoutedAsDocumented ==
    ASSUME NEW r \in Request, r.mount \in Mounts, Chosen(r) # 0,
           \A v \in {"uuidParams", "integerParams"} : Has(Route(r).stack, v) => Accepts(v, r)
    PROVE  Route(r) \in OperationFor(r) \cup Misplaced(r)
<1> DEFINE d == Route(r)
<1>1. /\ d \in Operations(r.mount) /\ d.verb = r.verb /\ Matches(d.path, r.path)
      /\ Declared(r.mount, d)
    BY ChosenFits, EveryEndpoint
<1>2. CASE d.document.path # d.path
    BY <1>1, <1>2 DEF Misplaced, Declared
<1>3. CASE d.document.path = d.path
  <2>1. d \in Documented(r)
    BY <1>1, <1>3 DEF Documented
  <2>2. SUFFICES ASSUME NEW e \in Documented(r)
                 PROVE  ParamCount(d.document.path) <= ParamCount(e.document.path)
    BY <2>1 DEF OperationFor
  <2>3. e \in Operations(r.mount) /\ Matches(e.document.path, r.path)
    BY DEF Documented
  <2>4. IsPath(d.path) /\ IsPath(e.document.path)
    BY <1>1, <2>3, EveryEndpoint DEF Declared
  <2>5. DOMAIN d.path = DOMAIN r.path /\ DOMAIN e.document.path = DOMAIN r.path
    <3>1. r.path \in Seq(STRING)
      BY DEF Request
    <3>2. DOMAIN r.path = 1..Len(r.path)
      BY <3>1, LenProperties
    <3> QED
      BY <1>1, <2>3, <2>4, <3>2 DEF Matches, IsPath
  <2>6. ASSUME NEW i \in DOMAIN d.path, d.path[i] \in Params
        PROVE  e.document.path[i] \in Params
    <3>1. Has(d.stack, "uuidParams") \/ Has(d.stack, "integerParams")
      BY <1>1, <2>6 DEF Declared
    <3>2. ParamValues(r) \subseteq Uuids
      BY <3>1 DEF Accepts
    <3>3. r.path[i] \in Uuids
      BY <2>5, <2>6, <3>2 DEF ParamValues
    <3>4. e.document.path[i] \notin Uuids
      BY <2>3, <2>5, <2>6, ConstantsAssumption
    <3> QED
      BY <2>3, <2>5, <2>6, <3>3, <3>4 DEF Matches
  <2> QED
    BY <1>3, <2>4, <2>5, <2>6, MoreParameters
<1> QED
    BY <1>2, <1>3

-----------------------------------------------------------------------------
(* The inductive invariant                                                 *)

\* The middlewares of a request's route, from the entry of the router on.
Ahead(r) ==
    RouterUse(r.mount) \o (IF Chosen(r) = 0 THEN <<>> ELSE Route(r).stack)

\* What is known of a request that a middleware has let pass.
Passed(r, middleware) ==
    /\ middleware = "authenticate" => r.token = "good"
    /\ middleware \notin {"authenticate", "authorize"} => Accepts(middleware, r)

\* Every middleware of the route is still to come or has let the request pass; a handler
\* that has been called is one that the document lets run; an error is never an answer of
\* success; a probe that waits for the database came before the shutdown.
ClientInv(c) ==
    /\ at[c] \in {"mountLimiter", "stack", "handler"} => req[c].mount \in Mounts
    /\ at[c] = "stack" =>
           \A middleware \in Middlewares :
               Has(Ahead(req[c]), middleware) =>
                   Has(left[c], middleware) \/ Passed(req[c], middleware)
    /\ at[c] = "handler" => served[c]
    /\ served[c] =>
           /\ at[c] \in {"handler", "errorHandler", "answered"}
           /\ req[c].mount \in Mounts /\ Chosen(req[c]) # 0
           /\ Route(req[c]) \in MayRun(req[c])
    /\ at[c] = "errorHandler" =>
           status[c] \in Contract!Statuses /\ ~Contract!Success(status[c])
    /\ at[c] = "query" => Probe(req[c]) /\ began[c] = "up"
    /\ stage = "up" => began[c] = "up"

IInv == TypeOK /\ \A c \in Clients : ClientInv(c)

\* The stages and their order.
LEMMA StageNames ==
    /\ {Stages[i] : i \in DOMAIN Stages} = {"up", "stopping", "queuesStopped", "dbClosed"}
    /\ \A s \in {"up", "stopping", "queuesStopped"} :
           Stages[StageNumber(s) + 1] \in {"stopping", "queuesStopped", "dbClosed"}
<1>1. /\ DOMAIN Stages = 1..4
      /\ Stages[1] = "up" /\ Stages[2] = "stopping" /\ Stages[3] = "queuesStopped"
      /\ Stages[4] = "dbClosed"
    BY DEF Stages
<1>2. {Stages[i] : i \in DOMAIN Stages} = {"up", "stopping", "queuesStopped", "dbClosed"}
    BY <1>1
<1>3. ASSUME NEW s \in {"up", "stopping", "queuesStopped"}
      PROVE  StageNumber(s) \in 1..3
  <2>1. \E i \in DOMAIN Stages : Stages[i] = s
    BY <1>1, <1>3
  <2>2. StageNumber(s) \in DOMAIN Stages /\ Stages[StageNumber(s)] = s
    BY <2>1 DEF StageNumber
  <2> QED
    BY <1>1, <1>3, <2>2
<1> QED
    BY <1>1, <1>2, <1>3

LEMMA InitInv == Init => IInv
<1> SUFFICES ASSUME Init
             PROVE  IInv
    OBVIOUS
<1>1. TypeOK
  <2>1. /\ at \in [Clients -> Places] /\ req \in [Clients -> Request \cup {None}]
        /\ left \in [Clients -> Seq(Middlewares)]
        /\ user \in [Clients -> BOOLEAN] /\ served \in [Clients -> BOOLEAN]
        /\ status \in [Clients -> {0} \cup Codes]
    BY DEF Init, Places
  <2>2. hits \in [Limiters -> Nat] /\ \A l \in Limiters : hits[l] <= Max[l]
    BY ConstantsAssumption DEF Init
  <2>3. /\ stage \in {Stages[i] : i \in DOMAIN Stages}
        /\ began \in [Clients -> {Stages[i] : i \in DOMAIN Stages}]
    BY StageNames DEF Init
  <2>4. \A c \in Clients : at[c] = "idle" /\ req[c] = None /\ left[c] = <<>> /\ status[c] = 0
    BY DEF Init
  <2> QED
    BY <2>1, <2>2, <2>3, <2>4 DEF TypeOK
<1> QED
    BY <1>1 DEF Init, IInv, ClientInv

\* A step of one client leaves the others as they are.
LEMMA Frame ==
    ASSUME IInv, NEW c \in Clients, TypeOK', ClientInv(c)', stage' = stage,
           \A x \in Clients : x # c =>
               /\ at'[x] = at[x] /\ req'[x] = req[x] /\ left'[x] = left[x]
               /\ served'[x] = served[x] /\ status'[x] = status[x] /\ began'[x] = began[x]
    PROVE  IInv'
BY DEF IInv, ClientInv

LimitsKept == hits \in [Limiters -> Nat] /\ \A l \in Limiters : hits[l] <= Max[l]

\* An answer, or an error on its way to errorHandler.
LEMMA EndKeeps ==
    ASSUME IInv, NEW c \in Clients, NEW place \in {"answered", "errorHandler"},
           NEW s \in Codes,
           at[c] # "idle", End(c, place, s),
           place = "errorHandler" => s \in Contract!Statuses /\ ~Contract!Success(s),
           LimitsKept', UNCHANGED <<stage, began>>
    PROVE  IInv'
<1>1. TypeOK'
  <2>1. /\ at' \in [Clients -> Places] /\ status' \in [Clients -> {0} \cup Codes]
        /\ left' \in [Clients -> Seq(Middlewares)]
    BY DEF IInv, TypeOK, End, Places
  <2>2. s # 0
    BY DEF Codes
  <2>3. \A x \in Clients :
            /\ at'[x] = "idle" <=> req'[x] = None
            /\ at'[x] \in {"answered", "errorHandler"} <=> status'[x] # 0
            /\ left'[x] # <<>> => at'[x] = "stack"
    BY <2>2 DEF IInv, TypeOK, End
  <2> QED
    BY <2>1, <2>3 DEF IInv, TypeOK, End, LimitsKept
<1>2. ClientInv(c)'
    BY DEF IInv, End, ClientInv, TypeOK
<1> QED
    BY <1>1, <1>2, Frame DEF IInv, End, TypeOK

\* next() of a middleware before the routers.
LEMMA GotoKeeps ==
    ASSUME IInv, NEW c \in Clients, NEW place \in Places,
           at[c] \in {"express.json", "globalRateLimiter", "apiVersion", "health"},
           place \in {"globalRateLimiter", "apiVersion", "health", "query", "mountLimiter"},
           place = "query" => Probe(req[c]) /\ began[c] = "up",
           place = "mountLimiter" => req[c].mount \in Mounts,
           Goto(c, place), LimitsKept', UNCHANGED <<left, stage, began>>
    PROVE  IInv'
<1>1. TypeOK'
  <2>1. at' \in [Clients -> Places]
    BY DEF IInv, TypeOK, Goto
  <2>2. \A x \in Clients :
            /\ at'[x] = "idle" <=> req'[x] = None
            /\ at'[x] \in {"answered", "errorHandler"} <=> status'[x] # 0
            /\ left'[x] # <<>> => at'[x] = "stack"
    BY DEF IInv, TypeOK, Goto
  <2> QED
    BY <2>1, <2>2 DEF IInv, TypeOK, Goto, LimitsKept
<1>2. ClientInv(c)'
    BY DEF IInv, Goto, ClientInv, TypeOK
<1> QED
    BY <1>1, <1>2, Frame DEF IInv, Goto, TypeOK

\* next() within the route's middlewares.
LEMMA PassOnKeeps ==
    ASSUME IInv, NEW c \in Clients, NEW middleware \in Middlewares, Meets(c, middleware),
           Passed(req[c], middleware), PassOn(c), user' \in [Clients -> BOOLEAN],
           UNCHANGED <<hits, stage, began>>
    PROVE  IInv'
<1>1. left[c] \in Seq(Middlewares) /\ left[c] # <<>> /\ Head(left[c]) = middleware
    BY DEF IInv, TypeOK, Meets
<1>2. Tail(left[c]) \in Seq(Middlewares)
    BY <1>1, HeadTailProperties
<1>3. \A other : Has(left[c], other) => other = middleware \/ Has(Tail(left[c]), other)
  <2> SUFFICES ASSUME NEW other, NEW i \in DOMAIN left[c], left[c][i] = other,
                      other # middleware
               PROVE  Has(Tail(left[c]), other)
    BY DEF Has
  <2>1. i \in 1..Len(left[c]) /\ i # 1
    BY <1>1, LenProperties
  <2>2. i - 1 \in DOMAIN Tail(left[c]) /\ Tail(left[c])[i - 1] = left[c][i]
    BY <1>1, <2>1, HeadTailProperties
  <2> QED
    BY <2>2 DEF Has
<1>4. left' = [left EXCEPT ![c] = Tail(left[c])] /\ UNCHANGED <<at, req, served, status>>
    BY DEF PassOn
<1>5. TypeOK'
  <2>1. left' \in [Clients -> Seq(Middlewares)]
    BY <1>2, <1>4 DEF IInv, TypeOK
  <2>2. \A x \in Clients : left'[x] # <<>> => at'[x] = "stack"
    BY <1>4 DEF IInv, TypeOK, Meets
  <2> QED
    BY <1>4, <2>1, <2>2 DEF IInv, TypeOK
<1>6. ClientInv(c)'
  <2>1. left'[c] = Tail(left[c]) /\ at[c] = "stack"
    BY <1>4 DEF IInv, TypeOK, Meets
  <2> QED
    BY <1>3, <1>4, <2>1 DEF IInv, ClientInv
<1> QED
    BY <1>4, <1>5, <1>6, Frame DEF IInv, TypeOK

\* A limiter that lets a request pass has not reached its limit.
LEMMA CountingKeeps ==
    ASSUME IInv, NEW l \in Limiters, ~Exceeds(l), hits' = Counted(l)
    PROVE  LimitsKept'
BY ConstantsAssumption DEF IInv, TypeOK, Exceeds, Counted, LimitsKept

LEMMA LimitsUnchanged ==
    ASSUME IInv, UNCHANGED hits
    PROVE  LimitsKept'
BY DEF IInv, TypeOK, LimitsKept

LEMMA ArriveInv ==
    ASSUME IInv, NEW c \in Clients, Arrive(c)
    PROVE  IInv'
<1>1. PICK r \in Request : req' = [req EXCEPT ![c] = r] /\ r # None
    BY ConstantsAssumption DEF Arrive
<1>2. TypeOK'
  <2>1. at' \in [Clients -> Places] /\ req' \in [Clients -> Request \cup {None}]
    BY <1>1 DEF Arrive, IInv, TypeOK, Places
  <2>2. began' \in [Clients -> {Stages[i] : i \in DOMAIN Stages}]
    BY DEF Arrive, IInv, TypeOK
  <2>3. \A x \in Clients :
            /\ at'[x] = "idle" <=> req'[x] = None
            /\ at'[x] \in {"answered", "errorHandler"} <=> status'[x] # 0
            /\ left'[x] # <<>> => at'[x] = "stack"
    BY <1>1 DEF Arrive, IInv, TypeOK
  <2> QED
    BY <2>1, <2>2, <2>3 DEF Arrive, IInv, TypeOK
<1>3. ClientInv(c)'
    BY DEF Arrive, IInv, ClientInv, TypeOK
<1> QED
    BY <1>2, <1>3, Frame DEF Arrive, IInv, TypeOK

\* The middlewares of every request: they let it go on or end it.
LEMMA MiddlewaresInv ==
    ASSUME IInv, NEW c \in Clients,
           \/ ParseBody(c) \/ GlobalRateLimiter(c) \/ ApiVersionMiddleware(c)
           \/ PastProbes(c) \/ LivenessCheck(c) \/ StartCheck(c)
    PROVE  IInv'
<1>1. CASE ParseBody(c)
    BY <1>1, EndKeeps, GotoKeeps, LimitsUnchanged
    DEF ParseBody, Fail, Codes, Places, Contract!Statuses, Contract!Success
<1>2. CASE GlobalRateLimiter(c)
    BY <1>2, EndKeeps, GotoKeeps, LimitsUnchanged, CountingKeeps
    DEF GlobalRateLimiter, Reply, Codes, Places, Limiters
<1>3. CASE ApiVersionMiddleware(c)
    BY <1>3, EndKeeps, GotoKeeps, LimitsUnchanged
    DEF ApiVersionMiddleware, Fail, Codes, Places, Contract!Statuses, Contract!Success
<1>4. CASE PastProbes(c)
    BY <1>4, EndKeeps, GotoKeeps, LimitsUnchanged DEF PastProbes, Reply, Codes, Places
<1>5. CASE LivenessCheck(c)
    BY <1>5, EndKeeps, LimitsUnchanged DEF LivenessCheck, Reply, Codes
<1>6. CASE StartCheck(c)
  <2>1. stage = "up" => began[c] = "up"
    BY DEF IInv, ClientInv
  <2> QED
    BY <1>6, <2>1, EndKeeps, GotoKeeps, LimitsUnchanged DEF StartCheck, Reply, Codes, Places
<1> QED
    BY <1>1, <1>2, <1>3, <1>4, <1>5, <1>6

\* The answers of the probes after the query.
LEMMA HealthInv ==
    ASSUME IInv, NEW c \in Clients, FinishHealthCheck(c) \/ FinishReadinessCheck(c)
    PROVE  IInv'
<1>1. PICK s \in {200, 503} : Reply(c, s)
    BY DEF FinishHealthCheck, FinishReadinessCheck, OverallStatus
<1>2. at[c] = "query" /\ UNCHANGED <<hits, stage, began>>
    BY DEF FinishHealthCheck, FinishReadinessCheck
<1> QED
    BY <1>1, <1>2, EndKeeps, LimitsUnchanged DEF Reply, Codes

\* What router.use and the route put before the handler is all on the way to it.
LEMMA AheadTyped ==
    ASSUME NEW r, r.mount \in Mounts
    PROVE  /\ Ahead(r) \in Seq(Middlewares)
           /\ RouterUse(r.mount) = <<"authenticate">> => Has(Ahead(r), "authenticate")
           /\ Chosen(r) # 0 =>
                  \A middleware : Has(Route(r).stack, middleware) => Has(Ahead(r), middleware)
<1> DEFINE used == RouterUse(r.mount)
           stack == IF Chosen(r) = 0 THEN <<>> ELSE Route(r).stack
<1>1. used \in Seq(Middlewares)
    BY ShortSequences DEF RouterUse, Middlewares
<1>2. Chosen(r) # 0 => Route(r).stack \in Seq(Middlewares)
    BY ChosenFits, EveryEndpoint DEF Declared
<1>3. stack \in Seq(Middlewares)
    BY <1>2, ShortSequences
<1>4. Ahead(r) = used \o stack
    BY DEF Ahead
<1> HIDE DEF used, stack
<1>5. /\ Ahead(r) \in Seq(Middlewares) /\ Len(Ahead(r)) = Len(used) + Len(stack)
      /\ \A i \in 1..Len(used) : Ahead(r)[i] = used[i]
      /\ \A i \in 1..Len(stack) : Ahead(r)[i + Len(used)] = stack[i]
  <2>1. Len(used) \in Nat /\ Len(stack) \in Nat
    BY <1>1, <1>3, LenProperties
  <2> QED
    BY <1>1, <1>3, <1>4, <2>1, ConcatProperties
<1>6. /\ DOMAIN Ahead(r) = 1..Len(Ahead(r)) /\ DOMAIN used = 1..Len(used)
      /\ DOMAIN stack = 1..Len(stack) /\ Len(used) \in Nat /\ Len(stack) \in Nat
    BY <1>1, <1>3, <1>5, LenProperties
<1>7. \A middleware :
          Has(used, middleware) \/ Has(stack, middleware) => Has(Ahead(r), middleware)
  <2>1. \A i \in DOMAIN used : i \in DOMAIN Ahead(r) /\ Ahead(r)[i] = used[i]
    BY <1>5, <1>6
  <2>2. \A i \in DOMAIN stack :
            i + Len(used) \in DOMAIN Ahead(r) /\ Ahead(r)[i + Len(used)] = stack[i]
    BY <1>5, <1>6
  <2> QED
    BY <2>1, <2>2 DEF Has
<1>8. used = <<"authenticate">> => Has(used, "authenticate")
    BY DEF Has
<1> QED
    BY <1>5, <1>7, <1>8 DEF used, stack

LEMMA EnterRouterInv ==
    ASSUME IInv, NEW c \in Clients, EnterRouter(c)
    PROVE  IInv'
<1> DEFINE limiter == MountLimiter(req[c].mount)
<1>1. req[c].mount \in Mounts /\ limiter \in Limiters /\ at[c] = "mountLimiter"
    BY DEF IInv, ClientInv, EnterRouter, MountLimiter, Limiters
<1>2. CASE Exceeds(limiter)
    BY <1>1, <1>2, EndKeeps, LimitsUnchanged DEF EnterRouter, Reply, Codes
<1>3. CASE ~Exceeds(limiter)
  <2>1. /\ at' = [at EXCEPT ![c] = "stack"]
        /\ left' = [left EXCEPT ![c] = Ahead(req[c])]
        /\ hits' = Counted(limiter)
        /\ UNCHANGED <<req, user, served, status, stage, began>>
    BY <1>3 DEF EnterRouter, Goto, Ahead
  <2>2. LimitsKept'
    BY <1>1, <1>3, <2>1, CountingKeeps
  <2>3. TypeOK'
    <3>1. at' \in [Clients -> Places] /\ left' \in [Clients -> Seq(Middlewares)]
      BY <1>1, <2>1, AheadTyped DEF IInv, TypeOK, Places
    <3>2. \A x \in Clients :
              /\ at'[x] = "idle" <=> req'[x] = None
              /\ at'[x] \in {"answered", "errorHandler"} <=> status'[x] # 0
              /\ left'[x] # <<>> => at'[x] = "stack"
      BY <1>1, <2>1 DEF IInv, TypeOK
    <3> QED
      BY <2>1, <2>2, <3>1, <3>2 DEF IInv, TypeOK, LimitsKept
  <2>4. ClientInv(c)'
    BY <1>1, <2>1 DEF IInv, ClientInv, TypeOK
  <2> QED
    BY <2>1, <2>3, <2>4, Frame DEF IInv, TypeOK
<1> QED
    BY <1>2, <1>3

\* The middlewares of the router and the route: they pass the request on or end it.
LEMMA RouteMiddlewaresInv ==
    ASSUME IInv, NEW c \in Clients,
           Authenticate(c) \/ Authorize(c) \/ Validate(c) \/ NoRoute(c)
    PROVE  IInv'
<1>1. at[c] = "stack" /\ UNCHANGED <<hits, stage, began>>
    BY DEF Authenticate, Authorize, Validate, NoRoute, Meets
<1>2. ASSUME NEW s \in {401, 403, 500}, Fail(c, s)
      PROVE  IInv'
    BY <1>1, <1>2, EndKeeps, LimitsUnchanged
    DEF Fail, Codes, Contract!Statuses, Contract!Success
<1>3. ASSUME NEW s \in {400, 404}, Reply(c, s)
      PROVE  IInv'
    BY <1>1, <1>3, EndKeeps, LimitsUnchanged DEF Reply, Codes
<1>4. CASE Authenticate(c)
  <2>1. CASE req[c].token = "good" /\ user' = [user EXCEPT ![c] = TRUE] /\ PassOn(c)
    <3>1. user' \in [Clients -> BOOLEAN]
      BY <2>1 DEF IInv, TypeOK
    <3> QED
      BY <1>1, <1>4, <2>1, <3>1, PassOnKeeps DEF Authenticate, Passed, Middlewares
  <2> QED
    BY <1>2, <1>4, <2>1 DEF Authenticate
<1>5. CASE Authorize(c)
  <2>1. CASE PassOn(c) /\ UNCHANGED user
    <3>1. user' \in [Clients -> BOOLEAN]
      BY <2>1 DEF IInv, TypeOK
    <3> QED
      BY <1>1, <1>5, <2>1, <3>1, PassOnKeeps DEF Authorize, Passed, Middlewares
  <2> QED
    BY <1>2, <1>5, <2>1 DEF Authorize
<1>6. CASE Validate(c)
  <2>1. PICK validator \in Middlewares \ {"authenticate", "authorize"} :
            /\ Meets(c, validator)
            /\ IF Accepts(validator, req[c])
               THEN PassOn(c) /\ UNCHANGED user
               ELSE Reply(c, 400)
    BY <1>6 DEF Validate
  <2>2. CASE Accepts(validator, req[c])
    <3>1. user' \in [Clients -> BOOLEAN] /\ PassOn(c)
      BY <2>1, <2>2 DEF IInv, TypeOK
    <3> QED
      BY <1>1, <2>1, <2>2, <3>1, PassOnKeeps DEF Passed
  <2> QED
    BY <1>3, <2>1, <2>2
<1>7. CASE NoRoute(c)
    BY <1>3, <1>7 DEF NoRoute
<1> QED
    BY <1>4, <1>5, <1>6, <1>7

\* Nothing is left before the handler, so everything has let the request pass: it runs an
\* operation that the document lets run for it.
LEMMA CallHandlerInv ==
    ASSUME IInv, NEW c \in Clients, CallHandler(c)
    PROVE  IInv' /\ Route(req[c]) \in MayRun(req[c])
<1> DEFINE r == req[c]
           d == Route(r)
<1>1. r \in Request /\ r.mount \in Mounts /\ Chosen(r) # 0
    BY DEF CallHandler, IInv, TypeOK, ClientInv
<1>2. \A middleware \in Middlewares : Has(Ahead(r), middleware) => Passed(r, middleware)
  <2>1. at[c] = "stack" /\ \A middleware : ~Has(left[c], middleware)
    BY DEF CallHandler, Has
  <2> QED
    BY <2>1 DEF IInv, ClientInv
<1>3. d \in OperationFor(r) \cup Misplaced(r)
  <2>1. \A v \in {"uuidParams", "integerParams"} : Has(d.stack, v) => Accepts(v, r)
    BY <1>1, <1>2, AheadTyped DEF Passed, Middlewares
  <2> QED
    BY <1>1, <2>1, RoutedAsDocumented
<1>4. TokenGood(r, d)
  <2>1. Declared(r.mount, d)
    BY <1>1, ChosenFits, EveryEndpoint
  <2>2. Has(Ahead(r), "authenticate") => r.token = "good"
    BY <1>2 DEF Passed, Middlewares
  <2> QED
    BY <1>1, <2>1, <2>2, AheadTyped DEF Declared, TokenGood
<1>5. d \in MayRun(r)
    BY <1>3, <1>4 DEF MayRun
<1>6. TypeOK'
  <2>1. at' \in [Clients -> Places] /\ served' \in [Clients -> BOOLEAN]
    BY DEF CallHandler, IInv, TypeOK, Places
  <2>2. \A x \in Clients :
            /\ at'[x] = "idle" <=> req'[x] = None
            /\ at'[x] \in {"answered", "errorHandler"} <=> status'[x] # 0
            /\ left'[x] # <<>> => at'[x] = "stack"
    BY DEF CallHandler, IInv, TypeOK
  <2> QED
    BY <2>1, <2>2 DEF CallHandler, IInv, TypeOK
<1>7. ClientInv(c)'
    BY <1>1, <1>5 DEF CallHandler, IInv, ClientInv, TypeOK
<1> QED
    BY <1>5, <1>6, <1>7, Frame DEF CallHandler, IInv, TypeOK

\* What a handler may settle with.
LEMMA HandlerOutcome ==
    ASSUME IInv, NEW c \in Clients, HandlerSettles(c)
    PROVE  \E s \in Contract!Statuses :
               \/ Reply(c, s) /\ (Contract!Success(s) =>
                                      /\ s = Route(req[c]).document.success
                                      /\ Entitled(req[c], Route(req[c])))
               \/ Fail(c, s) /\ ~Contract!Success(s)
<1> DEFINE outcomes == Route(req[c]).handler[user[c]]
<1>1. req[c].mount \in Mounts /\ Chosen(req[c]) # 0 /\ user[c] \in BOOLEAN
    BY DEF HandlerSettles, IInv, ClientInv, TypeOK
<1>2. Answers(Route(req[c]))
    BY <1>1, ChosenFits, EveryEndpoint
<1>3. /\ outcomes.replies \cup outcomes.errors \subseteq Contract!Statuses
      /\ \A s \in outcomes.replies :
             Contract!Success(s) => s = Route(req[c]).document.success
      /\ \A s \in outcomes.errors : ~Contract!Success(s)
    BY <1>1, <1>2 DEF Answers, Settles
<1>4. \/ \E s \in outcomes.replies : Reply(c, s)
      \/ \E s \in outcomes.errors : Fail(c, s)
    BY DEF HandlerSettles
<1>5. outcomes.replies # {} => Entitled(req[c], Route(req[c]))
  <2>1. TokenGood(req[c], Route(req[c]))
    BY DEF HandlerSettles, IInv, ClientInv, MayRun
  <2>2. outcomes.replies # {} =>
            Route(req[c]) \notin {invitationToken_create, invitationToken_list}
    BY <1>1, InvitationsRefuse
  <2> QED
    BY <2>1, <2>2 DEF TokenGood, Entitled, Unauthenticated
<1> HIDE DEF outcomes
<1> QED
    BY <1>3, <1>4, <1>5

LEMMA HandlerSettlesInv ==
    ASSUME IInv, NEW c \in Clients, HandlerSettles(c)
    PROVE  IInv'
<1>1. PICK s \in Contract!Statuses : Reply(c, s) \/ (Fail(c, s) /\ ~Contract!Success(s))
    BY HandlerOutcome
<1>2. at[c] = "handler" /\ UNCHANGED <<hits, stage, began>>
    BY DEF HandlerSettles
<1>3. s \in Codes
    BY DEF Contract!Statuses, Codes
<1> QED
    BY <1>1, <1>2, <1>3, EndKeeps, LimitsUnchanged DEF Reply, Fail

LEMMA ErrorHandlerInv ==
    ASSUME IInv, NEW c \in Clients, ErrorHandler(c)
    PROVE  IInv'
<1>1. at[c] = "errorHandler" /\ Reply(c, status[c]) /\ UNCHANGED <<hits, stage, began>>
    BY DEF ErrorHandler
<1>2. status[c] \in Codes
    BY <1>1 DEF IInv, ClientInv, Contract!Statuses, Codes
<1> QED
    BY <1>1, <1>2, EndKeeps, LimitsUnchanged DEF Reply

LEMMA LeaveInv ==
    ASSUME IInv, NEW c \in Clients, Leave(c)
    PROVE  IInv'
<1>1. TypeOK'
  <2>1. /\ at' \in [Clients -> Places] /\ req' \in [Clients -> Request \cup {None}]
        /\ user' \in [Clients -> BOOLEAN] /\ served' \in [Clients -> BOOLEAN]
        /\ status' \in [Clients -> {0} \cup Codes]
    BY DEF Leave, IInv, TypeOK, Places
  <2>2. began' \in [Clients -> {Stages[i] : i \in DOMAIN Stages}]
    BY StageNames DEF Leave, IInv, TypeOK
  <2>3. \A x \in Clients :
            /\ at'[x] = "idle" <=> req'[x] = None
            /\ at'[x] \in {"answered", "errorHandler"} <=> status'[x] # 0
            /\ left'[x] # <<>> => at'[x] = "stack"
    BY DEF Leave, IInv, TypeOK
  <2> QED
    BY <2>1, <2>2, <2>3 DEF Leave, IInv, TypeOK
<1>2. ClientInv(c)'
    BY DEF Leave, IInv, TypeOK, ClientInv
<1> QED
    BY <1>1, <1>2, Frame DEF Leave, IInv, TypeOK

LEMMA ShutDownInv ==
    ASSUME IInv, ShutDown
    PROVE  IInv'
<1>1. /\ stage \in {"up", "stopping", "queuesStopped"}
      /\ UNCHANGED <<at, req, left, user, served, status, hits, began>>
    BY StageNames DEF ShutDown, callVars, IInv, TypeOK
<1>2. stage' \in {"stopping", "queuesStopped", "dbClosed"}
    BY <1>1, StageNames DEF ShutDown
<1>3. TypeOK'
    BY <1>1, <1>2, StageNames DEF IInv, TypeOK
<1>4. \A c \in Clients : ClientInv(c)'
    BY <1>1, <1>2 DEF IInv, ClientInv
<1> QED
    BY <1>3, <1>4 DEF IInv

LEMMA WindowEndsInv ==
    ASSUME IInv, WindowEnds
    PROVE  IInv'
<1>1. UNCHANGED <<at, req, left, user, served, status, stage, began>>
    BY DEF WindowEnds, callVars
<1>2. PICK l \in Limiters : hits' = [hits EXCEPT ![l] = 0]
    BY DEF WindowEnds
<1>3. LimitsKept'
  <2>1. hits \in [Limiters -> Nat] /\ \A x \in Limiters : hits[x] <= Max[x]
    BY DEF IInv, TypeOK
  <2>2. \A x \in Limiters : Max[x] \in Nat
    BY ConstantsAssumption
  <2> QED
    BY <1>2, <2>1, <2>2 DEF LimitsKept
<1>4. TypeOK'
    BY <1>1, <1>3 DEF IInv, TypeOK, LimitsKept
<1>5. \A c \in Clients : ClientInv(c)'
    BY <1>1 DEF IInv, ClientInv
<1> QED
    BY <1>4, <1>5 DEF IInv

LEMMA NextInv == IInv /\ [Next]_vars => IInv'
<1> SUFFICES ASSUME IInv, [Next]_vars
             PROVE  IInv'
    OBVIOUS
<1>1. ASSUME NEW c \in Clients, Step(c)
      PROVE  IInv'
    BY <1>1, MiddlewaresInv, HealthInv, EnterRouterInv, RouteMiddlewaresInv, CallHandlerInv,
       HandlerSettlesInv, ErrorHandlerInv DEF Step
<1>2. CASE UNCHANGED vars
  <2>1. UNCHANGED <<at, req, left, user, served, status, hits, stage, began>>
    BY <1>2 DEF vars, callVars
  <2>2. TypeOK'
    BY <2>1 DEF IInv, TypeOK
  <2>3. \A c \in Clients : ClientInv(c)'
    BY <2>1 DEF IInv, ClientInv
  <2> QED
    BY <2>2, <2>3 DEF IInv
<1> QED
    BY <1>1, <1>2, ArriveInv, LeaveInv, ShutDownInv, WindowEndsInv DEF Next

\* The inductive invariant holds in every state of every behaviour.
THEOREM InvariantHolds == Spec => []IInv
BY InitInv, NextInv, PTL DEF Spec

\* Every variable keeps its type, no limiter counts beyond its maximum, and a request is
\* answered or failing exactly when it has a status.
THEOREM TypeCorrect == Spec => []TypeOK
<1>1. IInv => TypeOK
    BY DEF IInv
<1> QED
    BY <1>1, InvariantHolds, PTL

-----------------------------------------------------------------------------
(* The kinds of steps, and the probes                                      *)

LEMMA ProbesHaveNoMount == \A r : Probe(r) => r.mount \notin Mounts
BY MountNames DEF Probe

\* How a step of a request's way may answer it.
GoodReply(c, s) ==
    /\ Probe(req[c]) /\ s = 200 =>
           /\ began[c] = "up"
           /\ stage # "dbClosed"
           /\ req[c].path = <<"health">> => stage \in {"up", "stopping"}
    /\ ~Probe(req[c]) =>
           /\ s \in Contract!Statuses
           /\ Contract!Success(s) => /\ served[c]
                                     /\ s = Route(req[c]).document.success
                                     /\ Entitled(req[c], Route(req[c]))

\* The request goes on, or fails on its way to errorHandler.
Moves(c) ==
    /\ at[c] \notin {"idle", "answered"}
    /\ \/ at' = at
       \/ \E place : place \notin {"idle", "answered"} /\ at' = [at EXCEPT ![c] = place]
    /\ UNCHANGED <<req, served>>
    /\ \/ status' = status
       \/ \E s : ~Contract!Success(s) /\ status' = [status EXCEPT ![c] = s]

\* The request is answered.
Ends(c) ==
    /\ at[c] \notin {"idle", "answered"}
    /\ \E s \in Codes : Reply(c, s) /\ GoodReply(c, s)

\* Every step of a request moves it on, answers it as GoodReply says, or calls its handler.
LEMMA StepKinds ==
    ASSUME IInv, NEW c \in Clients, Step(c)
    PROVE  UNCHANGED <<began, stage>> /\ (Moves(c) \/ Ends(c) \/ CallHandler(c))
<1>1. stage = "up" => began[c] = "up"
    BY DEF IInv, ClientInv, TypeOK
<1>2. ASSUME NEW s, ~Contract!Success(s), at[c] \notin {"idle", "answered"}, Fail(c, s)
      PROVE  Moves(c)
    BY <1>2 DEF Fail, End, Moves
<1>3. ASSUME NEW s \in {400, 404, 429}, at[c] \notin {"idle", "answered"}, Reply(c, s)
      PROVE  Ends(c)
    BY <1>3 DEF Ends, GoodReply, Contract!Statuses, Contract!Success, Codes
<1>4. ASSUME NEW place, place \notin {"idle", "answered"}, at[c] \notin {"idle", "answered"},
             Goto(c, place)
      PROVE  Moves(c)
    BY <1>4 DEF Goto, Moves
<1>5. ASSUME NEW middleware, Meets(c, middleware), PassOn(c)
      PROVE  Moves(c)
    BY <1>5 DEF Meets, PassOn, Moves
<1>6. CASE ParseBody(c) \/ GlobalRateLimiter(c) \/ ApiVersionMiddleware(c) \/ PastProbes(c)
    BY <1>2, <1>3, <1>4, <1>6
    DEF ParseBody, GlobalRateLimiter, ApiVersionMiddleware, PastProbes, Contract!Success
<1>7. CASE LivenessCheck(c) \/ StartCheck(c)
  <2>1. CASE LivenessCheck(c)
    <3>1. at[c] = "health" /\ Probe(req[c]) /\ UNCHANGED <<began, stage>>
      BY <2>1 DEF LivenessCheck
    <3>2. CASE stage = "up"
      <4>1. Reply(c, 200)
        BY <2>1, <3>2 DEF LivenessCheck
      <4>2. GoodReply(c, 200) /\ 200 \in Codes
        BY <1>1, <3>1, <3>2 DEF GoodReply, Codes
      <4> QED
        BY <3>1, <4>1, <4>2 DEF Ends
    <3>3. CASE stage # "up"
      <4>1. Reply(c, 503)
        BY <2>1, <3>3 DEF LivenessCheck
      <4>2. GoodReply(c, 503) /\ 503 \in Codes
        BY <3>1 DEF GoodReply, Codes
      <4> QED
        BY <3>1, <4>1, <4>2 DEF Ends
    <3> QED
      BY <3>2, <3>3
  <2>2. CASE StartCheck(c)
    BY <1>4, <2>2 DEF StartCheck, Ends, GoodReply, Codes
  <2> QED
    BY <1>7, <2>1, <2>2 DEF LivenessCheck, StartCheck
<1>8. CASE FinishHealthCheck(c) \/ FinishReadinessCheck(c)
  <2>1. at[c] = "query" /\ Probe(req[c]) /\ began[c] = "up"
    BY <1>8 DEF FinishHealthCheck, FinishReadinessCheck, IInv, ClientInv
  <2>2. PICK s \in {200, 503} :
            /\ Reply(c, s)
            /\ s = 200 => /\ stage # "dbClosed"
                          /\ req[c].path = <<"health">> => stage \in {"up", "stopping"}
    <3>1. PICK database \in DatabaseHealth :
              \/ Reply(c, OverallStatus(database, QueueHealthy))
              \/ Reply(c, IF database THEN 200 ELSE 503) /\ req[c].path # <<"health">>
      BY <1>8 DEF FinishHealthCheck, FinishReadinessCheck
    <3>2. database => stage # "dbClosed"
      BY <3>1 DEF DatabaseHealth
    <3> QED
      BY <3>1, <3>2 DEF OverallStatus, QueueHealthy
  <2> QED
    BY <1>8, <2>1, <2>2
    DEF FinishHealthCheck, FinishReadinessCheck, Ends, GoodReply, Codes
<1>9. CASE EnterRouter(c)
    BY <1>3, <1>4, <1>9 DEF EnterRouter
<1>10. CASE Authenticate(c) \/ Authorize(c) \/ Validate(c) \/ NoRoute(c)
  <2>1. at[c] = "stack" /\ UNCHANGED <<began, stage>>
    BY <1>10 DEF Authenticate, Authorize, Validate, NoRoute, Meets
  <2>2. \A s \in {401, 403, 500} : ~Contract!Success(s)
    BY DEF Contract!Success
  <2>3. \/ \E middleware : Meets(c, middleware) /\ PassOn(c)
        \/ \E s \in {401, 403, 500} : Fail(c, s)
        \/ \E s \in {400, 404} : Reply(c, s)
    BY <1>10 DEF Authenticate, Authorize, Validate, NoRoute
  <2> QED
    BY <1>2, <1>3, <1>5, <2>1, <2>2, <2>3
<1>11. CASE CallHandler(c)
    BY <1>11 DEF CallHandler
<1>12. CASE HandlerSettles(c)
  <2>1. PICK s \in Contract!Statuses :
            \/ Reply(c, s) /\ (Contract!Success(s) =>
                                   /\ s = Route(req[c]).document.success
                                   /\ Entitled(req[c], Route(req[c])))
            \/ Fail(c, s) /\ ~Contract!Success(s)
    BY <1>12, HandlerOutcome
  <2>2. at[c] = "handler" /\ served[c] /\ ~Probe(req[c])
    BY <1>12, ProbesHaveNoMount DEF HandlerSettles, IInv, ClientInv
  <2> QED
    BY <1>2, <1>12, <2>1, <2>2
    DEF HandlerSettles, Ends, GoodReply, Codes, Contract!Statuses
<1>13. CASE ErrorHandler(c)
  <2>1. /\ at[c] = "errorHandler" /\ Reply(c, status[c])
        /\ status[c] \in Contract!Statuses /\ ~Contract!Success(status[c])
    BY <1>13 DEF ErrorHandler, IInv, ClientInv
  <2> QED
    BY <1>13, <2>1 DEF ErrorHandler, Ends, GoodReply, Codes, Contract!Statuses, Contract!Success
<1> QED
    BY <1>6, <1>7, <1>8, <1>9, <1>10, <1>11, <1>12, <1>13 DEF Step

\* A probe that came after the shutdown began never reports a server that can work, none
\* reports one whose database is closed, and /health none whose queues are stopped,
\* whatever the checks and the shutdown do in between.
THEOREM HonestProbes == Spec => ProbesAreHonest
<1> DEFINE Honest ==
        \A c \in Clients :
            (req[c] # None /\ Probe(req[c]) /\ status[c] = 0 /\ status'[c] = 200) =>
                /\ began[c] = "up"
                /\ stage # "dbClosed"
                /\ req[c].path = <<"health">> => stage \in {"up", "stopping"}
<1>1. ASSUME IInv, [Next]_vars
      PROVE  Honest
  <2> SUFFICES ASSUME NEW c \in Clients, Probe(req[c]), status[c] = 0, status'[c] = 200
               PROVE  GoodReply(c, 200)
    BY DEF GoodReply
  <2>1. status \in [Clients -> {0} \cup Codes] /\ at \in [Clients -> Places]
    BY <1>1 DEF IInv, TypeOK
  <2>2. PICK x \in Clients : Step(x)
    BY <1>1, <2>1 DEF Next, vars, callVars, Arrive, Leave, ShutDown, WindowEnds
  <2>3. Moves(x) \/ Ends(x) \/ CallHandler(x)
    BY <1>1, <2>2, StepKinds
  <2>4. x = c
    BY <2>1, <2>3 DEF Moves, Ends, Reply, End, CallHandler
  <2>5. CASE Ends(c)
    BY <2>1, <2>5 DEF Ends, Reply, End
  <2>6. ~CallHandler(c)
    BY DEF CallHandler
  <2>7. ~Moves(c)
    BY <2>1 DEF Moves, Contract!Success
  <2> QED
    BY <2>3, <2>4, <2>5, <2>6, <2>7
<1> QED
    BY <1>1, InvariantHolds, PTL DEF ProbesAreHonest, Spec

-----------------------------------------------------------------------------
(* The contract                                                            *)

\* What the contract sees of a client.
AskedBy(c) == IF IsApi(c) THEN req[c] ELSE None
RunFor(c) == IF IsApi(c) /\ served[c] THEN Route(req[c]) ELSE None
Seen(c) == IF IsApi(c) /\ at[c] = "answered" THEN status[c] ELSE 0

asked == [c \in Clients |-> AskedBy(c)]
operation == [c \in Clients |-> RunFor(c)]
seen == [c \in Clients |-> Seen(c)]

\* The actions of the contract, in these terms.
LEMMA ContractInTheseTerms ==
    /\ Contract!Init <=> /\ asked = [c \in Clients |-> None]
                         /\ operation = [c \in Clients |-> None]
                         /\ seen = [c \in Clients |-> 0]
    /\ UNCHANGED Contract!vars <=> UNCHANGED <<asked, operation, seen>>
    /\ \A c \in Clients :
        /\ Contract!Ask(c) <=>
               /\ asked[c] = None
               /\ \E r \in Requests : asked' = [asked EXCEPT ![c] = r]
               /\ UNCHANGED <<operation, seen>>
        /\ Contract!Serve(c) <=>
               /\ asked[c] # None /\ operation[c] = None /\ seen[c] = 0
               /\ \E d \in MayRun(asked[c]) : operation' = [operation EXCEPT ![c] = d]
               /\ UNCHANGED <<asked, seen>>
        /\ Contract!Answer(c) <=>
               /\ asked[c] # None /\ seen[c] = 0
               /\ \E s \in Contract!Statuses :
                   /\ Contract!Success(s) => /\ operation[c] # None
                                             /\ operation[c].document.success = s
                                             /\ Entitled(asked[c], operation[c])
                   /\ seen' = [seen EXCEPT ![c] = s]
               /\ UNCHANGED <<asked, operation>>
        /\ Contract!Leave(c) <=>
               /\ seen[c] # 0
               /\ asked' = [asked EXCEPT ![c] = None]
               /\ operation' = [operation EXCEPT ![c] = None]
               /\ seen' = [seen EXCEPT ![c] = 0]
BY DEF Contract!Init, Contract!vars, Contract!Ask, Contract!Serve, Contract!Answer,
       Contract!Leave, asked, operation, seen, AskedBy, RunFor, Seen

\* What the contract sees of a client whose request no step touches.
LEMMA OthersUnseen ==
    ASSUME IInv, NEW c \in Clients,
           Arrive(c) \/ Moves(c) \/ Ends(c) \/ CallHandler(c) \/ Leave(c),
           NEW x \in Clients, x # c
    PROVE  UNCHANGED <<AskedBy(x), RunFor(x), Seen(x)>>
<1>1. at'[x] = at[x] /\ req'[x] = req[x] /\ served'[x] = served[x] /\ status'[x] = status[x]
    BY DEF Arrive, Moves, Ends, Reply, End, CallHandler, Leave, IInv, TypeOK
<1> QED
    BY <1>1 DEF AskedBy, RunFor, Seen, IsApi

LEMMA ChangedAtOne ==
    ASSUME NEW c \in Clients,
           \A x \in Clients : x # c => UNCHANGED <<AskedBy(x), RunFor(x), Seen(x)>>
    PROVE  /\ asked' = [asked EXCEPT ![c] = AskedBy(c)']
           /\ operation' = [operation EXCEPT ![c] = RunFor(c)']
           /\ seen' = [seen EXCEPT ![c] = Seen(c)']
           /\ UNCHANGED AskedBy(c) => UNCHANGED asked
           /\ UNCHANGED RunFor(c) => UNCHANGED operation
           /\ UNCHANGED Seen(c) => UNCHANGED seen
BY DEF asked, operation, seen

LEMMA InitImplements == Init => Contract!Init
BY ContractInTheseTerms DEF Init, asked, operation, seen, AskedBy, RunFor, Seen, IsApi

\* Every step of a client is one of the contract, or one that it does not see.
LEMMA StepImplements ==
    ASSUME IInv, IInv', NEW c \in Clients, Arrive(c) \/ Step(c) \/ Leave(c)
    PROVE  \/ Contract!Ask(c) \/ Contract!Serve(c) \/ Contract!Answer(c) \/ Contract!Leave(c)
           \/ UNCHANGED Contract!vars
<1>1. Arrive(c) \/ Moves(c) \/ Ends(c) \/ CallHandler(c) \/ Leave(c)
    BY StepKinds
<1>2. /\ asked' = [asked EXCEPT ![c] = AskedBy(c)']
      /\ operation' = [operation EXCEPT ![c] = RunFor(c)']
      /\ seen' = [seen EXCEPT ![c] = Seen(c)']
      /\ UNCHANGED AskedBy(c) => UNCHANGED asked
      /\ UNCHANGED RunFor(c) => UNCHANGED operation
      /\ UNCHANGED Seen(c) => UNCHANGED seen
    BY <1>1, OthersUnseen, ChangedAtOne
<1>3. asked[c] = AskedBy(c) /\ operation[c] = RunFor(c) /\ seen[c] = Seen(c)
    BY DEF asked, operation, seen
<1>4. CASE Arrive(c)
  <2>1. req[c] = None /\ ~served[c] /\ UNCHANGED <<served, status>>
    BY <1>4 DEF Arrive, IInv, TypeOK, ClientInv
  <2>2. AskedBy(c) = None /\ UNCHANGED <<RunFor(c), Seen(c)>>
    BY <1>4, <2>1 DEF Arrive, AskedBy, RunFor, Seen, IsApi, IInv, TypeOK
  <2>3. AskedBy(c)' = None \/ AskedBy(c)' \in Requests
    BY <1>4 DEF Arrive, AskedBy, IInv, TypeOK
  <2>4. CASE AskedBy(c)' = None
    BY <1>2, <2>2, <2>4, ContractInTheseTerms
  <2>5. CASE AskedBy(c)' \in Requests
    BY <1>2, <1>3, <2>2, <2>5, ContractInTheseTerms
  <2> QED
    BY <2>3, <2>4, <2>5
<1>5. CASE Moves(c)
  <2>1. UNCHANGED <<req[c], served[c]>> /\ at[c] # "answered" /\ at'[c] # "answered"
    BY <1>5 DEF Moves, IInv, TypeOK
  <2>2. UNCHANGED <<AskedBy(c), RunFor(c), Seen(c)>>
    BY <2>1 DEF AskedBy, RunFor, Seen, IsApi
  <2> QED
    BY <1>2, <2>2, ContractInTheseTerms
<1>6. CASE Ends(c)
  <2>1. PICK s \in Codes : Reply(c, s) /\ GoodReply(c, s) /\ at[c] \notin {"idle", "answered"}
    BY <1>6 DEF Ends
  <2>2. /\ UNCHANGED <<req[c], served[c]>> /\ at'[c] = "answered" /\ status'[c] = s
        /\ req[c] # None
    BY <2>1 DEF Reply, End, IInv, TypeOK
  <2>3. UNCHANGED <<AskedBy(c), RunFor(c)>> /\ Seen(c) = 0
    BY <2>1, <2>2 DEF AskedBy, RunFor, Seen, IsApi
  <2>4. CASE Probe(req[c])
    <3>1. Seen(c)' = 0
      BY <2>2, <2>4 DEF Seen, IsApi
    <3> QED
      BY <1>2, <2>3, <3>1, ContractInTheseTerms
  <2>5. CASE ~Probe(req[c])
    <3>1. AskedBy(c) # None /\ Seen(c)' = s /\ s \in Contract!Statuses
      BY <2>1, <2>2, <2>5 DEF AskedBy, Seen, IsApi, GoodReply
    <3>2. Contract!Success(s) => /\ RunFor(c) # None
                                 /\ RunFor(c).document.success = s
                                 /\ Entitled(AskedBy(c), RunFor(c))
      <4> SUFFICES ASSUME Contract!Success(s)
                   PROVE  /\ RunFor(c) # None
                          /\ RunFor(c).document.success = s
                          /\ Entitled(AskedBy(c), RunFor(c))
        OBVIOUS
      <4>1. /\ served[c] /\ s = Route(req[c]).document.success
            /\ Entitled(req[c], Route(req[c]))
        BY <2>1, <2>5 DEF GoodReply
      <4>2. RunFor(c) = Route(req[c]) /\ AskedBy(c) = req[c]
        BY <2>2, <2>5, <4>1 DEF RunFor, AskedBy, IsApi
      <4>3. req[c].mount \in Mounts /\ Route(req[c]) \in Operations(req[c].mount)
        BY <4>1, ChosenFits DEF IInv, ClientInv
      <4> QED
        BY <4>1, <4>2, <4>3, ConstantsAssumption
    <3> QED
      BY <1>2, <1>3, <2>3, <3>1, <3>2, ContractInTheseTerms
  <2> QED
    BY <2>4, <2>5
<1>7. CASE CallHandler(c)
  <2>1. /\ Route(req[c]) \in MayRun(req[c]) /\ req[c].mount \in Mounts /\ req[c] # None
        /\ ~served[c] /\ served'[c] /\ at[c] = "stack" /\ at'[c] = "handler"
        /\ UNCHANGED req[c]
    BY <1>7, CallHandlerInv DEF CallHandler, IInv, TypeOK, ClientInv
  <2>2. IsApi(c) /\ IsApi(c)'
    BY <2>1, ProbesHaveNoMount DEF IsApi
  <2>3. /\ AskedBy(c) = req[c] /\ RunFor(c) = None /\ Seen(c) = 0
        /\ UNCHANGED <<AskedBy(c), Seen(c)>> /\ RunFor(c)' = Route(req[c])
    BY <2>1, <2>2 DEF AskedBy, RunFor, Seen
  <2> QED
    BY <1>2, <1>3, <2>1, <2>3, ContractInTheseTerms
<1>8. CASE Leave(c)
  <2>1. req'[c] = None /\ at[c] = "answered" /\ req[c] # None /\ status[c] # 0 /\ at'[c] = "idle"
    BY <1>8 DEF Leave, IInv, TypeOK
  <2>2. AskedBy(c)' = None /\ RunFor(c)' = None /\ Seen(c)' = 0
    BY <2>1 DEF AskedBy, RunFor, Seen, IsApi
  <2>3. CASE Probe(req[c])
    <3>1. AskedBy(c) = None /\ RunFor(c) = None /\ Seen(c) = 0
      BY <2>3 DEF AskedBy, RunFor, Seen, IsApi
    <3> QED
      BY <1>2, <2>2, <3>1, ContractInTheseTerms
  <2>4. CASE ~Probe(req[c])
    <3>1. Seen(c) # 0
      BY <2>1, <2>4 DEF Seen, IsApi
    <3> QED
      BY <1>2, <1>3, <2>2, <3>1, ContractInTheseTerms
  <2> QED
    BY <2>3, <2>4
<1> QED
    BY <1>1, <1>4, <1>5, <1>6, <1>7, <1>8

\* The server keeps the contract of its document, for every request: no handler runs but
\* the one that the document has for it; no answer of success is undocumented; without a
\* good token nothing runs but the five public operations, logout and the two of the
\* invitations, and of these the last two never succeed.
THEOREM Implements == Spec => ImplementsContract
<1>1. ASSUME IInv, IInv', [Next]_vars
      PROVE  [Contract!Next]_(Contract!vars)
  <2>1. CASE \E c \in Clients : Arrive(c) \/ Step(c) \/ Leave(c)
    BY <1>1, <2>1, StepImplements DEF Contract!Next
  <2>2. CASE UNCHANGED callVars
    BY <2>2, ContractInTheseTerms
    DEF callVars, asked, operation, seen, AskedBy, RunFor, Seen, IsApi
  <2> QED
    BY <1>1, <2>1, <2>2 DEF Next, vars, ShutDown, WindowEnds
<1> QED
    BY <1>1, InitImplements, InvariantHolds, PTL DEF Spec, ImplementsContract, Contract!Spec
=============================================================================
