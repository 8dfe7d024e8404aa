--------------------------- MODULE ApiControllers ---------------------------
(***************************************************************************)
(* What the controllers answer: of each method the statuses it puts in a   *)
(* reply of its own, and those of the errors it hands to next(), which its *)
(* service throws.  What the services do is in AuthSessions, UserRecords,  *)
(* Onboarding, RoutePermissions and RolePermissions; here a call of one    *)
(* may have any of its results.                                            *)
(*                                                                         *)
(* Every method is a function of whether authenticate has set req.user.    *)
(***************************************************************************)
EXTENDS Naturals

\* The method's try block replies, or its catch block (for the user roles
\* asyncHandler) passes an error on.  An error that is not an HttpException, such
\* as a failed query, is a 500.
Outcomes(replies, errors) == [replies |-> replies, errors |-> errors \cup {500}]

\* Methods that do not read req.user.
Anyone(replies, errors) == [user \in BOOLEAN |-> Outcomes(replies, errors)]

\* "if (!userId)" answers 401 before anything else.
OnlyUsers(replies) ==
    [user \in BOOLEAN |->
        IF user THEN Outcomes(replies, {}) ELSE [replies |-> {401}, errors |-> {}]]

\* Does req.user.roles include the string 'ADMIN' (or 'EMAIL_SENDER')?  The payload of
\* an access token holds user.roles, which are Role objects and not their names.
AdminNamed == FALSE

\* Mutant of OnlyAdmins: the name is not asked for.
OnlyAdminsUnchecked(replies, refusals) == Anyone(replies, refusals)

\* Methods that ask for that name.  The invitation service throws {status, message},
\* which is no HttpException.
OnlyAdmins(replies, refusals) ==
    [user \in BOOLEAN |-> Outcomes(IF user /\ AdminNamed THEN replies ELSE refusals, {})]

(* controllers/auth.controller.ts *)

AuthController_login == Anyone({200}, {401})
AuthController_refresh == Anyone({200, 401}, {})
AuthController_register == Anyone({201}, {400, 403})
AuthController_logout == Anyone({200, 400}, {400})
AuthController_forgotPassword == Anyone({200}, {})
AuthController_resetPassword == Anyone({200, 400}, {})

(* controllers/user.controller.ts *)

UserController_getProfile == OnlyUsers({200, 404})
UserController_getUserById ==
    OnlyUsers({200, 404} \cup (IF AdminNamed THEN {} ELSE {403}))
UserController_updateProfile == OnlyUsers({200, 404})
UserController_changePassword == OnlyUsers({200, 400})
UserController_deactivateAccount == OnlyUsers({200, 400})
UserController_getAllUsers == Anyone({200}, {})
UserController_assignRole == Anyone({200, 400}, {})
UserController_getAllRoles == Anyone({200}, {})

(* controllers/invitationToken.controller.ts *)

InvitationTokenController_create == OnlyAdmins({201}, {})
InvitationTokenController_list == OnlyAdmins({200}, {})

(* controllers/email.controller.ts *)

EmailController_sendEmail == OnlyAdmins({200, 500}, {403})
EmailController_sendEmailWithRetry == OnlyAdmins({200, 500}, {403})
EmailController_queueEmail == OnlyAdmins({202}, {403})

(* controllers/role.controller.ts *)

RoleController_getAllRoles == Anyone({200}, {})
RoleController_getRoleById == Anyone({200, 404}, {})
RoleController_createRole == Anyone({201}, {})
RoleController_updateRole == Anyone({200}, {})
RoleController_deleteRole == Anyone({204}, {})

(* controllers/permission.controller.ts *)

PermissionController_getAllPermissions == Anyone({200}, {})
PermissionController_getPermissionById == Anyone({200, 404}, {})
PermissionController_getPermissionsGrouped == Anyone({200}, {})
PermissionController_getPermissionsByRoute == Anyone({200}, {})
PermissionController_validatePermission == Anyone({200}, {})
PermissionController_getPermissionStats == Anyone({200}, {})
PermissionController_getUnusedPermissions == Anyone({200}, {})
PermissionController_getPermissionUsageStats == Anyone({200}, {})
PermissionController_getPermissionAnalysis == Anyone({200}, {})
PermissionController_createPermission == Anyone({201, 400, 409}, {})

(* controllers/rolePermission.controller.ts *)

RolePermissionController_getRolePermissions == Anyone({200}, {})
RolePermissionController_assignPermissionsToRole == Anyone({200}, {})
RolePermissionController_removePermissionsFromRole == Anyone({200}, {})
RolePermissionController_getPermissionRoles == Anyone({200}, {})
RolePermissionController_hasPermission == Anyone({200}, {})
RolePermissionController_getAssignmentById == Anyone({200, 404}, {})
RolePermissionController_removeAssignment == Anyone({204}, {})

(* controllers/userRole.controller.ts *)

UserRoleController_assignRole == Anyone({200}, {})
UserRoleController_removeRole == Anyone({200, 404}, {})
UserRoleController_getUserRoles == Anyone({200}, {})
UserRoleController_getRoleUsers == Anyone({200}, {})
UserRoleController_checkUserRole == Anyone({200}, {})
UserRoleController_getRoleStats == Anyone({200}, {})
=============================================================================
