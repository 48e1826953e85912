-------------------------------- MODULE Accounts -------------------------------
(***************************************************************************)
(* Users, tenant companies and passwords (user.service.js,                 *)
(* tenantCompany.service.js, auth.service.js, otpStore.js, config/jwt.js,  *)
(* middleware/authenticate.js, authorize.js).                              *)
(*                                                                         *)
(* One call is served at a time.  One-time codes live in the memory of the *)
(* server and are lost when it restarts; mails may be lost.  An e-mail     *)
(* address and a tax code are one value whatever their case and blanks.    *)
(***************************************************************************)
EXTENDS Tables

CONSTANTS
    Users, Tenants,
    Sites,       \* the warehouses users work at
    Root,        \* the SYSTEM_ADMIN of the seed
    Emails, Taxes,
    Statuses,    \* USER_STATUS: those given in calls
    OtpTries,    \* wrong guesses a code takes (5 in the code)
    MaxCodes     \* bound: addresses with a code or a count of guesses at a time

VARIABLES
    user,      \* users: [role, status, place, email]
    company,   \* tenant_companies: [email, tax]
    contracts, \* of a warehouse or a company: "none", "open" or "over"
    otp,       \* the one-time code of an address: [tries, live]
    wrong,     \* history: wrong codes given since the last one was made
    token,     \* users with a password link that has not expired
    password   \* history: the address whose code set a password last; None if another way did

accounts == <<user, company, contracts, otp, wrong, token, password>>

AdminOf(place)  == IF place \in Sites THEN "WH_ADMIN" ELSE "TENANT_ADMIN"
WarehouseRoles  == {"WH_ADMIN", "WH_STAFF", "WH_TRANSPORTER"}
TenantRoles     == {"TENANT_ADMIN", "TENANT_STAFF"}
Roles           == {"SYSTEM_ADMIN"} \cup WarehouseRoles \cup TenantRoles
UserRow         == [role : Roles, status : {"ACTIVE", "INACTIVE", "SUSPENDED", "BLOCKED"},
                    place : Sites \cup Tenants \cup {None}, email : Emails]
CompanyRow      == [email : Emails, tax : Taxes \cup {None}]
OtpRow          == [tries : 1 .. OtpTries, live : BOOLEAN]

ASSUME AccountsAssumption ==
    /\ Root \in Users /\ None \notin Users \cup Tenants \cup Sites \cup Emails \cup Taxes
    /\ None \notin UserRow \cup CompanyRow \cup OtpRow
    /\ Tenants \cap Sites = {}
    /\ OtpTries \in Nat \ {0} /\ MaxCodes \in Nat
    /\ "ACTIVE" \in Statuses /\ Statuses \subseteq {"ACTIVE", "INACTIVE", "SUSPENDED", "BLOCKED"}

Places == Sites \cup Rows(company)

-------------------------------------------------------------------------------
(* Who may do what.                                                          *)

\* authenticate: the row is read again on every call
Authenticated(c) == Exists(user, c) /\ user[c].status = "ACTIVE"
\* authorize(...userManagers)
Manager(c) == Authenticated(c) /\ user[c].role \in {"SYSTEM_ADMIN", "WH_ADMIN", "TENANT_ADMIN"}

\* CREATABLE_ROLES
Creatable(role) ==
    CASE role = "SYSTEM_ADMIN" -> {"WH_ADMIN", "TENANT_ADMIN"}
      [] role = "WH_ADMIN"     -> {"WH_STAFF", "WH_TRANSPORTER"}
      [] role = "TENANT_ADMIN" -> {"TENANT_STAFF"}
      [] OTHER -> {}

\* resolveScopeForNewUser, assertWarehouseExists, assertTenantExists
ScopeOf(c, role) ==
    LET kind == IF role \in WarehouseRoles THEN Sites ELSE Rows(company) IN
    IF user[c].role = "SYSTEM_ADMIN" THEN kind ELSE {user[c].place} \cap kind

\* userInCreatorScope
InScope(c, u) ==
    CASE user[c].role = "SYSTEM_ADMIN" -> TRUE
      [] user[c].role = "WH_ADMIN" ->
           user[u].place = user[c].place /\ user[u].role \in WarehouseRoles
      [] user[c].role = "TENANT_ADMIN" ->
           user[u].place = user[c].place /\ user[u].role \in TenantRoles
      [] OTHER -> c = u

\* assertUniqueWhAdminForWarehouse, assertUniqueTenantAdminForTenant: an admin
\* counts in any status.
\* Slip: only an admin who is ACTIVE counts.
NoActiveAdmin(place, except) ==
    ~ \E x \in Rows(user) \ {except} :
        user[x].place = place /\ user[x].role = AdminOf(place) /\ user[x].status = "ACTIVE"
NoOtherAdmin(place, except) ==
    ~ \E x \in Rows(user) \ {except} : user[x].place = place /\ user[x].role = AdminOf(place)

\* assertAdminDeactivationAllowed
MayRetire(u) ==
    user[u].role \in {"WH_ADMIN", "TENANT_ADMIN"} /\ user[u].place # None
        => contracts[user[u].place] # "open"

-------------------------------------------------------------------------------
(* Users.                                                                    *)

\* buildWelcomeEmailPromise: the mail carries a password link; it may be lost.
Welcomed(c, role) ==
    \/ user[c].role = "SYSTEM_ADMIN" /\ role \in {"WH_ADMIN", "TENANT_ADMIN"}
    \/ user[c].role = "WH_ADMIN" /\ role \in {"WH_STAFF", "WH_TRANSPORTER"}

\* normalizeCreatePayload
MayCreate(c, role, place) ==
    /\ role \in Creatable(user[c].role) /\ place \in ScopeOf(c, role)
    /\ role \in {"WH_ADMIN", "TENANT_ADMIN"} => NoOtherAdmin(place, None)

CreateUser(c, u, role, place, e, status, mailed) ==
    /\ Manager(c) /\ ~Exists(user, u) /\ MayCreate(c, role, place)
    /\ \A x \in Rows(user) : user[x].email # e          \* UNIQUE
    /\ user' = Insert(user, u, [role |-> role, status |-> status, place |-> place, email |-> e])
    /\ token' = IF mailed /\ Welcomed(c, role) THEN token \cup {u} ELSE token
    /\ UNCHANGED <<company, contracts, otp, wrong, password>>

\* applySystemAdminScopePatch: a user of a warehouse may be left without one, a
\* user of a company may not.
\* Slip: the place is not asked for its admin.
PatchPlaceFreely(c, u, place) ==
    \/ place = user[u].place
    \/ /\ user[c].role = "SYSTEM_ADMIN"
       /\ \/ user[u].role \in WarehouseRoles /\ place \in Sites \cup {None}
          \/ user[u].role \in TenantRoles /\ place \in Rows(company)
PatchPlace(c, u, place) ==
    \/ place = user[u].place
    \/ /\ user[c].role = "SYSTEM_ADMIN"
       /\ \/ user[u].role \in WarehouseRoles /\ place \in Sites \cup {None}
          \/ user[u].role \in TenantRoles /\ place \in Rows(company)
       /\ user[u].role \in {"WH_ADMIN", "TENANT_ADMIN"} /\ place # None => NoOtherAdmin(place, u)

\* updateUser
UpdateUser(c, u, status, place) ==
    /\ Manager(c) /\ Exists(user, u) /\ InScope(c, u)
    /\ PatchPlace(c, u, place)
    /\ status # "ACTIVE" => c # u
    /\ user[c].role # "SYSTEM_ADMIN" /\ status = "ACTIVE" => user[u].status # "BLOCKED"
    /\ status # "ACTIVE" /\ user[u].status = "ACTIVE" => MayRetire(u)
    /\ user' = UpdateById(user, u, [user[u] EXCEPT !.status = status, !.place = place])
    /\ UNCHANGED <<company, contracts, otp, wrong, token, password>>

-------------------------------------------------------------------------------
(* Tenant companies.                                                         *)

\* assertContactEmailNotRegisteredAsUser, assertContactEmailNotUsedByOtherTenant
NoUserHas(e)           == \A x \in Rows(user) : user[x].email # e
NoCompanyHas(e, except) == \A t \in Rows(company) \ {except} : company[t].email # e
\* UNIQUE (tax_code)
TaxFree(x, except) == x # None => \A t \in Rows(company) \ {except} : company[t].tax # x

\* normalizeCreatePayload, normalizeUpdatePayload
NewCompany(e, x)        == [email |-> e, tax |-> x]
PatchedCompany(t, e, x) == [email |-> IF e = None THEN company[t].email ELSE e, tax |-> x]

CreateTenantCompany(t, e, x) ==
    /\ ~Exists(company, t)
    /\ NoUserHas(e) /\ NoCompanyHas(e, None) /\ TaxFree(x, None)
    /\ company' = Insert(company, t, NewCompany(e, x))
    /\ UNCHANGED <<user, contracts, otp, wrong, token, password>>

\* resolveOrCreateGuestTenant: the company the address stands for, or a new one
GuestTenant(e) == {t \in Rows(company) : company[t].email = e}
\* Slip: a guest whose address is known gets a company of its own.
ResolveAlwaysNew(t, e, x) ==
    /\ ~Exists(company, t) /\ TaxFree(x, None) /\ NoUserHas(e)
    /\ company' = Insert(company, t, NewCompany(e, x))
    /\ UNCHANGED <<user, contracts, otp, wrong, token, password>>
ResolveOrCreateGuestTenant(t, e, x) ==
    /\ ~Exists(company, t)
    /\ GuestTenant(e) = {} /\ TaxFree(x, None) /\ NoUserHas(e)
    /\ company' = Insert(company, t, NewCompany(e, x))
    /\ UNCHANGED <<user, contracts, otp, wrong, token, password>>

UpdateTenantCompany(t, e, x) ==
    /\ Exists(company, t) /\ TaxFree(x, t)
    /\ e # None => NoUserHas(e) /\ NoCompanyHas(e, t)
    /\ company' = UpdateById(company, t, PatchedCompany(t, e, x))
    /\ UNCHANGED <<user, contracts, otp, wrong, token, password>>

\* Slip: the users of the company are not asked.
DeleteCompanyOfUsers(t) ==
    /\ Exists(company, t) /\ contracts[t] = "none"
    /\ company' = DeleteById(company, t)
    /\ UNCHANGED <<user, contracts, otp, wrong, token, password>>
\* The database keeps a company that users or contracts name.
DeleteTenantCompany(t) ==
    /\ Exists(company, t) /\ contracts[t] = "none" /\ \A u \in Rows(user) : user[u].place # t
    /\ company' = DeleteById(company, t)
    /\ UNCHANGED <<user, contracts, otp, wrong, token, password>>

-------------------------------------------------------------------------------
(* Passwords.                                                                *)

OwnerOf(e) == {u \in Rows(user) : user[u].email = e}

\* login: what the answer says
LoginAnswer(e, right) ==
    IF OwnerOf(e) = {} THEN IF GuestTenant(e) # {} THEN "NOT_PROVISIONED" ELSE "INVALID"
    ELSE LET u == CHOOSE u \in OwnerOf(e) : TRUE IN
         IF user[u].status # "ACTIVE" THEN "INACTIVE" ELSE IF right THEN "OK" ELSE "INVALID"

\* requestForgotPassword, saveOtp: a new code takes the place of the old one,
\* though the mail may fail.
RequestForgotPassword(e) ==
    /\ \E u \in OwnerOf(e) : user[u].status = "ACTIVE"
    /\ Cardinality({x \in Emails \ {e} : otp[x] # None \/ wrong[x] # 0}) < MaxCodes
    /\ otp' = [otp EXCEPT ![e] = [tries |-> OtpTries, live |-> TRUE]]
    /\ wrong' = [wrong EXCEPT ![e] = 0]
    /\ UNCHANGED <<user, company, contracts, token, password>>

\* verifyOtp: what a wrong guess leaves of a code.
LessOneTry(row) == IF row.live /\ row.tries > 1 THEN [row EXCEPT !.tries = @ - 1] ELSE None
OtpWrong(e) ==
    /\ otp[e] # None
    /\ otp' = [otp EXCEPT ![e] = LessOneTry(@)]
    /\ wrong' = [wrong EXCEPT ![e] = IF otp[e].live THEN @ + 1 ELSE @]
    /\ UNCHANGED <<user, company, contracts, token, password>>
\* Slip: the code stays after it was used.
OtpRightKept(e) ==
    /\ otp[e] # None /\ otp[e].live
    /\ otp' = otp
    /\ \E u \in OwnerOf(e) : IF user[u].status = "ACTIVE" THEN password' = e
                             ELSE UNCHANGED password
    /\ UNCHANGED <<user, company, contracts, wrong, token>>
\* confirmForgotPassword: the code is spent before the account is looked at.
OtpRight(e) ==
    /\ otp[e] # None
    /\ otp' = [otp EXCEPT ![e] = None]
    /\ \E u \in OwnerOf(e) : IF otp[e].live /\ user[u].status = "ACTIVE" THEN password' = e
                             ELSE UNCHANGED password
    /\ UNCHANGED <<user, company, contracts, wrong, token>>

\* The ten minutes are over; the server restarts (clearing the Map).
OtpExpires(e) ==
    /\ otp[e] # None /\ otp[e].live
    /\ otp' = [otp EXCEPT ![e].live = FALSE]
    /\ UNCHANGED <<user, company, contracts, wrong, token, password>>
Restart ==
    /\ otp' = [e \in Emails |-> None]
    /\ UNCHANGED <<user, company, contracts, wrong, token, password>>

\* resetPasswordWithToken: the link works until it expires.
ResetPasswordWithToken(u) ==
    /\ u \in token /\ Exists(user, u) /\ user[u].status = "ACTIVE"
    /\ password' = None
    /\ UNCHANGED <<user, company, contracts, otp, wrong, token>>
TokenExpires(u) ==
    /\ u \in token /\ token' = token \ {u}
    /\ UNCHANGED <<user, company, contracts, otp, wrong, password>>

ChangePassword(u) ==
    /\ Authenticated(u)
    /\ password' = None
    /\ UNCHANGED <<user, company, contracts, otp, wrong, token>>

\* Contracts come and go (see Leasing).
Contract(p) ==
    /\ contracts' = [contracts EXCEPT ![p] = IF @ = "open" THEN "over" ELSE "open"]
    /\ UNCHANGED <<user, company, otp, wrong, token, password>>

-------------------------------------------------------------------------------
AccountsInit ==
    /\ \E e \in Emails :
          user = [u \in Users |-> IF u = Root
                  THEN [role |-> "SYSTEM_ADMIN", status |-> "ACTIVE", place |-> None, email |-> e]
                  ELSE None]
    /\ company = [t \in Tenants |-> None]
    /\ contracts = [p \in Sites \cup Tenants |-> "none"]
    /\ otp = [e \in Emails |-> None] /\ wrong = [e \in Emails |-> 0]
    /\ token = {} /\ password = None

UserCalls ==
    \E c \in Users, u \in Users :
        \/ \E role \in Roles, place \in Places, e \in Emails, status \in Statuses, mailed \in BOOLEAN :
              CreateUser(c, u, role, place, e, status, mailed)
        \/ \E status \in Statuses, place \in Places \cup {None} : UpdateUser(c, u, status, place)
TenantCalls ==
    \E t \in Tenants :
        \/ \E e \in Emails, x \in Taxes \cup {None} :
              CreateTenantCompany(t, e, x) \/ ResolveOrCreateGuestTenant(t, e, x)
        \/ \E e \in Emails \cup {None}, x \in Taxes \cup {None} : UpdateTenantCompany(t, e, x)
        \/ DeleteTenantCompany(t)
PasswordCalls ==
    \/ \E e \in Emails : RequestForgotPassword(e) \/ OtpWrong(e) \/ OtpRight(e)
    \/ \E u \in Users : ResetPasswordWithToken(u) \/ ChangePassword(u)
Surroundings ==
    \/ \E e \in Emails : OtpExpires(e)
    \/ \E u \in Users : TokenExpires(u)
    \/ \E p \in Places : Contract(p)
    \/ Restart

AccountsNext == UserCalls \/ TenantCalls \/ PasswordCalls \/ Surroundings

AccountsSpec == AccountsInit /\ [][AccountsNext]_accounts

-------------------------------------------------------------------------------
\* The rows are the tables', and a user of a company always has it.
AccountsTypeOK ==
    /\ user \in [Users -> UserRow \cup {None}]
    /\ company \in [Tenants -> CompanyRow \cup {None}]
    /\ \A u \in Rows(user) : user[u].role \in TenantRoles => user[u].place \in Rows(company)

\* A warehouse has at most one WH_ADMIN and a company one TENANT_ADMIN, however
\* users are made and moved (user.service.js, WH_ADMIN_EXISTS).
OneAdminPerPlace ==
    \A u, x \in Rows(user) :
        /\ user[u].place # None /\ user[u].place = user[x].place
        /\ user[u].role = AdminOf(user[u].place) /\ user[x].role = user[u].role
        => u = x

\* Companies are told apart by their address, and a guest known by address is
\* the company it was before (resolveOrCreateGuestTenant).
AddressIsCompany ==
    \A e \in Emails : Cardinality(GuestTenant(e)) <= 1

\* A code takes at most five wrong guesses and then is gone (otpStore.js); a
\* password set by a code spends that code and opens the account (login).
OtpIsSpent ==
    [][\A e \in Emails :
          /\ wrong'[e] <= OtpTries
          /\ wrong'[e] = OtpTries /\ wrong[e] # wrong'[e] => otp'[e] = None
          /\ password' = e /\ password # e => otp[e] # None /\ otp[e].live /\ otp'[e] = None
                                             /\ LoginAnswer(e, TRUE)' = "OK"]_accounts

\* Whom a place or an address stands for is never in doubt.
AccountsAreDistinct == AccountsTypeOK /\ OneAdminPerPlace /\ AddressIsCompany
================================================================================
