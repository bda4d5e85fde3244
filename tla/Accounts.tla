------------------------------ MODULE Accounts ------------------------------
(***************************************************************************)
(* The people of the tenants: a tenant is born with its administrator      *)
(* (auth/routes.ts register, platform/tenants.ts), and the platform's      *)
(* operators keep its staff (platform/users.ts), with the rule that the    *)
(* last administrator is neither demoted nor deleted.  Each query is a     *)
(* step, and the bcrypt of a password leaves time between them.            *)
(*                                                                         *)
(* Drivers and portal users are accounts of their own and not staff.       *)
(***************************************************************************)
EXTENDS Naturals, FiniteSets

CONSTANTS
    Tenants, Users, \* the rows there may be
    Emails,
    Operators        \* the requests being served

VARIABLES
    tenants,  \* the tenants there are
    user,     \* the rows of User: whose, with which email and role
    req,      \* what each request is doing
    cut,      \* history: the tenants whose provisioning did not end
    raced     \* history: the tenants where two changes of staff crossed

peopleVars == <<tenants, user, req, cut, raced>>

NoUser == [role |-> "none"]
Gone == [role |-> "gone"]    \* an id is not used again
Idle == [step |-> "idle"]

Exists(u) == user[u] \notin {NoUser, Gone}
Taken(e) == \E u \in Users : Exists(u) /\ user[u].email = e
Admins(t) == {u \in Users : user[u].role = "ADMIN" /\ user[u].tenant = t}

PeopleInit ==
    /\ tenants = {}
    /\ user = [u \in Users |-> NoUser]
    /\ req = [r \in Operators |-> Idle]
    /\ cut = {} /\ raced = {}

Goto(r, job) == req' = [req EXCEPT ![r] = job]

\* The email is unique in the table: the insert throws when it is taken by then.
InsertUser(t, e, role) ==
    /\ ~Taken(e)
    /\ \E u \in Users : /\ user[u] = NoUser
                        /\ user' = [user EXCEPT ![u] = [tenant |-> t, email |-> e, role |-> role]]

-----------------------------------------------------------------------------
\* POST /auth/register and POST /platform/tenants: the email is looked up (409),
\* the tenant is created and then its administrator, not in one transaction.
ProvisionRead(r) ==
    /\ req[r] = Idle
    /\ \E e \in Emails : ~Taken(e) /\ Goto(r, [step |-> "tenant", email |-> e])
    /\ UNCHANGED <<tenants, user, cut, raced>>

ProvisionTenant(r) ==
    /\ req[r].step = "tenant"
    /\ \E t \in Tenants \ tenants :
         /\ tenants' = tenants \cup {t}
         /\ Goto(r, [step |-> "admin", tenant |-> t, email |-> req[r].email])
    /\ UNCHANGED <<user, cut, raced>>

ProvisionAdmin(r) ==
    /\ req[r].step = "admin"
    /\ InsertUser(req[r].tenant, req[r].email, "ADMIN")
    /\ Goto(r, Idle)
    /\ UNCHANGED <<tenants, cut, raced>>

-----------------------------------------------------------------------------
\* POST /platform/tenants/:id/users
CreateRead(r) ==
    /\ req[r] = Idle
    /\ \E t \in tenants, e \in Emails, role \in {"ADMIN", "DISPATCHER"} :
         /\ ~Taken(e)
         /\ Goto(r, [step |-> "create", tenant |-> t, email |-> e, role |-> role])
    /\ UNCHANGED <<tenants, user, cut, raced>>

Create(r) ==
    /\ req[r].step = "create"
    /\ InsertUser(req[r].tenant, req[r].email, req[r].role)
    /\ Goto(r, Idle)
    /\ UNCHANGED <<tenants, cut, raced>>

\* The requests that are changing somebody of t.
Changing(t) == {q \in Operators : /\ req[q].step \in {"check", "write"}
                                 /\ req[q].tenant = t}

\* PATCH and DELETE /platform/tenants/:id/users/:userId: the user is read, and
\* if it may be the last administrator, the administrators are counted.
ChangeRead(r) ==
    /\ req[r] = Idle
    /\ \E u \in Users, to \in {"ADMIN", "DISPATCHER", "gone"} :
         /\ Exists(u)
         /\ LET demotes == to = "DISPATCHER" /\ user[u].role = "ADMIN"
                t == user[u].tenant
            IN /\ Goto(r, [step |-> IF to = "gone" \/ demotes THEN "check" ELSE "write",
                           tenant |-> t, user |-> u, to |-> to])
               /\ raced' = IF Changing(t) = {} THEN raced ELSE raced \cup {t}
    /\ UNCHANGED <<tenants, user, cut>>

\* isLastAdmin
LastOfStaff(t, u) == {x \in Users : Exists(x) /\ user[x].tenant = t} = {u}

IsLastAdmin(t, u) == Admins(t) = {u}

ChangeCheck(r) ==
    /\ req[r].step = "check"
    /\ Goto(r, IF IsLastAdmin(req[r].tenant, req[r].user) THEN Idle
               ELSE [req[r] EXCEPT !.step = "write"])
    /\ UNCHANGED <<tenants, user, cut, raced>>

\* By id alone: it throws when the user is gone.
Change(r) ==
    /\ req[r].step = "write"
    /\ LET u == req[r].user
       IN /\ Exists(u)
          /\ user' = IF req[r].to = "gone" THEN [user EXCEPT ![u] = Gone]
                     ELSE [user EXCEPT ![u].role = req[r].to]
    /\ Goto(r, Idle)
    /\ UNCHANGED <<tenants, cut, raced>>

\* A query throws or the process restarts.
Abort(r) ==
    /\ req[r] # Idle
    /\ cut' = IF req[r].step = "admin" THEN cut \cup {req[r].tenant} ELSE cut
    /\ Goto(r, Idle)
    /\ UNCHANGED <<tenants, user, raced>>

PeopleNext ==
    \E r \in Operators :
        \/ ProvisionRead(r) \/ ProvisionTenant(r) \/ ProvisionAdmin(r)
        \/ CreateRead(r) \/ Create(r)
        \/ ChangeRead(r) \/ ChangeCheck(r) \/ Change(r)
        \/ Abort(r)

PeopleSpec == PeopleInit /\ [][PeopleNext]_peopleVars

-----------------------------------------------------------------------------
\* Properties.

\* "Is this the last ADMIN of the tenant?": a tenant whose provisioning ended
\* always has somebody to administer it, as long as no two changes of its staff
\* crossed.
AdminStays ==
    \A t \in tenants \ (cut \cup raced) :
        (\A r \in Operators : req[r].step = "admin" => req[r].tenant # t) => Admins(t) # {}
=============================================================================
