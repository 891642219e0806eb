----------------------------- MODULE Membership -----------------------------
(***************************************************************************)
(* Who belongs to an organization and who owns it: the team, invitation    *)
(* and account routes of services/api, the auto-linking of authService.ts, *)
(* the organization webhook of services/github-app, and the repositories   *)
(* userOrganization and invitation they all call.                          *)
(*                                                                         *)
(* One action is one SQL statement, transaction or Redis command of one    *)
(* call; between two of them every other call may run.                     *)
(***************************************************************************)
EXTENDS Naturals, FiniteSets

CONSTANTS
  Users,
  Calls,      \* requests, logins and webhooks handled at the same time
  MaxTeam,    \* the plan's max_team_members
  MaxBegun,   \* bound on the calls begun
  MaxFaults   \* bound on failed commands and crashed calls

ASSUME MembershipAssumption ==
  IsFiniteSet(Users) /\ MaxTeam \in Nat /\ MaxBegun \in Nat /\ MaxFaults \in Nat

VARIABLES
  role,        \* user_organizations: the role of each user
  accounts,    \* the users table
  tenant,      \* whether the tenant's row exists
  pending,     \* team_invitations: the users with a pending one
  revoked,     \* users with a membership-revoked flag in Redis
  call,        \* each call: where it is and the locals of its handler
  begun, faults

rows == <<role, accounts, tenant, pending>>
vars == <<rows, revoked, call, begun, faults>>

\* staff: every role below owner.
Roles == {"none", "staff", "owner"}

\* op: what the call is for; at: the await it is in; to: the role it will write; senior:
\* whether the actor's token says owner; found: the role it read; seen: the rows it
\* counted; denied: whether the plan's limit was found to be reached.
CallState == [op : {"none", "team", "event", "login", "repair", "accept", "invite",
                    "delete"},
              at : {"idle", "find", "owners", "write", "flag", "look", "consume", "limit",
                    "add", "clear", "check", "insert", "orgs", "members", "erase", "drop"},
              user : Users \cup {"none"},
              to : Roles,
              senior : BOOLEAN,
              found : Roles,
              seen : SUBSET Users,
              denied : BOOLEAN]

Idle == [op |-> "none", at |-> "idle", user |-> "none", to |-> "none", senior |-> FALSE,
         found |-> "none", seen |-> {}, denied |-> FALSE]

Members == {u \in Users : role[u] # "none"}
Owners  == {u \in Users : role[u] = "owner"}

Init ==
  /\ role \in [Users -> Roles] /\ Cardinality(Members) \in 1..MaxTeam
  /\ accounts = Users /\ tenant = TRUE
  /\ pending = {}
  /\ revoked = {} /\ begun = 0 /\ faults = 0
  /\ call = [c \in Calls |-> Idle]

Step(c, next) == call' = [call EXCEPT ![c] = next]
Goto(c, at)   == Step(c, [call[c] EXCEPT !.at = at])
Done(c)       == Step(c, Idle)
Then(c, at)   == Step(c, [Idle EXCEPT !.op = call[c].op, !.at = at, !.user = call[c].user])
Fault         == faults < MaxFaults /\ faults' = faults + 1

Begin(c, op, at, u) ==
  /\ call[c].at = "idle" /\ u \in accounts
  /\ begun < MaxBegun /\ begun' = begun + 1
  /\ \/ op = "team" /\ \E a \in Members \ {u}, r \in Roles :
          Step(c, [Idle EXCEPT !.op = op, !.at = at, !.user = u, !.to = r,
                               !.senior = (role[a] = "owner")])
     \/ op \in {"login", "accept"} /\ \E r \in {"staff", "owner"} :
          Step(c, [Idle EXCEPT !.op = op, !.at = at, !.user = u, !.to = r])
     \/ op \in {"event", "invite", "delete"} /\
          Step(c, [Idle EXCEPT !.op = op, !.at = at, !.user = u])
  /\ UNCHANGED <<rows, revoked, faults>>

-----------------------------------------------------------------------------
(* handleChangeRole, handleRemoveMember, handleOrganizationEvent and
   reconcileStaleMemberships *)

\* The target's role; the routes refuse a stranger and an owner their actor does not
\* outrank, and an owner is not demoted or removed before the owners are counted.
Find(c) ==
  LET r == role[call[c].user]
  IN  /\ call[c].at = "find"
      /\ IF call[c].op = "team" /\ (r = "none" \/ (r = "owner" /\ ~call[c].senior))
         THEN Done(c)
         ELSE Step(c, [call[c] EXCEPT !.found = r,
                 !.at = IF r = "owner" /\ call[c].to # "owner" THEN "owners" ELSE "write"])
      /\ UNCHANGED <<rows, revoked, begun, faults>>

\* Mutant: refuses when there is no owner, not when there is only one.
CountNoOwner(c) ==
  /\ call[c].at = "owners"
  /\ IF Cardinality(Owners) <= 0 THEN Done(c)
     ELSE Step(c, [call[c] EXCEPT !.at = "write", !.seen = Owners])
  /\ UNCHANGED <<rows, revoked, begun, faults>>

\* countOwnersByTenant.
CountOwners(c) ==
  /\ call[c].at = "owners"
  /\ IF Cardinality(Owners) <= 1 THEN Done(c)
     ELSE Step(c, [call[c] EXCEPT !.at = "write", !.seen = Owners])
  /\ UNCHANGED <<rows, revoked, begun, faults>>

\* updateMemberRole, or the transaction of removeMemberFromTenant.
Write(c) ==
  LET u == call[c].user
  IN  /\ call[c].at = "write"
      /\ IF role[u] = "none" THEN Done(c) /\ UNCHANGED role
         ELSE /\ role' = [role EXCEPT ![u] = call[c].to]
              /\ IF call[c].to = "none" THEN Then(c, "flag") ELSE Done(c)
      /\ UNCHANGED <<accounts, tenant, pending, revoked, begun, faults>>

\* setMembershipRevokedFlag, best effort.
Flag(c) ==
  /\ call[c].at = "flag"
  /\ \/ revoked' = revoked \cup {call[c].user} /\ UNCHANGED faults
     \/ Fault /\ UNCHANGED revoked
  /\ Done(c)
  /\ UNCHANGED <<rows, begun>>

-----------------------------------------------------------------------------
(* processOrgMembership of a login, and the repair that follows it *)

\* findUserOrgRole: a member is not counted against the limit again.
Look(c) ==
  LET r == role[call[c].user]
  IN  /\ call[c].at = "look"
      /\ Step(c, [call[c] EXCEPT !.found = r, !.at = IF r = "none" THEN "limit" ELSE "add"])
      /\ UNCHANGED <<rows, revoked, begun, faults>>

\* Mutant: <= for <, a full team has room for one more.
LimitInclusive(c) ==
  /\ call[c].at = "limit"
  /\ Step(c, IF Cardinality(Members) <= MaxTeam
             THEN [call[c] EXCEPT !.seen = Members,
                     !.at = IF call[c].op = "invite" THEN "insert" ELSE "add"]
             ELSE IF call[c].op = "login"
                  THEN [call[c] EXCEPT !.denied = TRUE, !.at = "check"]
                  ELSE Idle)
  /\ UNCHANGED <<rows, revoked, begun, faults>>

\* checkPlanLimit. A full team ends an invitation or its acceptance, and a login goes on
\* without the membership; a check that fails stops all but the login.
Limit(c) ==
  /\ call[c].at = "limit"
  /\ \/ /\ Step(c, IF Cardinality(Members) < MaxTeam
                   THEN [call[c] EXCEPT !.seen = Members,
                           !.at = IF call[c].op = "invite" THEN "insert" ELSE "add"]
                   ELSE IF call[c].op = "login"
                        THEN [call[c] EXCEPT !.denied = TRUE, !.at = "check"]
                        ELSE Idle)
        /\ UNCHANGED faults
     \/ /\ Fault
        /\ IF call[c].op = "login" THEN Goto(c, "add") ELSE Done(c)
  /\ UNCHANGED <<rows, revoked, begun>>

Added(c) == IF call[c].op = "login" THEN Then(c, "check") ELSE Done(c)

\* addUserOrganization: an upsert that leaves an owner an owner and makes none of a
\* member. A user or tenant that is gone violates a foreign key.
Add(c) ==
  LET u == call[c].user
  IN  /\ call[c].at = "add"
      /\ IF ~tenant \/ u \notin accounts THEN Done(c) /\ UNCHANGED role
         ELSE IF role[u] = "none"
              THEN role' = [role EXCEPT ![u] = call[c].to] /\ Added(c)
              ELSE Then(c, "clear") /\ UNCHANGED role
      /\ UNCHANGED <<accounts, tenant, pending, revoked, begun, faults>>

\* clearMembershipRevokedFlag, which only an upsert of an existing row calls.
Clear(c) ==
  /\ call[c].at = "clear"
  /\ \/ revoked' = revoked \ {call[c].user} /\ UNCHANGED faults
     \/ Fault /\ UNCHANGED revoked
  /\ Added(c)
  /\ UNCHANGED <<rows, begun>>

\* autoLinkOrganizations: a tenant of the login without a membership is "repaired".
Check(c) ==
  /\ call[c].at = "check"
  /\ IF call[c].user \in Members \/ ~tenant THEN Done(c)
     ELSE Step(c, [call[c] EXCEPT !.op = "repair", !.at = "add", !.to = "staff"])
  /\ UNCHANGED <<rows, revoked, begun, faults>>

-----------------------------------------------------------------------------
(* Invitations *)

\* createInvitation: one pending invitation per user.
Insert(c) ==
  LET u == call[c].user
  IN  /\ call[c].at = "insert"
      /\ pending' = IF tenant THEN pending \cup {u} ELSE pending
      /\ Done(c)
      /\ UNCHANGED <<role, accounts, tenant, revoked, begun, faults>>

\* acceptInvitation: the row is accepted first, the plan's limit is checked after.
Consume(c) ==
  LET u == call[c].user
  IN  /\ call[c].at = "consume"
      /\ IF u \in pending THEN Goto(c, "limit") ELSE Done(c)
      /\ pending' = pending \ {u}
      /\ UNCHANGED <<role, accounts, tenant, revoked, begun, faults>>

\* Revoked, declined or expired.
Close(u) ==
  /\ u \in pending
  /\ pending' = pending \ {u}
  /\ UNCHANGED <<role, accounts, tenant, revoked, call, begun, faults>>

-----------------------------------------------------------------------------
(* deleteAccount *)

Orgs(c) ==
  LET r == role[call[c].user]
  IN  /\ call[c].at = "orgs"
      /\ Step(c, [call[c] EXCEPT !.found = r,
                                 !.at = IF r = "none" THEN "erase" ELSE "members"])
      /\ UNCHANGED <<rows, revoked, begun, faults>>

CountMembers(c) ==
  /\ call[c].at = "members"
  /\ Step(c, [call[c] EXCEPT !.at = "erase", !.seen = Members])
  /\ UNCHANGED <<rows, revoked, begun, faults>>

\* Mutant: a team of two counts as one that ends with the account.
LastOfTwo(c) == call[c].found # "none" /\ Cardinality(call[c].seen) <= 2

LastMember(c) == call[c].found # "none" /\ Cardinality(call[c].seen) <= 1

\* The transaction. For a team that had other members an owner's rows are locked and
\* counted by SELECT COUNT(*) ... FOR UPDATE, which PostgreSQL rejects.
Erase(c) ==
  LET u == call[c].user
      shared == call[c].found # "none" /\ ~LastMember(c)
  IN  /\ call[c].at = "erase"
      /\ IF u \notin accounts \/ (shared /\ role[u] = "owner")
         THEN Done(c) /\ UNCHANGED <<role, accounts>>
         ELSE /\ role' = [role EXCEPT ![u] = "none"]
              /\ accounts' = accounts \ {u}
              /\ IF LastMember(c) THEN Goto(c, "drop") ELSE Done(c)
      /\ UNCHANGED <<tenant, pending, revoked, begun, faults>>

\* Mutant: the tenant's row alone is deleted.
DropRowOnly(c) ==
  /\ call[c].at = "drop"
  /\ tenant' = FALSE
  /\ Done(c)
  /\ UNCHANGED <<role, accounts, pending, revoked, begun, faults>>

\* hardDeleteTenant, which cascades to the memberships and the invitations.
Drop(c) ==
  /\ call[c].at = "drop"
  /\ tenant' = FALSE
  /\ role' = [u \in Users |-> "none"]
  /\ pending' = {}
  /\ Done(c)
  /\ UNCHANGED <<accounts, revoked, begun, faults>>

-----------------------------------------------------------------------------

\* The process stops, or a statement of the call rejects.
Abort(c) ==
  /\ call[c].at # "idle"
  /\ Fault /\ Done(c)
  /\ UNCHANGED <<rows, revoked, begun>>

\* The flag lives as long as an access token.
Expire(u) ==
  /\ u \in revoked
  /\ revoked' = revoked \ {u}
  /\ UNCHANGED <<rows, call, begun, faults>>

Proceed(c) ==
  \/ Find(c) \/ CountOwners(c) \/ Write(c) \/ Flag(c)
  \/ Look(c) \/ Limit(c) \/ Add(c) \/ Clear(c) \/ Check(c)
  \/ Insert(c) \/ Consume(c)
  \/ Orgs(c) \/ CountMembers(c) \/ Erase(c) \/ Drop(c)

Next ==
  \/ \E c \in Calls : Proceed(c) \/ Abort(c)
  \/ \E c \in Calls, u \in Users :
       \/ Begin(c, "team", "find", u) \/ Begin(c, "event", "find", u)
       \/ Begin(c, "login", "look", u) \/ Begin(c, "accept", "consume", u)
       \/ Begin(c, "invite", "limit", u) \/ Begin(c, "delete", "orgs", u)
  \/ \E u \in Users : Close(u) \/ Expire(u)

Spec == Init /\ [][Next]_vars

-----------------------------------------------------------------------------
(* Properties *)

\* Types of the rows and of the calls; a deleted user has no membership.
TypeOK ==
  /\ role \in [Users -> Roles] /\ accounts \subseteq Users /\ tenant \in BOOLEAN
  /\ pending \subseteq Users /\ revoked \subseteq Users /\ call \in [Calls -> CallState]
  /\ begun \in 0..MaxBegun /\ faults \in 0..MaxFaults
  /\ Members \subseteq accounts
  /\ ~tenant => Members = {}

\* The last owner of a team that has members goes in this step.
Orphans == Owners # {} /\ Owners' = {} /\ Members' # {}

\* The call is about to write what an outdated read allows: it counted more owners than
\* there still are, it had found the target below owner, or it had counted fewer members
\* than there are.
Outdated(c) ==
  \/ /\ call[c].at = "write"
     /\ call[c].found # "owner" \/ Cardinality(call[c].seen) > Cardinality(Owners)
  \/ call[c].at = "erase" /\ (call[c].found = "none" \/ ~(Members \subseteq call[c].seen))

\* A team loses its last owner while it has members only to a call whose read is outdated:
\* calls that do not overlap never leave a team without an owner.
LastOwnerKept == [][Orphans => \E c \in Calls : call'[c] # call[c] /\ Outdated(c)]_vars

\* A team grows beyond its plan only through a login that repairs, or a call that counted
\* the team before it grew, failed to count it, or had found the user in it.
TeamWithinPlan ==
  [][Cardinality(Members') > Cardinality(Members) /\ Cardinality(Members') > MaxTeam =>
       \E c \in Calls : /\ call[c].at = "add" /\ call'[c] # call[c]
                        /\ \/ call[c].op = "repair" \/ call[c].found # "none"
                           \/ Cardinality(call[c].seen) < Cardinality(Members)]_vars

\* Deleting an account takes the organization away only from users who joined after its
\* members were counted, or, when the user was removed from it before they were counted,
\* from the one member that was counted in his place.
TakesOnlyNewcomers ==
  [][tenant /\ ~tenant' =>
       \E c \in Calls : /\ call[c].at = "drop" /\ call'[c] # call[c]
                        /\ \/ Members \cap call[c].seen = {}
                           \/ call[c].user \notin call[c].seen]_vars

\* A login that finds the team full adds no membership.
SkippedWhenFull ==
  [][\A c \in Calls : call[c].denied /\ call'[c] # call[c] =>
       role'[call[c].user] = role[call[c].user]]_vars
=============================================================================
