-------------------------- MODULE MembershipProofs --------------------------
(* Theorems about Membership, for every number of users, calls and faults. *)
EXTENDS Membership, FiniteSetTheorems, TLAPS

USE MembershipAssumption

(***************************************************************************)
(* The invariant. What a call carries from an earlier read is typed, a     *)
(* call in progress has a user, and a call that is about to demote or      *)
(* remove one it found to be an owner has seen more than one owner.        *)
(***************************************************************************)
CallOK(s) ==
  /\ s \in CallState
  /\ s.at # "idle" => s.user \in Users
  /\ s.at = "write" /\ s.found = "owner" /\ s.to # "owner" => Cardinality(s.seen) > 1

CallsOK == call \in [Calls -> CallState] /\ \A c \in Calls : CallOK(call[c])

RowsOK ==
  /\ role \in [Users -> Roles] /\ accounts \subseteq Users /\ tenant \in BOOLEAN
  /\ pending \subseteq Users /\ revoked \subseteq Users
  /\ Members \subseteq accounts
  /\ ~tenant => Members = {}

CountsOK == begun \in 0..MaxBegun /\ faults \in 0..MaxFaults

IInv == CallsOK /\ RowsOK /\ CountsOK

(* An idle call carries nothing. *)
LEMMA IdleOK == CallOK(Idle)
BY DEF CallOK, Idle, CallState, Roles

(* A call's step keeps every call's locals if it keeps its own. *)
LEMMA StepOK ==
  ASSUME CallsOK, NEW c \in Calls, NEW next, CallOK(next), Step(c, next)
  PROVE  CallsOK'
BY DEF CallsOK, CallOK, Step

(* A call that goes on keeps what it read, *)
LEMMA GotoOK ==
  ASSUME CallsOK, NEW c \in Calls,
         NEW at \in {"look", "consume", "limit", "add", "clear", "drop"},
         call[c].at # "idle", Goto(c, at)
  PROVE  CallsOK'
<1>1. CallOK([call[c] EXCEPT !.at = at])
  BY DEF CallsOK, CallOK, CallState
<1> QED BY <1>1, StepOK DEF Goto

(* one that ends forgets it, *)
LEMMA DoneOK ==
  ASSUME CallsOK, NEW c \in Calls, Done(c)
  PROVE  CallsOK'
BY IdleOK, StepOK DEF Done

(* and so does one that goes on to what follows a write. *)
LEMMA ThenOK ==
  ASSUME CallsOK, NEW c \in Calls, NEW at \in {"flag", "clear", "check"},
         call[c].at # "idle", Then(c, at)
  PROVE  CallsOK'
<1>1. CallOK([Idle EXCEPT !.op = call[c].op, !.at = at, !.user = call[c].user])
  BY DEF CallsOK, CallOK, CallState, Idle, Roles
<1> QED BY <1>1, StepOK DEF Then

(* Failed commands stay within their bound. *)
LEMMA FaultOK ==
  ASSUME CountsOK, begun' = begun, Fault
  PROVE  CountsOK'
BY DEF CountsOK, Fault

(* Rows that are left alone stay as they should be. *)
LEMMA RowsStay ==
  ASSUME RowsOK, UNCHANGED rows, revoked' \subseteq Users
  PROVE  RowsOK'
BY DEF RowsOK, rows, Members

(* A finite team is counted by a number. *)
LEMMA TeamsAreFinite ==
  ASSUME NEW S \in SUBSET Users
  PROVE  IsFiniteSet(S) /\ Cardinality(S) \in Nat
BY FS_Subset, FS_CardinalityType

(***************************************************************************)
(* Each action keeps the invariant.                                        *)
(***************************************************************************)
LEMMA InitInvariant == Init => IInv
<1> SUFFICES ASSUME Init PROVE IInv OBVIOUS
<1>1. CallsOK BY IdleOK DEF Init, CallsOK, CallOK
<1>2. RowsOK BY DEF Init, RowsOK, Members
<1>3. CountsOK BY DEF Init, CountsOK
<1> QED BY <1>1, <1>2, <1>3 DEF IInv

(* A request begins with nothing read. *)
LEMMA BeginInv ==
  ASSUME IInv, NEW c \in Calls, NEW u \in Users,
         NEW op \in {"team", "event", "login", "accept", "invite", "delete"},
         NEW at \in {"find", "look", "consume", "limit", "orgs"}, Begin(c, op, at, u)
  PROVE  IInv'
<1>1. ASSUME op = "team" PROVE CallsOK'
  <2>1. PICK a \in Members \ {u}, r \in Roles :
          Step(c, [Idle EXCEPT !.op = op, !.at = at, !.user = u, !.to = r,
                               !.senior = (role[a] = "owner")])
    BY <1>1 DEF Begin
  <2> DEFINE b == (role[a] = "owner")
  <2>2. b \in BOOLEAN OBVIOUS
  <2>3. Step(c, [Idle EXCEPT !.op = op, !.at = at, !.user = u, !.to = r, !.senior = b])
    BY <2>1
  <2> HIDE DEF b
  <2>4. CallOK([Idle EXCEPT !.op = op, !.at = at, !.user = u, !.to = r, !.senior = b])
    BY <1>1, <2>2 DEF CallOK, CallState, Idle, Roles
  <2> QED BY <2>3, <2>4, StepOK DEF IInv
<1>2. ASSUME op \in {"login", "accept"} PROVE CallsOK'
  <2>1. PICK r \in {"staff", "owner"} :
          Step(c, [Idle EXCEPT !.op = op, !.at = at, !.user = u, !.to = r])
    BY <1>2 DEF Begin
  <2>2. CallOK([Idle EXCEPT !.op = op, !.at = at, !.user = u, !.to = r])
    BY <1>2 DEF CallOK, CallState, Idle, Roles
  <2> QED BY <2>1, <2>2, StepOK DEF IInv
<1>3. ASSUME op \in {"event", "invite", "delete"} PROVE CallsOK'
  <2>1. Step(c, [Idle EXCEPT !.op = op, !.at = at, !.user = u])
    BY <1>3 DEF Begin
  <2>2. CallOK([Idle EXCEPT !.op = op, !.at = at, !.user = u])
    BY <1>3 DEF CallOK, CallState, Idle, Roles
  <2> QED BY <2>1, <2>2, StepOK DEF IInv
<1>4. CallsOK' BY <1>1, <1>2, <1>3
<1>5. RowsOK' BY RowsStay DEF IInv, Begin, RowsOK
<1>6. CountsOK'
  <2>1. begun < MaxBegun /\ begun' = begun + 1 /\ faults' = faults
    BY DEF Begin
  <2> QED BY <2>1, MembershipAssumption DEF IInv, CountsOK
<1> QED BY <1>4, <1>5, <1>6 DEF IInv

(* A call goes to the write of an owner it demotes only by way of the count, *)
LEMMA FindInv ==
  ASSUME IInv, NEW c \in Calls, Find(c)
  PROVE  IInv'
<1> DEFINE r == role[call[c].user]
           at == IF r = "owner" /\ call[c].to # "owner" THEN "owners" ELSE "write"
<1>1. r \in Roles /\ at \in {"owners", "write"}
      /\ (at = "write" /\ r = "owner" => call[c].to = "owner")
  BY DEF IInv, CallsOK, CallOK, RowsOK, Find
<1>2. Done(c) \/ Step(c, [call[c] EXCEPT !.found = r, !.at = at])
  BY DEF Find
<1> HIDE DEF r, at
<1>3. CallOK([call[c] EXCEPT !.found = r, !.at = at])
  <2>1. call[c] \in CallState /\ call[c].user \in Users
    BY DEF IInv, CallsOK, CallOK, Find
  <2> QED BY <1>1, <2>1 DEF CallOK, CallState
<1>4. CallsOK' BY <1>2, <1>3, DoneOK, StepOK DEF IInv
<1>5. RowsOK' BY RowsStay DEF IInv, Find, RowsOK
<1>6. CountsOK' BY DEF IInv, CountsOK, Find
<1> QED BY <1>4, <1>5, <1>6 DEF IInv

(* and from the count only with more than one owner. *)
LEMMA CountOwnersInv ==
  ASSUME IInv, NEW c \in Calls, CountOwners(c)
  PROVE  IInv'
<1>1. Owners \in SUBSET Users /\ Cardinality(Owners) \in Nat
  BY TeamsAreFinite DEF Owners
<1>2. call[c] \in CallState /\ call[c].user \in Users
  BY DEF IInv, CallsOK, CallOK, CountOwners
<1>3. Cardinality(Owners) > 1 => CallOK([call[c] EXCEPT !.at = "write", !.seen = Owners])
  BY <1>1, <1>2 DEF CallOK, CallState
<1>4. Done(c) \/ (Cardinality(Owners) > 1
                    /\ Step(c, [call[c] EXCEPT !.at = "write", !.seen = Owners]))
  BY <1>1 DEF CountOwners
<1>5. CallsOK' BY <1>3, <1>4, DoneOK, StepOK DEF IInv
<1>6. RowsOK' BY RowsStay DEF IInv, CountOwners, RowsOK
<1>7. CountsOK' BY DEF IInv, CountsOK, CountOwners
<1> QED BY <1>5, <1>6, <1>7 DEF IInv

(* A write leaves a row with its user. *)
LEMMA WriteInv ==
  ASSUME IInv, NEW c \in Calls, Write(c)
  PROVE  IInv'
<1>1. call[c] \in CallState /\ call[c].user \in Users /\ call[c].at # "idle"
  BY DEF IInv, CallsOK, CallOK, Write
<1>2. CallsOK' BY <1>1, DoneOK, ThenOK DEF IInv, Write
<1>3. RowsOK'
  <2>1. CASE role[call[c].user] = "none"
    BY <2>1, RowsStay DEF IInv, RowsOK, Write, rows
  <2>2. CASE role[call[c].user] # "none"
    <3>1. role' = [role EXCEPT ![call[c].user] = call[c].to] /\ call[c].to \in Roles
      BY <1>1, <2>2 DEF Write, CallState
    <3>2. call[c].user \in Members
      BY <1>1, <2>2 DEF Members
    <3>3. role' \in [Users -> Roles] /\ Members' \subseteq Members
      BY <1>1, <3>1, <3>2 DEF IInv, RowsOK, Members
    <3> QED BY <3>3 DEF IInv, RowsOK, Write
  <2> QED BY <2>1, <2>2
<1>4. CountsOK' BY DEF IInv, CountsOK, Write
<1> QED BY <1>2, <1>3, <1>4 DEF IInv

(* The flag is not among the rows. *)
LEMMA FlagInv ==
  ASSUME IInv, NEW c \in Calls, Flag(c)
  PROVE  IInv'
<1>1. CallsOK' BY DoneOK DEF IInv, Flag
<1>2. RowsOK' BY RowsStay DEF IInv, RowsOK, Flag, CallsOK, CallOK
<1>3. CountsOK' BY FaultOK DEF IInv, CountsOK, Flag
<1> QED BY <1>1, <1>2, <1>3 DEF IInv

(* A login reads whether its user is a member, *)
LEMMA LookInv ==
  ASSUME IInv, NEW c \in Calls, Look(c)
  PROVE  IInv'
<1> DEFINE r == role[call[c].user]
           at == IF r = "none" THEN "limit" ELSE "add"
<1>1. r \in Roles /\ at \in {"limit", "add"}
  BY DEF IInv, CallsOK, CallOK, RowsOK, Look
<1>2. Step(c, [call[c] EXCEPT !.found = r, !.at = at])
  BY DEF Look
<1> HIDE DEF r, at
<1>3. CallOK([call[c] EXCEPT !.found = r, !.at = at])
  <2>1. call[c] \in CallState /\ call[c].user \in Users
    BY DEF IInv, CallsOK, CallOK, Look
  <2> QED BY <1>1, <2>1 DEF CallOK, CallState
<1>4. CallsOK' BY <1>2, <1>3, StepOK DEF IInv
<1>5. RowsOK' BY RowsStay DEF IInv, Look, RowsOK
<1>6. CountsOK' BY DEF IInv, CountsOK, Look
<1> QED BY <1>4, <1>5, <1>6 DEF IInv

(* and how many members there are. *)
LEMMA LimitInv ==
  ASSUME IInv, NEW c \in Calls, Limit(c)
  PROVE  IInv'
<1>1. call[c] \in CallState /\ call[c].user \in Users /\ call[c].at # "idle"
  BY DEF IInv, CallsOK, CallOK, Limit
<1> DEFINE at   == IF call[c].op = "invite" THEN "insert" ELSE "add"
           room == [call[c] EXCEPT !.seen = Members, !.at = at]
           full == [call[c] EXCEPT !.denied = TRUE, !.at = "check"]
<1>2. at \in {"insert", "add"} /\ Members \in SUBSET Users
  BY DEF Members
<1>3. \/ Step(c, room) \/ Step(c, full) \/ Step(c, Idle)
      \/ Goto(c, "add") \/ Done(c)
  BY DEF Limit
<1>4. CallOK(room)
  <2> HIDE DEF at
  <2> QED BY <1>1, <1>2 DEF CallOK, CallState
<1>5. CallOK(full) BY <1>1 DEF CallOK, CallState
<1> HIDE DEF room, full
<1>6. CallsOK' BY <1>1, <1>3, <1>4, <1>5, IdleOK, StepOK, GotoOK, DoneOK DEF IInv
<1>7. RowsOK' BY RowsStay DEF IInv, Limit, RowsOK
<1>8. CountsOK' BY FaultOK DEF IInv, CountsOK, Limit
<1> QED BY <1>6, <1>7, <1>8 DEF IInv

(* What follows an addition carries nothing it read. *)
LEMMA AddedOK ==
  ASSUME CallsOK, NEW c \in Calls, call[c].at # "idle", Added(c)
  PROVE  CallsOK'
BY ThenOK, DoneOK DEF Added

(* An addition needs the account and the tenant. *)
LEMMA AddInv ==
  ASSUME IInv, NEW c \in Calls, Add(c)
  PROVE  IInv'
<1> DEFINE u == call[c].user
<1>1. call[c] \in CallState /\ u \in Users /\ call[c].at # "idle"
  BY DEF IInv, CallsOK, CallOK, Add
<1>2. CallsOK' BY <1>1, DoneOK, ThenOK, AddedOK DEF IInv, Add
<1>3. RowsOK'
  <2>1. CASE UNCHANGED role
    BY <2>1, RowsStay DEF IInv, RowsOK, Add, rows
  <2>2. CASE tenant /\ u \in accounts /\ role' = [role EXCEPT ![u] = call[c].to]
    <3>1. call[c].to \in Roles
      BY <1>1 DEF CallState
    <3>2. role' \in [Users -> Roles] /\ Members' \subseteq Members \cup {u}
      BY <1>1, <2>2, <3>1 DEF IInv, RowsOK, Members
    <3> QED BY <2>2, <3>2 DEF IInv, RowsOK, Add
  <2> QED BY <2>1, <2>2 DEF Add
<1>4. CountsOK' BY DEF IInv, CountsOK, Add
<1> QED BY <1>2, <1>3, <1>4 DEF IInv

(* To clear the flag changes no row either. *)
LEMMA ClearInv ==
  ASSUME IInv, NEW c \in Calls, Clear(c)
  PROVE  IInv'
<1>1. CallsOK' BY AddedOK DEF IInv, Clear
<1>2. RowsOK' BY RowsStay DEF IInv, RowsOK, Clear
<1>3. CountsOK' BY FaultOK DEF IInv, CountsOK, Clear
<1> QED BY <1>1, <1>2, <1>3 DEF IInv

(* A repair goes back to the addition. *)
LEMMA CheckInv ==
  ASSUME IInv, NEW c \in Calls, Check(c)
  PROVE  IInv'
<1>1. call[c] \in CallState /\ call[c].user \in Users
  BY DEF IInv, CallsOK, CallOK, Check
<1>2. CallOK([call[c] EXCEPT !.op = "repair", !.at = "add", !.to = "staff"])
  BY <1>1 DEF CallOK, CallState, Roles
<1>3. CallsOK' BY <1>2, StepOK, DoneOK DEF IInv, Check
<1>4. RowsOK' BY RowsStay DEF IInv, Check, RowsOK
<1>5. CountsOK' BY DEF IInv, CountsOK, Check
<1> QED BY <1>3, <1>4, <1>5 DEF IInv

(* Invitations are of users. *)
LEMMA InvitationInv ==
  ASSUME IInv, NEW c \in Calls, Insert(c) \/ Consume(c)
  PROVE  IInv'
<1>1. CallsOK' BY DoneOK, GotoOK DEF IInv, Insert, Consume
<1>2. RowsOK' BY DEF IInv, RowsOK, Insert, Consume, Members, CallsOK, CallOK
<1>3. CountsOK' BY DEF IInv, CountsOK, Insert, Consume
<1> QED BY <1>1, <1>2, <1>3 DEF IInv

(* The deletion of an account reads its membership, *)
LEMMA OrgsInv ==
  ASSUME IInv, NEW c \in Calls, Orgs(c)
  PROVE  IInv'
<1> DEFINE r == role[call[c].user]
           at == IF r = "none" THEN "erase" ELSE "members"
<1>1. r \in Roles /\ at \in {"erase", "members"}
  BY DEF IInv, CallsOK, CallOK, RowsOK, Orgs
<1>2. Step(c, [call[c] EXCEPT !.found = r, !.at = at])
  BY DEF Orgs
<1> HIDE DEF r, at
<1>3. CallOK([call[c] EXCEPT !.found = r, !.at = at])
  <2>1. call[c] \in CallState /\ call[c].user \in Users
    BY DEF IInv, CallsOK, CallOK, Orgs
  <2> QED BY <1>1, <2>1 DEF CallOK, CallState
<1>4. CallsOK' BY <1>2, <1>3, StepOK DEF IInv
<1>5. RowsOK' BY RowsStay DEF IInv, Orgs, RowsOK
<1>6. CountsOK' BY DEF IInv, CountsOK, Orgs
<1> QED BY <1>4, <1>5, <1>6 DEF IInv

(* counts the members, *)
LEMMA CountMembersInv ==
  ASSUME IInv, NEW c \in Calls, CountMembers(c)
  PROVE  IInv'
<1>1. call[c] \in CallState /\ call[c].user \in Users /\ Members \in SUBSET Users
  BY DEF IInv, CallsOK, CallOK, CountMembers, Members
<1>2. CallOK([call[c] EXCEPT !.at = "erase", !.seen = Members])
  BY <1>1 DEF CallOK, CallState
<1>3. CallsOK' BY <1>2, StepOK DEF IInv, CountMembers
<1>4. RowsOK' BY RowsStay DEF IInv, CountMembers, RowsOK
<1>5. CountsOK' BY DEF IInv, CountsOK, CountMembers
<1> QED BY <1>3, <1>4, <1>5 DEF IInv

(* deletes the account with its membership, *)
LEMMA EraseInv ==
  ASSUME IInv, NEW c \in Calls, Erase(c)
  PROVE  IInv'
<1> DEFINE u == call[c].user
<1>1. u \in Users /\ call[c].at # "idle"
  BY DEF IInv, CallsOK, CallOK, Erase
<1>2. CallsOK' BY <1>1, DoneOK, GotoOK DEF IInv, Erase
<1>3. RowsOK'
  <2>1. CASE UNCHANGED <<role, accounts>>
    BY <2>1, RowsStay DEF IInv, RowsOK, Erase, rows
  <2>2. CASE role' = [role EXCEPT ![u] = "none"] /\ accounts' = accounts \ {u}
    <3>1. role' \in [Users -> Roles] /\ Members' = Members \ {u}
      BY <1>1, <2>2 DEF IInv, RowsOK, Members, Roles
    <3> QED BY <2>2, <3>1 DEF IInv, RowsOK, Erase
  <2> QED BY <2>1, <2>2 DEF Erase
<1>4. CountsOK' BY DEF IInv, CountsOK, Erase
<1> QED BY <1>2, <1>3, <1>4 DEF IInv

(* and the tenant with all of them. *)
LEMMA DropInv ==
  ASSUME IInv, NEW c \in Calls, Drop(c)
  PROVE  IInv'
<1>1. CallsOK' BY DoneOK DEF IInv, Drop
<1>2. RowsOK' BY DEF IInv, RowsOK, Drop, Members, Roles
<1>3. CountsOK' BY DEF IInv, CountsOK, Drop
<1> QED BY <1>1, <1>2, <1>3 DEF IInv

(* A call that is cut off carries nothing. *)
LEMMA AbortInv ==
  ASSUME IInv, NEW c \in Calls, Abort(c)
  PROVE  IInv'
<1>1. CallsOK' BY DoneOK DEF IInv, Abort
<1>2. RowsOK' BY RowsStay DEF IInv, RowsOK, Abort
<1>3. CountsOK' BY FaultOK DEF IInv, Abort
<1> QED BY <1>1, <1>2, <1>3 DEF IInv

(* What happens by itself concerns flags and invitations. *)
LEMMA TimeInv ==
  ASSUME IInv, NEW u \in Users, Close(u) \/ Expire(u)
  PROVE  IInv'
<1>1. CallsOK' BY DEF IInv, CallsOK, Close, Expire
<1>2. RowsOK' BY DEF IInv, RowsOK, Close, Expire, Members, rows
<1>3. CountsOK' BY DEF IInv, CountsOK, Close, Expire
<1> QED BY <1>1, <1>2, <1>3 DEF IInv

(* Every step keeps the invariant. *)
LEMMA NextInvariant == IInv /\ [Next]_vars => IInv'
<1> SUFFICES ASSUME IInv, [Next]_vars PROVE IInv' OBVIOUS
<1>1. ASSUME NEW c \in Calls, Proceed(c) PROVE IInv'
  BY <1>1, FindInv, CountOwnersInv, WriteInv, FlagInv, LookInv, LimitInv, AddInv, ClearInv,
     CheckInv, InvitationInv, OrgsInv, CountMembersInv, EraseInv, DropInv DEF Proceed
<1>2. ASSUME NEW c \in Calls, Abort(c) PROVE IInv'
  BY <1>2, AbortInv
<1>3. ASSUME NEW c \in Calls, NEW u \in Users,
             \/ Begin(c, "team", "find", u) \/ Begin(c, "event", "find", u)
             \/ Begin(c, "login", "look", u) \/ Begin(c, "accept", "consume", u)
             \/ Begin(c, "invite", "limit", u) \/ Begin(c, "delete", "orgs", u)
      PROVE  IInv'
  BY <1>3, BeginInv
<1>4. ASSUME NEW u \in Users, Close(u) \/ Expire(u) PROVE IInv'
  BY <1>4, TimeInv
<1>5. CASE UNCHANGED vars
  BY <1>5 DEF vars, rows, IInv, CallsOK, RowsOK, CountsOK, Members
<1> QED BY <1>1, <1>2, <1>3, <1>4, <1>5 DEF Next

(* Rows and calls keep their types; a deleted user, and a deleted tenant, has no
   membership. *)
THEOREM MembershipTypeCorrect == Spec => []TypeOK
<1>1. IInv => TypeOK
  BY DEF IInv, CallsOK, CallOK, RowsOK, CountsOK, TypeOK
<1> QED BY <1>1, InitInvariant, NextInvariant, PTL DEF Spec

(***************************************************************************)
(* The last owner.                                                         *)
(***************************************************************************)

(* A call that demotes or removes the last owner found the target below owner, or counted
   more owners than there are. *)
LEMMA WriteOrphans ==
  ASSUME IInv, NEW c \in Calls, Write(c), Orphans
  PROVE  call'[c] # call[c] /\ Outdated(c)
<1> DEFINE u == call[c].user
<1>1. call[c] \in CallState /\ u \in Users /\ call \in [Calls -> CallState]
      /\ call[c].at = "write"
  BY DEF IInv, CallsOK, CallOK, Write
<1>2. role[u] # "none" /\ role' = [role EXCEPT ![u] = call[c].to]
  BY DEF Write, Orphans, Owners
<1>3. Owners \subseteq {u} /\ u \in Owners /\ call[c].to # "owner"
  BY <1>1, <1>2 DEF IInv, RowsOK, Orphans, Owners
<1>4. Owners = {u} BY <1>3
<1>5. Cardinality(Owners) = 1 BY <1>4, FS_Singleton
<1>6. call[c].seen \in SUBSET Users /\ Cardinality(call[c].seen) \in Nat
  BY <1>1, TeamsAreFinite DEF CallState
<1>7. Outdated(c)
  BY <1>1, <1>3, <1>5, <1>6 DEF IInv, CallsOK, CallOK, Outdated
<1>8. call'[c].at # "write"
  <2>1. Done(c) \/ Then(c, "flag")
    BY <1>2 DEF Write
  <2>2. ASSUME Done(c) PROVE call'[c].at = "idle"
    BY <1>1, <2>2 DEF Done, Step, Idle
  <2>3. ASSUME Then(c, "flag") PROVE call'[c].at = "flag"
    BY <1>1, <2>3 DEF Then, Step, Idle
  <2> QED BY <2>1, <2>2, <2>3
<1> QED BY <1>1, <1>7, <1>8

(* A deletion that leaves members behind did not know of the membership, or counted fewer
   members. *)
LEMMA EraseOrphans ==
  ASSUME IInv, NEW c \in Calls, Erase(c), Orphans
  PROVE  call'[c] # call[c] /\ Outdated(c)
<1> DEFINE u == call[c].user
<1>1. call[c] \in CallState /\ u \in Users /\ call \in [Calls -> CallState]
      /\ call[c].at = "erase"
  BY DEF IInv, CallsOK, CallOK, Erase
<1>2. role' # role
  BY DEF Orphans, Owners
<1>3. /\ ~(call[c].found # "none" /\ ~LastMember(c) /\ role[u] = "owner")
      /\ role' = [role EXCEPT ![u] = "none"]
  BY <1>2 DEF Erase
<1>4. u \in Owners /\ u \in Members
  BY <1>1, <1>3 DEF IInv, RowsOK, Orphans, Owners, Members
<1>5. PICK v \in Members : v # u
  BY <1>1, <1>3 DEF IInv, RowsOK, Orphans, Members
<1>6. ASSUME call[c].found # "none", Members \subseteq call[c].seen PROVE FALSE
  <2>1. Cardinality(call[c].seen) <= 1
    BY <1>3, <1>4, <1>6 DEF LastMember, Owners
  <2>2. {u, v} \subseteq call[c].seen /\ call[c].seen \in SUBSET Users
    BY <1>1, <1>4, <1>5, <1>6 DEF CallState
  <2>3. IsFiniteSet(call[c].seen) /\ Cardinality(call[c].seen) \in Nat
    BY <2>2, TeamsAreFinite
  <2>4. IsFiniteSet({u, v}) /\ Cardinality({u, v}) <= Cardinality(call[c].seen)
    BY <2>2, <2>3, FS_Subset
  <2>5. {u, v} = {u} \cup {v} /\ IsFiniteSet({u}) /\ Cardinality({u}) = 1 /\ v \notin {u}
    BY <1>5, FS_Singleton
  <2>6. Cardinality({u} \cup {v}) = Cardinality({u}) + 1
    <3> HIDE DEF u
    <3> QED BY <2>5, FS_AddElement
  <2>7. Cardinality({u, v}) = 2
    BY <2>5, <2>6
  <2> QED BY <2>1, <2>3, <2>4, <2>7
<1>7. Outdated(c) BY <1>1, <1>6 DEF Outdated
<1>8. call'[c].at # "erase"
  BY <1>1, <1>2 DEF Erase, Done, Goto, Step, Idle, CallState
<1> QED BY <1>1, <1>7, <1>8

(* Nothing else leaves a team without an owner. *)
LEMMA OthersKeepOwners ==
  ASSUME IInv, [Next]_vars, Orphans
  PROVE  \E c \in Calls : Write(c) \/ Erase(c)
<1>1. ASSUME NEW c \in Calls, Add(c) PROVE FALSE
  <2>1. Owners \subseteq Owners'
    BY <1>1 DEF Add, Owners, IInv, RowsOK
  <2> QED BY <2>1 DEF Orphans
<1>2. ASSUME NEW c \in Calls, Drop(c) PROVE FALSE
  BY <1>2 DEF Drop, Orphans, Members
<1>3. ASSUME UNCHANGED role PROVE FALSE
  BY <1>3 DEF Orphans, Owners
<1> QED
  BY <1>1, <1>2, <1>3
  DEF Next, Proceed, Begin, Find, CountOwners, Flag, Look, Limit, Clear, Check, Insert,
      Consume, Orgs, CountMembers, Abort, Close, Expire, vars, rows

(* A team with members loses its last owner only to a call whose read is outdated. *)
THEOREM LastOwnerProtected == Spec => LastOwnerKept
<1>1. IInv /\ [Next]_vars
      => [Orphans => \E c \in Calls : call'[c] # call[c] /\ Outdated(c)]_vars
  BY WriteOrphans, EraseOrphans, OthersKeepOwners
<1> QED BY <1>1, InitInvariant, NextInvariant, PTL DEF Spec, LastOwnerKept

(***************************************************************************)
(* The plan's limit and the tenant's end. A call counts the team once, and *)
(* one that is to add a user it found outside the team has counted fewer   *)
(* members than the plan allows, unless it repairs; the account of a call  *)
(* that is to delete the tenant is gone, and it counted one member at most.*)
(***************************************************************************)
ReadOK(s) ==
  /\ s.at \in {"look", "consume", "limit"} => s.seen = {}
  /\ s.at = "add" /\ s.op # "repair" /\ s.found = "none" => Cardinality(s.seen) < MaxTeam
  /\ s.at = "drop" => Cardinality(s.seen) <= 1

ReadsOK == \A c \in Calls : ReadOK(call[c])

Gone == \A c \in Calls : call[c].at = "drop" => call[c].user \notin accounts

PlanInv == IInv /\ MaxTeam > 0 /\ ReadsOK /\ Gone

(* A call that ends, or goes where nothing is known of what it read. *)
LEMMA UnboundRead ==
  ASSUME NEW s, s.at \in {"idle", "find", "owners", "write", "flag", "clear", "check",
                          "insert", "orgs", "members", "erase"}
  PROVE  ReadOK(s)
BY DEF ReadOK

(* A call's step keeps what is known of all calls if it keeps it of its own. *)
LEMMA ReadStep ==
  ASSUME PlanInv, NEW c \in Calls, NEW next, Step(c, next), ReadOK(next),
         next.at = "drop" => next.user \notin accounts', accounts' \subseteq accounts
  PROVE  ReadsOK' /\ Gone'
<1>1. call \in [Calls -> CallState] BY DEF PlanInv, IInv, CallsOK
<1>2. \A d \in Calls : call'[d] = IF d = c THEN next ELSE call[d]
  BY <1>1 DEF Step
<1>3. ReadsOK'
  <2> SUFFICES ASSUME NEW d \in Calls PROVE ReadOK(call'[d]) BY DEF ReadsOK, ReadOK
  <2> QED BY <1>2 DEF PlanInv, ReadsOK
<1>4. Gone' BY <1>2 DEF PlanInv, Gone
<1> QED BY <1>3, <1>4

(* The ends of a handler. *)
LEMMA DoneReads ==
  ASSUME PlanInv, NEW c \in Calls, Done(c), accounts' \subseteq accounts
  PROVE  ReadsOK' /\ Gone'
<1>1. ReadOK(Idle) /\ Idle.at # "drop" BY DEF ReadOK, Idle
<1> QED BY <1>1, ReadStep DEF Done

(* What follows a write relies on no count. *)
LEMMA ThenReads ==
  ASSUME PlanInv, NEW c \in Calls, NEW at \in {"flag", "clear", "check"}, Then(c, at),
         accounts' \subseteq accounts
  PROVE  ReadsOK' /\ Gone'
<1> DEFINE next == [Idle EXCEPT !.op = call[c].op, !.at = at, !.user = call[c].user]
<1>1. next.at = at BY DEF Idle
<1>2. Step(c, next) BY DEF Then
<1> HIDE DEF next
<1>3. ReadOK(next) /\ next.at # "drop" BY <1>1, UnboundRead
<1> QED BY <1>1, <1>2, <1>3, ReadStep

(* A call that has read what it keeps, and goes on to where nothing is asked of it. *)
LEMMA WentReads ==
  ASSUME PlanInv, NEW c \in Calls, NEW next, Step(c, next), accounts' \subseteq accounts,
         next.at \in {"write", "owners", "check", "insert", "members", "erase"}
  PROVE  ReadsOK' /\ Gone'
<1>1. ReadOK(next) BY UnboundRead
<1> QED BY <1>1, ReadStep

(* A request has counted nothing. *)
LEMMA BeginReads ==
  ASSUME PlanInv, NEW c \in Calls, NEW u \in Users,
         NEW op \in {"team", "event", "login", "accept", "invite", "delete"},
         NEW at \in {"find", "look", "consume", "limit", "orgs"}, Begin(c, op, at, u)
  PROVE  ReadsOK' /\ Gone'
<1>1. \E next : Step(c, next) /\ next.at = at /\ next.seen = {}
  <2>1. CASE op = "team"
    <3>1. PICK a \in Members \ {u}, r \in Roles :
            Step(c, [Idle EXCEPT !.op = op, !.at = at, !.user = u, !.to = r,
                                 !.senior = (role[a] = "owner")])
      BY <2>1 DEF Begin
    <3> DEFINE next == [Idle EXCEPT !.op = op, !.at = at, !.user = u, !.to = r,
                                    !.senior = (role[a] = "owner")]
    <3>2. next.at = at /\ next.seen = {} BY DEF Idle
    <3> QED BY <3>1, <3>2
  <2>2. CASE op \in {"login", "accept"}
    <3>1. PICK r \in {"staff", "owner"} :
            Step(c, [Idle EXCEPT !.op = op, !.at = at, !.user = u, !.to = r])
      BY <2>2 DEF Begin
    <3> DEFINE next == [Idle EXCEPT !.op = op, !.at = at, !.user = u, !.to = r]
    <3>2. next.at = at /\ next.seen = {} BY DEF Idle
    <3> QED BY <3>1, <3>2
  <2>3. CASE op \in {"event", "invite", "delete"}
    <3> DEFINE next == [Idle EXCEPT !.op = op, !.at = at, !.user = u]
    <3>1. next.at = at /\ next.seen = {} BY DEF Idle
    <3>2. Step(c, next) BY <2>3 DEF Begin
    <3> QED BY <3>1, <3>2
  <2> QED BY <2>1, <2>2, <2>3
<1>2. PICK next : Step(c, next) /\ next.at = at /\ next.seen = {} BY <1>1
<1>3. ReadOK(next) /\ next.at # "drop" BY <1>2 DEF ReadOK
<1>4. accounts' = accounts BY DEF Begin, rows
<1> QED BY <1>2, <1>3, <1>4, ReadStep

(* A call that found its user is not to add nor to end a tenant. *)
LEMMA FindReads ==
  ASSUME PlanInv, NEW c \in Calls, Find(c)
  PROVE  ReadsOK' /\ Gone'
<1> DEFINE at   == IF role[call[c].user] = "owner" /\ call[c].to # "owner"
                   THEN "owners" ELSE "write"
           next == [call[c] EXCEPT !.found = role[call[c].user], !.at = at]
<1>1. Done(c) \/ Step(c, next) BY DEF Find
<1>2. next.at \in {"owners", "write"}
  BY DEF PlanInv, IInv, CallsOK, CallState
<1>3. accounts' = accounts BY DEF Find, rows
<1> HIDE DEF next
<1> QED BY <1>1, <1>2, <1>3, DoneReads, WentReads

(* Nor is one that counted the owners. *)
LEMMA CountOwnersReads ==
  ASSUME PlanInv, NEW c \in Calls, CountOwners(c)
  PROVE  ReadsOK' /\ Gone'
<1> DEFINE next == [call[c] EXCEPT !.at = "write", !.seen = Owners]
<1>1. Done(c) \/ Step(c, next) BY DEF CountOwners
<1>2. next.at = "write" BY DEF PlanInv, IInv, CallsOK, CallState
<1>3. accounts' = accounts BY DEF CountOwners, rows
<1> HIDE DEF next
<1> QED BY <1>1, <1>2, <1>3, DoneReads, WentReads

(* A write ends its call, or goes on to the flag. *)
LEMMA WriteReads ==
  ASSUME PlanInv, NEW c \in Calls, Write(c) \/ Flag(c)
  PROVE  ReadsOK' /\ Gone'
<1>1. Done(c) \/ Then(c, "flag") BY DEF Write, Flag
<1>2. accounts' = accounts BY DEF Write, Flag, rows
<1> QED BY <1>1, <1>2, DoneReads, ThenReads

(* A login that found the user a member goes on without a count; one that did not has
   yet to count. *)
LEMMA LookReads ==
  ASSUME PlanInv, NEW c \in Calls, Look(c)
  PROVE  ReadsOK' /\ Gone'
<1> DEFINE r    == role[call[c].user]
           next == [call[c] EXCEPT !.found = r, !.at = IF r = "none" THEN "limit" ELSE "add"]
<1>1. Step(c, next) BY DEF Look
<1>2. call[c] \in CallState /\ call[c].seen = {}
  BY DEF PlanInv, IInv, CallsOK, ReadsOK, ReadOK, Look
<1>3. /\ next.seen = {} /\ next.found = r
      /\ next.at = (IF r = "none" THEN "limit" ELSE "add")
  BY <1>2 DEF CallState
<1>4. accounts' = accounts BY DEF Look, rows
<1> HIDE DEF next
<1>5. ReadOK(next) /\ next.at # "drop" BY <1>3 DEF ReadOK
<1> QED BY <1>1, <1>4, <1>5, ReadStep

(* The count that allows the addition is below the limit; a login whose count failed has
   counted nobody. *)
LEMMA LimitReads ==
  ASSUME PlanInv, NEW c \in Calls, Limit(c)
  PROVE  ReadsOK' /\ Gone'
<1> DEFINE at   == IF call[c].op = "invite" THEN "insert" ELSE "add"
           room == [call[c] EXCEPT !.seen = Members, !.at = at]
           full == [call[c] EXCEPT !.denied = TRUE, !.at = "check"]
           free == [call[c] EXCEPT !.at = "add"]
<1>1. call[c] \in CallState /\ call[c].seen = {}
  BY DEF PlanInv, IInv, CallsOK, ReadsOK, ReadOK, Limit
<1>2. accounts' = accounts BY DEF Limit, rows
<1>3. CASE Step(c, room) /\ Cardinality(Members) < MaxTeam
  <2>1. room.at \in {"insert", "add"} /\ room.seen = Members BY <1>1 DEF CallState
  <2> HIDE DEF room
  <2>2. ReadOK(room) /\ room.at # "drop" BY <1>3, <2>1 DEF ReadOK
  <2> QED BY <1>2, <1>3, <2>2, ReadStep
<1>4. CASE Step(c, full)
  <2>1. full.at = "check" BY <1>1 DEF CallState
  <2> HIDE DEF full
  <2> QED BY <1>2, <1>4, <2>1, WentReads
<1>5. CASE Step(c, free)
  <2>1. free.at = "add" /\ free.seen = {} BY <1>1 DEF CallState
  <2> HIDE DEF free
  <2>2. Cardinality(free.seen) < MaxTeam BY <2>1, FS_EmptySet DEF PlanInv
  <2>3. ReadOK(free) /\ free.at # "drop" BY <2>1, <2>2 DEF ReadOK
  <2> QED BY <1>2, <1>5, <2>3, ReadStep
<1>6. CASE Done(c) BY <1>2, <1>6, DoneReads
<1>7. \/ Step(c, room) /\ Cardinality(Members) < MaxTeam
      \/ Step(c, full) \/ Step(c, free) \/ Done(c)
  BY DEF Limit, Goto, Done
<1> QED BY <1>3, <1>4, <1>5, <1>6, <1>7

(* An addition does, or goes on to its flag or the repair. *)
LEMMA AddReads ==
  ASSUME PlanInv, NEW c \in Calls, Add(c) \/ Clear(c)
  PROVE  ReadsOK' /\ Gone'
<1>1. Done(c) \/ Then(c, "clear") \/ Then(c, "check") BY DEF Add, Clear, Added
<1>2. accounts' = accounts BY DEF Add, Clear, rows
<1> QED BY <1>1, <1>2, DoneReads, ThenReads

(* A repair adds without a count, which the invariant allows. *)
LEMMA CheckReads ==
  ASSUME PlanInv, NEW c \in Calls, Check(c)
  PROVE  ReadsOK' /\ Gone'
<1> DEFINE next == [call[c] EXCEPT !.op = "repair", !.at = "add", !.to = "staff"]
<1>1. Done(c) \/ Step(c, next) BY DEF Check
<1>2. next.at = "add" /\ next.op = "repair" BY DEF PlanInv, IInv, CallsOK, CallState
<1>3. accounts' = accounts BY DEF Check, rows
<1> HIDE DEF next
<1>4. ReadOK(next) /\ next.at # "drop" BY <1>2 DEF ReadOK
<1> QED BY <1>1, <1>3, <1>4, DoneReads, ReadStep

(* An acceptance has counted nothing when it gets to the limit. *)
LEMMA InvitationReads ==
  ASSUME PlanInv, NEW c \in Calls, Insert(c) \/ Consume(c)
  PROVE  ReadsOK' /\ Gone'
<1> DEFINE next == [call[c] EXCEPT !.at = "limit"]
<1>1. Done(c) \/ (call[c].at = "consume" /\ Step(c, next)) BY DEF Insert, Consume, Goto
<1>2. accounts' = accounts BY DEF Insert, Consume
<1>3. ASSUME call[c].at = "consume" PROVE next.at = "limit" /\ next.seen = {}
  BY <1>3 DEF PlanInv, IInv, CallsOK, CallState, ReadsOK, ReadOK
<1> HIDE DEF next
<1>4. ASSUME call[c].at = "consume" PROVE ReadOK(next) /\ next.at # "drop"
  BY <1>3, <1>4 DEF ReadOK
<1> QED BY <1>1, <1>2, <1>4, DoneReads, ReadStep

(* The deletion of an account erases it before it ends a tenant. *)
LEMMA OrgsReads ==
  ASSUME PlanInv, NEW c \in Calls, Orgs(c) \/ CountMembers(c)
  PROVE  ReadsOK' /\ Gone'
<1> DEFINE r    == role[call[c].user]
           orgs == [call[c] EXCEPT !.found = r,
                                   !.at = IF r = "none" THEN "erase" ELSE "members"]
           team == [call[c] EXCEPT !.at = "erase", !.seen = Members]
<1>1. Step(c, orgs) \/ Step(c, team) BY DEF Orgs, CountMembers
<1>2. orgs.at \in {"erase", "members"} /\ team.at = "erase"
  BY DEF PlanInv, IInv, CallsOK, CallState
<1>3. accounts' = accounts BY DEF Orgs, CountMembers, rows
<1> HIDE DEF orgs, team
<1> QED BY <1>1, <1>2, <1>3, WentReads

(* The account goes in the transaction after which the tenant is to go. *)
LEMMA EraseReads ==
  ASSUME PlanInv, NEW c \in Calls, Erase(c)
  PROVE  ReadsOK' /\ Gone'
<1> DEFINE next == [call[c] EXCEPT !.at = "drop"]
<1>1. call[c] \in CallState BY DEF PlanInv, IInv, CallsOK
<1>2. /\ accounts' \in {accounts, accounts \ {call[c].user}}
      /\ \/ Done(c)
         \/ /\ Step(c, next) /\ Cardinality(call[c].seen) <= 1
            /\ accounts' = accounts \ {call[c].user}
  BY DEF Erase, LastMember, Goto
<1>3. next.at = "drop" /\ next.seen = call[c].seen /\ next.user = call[c].user
  BY <1>1 DEF CallState
<1> HIDE DEF next
<1>4. ASSUME Cardinality(call[c].seen) <= 1 PROVE ReadOK(next)
  BY <1>3, <1>4 DEF ReadOK
<1>5. CASE Done(c) BY <1>2, <1>5, DoneReads
<1>6. CASE /\ Step(c, next) /\ Cardinality(call[c].seen) <= 1
           /\ accounts' = accounts \ {call[c].user}
  BY <1>3, <1>4, <1>6, ReadStep
<1> QED BY <1>2, <1>5, <1>6

(* Ending the tenant, or being cut off, ends the call. *)
LEMMA DropReads ==
  ASSUME PlanInv, NEW c \in Calls, Drop(c) \/ Abort(c)
  PROVE  ReadsOK' /\ Gone'
<1>1. Done(c) /\ accounts' = accounts BY DEF Drop, Abort, rows
<1> QED BY <1>1, DoneReads

(* Every step keeps the invariant. *)
LEMMA NextReads == PlanInv /\ [Next]_vars => PlanInv'
<1> SUFFICES ASSUME PlanInv, [Next]_vars PROVE ReadsOK' /\ Gone'
  BY NextInvariant DEF PlanInv
<1>1. ASSUME NEW c \in Calls, Proceed(c) \/ Abort(c) PROVE ReadsOK' /\ Gone'
  BY <1>1, FindReads, CountOwnersReads, WriteReads, LookReads, LimitReads, AddReads,
     CheckReads, InvitationReads, OrgsReads, EraseReads, DropReads DEF Proceed
<1>2. ASSUME NEW c \in Calls, NEW u \in Users,
             \/ Begin(c, "team", "find", u) \/ Begin(c, "event", "find", u)
             \/ Begin(c, "login", "look", u) \/ Begin(c, "accept", "consume", u)
             \/ Begin(c, "invite", "limit", u) \/ Begin(c, "delete", "orgs", u)
      PROVE  ReadsOK' /\ Gone'
  BY <1>2, BeginReads
<1>3. CASE call' = call /\ accounts' = accounts
  BY <1>3 DEF PlanInv, ReadsOK, ReadOK, Gone
<1>4. ASSUME NEW u \in Users, Close(u) \/ Expire(u) PROVE ReadsOK' /\ Gone'
  BY <1>3, <1>4 DEF Close, Expire, rows
<1>5. CASE UNCHANGED vars BY <1>3, <1>5 DEF vars, rows
<1> QED BY <1>1, <1>2, <1>4, <1>5 DEF Next

(* It holds at the start, of a team within its plan. *)
LEMMA InitReads == Init => PlanInv
<1> SUFFICES ASSUME Init PROVE PlanInv OBVIOUS
<1>1. MaxTeam > 0 BY DEF Init
<1>2. ReadsOK /\ Gone BY DEF Init, ReadsOK, ReadOK, Gone, Idle
<1> QED BY <1>1, <1>2, InitInvariant DEF PlanInv

(* No step but an addition lets the team grow. *)
LEMMA OthersDoNotGrow ==
  ASSUME PlanInv, [Next]_vars, ~(Members' \subseteq Members)
  PROVE  \E c \in Calls : Add(c)
<1>1. ASSUME NEW c \in Calls, Write(c) \/ Erase(c) PROVE Members' \subseteq Members
  <2>1. call[c].user \in Users /\ role \in [Users -> Roles]
    BY <1>1 DEF PlanInv, IInv, CallsOK, CallOK, RowsOK, Write, Erase
  <2>2. \/ role' = role
        \/ role[call[c].user] # "none" /\ role' = [role EXCEPT ![call[c].user] = call[c].to]
        \/ role' = [role EXCEPT ![call[c].user] = "none"]
    BY <1>1 DEF Write, Erase
  <2> QED BY <2>1, <2>2 DEF Members
<1>2. ASSUME NEW c \in Calls, Drop(c) PROVE Members' \subseteq Members
  BY <1>2 DEF Drop, Members
<1>3. ASSUME role' = role PROVE Members' \subseteq Members
  BY <1>3 DEF Members
<1> QED
  BY <1>1, <1>2, <1>3
  DEF Next, Proceed, Begin, Find, CountOwners, Flag, Look, Limit, Clear, Check, Insert,
      Consume, Orgs, CountMembers, Abort, Close, Expire, vars, rows

(* An addition adds one member, by a call that leaves the statement. *)
LEMMA AddGrows ==
  ASSUME PlanInv, NEW c \in Calls, Add(c), ~(Members' \subseteq Members)
  PROVE  /\ call[c].at = "add" /\ call'[c] # call[c]
         /\ Cardinality(Members') = Cardinality(Members) + 1
<1> DEFINE u == call[c].user
<1>1. call[c] \in CallState /\ u \in Users /\ call[c].at = "add"
      /\ call \in [Calls -> CallState] /\ role \in [Users -> Roles]
  BY DEF PlanInv, IInv, CallsOK, CallOK, RowsOK, Add
<1>2. role[u] = "none" /\ role' = [role EXCEPT ![u] = call[c].to] /\ Added(c)
  BY DEF Add, Members
<1>3. Members' \subseteq Members \cup {u} /\ u \notin Members /\ Members \subseteq Members'
  BY <1>1, <1>2 DEF Members
<1>4. Members' = Members \cup {u} BY <1>3
<1>5. Members \in SUBSET Users BY DEF Members
<1>6. Cardinality(Members \cup {u}) = Cardinality(Members) + 1
  BY <1>3, <1>5, TeamsAreFinite, FS_AddElement
<1>7. call'[c].at # "add"
  <2>1. ASSUME Done(c) PROVE call'[c].at = "idle"
    BY <1>1, <2>1 DEF Done, Step, Idle
  <2>2. ASSUME Then(c, "check") PROVE call'[c].at = "check"
    BY <1>1, <2>2 DEF Then, Step, Idle
  <2> QED BY <1>2, <2>1, <2>2 DEF Added
<1> QED BY <1>1, <1>4, <1>6, <1>7

(* A team grows beyond its plan only through a repair, or a call that counted it before
   it grew, failed to count it, or had found the user in it. *)
THEOREM TeamStaysWithinPlan == Spec => TeamWithinPlan
<1> DEFINE Grows == Cardinality(Members') > Cardinality(Members)
                      /\ Cardinality(Members') > MaxTeam
           Knows(c) == /\ call[c].at = "add" /\ call'[c] # call[c]
                       /\ \/ call[c].op = "repair" \/ call[c].found # "none"
                          \/ Cardinality(call[c].seen) < Cardinality(Members)
<1>1. PlanInv /\ [Next]_vars => [Grows => \E c \in Calls : Knows(c)]_vars
  <2> SUFFICES ASSUME PlanInv, [Next]_vars, Grows PROVE \E c \in Calls : Knows(c)
    OBVIOUS
  <2>1. Members \in SUBSET Users /\ Members' \in SUBSET Users BY DEF Members
  <2>2. /\ IsFiniteSet(Members) /\ Cardinality(Members) \in Nat
        /\ IsFiniteSet(Members') /\ Cardinality(Members') \in Nat
    BY <2>1, TeamsAreFinite
  <2>3. ~(Members' \subseteq Members)
    <3> SUFFICES ASSUME Members' \subseteq Members PROVE FALSE OBVIOUS
    <3>1. Cardinality(Members') <= Cardinality(Members) BY <2>2, FS_Subset
    <3> QED BY <2>2, <3>1
  <2>4. PICK c \in Calls : Add(c) BY <2>3, OthersDoNotGrow
  <2>5. /\ call[c].at = "add" /\ call'[c] # call[c]
        /\ Cardinality(Members') = Cardinality(Members) + 1
    BY <2>3, <2>4, AddGrows
  <2>6. ASSUME call[c].op # "repair", call[c].found = "none"
        PROVE  Cardinality(call[c].seen) < Cardinality(Members)
    <3>1. Cardinality(call[c].seen) < MaxTeam
      BY <2>5, <2>6 DEF PlanInv, ReadsOK, ReadOK
    <3>2. call[c].seen \in SUBSET Users
      BY DEF PlanInv, IInv, CallsOK, CallState
    <3>3. Cardinality(call[c].seen) \in Nat BY <3>2, TeamsAreFinite
    <3>4. Cardinality(Members) + 1 > MaxTeam BY <2>5
    <3> QED BY <2>2, <3>1, <3>3, <3>4
  <2> QED BY <2>5, <2>6
<1>2. Spec => [][Grows => \E c \in Calls : Knows(c)]_vars
  BY <1>1, InitReads, NextReads, PTL DEF Spec
<1> QED BY <1>2 DEF TeamWithinPlan

(* Deleting an account takes the organization away only from users who joined after its
   members were counted, or, if the user was no longer one of them, from the one member
   that was counted. *)
THEOREM OnlyNewcomersLose == Spec => TakesOnlyNewcomers
<1> DEFINE Takes(c) == /\ call[c].at = "drop" /\ call'[c] # call[c]
                       /\ \/ Members \cap call[c].seen = {}
                          \/ call[c].user \notin call[c].seen
<1>1. PlanInv /\ [Next]_vars => [tenant /\ ~tenant' => \E c \in Calls : Takes(c)]_vars
  <2> SUFFICES ASSUME PlanInv, [Next]_vars, tenant, ~tenant'
               PROVE  \E c \in Calls : Takes(c)
    OBVIOUS
  <2>1. PICK c \in Calls : Drop(c)
    BY DEF Next, Proceed, Begin, Find, CountOwners, Write, Flag, Look, Limit, Add, Clear,
           Check, Insert, Consume, Orgs, CountMembers, Erase, Abort, Close, Expire, vars,
           rows
  <2>2. /\ call[c].at = "drop" /\ call[c] \in CallState /\ call \in [Calls -> CallState]
        /\ call[c].user \notin accounts /\ Cardinality(call[c].seen) <= 1
    BY <2>1 DEF PlanInv, IInv, CallsOK, ReadsOK, ReadOK, Gone, Drop
  <2>3. call'[c] # call[c]
    <3>1. call'[c].at = "idle" BY <2>1, <2>2 DEF Drop, Done, Step, Idle
    <3> QED BY <2>2, <3>1
  <2>4. ASSUME call[c].user \in call[c].seen PROVE Members \cap call[c].seen = {}
    <3>1. call[c].user \notin Members BY <2>2 DEF PlanInv, IInv, RowsOK
    <3>2. ASSUME NEW v \in call[c].seen PROVE v = call[c].user
      <4> SUFFICES ASSUME v # call[c].user PROVE FALSE OBVIOUS
      <4>1. call[c].seen \in SUBSET Users BY <2>2 DEF CallState
      <4>2. IsFiniteSet(call[c].seen) /\ Cardinality(call[c].seen) \in Nat
        BY <4>1, TeamsAreFinite
      <4>3. /\ IsFiniteSet({v}) /\ Cardinality({v}) = 1
            /\ call[c].user \notin {v}
        BY FS_Singleton
      <4>4. /\ IsFiniteSet({v} \cup {call[c].user})
            /\ Cardinality({v} \cup {call[c].user}) = Cardinality({v}) + 1
        BY <4>3, FS_AddElement
      <4>5. {v} \cup {call[c].user} \subseteq call[c].seen BY <2>4, <3>2
      <4>6. Cardinality({v} \cup {call[c].user}) <= Cardinality(call[c].seen)
        BY <4>2, <4>5, FS_Subset
      <4> QED BY <2>2, <4>2, <4>3, <4>4, <4>6
    <3> QED BY <3>1, <3>2
  <2> QED BY <2>2, <2>3, <2>4
<1>2. Spec => [][tenant /\ ~tenant' => \E c \in Calls : Takes(c)]_vars
  BY <1>1, InitReads, NextReads, PTL DEF Spec
<1> QED BY <1>2 DEF TakesOnlyNewcomers
=============================================================================
