-------------------------- MODULE WorkspaceAccess --------------------------
(***************************************************************************)
(* Users, sessions, memberships, invitations and recovery links: the        *)
(* routes of apps/api/src/app.ts under /api/v1/auth, /api/v1/workspaces and *)
(* /api/v1/invitations with the transactions of AuthRepository they call.   *)
(*                                                                          *)
(* A call is what one HTTP request holds between its steps: the context the *)
(* onRequest hook resolved and what its handler or its open transaction has *)
(* read.  Transactions run at READ COMMITTED: a statement sees what is      *)
(* committed when it starts, so a transaction that reads without a row lock *)
(* and then writes is two steps.  One that first takes the row of the user  *)
(* (lockUser, or an UPDATE of it) is a single step.                         *)
(*                                                                          *)
(* A password is the number of its hash; 0 stands for a user that does not  *)
(* exist.  A session is over when it is revoked or its term has passed.  An *)
(* invitation or a recovery link past its term is no longer found, which    *)
(* only keeps calls from starting, so their terms are left out, as are the  *)
(* audit rows and users' disabledAt, which no code sets.                    *)
(***************************************************************************)
EXTENDS Integers, FiniteSets

CONSTANTS Users, Workspaces, Invitations, RecoveryTokens, Calls,
          Founder,            \* the user created by create-user.ts
          FirstWorkspace,     \* the workspace it owns
          MaxSessions,        \* bound: session rows ever created
          MaxPasswords,       \* bound: hashes a user ever has
          MaxActiveSessions,  \* AUTH_MAX_ACTIVE_SESSIONS
          WorkspaceLimit,     \* memberships that stop createWorkspace (20)
          Nothing, Over

ASSUME AccessAssumption ==
    /\ Founder \in Users /\ FirstWorkspace \in Workspaces
    /\ MaxSessions \in Nat /\ MaxPasswords \in Nat \ {0}
    /\ MaxActiveSessions \in Nat \ {0} /\ WorkspaceLimit \in Nat

VARIABLES password, member, session, invitation, recovery, call

accessVars == <<password, member, session, invitation, recovery, call>>

SessionIds == 1..MaxSessions
Roles == {"OWNER", "MEMBER"}

(* Model Session: not created, live, or over.  "with" is the password that  *)
(* authenticated it.                                                        *)
SessionRow == [user: Users, active: Workspaces, with: 1..MaxPasswords]
InvitationRow == [workspace: Workspaces, email: Users, role: Roles,
                  state: {"pending", "accepted", "revoked"}]
RecoveryRow == [user: Users, state: {"pending", "used", "revoked"}]

(* null is no row, no id and no role. *)
ASSUME NothingIsNoRow ==
    /\ Nothing # Over /\ Nothing \notin Users \cup Workspaces \cup Roles
    /\ Nothing \notin SessionRow \cup InvitationRow \cup RecoveryRow

Live(s) == session[s] \notin {Nothing, Over}
LiveOf(u) == {s \in SessionIds : Live(s) /\ session[s].user = u}
Undecided(row) == row # Nothing /\ row.state = "pending"
Owners(w) == {u \in Users : member[<<w, u>>] = "OWNER"}
MembershipsOf(u) == {w \in Workspaces : member[<<w, u>>] # Nothing}

(* What a call holds: the context its hook resolved, the row it is about    *)
(* and what it has read of it: a password, the undecided invitations; or    *)
(* the role it is to write.                                                 *)
Idle == [step |-> "idle", session |-> Nothing, user |-> Nothing,
         workspace |-> Nothing, role |-> Nothing, target |-> Nothing,
         hash |-> 0, stale |-> {}, grant |-> Nothing]
At(c, step) == call[c].step = step
Finish(c) == call' = [call EXCEPT ![c] = Idle]
Await(c, step, target) ==
    call' = [call EXCEPT ![c].step = step, ![c].target = target]

(* An acceptance keeps the row of its user locked from its first statement  *)
(* to its commit.                                                           *)
UserLocked(u) == \E c \in Calls : At(c, "accepting") /\ call[c].user = u

(* requireWorkspaceOwner: the role is the one the hook saw. *)
AsOwner(c) == At(c, "handler") /\ call[c].role = "OWNER"

-----------------------------------------------------------------------------
AccessInit ==
    /\ password = [u \in Users |-> IF u = Founder THEN 1 ELSE 0]
    /\ member = [m \in Workspaces \X Users |->
                    IF m = <<FirstWorkspace, Founder>> THEN "OWNER" ELSE Nothing]
    /\ session = [s \in SessionIds |-> Nothing]
    /\ invitation = [i \in Invitations |-> Nothing]
    /\ recovery = [t \in RecoveryTokens |-> Nothing]
    /\ call = [c \in Calls |-> Idle]

(* The sessions that stay after pruning: the new one and the others seen    *)
(* last.  Which those are depends on clocks; any choice of that size may be *)
(* made.                                                                    *)
Pruned(u, new) ==
    LET others == LiveOf(u) \ {new}
        skip == MaxActiveSessions - 1
        excess == Cardinality(others) - skip
    IN  {p \in SUBSET others :
            Cardinality(p) = IF excess > 0 THEN excess ELSE 0}

(* session.create followed by pruneActiveSessions, under the lock of the    *)
(* user.                                                                    *)
OpenSession(u, w, with) ==
    \E s \in SessionIds :
        /\ \A older \in 1..(s - 1) : session[older] # Nothing
        /\ session[s] = Nothing
        /\ \E gone \in Pruned(u, s) :
               session' = [x \in SessionIds |->
                   IF x = s THEN [user |-> u, active |-> w, with |-> with]
                   ELSE IF x \in gone THEN Over
                   ELSE session[x]]

RevokeSessions(which) ==
    session' = [s \in SessionIds |->
        IF s \in which THEN Over ELSE session[s]]

(* The onRequest hook: a live session whose user still belongs to its       *)
(* active workspace.                                                        *)
ResolveContext(c) ==
    /\ At(c, "idle")
    /\ \E s \in SessionIds :
          /\ Live(s)
          /\ member[<<session[s].active, session[s].user>>] # Nothing
          /\ call' = [call EXCEPT ![c] =
                [Idle EXCEPT !.step = "handler", !.session = s,
                    !.user = session[s].user, !.workspace = session[s].active,
                    !.role = member[<<session[s].active, session[s].user>>]]]
    /\ UNCHANGED <<password, member, session, invitation, recovery>>

-----------------------------------------------------------------------------
(* Sessions and passwords *)

(* POST /auth/login: the user is read and its password verified ... *)
LoginRead(c) ==
    /\ At(c, "idle")
    /\ \E u \in Users : \E w \in MembershipsOf(u) :
          /\ password[u] # 0
          /\ call' = [call EXCEPT ![c] = [Idle EXCEPT !.step = "login",
                          !.user = u, !.workspace = w, !.hash = password[u]]]
    /\ UNCHANGED <<password, member, session, invitation, recovery>>

(* ... and the session is created if the password is still that one. *)
SamePassword_Unchecked(c) == TRUE
SamePassword(c) == password[call[c].user] = call[c].hash
LoginCreate(c) ==
    /\ At(c, "login") /\ ~UserLocked(call[c].user)
    /\ IF SamePassword(c)
       THEN OpenSession(call[c].user, call[c].workspace, call[c].hash)
       ELSE UNCHANGED session
    /\ Finish(c)
    /\ UNCHANGED <<password, member, invitation, recovery>>

Logout(c) ==
    /\ At(c, "handler")
    /\ RevokeSessions({call[c].session})
    /\ Finish(c)
    /\ UNCHANGED <<password, member, invitation, recovery>>

(* DELETE /auth/sessions/:id: a live session of the caller. *)
RevokeUserSession(c) ==
    /\ At(c, "handler")
    /\ \E s \in LiveOf(call[c].user) : RevokeSessions({s})
    /\ Finish(c)
    /\ UNCHANGED <<password, member, invitation, recovery>>

(* POST /auth/password: the current password is verified ... *)
PasswordRead(c) ==
    /\ At(c, "handler")
    /\ call' = [call EXCEPT ![c].step = "password", ![c].hash = password[call[c].user]]
    /\ UNCHANGED <<password, member, session, invitation, recovery>>

(* ... and replaced if it has not changed; the other sessions and the       *)
(* pending recovery links of the user end with it.                          *)
RevokeLinks(u, but) ==
    recovery' = [t \in RecoveryTokens |->
        IF t # but /\ Undecided(recovery[t]) /\ recovery[t].user = u
        THEN [recovery[t] EXCEPT !.state = "revoked"] ELSE recovery[t]]
PasswordChange(c) ==
    LET u == call[c].user IN
    /\ At(c, "password") /\ ~UserLocked(u)
    /\ IF SamePassword(c)
       THEN /\ password[u] < MaxPasswords
            /\ password' = [password EXCEPT ![u] = @ + 1]
            /\ session' = [s \in SessionIds |->
                  IF s \in LiveOf(u) \ {call[c].session} THEN Over
                  ELSE IF s = call[c].session /\ Live(s)
                  THEN [session[s] EXCEPT !.with = password[u] + 1]
                  ELSE session[s]]
            /\ RevokeLinks(u, Nothing)
       ELSE UNCHANGED <<password, session, recovery>>
    /\ Finish(c)
    /\ UNCHANGED <<member, invitation>>

(* create-recovery.ts: a new link, under the lock of the user, revokes the  *)
(* older ones.                                                              *)
IssueRecovery ==
    \E u \in Users, t \in RecoveryTokens :
        /\ password[u] # 0 /\ ~UserLocked(u) /\ recovery[t] = Nothing
        /\ recovery' = [x \in RecoveryTokens |->
              IF x = t THEN [user |-> u, state |-> "pending"]
              ELSE IF Undecided(recovery[x]) /\ recovery[x].user = u
              THEN [recovery[x] EXCEPT !.state = "revoked"] ELSE recovery[x]]
        /\ UNCHANGED <<password, member, session, invitation, call>>

(* POST /auth/recovery/:token: the link is found ... *)
RecoverRead(c) ==
    /\ At(c, "idle")
    /\ \E t \in RecoveryTokens :
          /\ Undecided(recovery[t])
          /\ call' = [call EXCEPT ![c] = [Idle EXCEPT !.step = "recover",
                          !.user = recovery[t].user, !.target = t]]
    /\ UNCHANGED <<password, member, session, invitation, recovery>>

(* ... the user locked, and the link consumed if nothing decided it: every  *)
(* session of the user ends.                                                *)
LinkOpen(t) == Undecided(recovery[t])
RecoverPassword(c) ==
    LET u == call[c].user t == call[c].target IN
    /\ At(c, "recover") /\ ~UserLocked(u)
    /\ IF LinkOpen(t)
       THEN /\ password[u] < MaxPasswords
            /\ password' = [password EXCEPT ![u] = @ + 1]
            /\ RevokeSessions(LiveOf(u))
            /\ recovery' = [x \in RecoveryTokens |->
                  IF x = t THEN [recovery[x] EXCEPT !.state = "used"]
                  ELSE IF Undecided(recovery[x]) /\ recovery[x].user = u
                  THEN [recovery[x] EXCEPT !.state = "revoked"] ELSE recovery[x]]
       ELSE UNCHANGED <<password, session, recovery>>
    /\ Finish(c)
    /\ UNCHANGED <<member, invitation>>

-----------------------------------------------------------------------------
(* Workspaces and members *)

(* POST /auth/workspace: the membership is read, then the session is moved. *)
SwitchRead(c) ==
    /\ At(c, "handler")
    /\ \E w \in MembershipsOf(call[c].user) : Await(c, "switch", w)
    /\ UNCHANGED <<password, member, session, invitation, recovery>>

Activate(s, w) ==
    session' = IF Live(s) THEN [session EXCEPT ![s].active = w] ELSE session
SwitchWorkspace(c) ==
    /\ At(c, "switch")
    /\ Activate(call[c].session, call[c].target)
    /\ Finish(c)
    /\ UNCHANGED <<password, member, invitation, recovery>>

(* POST /workspaces: the memberships are counted, then the workspace is     *)
(* created with its first owner and becomes the active one of the session.  *)
BelowLimit(c) == Cardinality(MembershipsOf(call[c].user)) < WorkspaceLimit
CreateWorkspaceRead(c) ==
    /\ At(c, "handler") /\ BelowLimit(c)
    /\ Await(c, "create", Nothing)
    /\ UNCHANGED <<password, member, session, invitation, recovery>>

CreateWorkspace(c) ==
    /\ At(c, "create")
    /\ \E w \in Workspaces \ {FirstWorkspace} :
          /\ \A u \in Users : member[<<w, u>>] = Nothing
          /\ member' = [member EXCEPT ![<<w, call[c].user>>] = "OWNER"]
          /\ Activate(call[c].session, w)
    /\ Finish(c)
    /\ UNCHANGED <<password, invitation, recovery>>

(* POST /workspaces/:id/invitations: refused for a member; the undecided    *)
(* invitations of that address are those the statement sees ...             *)
InviteRead(c) ==
    /\ AsOwner(c)
    /\ \E u \in Users :
          /\ member[<<call[c].workspace, u>>] = Nothing
          /\ call' = [call EXCEPT ![c].step = "invite", ![c].target = u,
                ![c].stale = {i \in Invitations : /\ Undecided(invitation[i])
                                                 /\ invitation[i].workspace = call[c].workspace
                                                 /\ invitation[i].email = u}]
    /\ UNCHANGED <<password, member, session, invitation, recovery>>

(* ... they are revoked and the new one is created.                         *)
CreateInvitation(c) ==
    /\ At(c, "invite")
    /\ \E i \in Invitations, role \in Roles :
          /\ invitation[i] = Nothing
          /\ invitation' = [x \in Invitations |->
                IF x = i THEN [workspace |-> call[c].workspace, email |-> call[c].target,
                               role |-> role, state |-> "pending"]
                ELSE IF x \in call[c].stale /\ Undecided(invitation[x])
                THEN [invitation[x] EXCEPT !.state = "revoked"] ELSE invitation[x]]
    /\ Finish(c)
    /\ UNCHANGED <<password, member, session, recovery>>

RevokeInvitation(c) ==
    /\ AsOwner(c)
    /\ \E i \in Invitations :
          /\ Undecided(invitation[i]) /\ invitation[i].workspace = call[c].workspace
          /\ invitation' = [invitation EXCEPT ![i].state = "revoked"]
    /\ Finish(c)
    /\ UNCHANGED <<password, member, session, recovery>>

(* PATCH /workspaces/:id/members/:userId: the member is read, and an owner  *)
(* becomes a member only while others own the workspace ...                 *)
MayBecome(w, u, role) ==
    /\ member[<<w, u>>] # Nothing
    /\ member[<<w, u>>] = "OWNER" /\ role = "MEMBER" => Cardinality(Owners(w)) > 1
RoleRead(c) ==
    /\ AsOwner(c)
    /\ \E u \in Users, role \in Roles :
          /\ MayBecome(call[c].workspace, u, role)
          /\ call' = [call EXCEPT ![c].step = "role", ![c].target = u, ![c].grant = role]
    /\ UNCHANGED <<password, member, session, invitation, recovery>>

(* ... then the row is updated by its key; without the row the transaction  *)
(* fails.                                                                   *)
UpdateMemberRole(c) ==
    LET w == call[c].workspace u == call[c].target IN
    /\ At(c, "role")
    /\ member' = IF member[<<w, u>>] # Nothing
                 THEN [member EXCEPT ![<<w, u>>] = call[c].grant] ELSE member
    /\ Finish(c)
    /\ UNCHANGED <<password, session, invitation, recovery>>

(* DELETE /workspaces/:id/members/:userId: an owner, or the caller itself,  *)
(* is not removed ...                                                       *)
MayBeRemoved(c, u) == u # call[c].user /\ member[<<call[c].workspace, u>>] = "MEMBER"
RemoveRead(c) ==
    /\ AsOwner(c)
    /\ \E u \in Users : MayBeRemoved(c, u) /\ Await(c, "remove", u)
    /\ UNCHANGED <<password, member, session, invitation, recovery>>

(* ... and the sessions of the removed member in this workspace end.        *)
RemoveMember(c) ==
    LET w == call[c].workspace u == call[c].target IN
    /\ At(c, "remove")
    /\ IF member[<<w, u>>] # Nothing
       THEN /\ member' = [member EXCEPT ![<<w, u>>] = Nothing]
            /\ RevokeSessions({s \in LiveOf(u) : session[s].active = w})
       ELSE UNCHANGED <<member, session>>
    /\ Finish(c)
    /\ UNCHANGED <<password, invitation, recovery>>

-----------------------------------------------------------------------------
(* POST /invitations/:token/accept: the invitation and the user of its      *)
(* address are read and the password verified (0 if there is no such user). *)
AcceptRead(c) ==
    /\ At(c, "idle")
    /\ \E i \in Invitations :
          /\ Undecided(invitation[i])
          /\ call' = [call EXCEPT ![c] = [Idle EXCEPT !.step = "accept",
                          !.user = invitation[i].email, !.workspace = invitation[i].workspace,
                          !.target = i, !.hash = password[invitation[i].email]]]
    /\ UNCHANGED <<password, member, session, invitation, recovery>>

(* The transaction finds the invitation again, locks the user or creates    *)
(* it, compares the password, and reads the role the user has now.          *)
AcceptLock(c) ==
    LET u == call[c].user i == call[c].target IN
    /\ At(c, "accept") /\ ~UserLocked(u)
    /\ IF Undecided(invitation[i]) /\ SamePassword(c)
       THEN call' = [call EXCEPT ![c].step = "accepting",
                                 ![c].role = member[<<call[c].workspace, u>>]]
       ELSE Finish(c)
    /\ UNCHANGED <<password, member, session, invitation, recovery>>

(* The membership is created, or updated unless the role read was OWNER;    *)
(* the invitation is consumed if nothing decided it meanwhile, and else the *)
(* whole transaction is undone.                                             *)
StillOpen_AsRead(i) == TRUE
StillOpen(i) == Undecided(invitation[i])
Admitted(c) ==
    LET w == call[c].workspace u == call[c].user i == call[c].target IN
    IF member[<<w, u>>] # Nothing /\ call[c].role = "OWNER" THEN member
    ELSE [member EXCEPT ![<<w, u>>] = invitation[i].role]
AcceptInvitation(c) ==
    LET w == call[c].workspace u == call[c].user i == call[c].target
        hash == IF call[c].hash = 0 THEN 1 ELSE call[c].hash IN
    /\ At(c, "accepting")
    /\ IF StillOpen(i)
       THEN /\ member' = Admitted(c)
            /\ password' = [password EXCEPT ![u] = hash]
            /\ invitation' = [invitation EXCEPT ![i].state = "accepted"]
            /\ OpenSession(u, w, hash)
       ELSE UNCHANGED <<member, password, invitation, session>>
    /\ Finish(c)
    /\ UNCHANGED recovery

-----------------------------------------------------------------------------
(* A session also ends by itself: its term is over. *)
ExpireSession(s) ==
    /\ Live(s)
    /\ RevokeSessions({s})
    /\ UNCHANGED <<password, member, invitation, recovery, call>>

(* A handler that only reads, or that fails before its transaction.         *)
Answer(c) ==
    /\ At(c, "handler")
    /\ Finish(c)
    /\ UNCHANGED <<password, member, session, invitation, recovery>>

PasswordSteps(c) ==
    \/ LoginRead(c) \/ LoginCreate(c) \/ Logout(c) \/ RevokeUserSession(c)
    \/ PasswordRead(c) \/ PasswordChange(c) \/ RecoverRead(c) \/ RecoverPassword(c)
MemberSteps(c) ==
    \/ SwitchRead(c) \/ SwitchWorkspace(c)
    \/ CreateWorkspaceRead(c) \/ CreateWorkspace(c)
    \/ InviteRead(c) \/ CreateInvitation(c) \/ RevokeInvitation(c)
    \/ RoleRead(c) \/ UpdateMemberRole(c) \/ RemoveRead(c) \/ RemoveMember(c)
    \/ AcceptRead(c) \/ AcceptLock(c) \/ AcceptInvitation(c)

AccessNext ==
    \/ \E c \in Calls : \/ ResolveContext(c) \/ Answer(c)
                        \/ PasswordSteps(c) \/ MemberSteps(c)
    \/ IssueRecovery
    \/ \E s \in SessionIds : ExpireSession(s)

AccessSpec == AccessInit /\ [][AccessNext]_accessVars

-----------------------------------------------------------------------------
(* Properties *)

CallRow == [step: {"idle", "handler", "login", "password", "recover", "switch", "create",
                   "invite", "role", "remove", "accept", "accepting"},
            session: SessionIds \cup {Nothing}, user: Users \cup {Nothing},
            workspace: Workspaces \cup {Nothing}, role: Roles \cup {Nothing},
            target: Users \cup Workspaces \cup Invitations \cup RecoveryTokens \cup {Nothing},
            hash: 0..MaxPasswords, stale: SUBSET Invitations, grant: Roles \cup {Nothing}]

(* The rows keep their types.                                               *)
AccessTypeOK ==
    /\ password \in [Users -> 0..MaxPasswords]
    /\ member \in [Workspaces \X Users -> Roles \cup {Nothing}]
    /\ session \in [SessionIds -> SessionRow \cup {Nothing, Over}]
    /\ invitation \in [Invitations -> InvitationRow \cup {Nothing}]
    /\ recovery \in [RecoveryTokens -> RecoveryRow \cup {Nothing}]
    /\ call \in [Calls -> CallRow]

(* No session outlives the password that opened it, and no user holds two   *)
(* recovery links: a login or an acceptance that verified a password before *)
(* it was changed or recovered opens nothing afterwards (createSession,     *)
(* acceptInvitation, changePassword, recoverPassword,                       *)
(* createPasswordRecovery).                                                 *)
CredentialsCurrent ==
    /\ \A s \in SessionIds : Live(s) => session[s].with = password[session[s].user]
    /\ \A t, x \in RecoveryTokens :
          Undecided(recovery[t]) /\ Undecided(recovery[x]) /\ recovery[t].user = recovery[x].user => t = x

(* A user enters a workspace only by creating it or by an invitation that   *)
(* was undecided until that very step, and a decision on an invitation is   *)
(* final (acceptInvitation against revokeInvitation, createInvitation and   *)
(* other acceptances).                                                      *)
AdmittedByInvitation ==
    [][/\ \A w \in Workspaces, u \in Users :
             member[<<w, u>>] = Nothing /\ member'[<<w, u>>] # Nothing =>
                \/ Owners(w) = {} /\ member'[<<w, u>>] = "OWNER"
                \/ \E i \in Invitations :
                      /\ Undecided(invitation[i]) /\ invitation'[i].state = "accepted"
                      /\ invitation[i].workspace = w /\ invitation[i].email = u
       /\ \A i \in Invitations :
             invitation[i] # Nothing /\ ~Undecided(invitation[i]) =>
                invitation'[i] = invitation[i]]_accessVars

(* "В workspace должен остаться владелец": a workspace with members has an  *)
(* owner (updateMemberRole, removeMember, throwMemberApiError).             *)
WorkspaceKeepsOwner ==
    \A w \in Workspaces : (\E u \in Users : member[<<w, u>>] # Nothing) => Owners(w) # {}
=============================================================================
