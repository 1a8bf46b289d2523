----------------------- MODULE WorkspaceAccess_proofs -----------------------
(***************************************************************************)
(* Theorems about WorkspaceAccess for every number of users, workspaces,    *)
(* sessions, calls, invitations and recovery links.                         *)
(*                                                                          *)
(* What makes the credentials current is what the open calls hold: an       *)
(* acceptance that has locked its user still has the password it compared,  *)
(* a call's session is of its user, and a link or an invitation it found    *)
(* keeps its user, workspace and address while it is decided.  CallOK says  *)
(* it of one call, and RowsKept is what a step must leave alone so that it  *)
(* stays true of the calls that did not make the step.                      *)
(***************************************************************************)
EXTENDS WorkspaceAccess, TLAPS

(* The handlers that run under a session. *)
UnderSession == {"handler", "password", "switch", "create", "invite", "role", "remove"}

CallOK(c) ==
    /\ ~At(c, "idle") => call[c].user \in Users
    /\ ~At(c, "idle") /\ ~At(c, "recover") => call[c].workspace \in Workspaces
    /\ call[c].step \in UnderSession =>
          /\ call[c].session \in SessionIds /\ session[call[c].session] # Nothing
          /\ Live(call[c].session) => session[call[c].session].user = call[c].user
    /\ At(c, "login") => call[c].hash # 0
    /\ At(c, "recover") =>
          /\ call[c].target \in RecoveryTokens /\ recovery[call[c].target] # Nothing
          /\ recovery[call[c].target].user = call[c].user
    /\ At(c, "accept") \/ At(c, "accepting") =>
          /\ call[c].target \in Invitations /\ invitation[call[c].target] # Nothing
          /\ invitation[call[c].target].workspace = call[c].workspace
          /\ invitation[call[c].target].email = call[c].user
    /\ At(c, "switch") => call[c].target \in Workspaces
    /\ call[c].step \in {"invite", "role", "remove"} => call[c].target \in Users
    /\ At(c, "role") => call[c].grant \in Roles
    /\ At(c, "accepting") => password[call[c].user] = call[c].hash

(* A user is locked by one acceptance at a time.                            *)
OneLock == \A c, d \in Calls :
    At(c, "accepting") /\ At(d, "accepting") /\ call[c].user = call[d].user => c = d

AccessInv ==
    /\ AccessTypeOK
    /\ \A c \in Calls : CallOK(c)
    /\ OneLock
    /\ CredentialsCurrent

(* The two parts of CredentialsCurrent. *)
SessionsCurrent == \A s \in SessionIds :
    Live(s) => session[s].with = password[session[s].user]
OneLink == \A t, x \in RecoveryTokens :
    Undecided(recovery[t]) /\ Undecided(recovery[x]) /\ recovery[t].user = recovery[x].user => t = x

RowsTyped ==
    /\ password \in [Users -> 0..MaxPasswords]
    /\ member \in [Workspaces \X Users -> Roles \cup {Nothing}]
    /\ session \in [SessionIds -> SessionRow \cup {Nothing, Over}]
    /\ invitation \in [Invitations -> InvitationRow \cup {Nothing}]
    /\ recovery \in [RecoveryTokens -> RecoveryRow \cup {Nothing}]

SessionsKept == \A s \in SessionIds : session[s] # Nothing =>
    /\ session'[s] # Nothing
    /\ Live(s)' => Live(s) /\ session'[s].user = session[s].user
InvitationsKept == \A i \in Invitations : invitation[i] # Nothing =>
    /\ invitation'[i] # Nothing
    /\ invitation'[i].workspace = invitation[i].workspace
    /\ invitation'[i].email = invitation[i].email
LinksKept == \A t \in RecoveryTokens : recovery[t] # Nothing =>
    recovery'[t] # Nothing /\ recovery'[t].user = recovery[t].user
LockedKept(c) == \A d \in Calls :
    d # c /\ At(d, "accepting") => password'[call[d].user] = password[call[d].user]

-----------------------------------------------------------------------------
(* A call that holds nothing is well typed. *)
LEMMA IdleRow == Idle \in CallRow
  BY AccessAssumption DEF Idle, CallRow

(* A step that only makes a call hold something.                            *)
LEMMA ReadStep ==
  ASSUME AccessInv, NEW c \in Calls, NEW k \in CallRow, call' = [call EXCEPT ![c] = k],
         UNCHANGED <<password, member, session, invitation, recovery>>,
         CallOK(c)', k.step = "accepting" => ~UserLocked(k.user)
  PROVE  AccessInv'
<1>1. AccessTypeOK'
  BY DEF AccessInv, AccessTypeOK
<1>2. ASSUME NEW d \in Calls PROVE CallOK(d)'
  <2>1. CASE d = c
    BY <2>1
  <2>2. CASE d # c
    <3>1. call'[d] = call[d]
      BY <2>2 DEF AccessInv, AccessTypeOK
    <3> QED
      BY <3>1 DEF AccessInv, CallOK, At, Live
  <2> QED
    BY <2>1, <2>2
<1>3. OneLock'
  <2>1. /\ call'[c] = k
        /\ \A d \in Calls : d # c => call'[d] = call[d]
    BY DEF AccessInv, AccessTypeOK
  <2> QED
    BY <2>1 DEF AccessInv, OneLock, At, UserLocked
<1>4. CredentialsCurrent'
  BY DEF AccessInv, CredentialsCurrent, Live, Undecided
<1> QED
  BY <1>1, <1>2, <1>3, <1>4 DEF AccessInv

(* A step that writes rows and ends its call, or is made by no call.        *)
LEMMA WriteStep ==
  ASSUME AccessInv, NEW c,
         \/ c \in Calls /\ call' = [call EXCEPT ![c] = Idle]
         \/ c \notin Calls /\ call' = call,
         RowsTyped', SessionsKept, InvitationsKept, LinksKept, LockedKept(c),
         CredentialsCurrent'
  PROVE  AccessInv'
<1>1. \A d \in Calls : (call'[d] = call[d] /\ d # c) \/ call'[d] = Idle
  BY DEF AccessInv, AccessTypeOK
<1>2. AccessTypeOK'
  BY IdleRow DEF AccessInv, AccessTypeOK, RowsTyped
<1>3. ASSUME NEW d \in Calls PROVE CallOK(d)'
  <2>1. CASE call'[d] = Idle
    BY <2>1 DEF CallOK, Idle, At, UnderSession
  <2>2. CASE call'[d] = call[d] /\ d # c
    <3>1. CallOK(d)
      BY DEF AccessInv
    <3>2. call[d].step \in UnderSession =>
            /\ session'[call[d].session] # Nothing
            /\ Live(call[d].session)' => session'[call[d].session].user = call[d].user
      BY <2>2, <3>1 DEF CallOK, SessionsKept, Live
    <3>3. At(d, "recover") =>
            /\ recovery'[call[d].target] # Nothing
            /\ recovery'[call[d].target].user = call[d].user
      BY <3>1 DEF CallOK, LinksKept
    <3>4. At(d, "accept") \/ At(d, "accepting") =>
            /\ invitation'[call[d].target] # Nothing
            /\ invitation'[call[d].target].workspace = call[d].workspace
            /\ invitation'[call[d].target].email = call[d].user
      BY <3>1 DEF CallOK, InvitationsKept
    <3>5. At(d, "accepting") => password'[call[d].user] = call[d].hash
      BY <2>2, <3>1 DEF CallOK, LockedKept
    <3> QED
      BY <2>2, <3>1, <3>2, <3>3, <3>4, <3>5 DEF CallOK, At, Live
  <2> QED
    BY <1>1, <2>1, <2>2
<1>4. OneLock'
  BY <1>1 DEF AccessInv, OneLock, At, Idle
<1> QED
  BY <1>2, <1>3, <1>4 DEF AccessInv

(* What the steps of a call that write nothing leave it with.               *)
LEMMA ContextRead ==
  ASSUME AccessInv, NEW c \in Calls, ResolveContext(c) PROVE AccessInv'
<1>1. PICK s \in SessionIds :
        /\ Live(s) /\ member[<<session[s].active, session[s].user>>] # Nothing
        /\ call' = [call EXCEPT ![c] =
              [Idle EXCEPT !.step = "handler", !.session = s,
                  !.user = session[s].user, !.workspace = session[s].active,
                  !.role = member[<<session[s].active, session[s].user>>]]]
  BY DEF ResolveContext
<1> DEFINE k == [Idle EXCEPT !.step = "handler", !.session = s,
                     !.user = session[s].user, !.workspace = session[s].active,
                     !.role = member[<<session[s].active, session[s].user>>]]
<1>2. session[s] \in SessionRow
  BY <1>1 DEF AccessInv, AccessTypeOK, Live
<1>3. member[<<session[s].active, session[s].user>>] \in Roles \cup {Nothing}
  BY <1>2 DEF AccessInv, AccessTypeOK, SessionRow
<1>4. k \in CallRow /\ k.step = "handler" /\ k.user = session[s].user
      /\ k.workspace = session[s].active /\ k.session = s
  <2>1. session[s].user \in Users /\ session[s].active \in Workspaces
    BY <1>2 DEF SessionRow
  <2>2. k = [Idle EXCEPT !.step = "handler", !.session = s, !.user = session[s].user,
                !.workspace = session[s].active,
                !.role = member[<<session[s].active, session[s].user>>]]
    OBVIOUS
  <2> QED
    BY <1>3, <2>1, <2>2, IdleRow DEF CallRow
<1>5. call'[c] = k
  BY <1>1 DEF AccessInv, AccessTypeOK
<1> HIDE DEF k
<1>6. CallOK(c)'
  BY <1>1, <1>2, <1>4, <1>5 DEF ResolveContext, CallOK, At, UnderSession, Live, SessionRow
<1>7. call' = [call EXCEPT ![c] = k]
  BY <1>1 DEF k
<1> QED
  BY <1>4, <1>6, <1>7, ReadStep DEF ResolveContext

(* A login reads the user it found.                                         *)
LEMMA LoginReads ==
  ASSUME AccessInv, NEW c \in Calls, LoginRead(c) PROVE AccessInv'
<1>1. PICK u \in Users, w \in Workspaces :
        /\ password[u] # 0
        /\ call' = [call EXCEPT ![c] = [Idle EXCEPT !.step = "login",
                        !.user = u, !.workspace = w, !.hash = password[u]]]
  BY DEF LoginRead, MembershipsOf
<1> DEFINE k == [Idle EXCEPT !.step = "login", !.user = u, !.workspace = w, !.hash = password[u]]
<1>2. w \in Workspaces /\ password[u] \in 0..MaxPasswords
  BY DEF AccessInv, AccessTypeOK
<1>3. k \in CallRow /\ k.step = "login" /\ k.user = u /\ k.workspace = w /\ k.hash = password[u]
  BY <1>2, AccessAssumption DEF Idle, CallRow
<1>4. call'[c] = k
  BY <1>1 DEF AccessInv, AccessTypeOK
<1> HIDE DEF k
<1>5. CallOK(c)'
  BY <1>1, <1>2, <1>3, <1>4 DEF LoginRead, CallOK, At, UnderSession
<1>6. call' = [call EXCEPT ![c] = k]
  BY <1>1 DEF k
<1> QED
  BY <1>3, <1>5, <1>6, ReadStep DEF LoginRead

(* A recovery reads the pending row of its token.                           *)
LEMMA RecoveryReads ==
  ASSUME AccessInv, NEW c \in Calls, RecoverRead(c) PROVE AccessInv'
<1>1. PICK t \in RecoveryTokens :
        /\ Undecided(recovery[t])
        /\ call' = [call EXCEPT ![c] = [Idle EXCEPT !.step = "recover",
                        !.user = recovery[t].user, !.target = t]]
  BY DEF RecoverRead
<1> DEFINE k == [Idle EXCEPT !.step = "recover", !.user = recovery[t].user, !.target = t]
<1>2. recovery[t] \in RecoveryRow
  BY <1>1 DEF Undecided, AccessInv, AccessTypeOK
<1>3. k \in CallRow /\ k.step = "recover" /\ k.user = recovery[t].user /\ k.target = t
  <2>1. recovery[t].user \in Users
    BY <1>2 DEF RecoveryRow
  <2> QED
    BY <2>1, IdleRow DEF CallRow
<1>4. call'[c] = k
  BY <1>1 DEF AccessInv, AccessTypeOK
<1> HIDE DEF k
<1>5. CallOK(c)'
  BY <1>1, <1>2, <1>3, <1>4 DEF RecoverRead, CallOK, At, UnderSession, Undecided, RecoveryRow
<1>6. call' = [call EXCEPT ![c] = k]
  BY <1>1 DEF k
<1> QED
  BY <1>3, <1>5, <1>6, ReadStep DEF RecoverRead

(* An acceptance reads the invitation of its token.                         *)
LEMMA AcceptanceReads ==
  ASSUME AccessInv, NEW c \in Calls, AcceptRead(c) PROVE AccessInv'
<1>1. PICK i \in Invitations :
        /\ Undecided(invitation[i])
        /\ call' = [call EXCEPT ![c] = [Idle EXCEPT !.step = "accept",
                        !.user = invitation[i].email, !.workspace = invitation[i].workspace,
                        !.target = i, !.hash = password[invitation[i].email]]]
  BY DEF AcceptRead
<1> DEFINE k == [Idle EXCEPT !.step = "accept", !.user = invitation[i].email,
                     !.workspace = invitation[i].workspace, !.target = i,
                     !.hash = password[invitation[i].email]]
<1>2. invitation[i] \in InvitationRow
  BY <1>1 DEF Undecided, AccessInv, AccessTypeOK
<1>3. password[invitation[i].email] \in 0..MaxPasswords
  BY <1>2 DEF InvitationRow, AccessInv, AccessTypeOK
<1>4. /\ k \in CallRow /\ k.step = "accept" /\ k.user = invitation[i].email
      /\ k.workspace = invitation[i].workspace /\ k.target = i
  BY <1>2, <1>3, AccessAssumption DEF Idle, CallRow, InvitationRow
<1>5. call'[c] = k
  BY <1>1 DEF AccessInv, AccessTypeOK
<1> HIDE DEF k
<1>6. CallOK(c)'
  BY <1>1, <1>2, <1>4, <1>5 DEF AcceptRead, CallOK, At, UnderSession, Undecided, InvitationRow
<1>7. call' = [call EXCEPT ![c] = k]
  BY <1>1 DEF k
<1> QED
  BY <1>4, <1>6, <1>7, ReadStep DEF AcceptRead

(* A handler that goes on to a step of its own keeps session, user and      *)
(* workspace.                                                               *)
LEMMA HandlerStep ==
  ASSUME AccessInv, NEW c \in Calls, At(c, "handler"), NEW k \in CallRow,
         k.step \in UnderSession, k.session = call[c].session, k.user = call[c].user,
         k.workspace = call[c].workspace,
         k.step = "switch" => k.target \in Workspaces,
         k.step \in {"invite", "role", "remove"} => k.target \in Users,
         k.step = "role" => k.grant \in Roles,
         call' = [call EXCEPT ![c] = k],
         UNCHANGED <<password, member, session, invitation, recovery>>
  PROVE  AccessInv'
<1>1. call'[c] = k
  BY DEF AccessInv, AccessTypeOK
<1>2. CallOK(c)
  BY DEF AccessInv
<1>3. CallOK(c)'
  BY <1>1, <1>2 DEF CallOK, At, UnderSession, Live
<1> QED
  BY <1>3, ReadStep DEF UnderSession

(* The reading half of every handler.                                       *)
LEMMA HandlerReads ==
  ASSUME AccessInv, NEW c \in Calls,
         \/ PasswordRead(c) \/ SwitchRead(c) \/ CreateWorkspaceRead(c)
         \/ InviteRead(c) \/ RoleRead(c) \/ RemoveRead(c)
  PROVE  AccessInv'
<1>1. call[c] \in CallRow /\ CallOK(c)
  BY DEF AccessInv, AccessTypeOK
<1>2. CASE PasswordRead(c)
  <2> DEFINE k == [call[c] EXCEPT !.step = "password", !.hash = password[call[c].user]]
  <2>1. password[call[c].user] \in 0..MaxPasswords
    BY <1>1, <1>2 DEF PasswordRead, CallOK, At, AccessInv, AccessTypeOK
  <2>2. k \in CallRow /\ k.step = "password" /\ k.session = call[c].session
        /\ k.user = call[c].user /\ k.workspace = call[c].workspace
    BY <1>1, <2>1 DEF CallRow
  <2>3. call' = [call EXCEPT ![c] = k]
    BY <1>2 DEF PasswordRead
  <2> HIDE DEF k
  <2> QED
    BY <1>2, <2>2, <2>3, HandlerStep DEF PasswordRead, UnderSession
<1>3. CASE SwitchRead(c)
  <2>1. PICK w \in MembershipsOf(call[c].user) : Await(c, "switch", w)
    BY <1>3 DEF SwitchRead
  <2> DEFINE k == [call[c] EXCEPT !.step = "switch", !.target = w]
  <2>2. w \in Workspaces
    BY DEF MembershipsOf
  <2>3. k \in CallRow /\ k.step = "switch" /\ k.session = call[c].session
        /\ k.user = call[c].user /\ k.workspace = call[c].workspace /\ k.target = w
    BY <1>1, <2>2 DEF CallRow
  <2>4. call' = [call EXCEPT ![c] = k]
    BY <2>1 DEF Await
  <2> HIDE DEF k
  <2> QED
    BY <1>3, <2>2, <2>3, <2>4, HandlerStep DEF SwitchRead, UnderSession
<1>4. CASE CreateWorkspaceRead(c)
  <2> DEFINE k == [call[c] EXCEPT !.step = "create", !.target = Nothing]
  <2>1. k \in CallRow /\ k.step = "create" /\ k.session = call[c].session
        /\ k.user = call[c].user /\ k.workspace = call[c].workspace
    BY <1>1 DEF CallRow
  <2>2. call' = [call EXCEPT ![c] = k]
    BY <1>4 DEF CreateWorkspaceRead, Await
  <2> HIDE DEF k
  <2> QED
    BY <1>4, <2>1, <2>2, HandlerStep DEF CreateWorkspaceRead, UnderSession
<1>5. CASE InviteRead(c)
  <2> DEFINE open(u) == {i \in Invitations : /\ Undecided(invitation[i])
                                             /\ invitation[i].workspace = call[c].workspace
                                             /\ invitation[i].email = u}
  <2>1. PICK u \in Users : call' = [call EXCEPT ![c].step = "invite", ![c].target = u,
                                                ![c].stale = open(u)]
    BY <1>5 DEF InviteRead
  <2> DEFINE k == [call[c] EXCEPT !.step = "invite", !.target = u, !.stale = open(u)]
  <2>2. open(u) \in SUBSET Invitations
    OBVIOUS
  <2> HIDE DEF open
  <2>3. k \in CallRow /\ k.step = "invite" /\ k.session = call[c].session
        /\ k.user = call[c].user /\ k.workspace = call[c].workspace /\ k.target = u
    BY <1>1, <2>2 DEF CallRow
  <2>4. call' = [call EXCEPT ![c] = k]
    BY <2>1
  <2> HIDE DEF k
  <2> QED
    BY <1>5, <2>3, <2>4, HandlerStep DEF InviteRead, AsOwner, UnderSession
<1>6. CASE RoleRead(c)
  <2>1. PICK u \in Users, role \in Roles :
          call' = [call EXCEPT ![c].step = "role", ![c].target = u, ![c].grant = role]
    BY <1>6 DEF RoleRead
  <2> DEFINE k == [call[c] EXCEPT !.step = "role", !.target = u, !.grant = role]
  <2>2. k \in CallRow /\ k.step = "role" /\ k.session = call[c].session
        /\ k.user = call[c].user /\ k.workspace = call[c].workspace
        /\ k.target = u /\ k.grant = role
    BY <1>1 DEF CallRow
  <2>3. call' = [call EXCEPT ![c] = k]
    BY <2>1
  <2> HIDE DEF k
  <2> QED
    BY <1>6, <2>2, <2>3, HandlerStep DEF RoleRead, AsOwner, UnderSession
<1>7. CASE RemoveRead(c)
  <2>1. PICK u \in Users : Await(c, "remove", u)
    BY <1>7 DEF RemoveRead
  <2> DEFINE k == [call[c] EXCEPT !.step = "remove", !.target = u]
  <2>2. k \in CallRow /\ k.step = "remove" /\ k.session = call[c].session
        /\ k.user = call[c].user /\ k.workspace = call[c].workspace /\ k.target = u
    BY <1>1 DEF CallRow
  <2>3. call' = [call EXCEPT ![c] = k]
    BY <2>1 DEF Await
  <2> HIDE DEF k
  <2> QED
    BY <1>7, <2>2, <2>3, HandlerStep DEF RemoveRead, AsOwner, UnderSession
<1> QED
  BY <1>2, <1>3, <1>4, <1>5, <1>6, <1>7
(* The acceptance goes on under the lock of the user, or ends. *)
LEMMA AcceptanceLocks ==
  ASSUME AccessInv, NEW c \in Calls, AcceptLock(c) PROVE AccessInv'
<1>1. call[c] \in CallRow /\ CallOK(c)
  BY DEF AccessInv, AccessTypeOK
<1>2. CASE Undecided(invitation[call[c].target]) /\ SamePassword(c)
  <2> DEFINE role == member[<<call[c].workspace, call[c].user>>]
             k == [call[c] EXCEPT !.step = "accepting", !.role = role]
  <2>1. role \in Roles \cup {Nothing}
    BY <1>1 DEF AcceptLock, CallOK, At, AccessInv, AccessTypeOK
  <2> HIDE DEF role
  <2>2. /\ k \in CallRow /\ k.step = "accepting" /\ k.user = call[c].user
        /\ k.workspace = call[c].workspace /\ k.target = call[c].target /\ k.hash = call[c].hash
    BY <1>1, <2>1 DEF CallRow
  <2>3. call' = [call EXCEPT ![c] = k]
    BY <1>2 DEF AcceptLock, role
  <2> HIDE DEF k
  <2>4. call'[c] = k
    BY <2>3 DEF AccessInv, AccessTypeOK
  <2>5. CallOK(c)'
    BY <1>1, <1>2, <2>2, <2>4 DEF AcceptLock, CallOK, At, UnderSession, SamePassword
  <2> QED
    BY <2>2, <2>3, <2>5, ReadStep DEF AcceptLock
<1>3. CASE ~(Undecided(invitation[call[c].target]) /\ SamePassword(c))
  <2>1. call' = [call EXCEPT ![c] = Idle]
    BY <1>3 DEF AcceptLock, Finish
  <2>2. call'[c] = Idle
    BY <2>1 DEF AccessInv, AccessTypeOK
  <2>3. CallOK(c)'
    BY <2>2 DEF CallOK, At, Idle, UnderSession
  <2>4. Idle.step # "accepting"
    BY DEF Idle
  <2> QED
    BY <2>1, <2>3, <2>4, IdleRow, ReadStep DEF AcceptLock
<1> QED
  BY <1>2, <1>3

-----------------------------------------------------------------------------
(* Ending sessions keeps the others current.                                *)
LEMMA SessionsEnd ==
  ASSUME AccessInv, NEW which, RevokeSessions(which), password' = password
  PROVE  /\ session' \in [SessionIds -> SessionRow \cup {Nothing, Over}]
         /\ SessionsKept /\ SessionsCurrent'
<1>1. \A s \in SessionIds : session'[s] = session[s] \/ session'[s] = Over
  BY DEF RevokeSessions
<1>2. session' \in [SessionIds -> SessionRow \cup {Nothing, Over}]
  BY DEF RevokeSessions, AccessInv, AccessTypeOK
<1>3. SessionsKept
  BY <1>1, NothingIsNoRow DEF SessionsKept, Live
<1>4. SessionsCurrent'
  BY <1>1 DEF SessionsCurrent, AccessInv, CredentialsCurrent, Live
<1> QED
  BY <1>2, <1>3, <1>4

(* A session opened with the password its user has, or gets while it has no *)
(* live session, is current, and pruning ends only sessions of the user.    *)
LEMMA SessionOpens ==
  ASSUME AccessInv, NEW u \in Users, NEW w \in Workspaces, NEW with \in 1..MaxPasswords,
         OpenSession(u, w, with), password' = [password EXCEPT ![u] = with],
         password[u] = with \/ password[u] = 0
  PROVE  /\ session' \in [SessionIds -> SessionRow \cup {Nothing, Over}]
         /\ SessionsKept /\ SessionsCurrent'
<1>1. PICK n \in SessionIds :
        /\ session[n] = Nothing
        /\ \E gone \in Pruned(u, n) :
             session' = [x \in SessionIds |->
                 IF x = n THEN [user |-> u, active |-> w, with |-> with]
                 ELSE IF x \in gone THEN Over ELSE session[x]]
  BY DEF OpenSession
<1> DEFINE row == [user |-> u, active |-> w, with |-> with]
<1>2. row \in SessionRow /\ row.user = u /\ row.with = with
  BY DEF SessionRow
<1>3. /\ session'[n] = row
      /\ \A s \in SessionIds : s # n => session'[s] = session[s] \/ session'[s] = Over
  BY <1>1
<1>4. session' \in [SessionIds -> SessionRow \cup {Nothing, Over}]
  BY <1>1, <1>2 DEF AccessInv, AccessTypeOK
<1> HIDE DEF row
<1>5. SessionsKept
  BY <1>1, <1>3, NothingIsNoRow DEF SessionsKept, Live
<1>6. ASSUME NEW s \in SessionIds, Live(s)' PROVE session'[s].with = password'[session'[s].user]
  <2>1. CASE s = n
    BY <1>2, <1>3, <2>1 DEF AccessInv, AccessTypeOK
  <2>2. CASE s # n
    <3>1. Live(s) /\ session'[s] = session[s]
      BY <1>3, <1>6, <2>2 DEF Live
    <3>2. session[s] \in SessionRow /\ session[s].with = password[session[s].user]
      BY <3>1 DEF Live, AccessInv, AccessTypeOK, CredentialsCurrent
    <3>3. session[s].user \in Users /\ session[s].with # 0
      BY <3>2 DEF SessionRow
    <3>4. password'[session[s].user] = password[session[s].user]
      BY <3>2, <3>3 DEF AccessInv, AccessTypeOK
    <3> QED
      BY <3>1, <3>2, <3>4
  <2> QED
    BY <2>1, <2>2
<1> QED
  BY <1>4, <1>5, <1>6 DEF SessionsCurrent

(* A new password of an unlocked user is current when the sessions of the   *)
(* user end, but for the one that gets it.                                  *)
LEMMA PasswordReplaced ==
  ASSUME AccessInv, NEW u \in Users, NEW keep, password[u] < MaxPasswords,
         password' = [password EXCEPT ![u] = @ + 1],
         \A s \in SessionIds : Live(s) /\ s = keep => session[s].user = u,
         session' = [s \in SessionIds |->
            IF s \in LiveOf(u) \ {keep} THEN Over
            ELSE IF s = keep /\ Live(s) THEN [session[s] EXCEPT !.with = password[u] + 1]
            ELSE session[s]]
  PROVE  /\ password' \in [Users -> 0..MaxPasswords]
         /\ session' \in [SessionIds -> SessionRow \cup {Nothing, Over}]
         /\ SessionsKept /\ SessionsCurrent'
<1>1. password[u] \in 0..MaxPasswords /\ MaxPasswords \in Nat
  BY AccessAssumption DEF AccessInv, AccessTypeOK
<1>2. /\ password' \in [Users -> 0..MaxPasswords]
      /\ password'[u] = password[u] + 1
      /\ \A x \in Users : x # u => password'[x] = password[x]
  BY <1>1 DEF AccessInv, AccessTypeOK
<1>3. ASSUME NEW s \in SessionIds
      PROVE  /\ session'[s] \in SessionRow \cup {Nothing, Over}
             /\ session[s] # Nothing => session'[s] # Nothing
             /\ Live(s)' => /\ Live(s) /\ session'[s].user = session[s].user
                            /\ session'[s].with = password'[session'[s].user]
  <2>1. session[s] \in SessionRow \cup {Nothing, Over}
    BY DEF AccessInv, AccessTypeOK
  <2>2. CASE s \in LiveOf(u) \ {keep}
    BY <2>2, NothingIsNoRow DEF Live
  <2>3. CASE s = keep /\ Live(s)
    <3>1. session'[s] = [session[s] EXCEPT !.with = password[u] + 1]
      BY <2>3
    <3>2. session[s] \in SessionRow /\ session[s].user = u
      BY <2>1, <2>3 DEF Live
    <3>3. session'[s] \in SessionRow /\ session'[s].user = u /\ session'[s].with = password[u] + 1
      BY <1>1, <3>1, <3>2 DEF SessionRow
    <3> QED
      BY <1>2, <2>3, <3>2, <3>3, NothingIsNoRow
  <2>4. CASE ~Live(s)
    BY <2>1, <2>4 DEF LiveOf, Live
  <2>5. CASE Live(s) /\ session[s].user # u
    <3>1. session'[s] = session[s]
      BY <2>5 DEF LiveOf
    <3>2. session[s].user \in Users /\ session[s].with = password[session[s].user]
      BY <2>1, <2>5 DEF Live, SessionRow, AccessInv, CredentialsCurrent
    <3> QED
      BY <1>2, <2>1, <2>5, <3>1, <3>2
  <2> QED
    BY <2>2, <2>3, <2>4, <2>5 DEF LiveOf
<1>4. session' \in [SessionIds -> SessionRow \cup {Nothing, Over}]
  BY <1>3
<1> QED
  BY <1>2, <1>3, <1>4 DEF SessionsKept, SessionsCurrent

(* Deciding links, none of them newly undecided, keeps one of each user.    *)
LEMMA LinksDecided ==
  ASSUME AccessInv, NEW gone, NEW used,
         recovery' = [t \in RecoveryTokens |->
            IF t \in used /\ Undecided(recovery[t]) THEN [recovery[t] EXCEPT !.state = "used"]
            ELSE IF t \in gone /\ Undecided(recovery[t])
            THEN [recovery[t] EXCEPT !.state = "revoked"] ELSE recovery[t]]
  PROVE  /\ recovery' \in [RecoveryTokens -> RecoveryRow \cup {Nothing}]
         /\ LinksKept /\ OneLink'
<1>1. ASSUME NEW t \in RecoveryTokens
      PROVE  /\ recovery'[t] \in RecoveryRow \cup {Nothing}
             /\ recovery[t] # Nothing =>
                  recovery'[t] # Nothing /\ recovery'[t].user = recovery[t].user
             /\ Undecided(recovery'[t]) => Undecided(recovery[t]) /\ recovery'[t] = recovery[t]
  <2>1. recovery[t] \in RecoveryRow \cup {Nothing}
    BY DEF AccessInv, AccessTypeOK
  <2>2. CASE Undecided(recovery[t])
    <3>1. recovery[t] \in RecoveryRow
      BY <2>1, <2>2 DEF Undecided
    <3>2. \A d \in {"used", "revoked"} :
            LET row == [recovery[t] EXCEPT !.state = d]
            IN  row \in RecoveryRow /\ row.user = recovery[t].user /\ row.state = d
      BY <3>1 DEF RecoveryRow
    <3>3. \/ recovery'[t] = recovery[t]
          \/ \E d \in {"used", "revoked"} : recovery'[t] = [recovery[t] EXCEPT !.state = d]
      OBVIOUS
    <3> QED
      BY <2>2, <3>1, <3>2, <3>3, NothingIsNoRow DEF Undecided
  <2>3. CASE ~Undecided(recovery[t])
    BY <2>1, <2>3
  <2> QED
    BY <2>2, <2>3
<1>2. recovery' \in [RecoveryTokens -> RecoveryRow \cup {Nothing}]
  BY <1>1
<1>3. LinksKept
  BY <1>1 DEF LinksKept
<1>4. OneLink'
  BY <1>1 DEF OneLink, AccessInv, CredentialsCurrent
<1> QED
  BY <1>2, <1>3, <1>4
(* An invitation changes by being decided, or is new. *)
LEMMA InvitationDecided ==
  ASSUME AccessInv, NEW i \in Invitations, NEW d \in {"accepted", "revoked"},
         invitation[i] # Nothing, invitation' = [invitation EXCEPT ![i].state = d]
  PROVE  invitation' \in [Invitations -> InvitationRow \cup {Nothing}] /\ InvitationsKept
<1> DEFINE row == [invitation[i] EXCEPT !.state = d]
<1>1. invitation[i] \in InvitationRow
  BY DEF AccessInv, AccessTypeOK
<1>2. /\ row \in InvitationRow /\ row.workspace = invitation[i].workspace
      /\ row.email = invitation[i].email
  BY <1>1 DEF InvitationRow
<1>3. invitation' = [invitation EXCEPT ![i] = row]
  OBVIOUS
<1> HIDE DEF row
<1> QED
  BY <1>2, <1>3, NothingIsNoRow DEF InvitationsKept, AccessInv, AccessTypeOK

(* What a step leaves alone keeps its type and its facts. *)
LEMMA RowsUntouched ==
  ASSUME AccessInv
  PROVE  /\ UNCHANGED password => password' \in [Users -> 0..MaxPasswords]
         /\ UNCHANGED password => \A c : LockedKept(c)
         /\ UNCHANGED member => member' \in [Workspaces \X Users -> Roles \cup {Nothing}]
         /\ UNCHANGED session => /\ session' \in [SessionIds -> SessionRow \cup {Nothing, Over}]
                                 /\ SessionsKept
         /\ UNCHANGED <<session, password>> => SessionsCurrent'
         /\ UNCHANGED invitation => /\ invitation' \in [Invitations -> InvitationRow \cup {Nothing}]
                                    /\ InvitationsKept
         /\ UNCHANGED recovery => /\ recovery' \in [RecoveryTokens -> RecoveryRow \cup {Nothing}]
                                  /\ LinksKept /\ OneLink'
<1>1. AccessTypeOK /\ CredentialsCurrent
  BY DEF AccessInv
<1>2. UNCHANGED password => \A c : LockedKept(c)
  BY DEF LockedKept
<1>3. UNCHANGED session => SessionsKept
  BY DEF SessionsKept, Live
<1>4. UNCHANGED <<session, password>> => SessionsCurrent'
  BY <1>1 DEF CredentialsCurrent, SessionsCurrent, Live
<1>5. UNCHANGED invitation => InvitationsKept
  BY DEF InvitationsKept
<1>6. UNCHANGED recovery => LinksKept
  BY DEF LinksKept
<1>7. UNCHANGED recovery => OneLink'
  BY <1>1 DEF CredentialsCurrent, OneLink, Undecided
<1> QED
  BY <1>1, <1>2, <1>3, <1>4, <1>5, <1>6, <1>7 DEF AccessTypeOK

(* CredentialsCurrent is about sessions and about links. *)
LEMMA TwoParts == SessionsCurrent' /\ OneLink' => CredentialsCurrent'
  BY DEF CredentialsCurrent, SessionsCurrent, OneLink

(* Nobody replaces the password of a user that another acceptance locked.   *)
LEMMA LockHolds ==
  ASSUME AccessInv, NEW c, NEW u \in Users, NEW hash, password' = [password EXCEPT ![u] = hash],
         ~UserLocked(u) \/ (c \in Calls /\ At(c, "accepting") /\ call[c].user = u)
  PROVE  LockedKept(c)
<1> SUFFICES ASSUME NEW d \in Calls, d # c, At(d, "accepting")
             PROVE  password'[call[d].user] = password[call[d].user]
  BY DEF LockedKept
<1>1. call[d].user # u
  BY DEF UserLocked, AccessInv, OneLock
<1>2. call[d].user \in Users
  BY DEF AccessInv, CallOK, At
<1> QED
  BY <1>1, <1>2 DEF AccessInv, AccessTypeOK

-----------------------------------------------------------------------------
(* The steps of a call that end sessions, or none.                          *)
LEMMA SessionSteps ==
  ASSUME AccessInv, NEW c \in Calls,
         Logout(c) \/ RevokeUserSession(c) \/ Answer(c)
  PROVE  AccessInv'
<1>1. /\ UNCHANGED <<password, member, invitation, recovery>>
      /\ call' = [call EXCEPT ![c] = Idle]
      /\ \E which : RevokeSessions(which) \/ UNCHANGED session
  BY DEF Logout, RevokeUserSession, Answer, Finish
<1>2. /\ session' \in [SessionIds -> SessionRow \cup {Nothing, Over}]
      /\ SessionsKept /\ SessionsCurrent'
  BY <1>1, RowsUntouched, SessionsEnd
<1>3. RowsTyped' /\ CredentialsCurrent'
  BY <1>1, <1>2, RowsUntouched, TwoParts DEF RowsTyped
<1> QED
  BY <1>1, <1>2, <1>3, RowsUntouched, WriteStep

(* The session is moved to a workspace of its user.                         *)
LEMMA SessionMoves ==
  ASSUME AccessInv, NEW s \in SessionIds, NEW w \in Workspaces, Activate(s, w),
         UNCHANGED password
  PROVE  /\ session' \in [SessionIds -> SessionRow \cup {Nothing, Over}]
         /\ SessionsKept /\ SessionsCurrent'
<1>1. CASE Live(s)
  <2> DEFINE row == [session[s] EXCEPT !.active = w]
  <2>1. session[s] \in SessionRow
    BY <1>1 DEF Live, AccessInv, AccessTypeOK
  <2>2. row \in SessionRow /\ row.user = session[s].user /\ row.with = session[s].with
    BY <2>1 DEF SessionRow
  <2>3. session' = [session EXCEPT ![s] = row]
    BY <1>1 DEF Activate
  <2> HIDE DEF row
  <2>4. session' \in [SessionIds -> SessionRow \cup {Nothing, Over}]
    BY <2>2, <2>3 DEF AccessInv, AccessTypeOK
  <2>5. /\ session'[s] = row
        /\ \A x \in SessionIds : x # s => session'[x] = session[x]
    BY <2>3 DEF AccessInv, AccessTypeOK
  <2>6. SessionsKept
    BY <1>1, <2>2, <2>5, NothingIsNoRow DEF SessionsKept, Live
  <2>7. SessionsCurrent'
    BY <1>1, <2>2, <2>5 DEF SessionsCurrent, Live, AccessInv, CredentialsCurrent
  <2> QED
    BY <2>4, <2>6, <2>7
<1>2. CASE ~Live(s)
  BY <1>2, RowsUntouched DEF Activate
<1> QED
  BY <1>1, <1>2

(* A session is moved to another workspace of the user.                     *)
LEMMA SwitchStep ==
  ASSUME AccessInv, NEW c \in Calls, SwitchWorkspace(c) PROVE AccessInv'
<1>1. call[c].session \in SessionIds /\ call[c].target \in Workspaces
  BY DEF SwitchWorkspace, AccessInv, CallOK, At, UnderSession
<1>2. /\ session' \in [SessionIds -> SessionRow \cup {Nothing, Over}]
      /\ SessionsKept /\ SessionsCurrent'
  BY <1>1, SessionMoves DEF SwitchWorkspace
<1>3. RowsTyped' /\ CredentialsCurrent'
  BY <1>2, RowsUntouched, TwoParts DEF RowsTyped, SwitchWorkspace
<1> QED
  BY <1>2, <1>3, RowsUntouched, WriteStep DEF SwitchWorkspace, Finish

(* A workspace is created with its owner.                                   *)
LEMMA CreateStep ==
  ASSUME AccessInv, NEW c \in Calls, CreateWorkspace(c) PROVE AccessInv'
<1>1. call[c].session \in SessionIds /\ call[c].user \in Users
  BY DEF CreateWorkspace, AccessInv, CallOK, At, UnderSession
<1>2. PICK w \in Workspaces : /\ member' = [member EXCEPT ![<<w, call[c].user>>] = "OWNER"]
                              /\ Activate(call[c].session, w)
  BY DEF CreateWorkspace
<1>3. /\ session' \in [SessionIds -> SessionRow \cup {Nothing, Over}]
      /\ SessionsKept /\ SessionsCurrent'
  BY <1>1, <1>2, SessionMoves DEF CreateWorkspace
<1>4. member' \in [Workspaces \X Users -> Roles \cup {Nothing}]
  BY <1>2 DEF Roles, AccessInv, AccessTypeOK
<1>5. RowsTyped' /\ CredentialsCurrent'
  BY <1>3, <1>4, RowsUntouched, TwoParts DEF RowsTyped, CreateWorkspace
<1> QED
  BY <1>3, <1>5, RowsUntouched, WriteStep DEF CreateWorkspace, Finish

(* A login that still finds the user makes a session.                       *)
LEMMA LoginStep ==
  ASSUME AccessInv, NEW c \in Calls, LoginCreate(c) PROVE AccessInv'
<1> DEFINE u == call[c].user
<1>1. /\ u \in Users /\ call[c].workspace \in Workspaces
      /\ call[c].hash \in 1..MaxPasswords
  <2>1. call[c] \in CallRow /\ CallOK(c)
    BY DEF AccessInv, AccessTypeOK
  <2> QED
    BY <2>1, AccessAssumption DEF LoginCreate, CallOK, At, CallRow
<1>2. /\ session' \in [SessionIds -> SessionRow \cup {Nothing, Over}]
      /\ SessionsKept /\ SessionsCurrent'
  <2>1. CASE SamePassword(c)
    <3>1. password' = [password EXCEPT ![u] = call[c].hash] /\ password[u] = call[c].hash
      BY <1>1, <2>1 DEF LoginCreate, SamePassword, AccessInv, AccessTypeOK
    <3>2. OpenSession(u, call[c].workspace, call[c].hash)
      BY <2>1 DEF LoginCreate
    <3> HIDE DEF u
    <3> QED
      BY <1>1, <3>1, <3>2, SessionOpens
  <2>2. CASE ~SamePassword(c)
    BY <2>2, RowsUntouched DEF LoginCreate
  <2> QED
    BY <2>1, <2>2
<1>3. RowsTyped' /\ CredentialsCurrent'
  BY <1>2, RowsUntouched, TwoParts DEF RowsTyped, LoginCreate
<1> QED
  BY <1>2, <1>3, RowsUntouched, WriteStep DEF LoginCreate, Finish

(* A changed password removes the other sessions.                           *)
LEMMA PasswordStep ==
  ASSUME AccessInv, NEW c \in Calls, PasswordChange(c) PROVE AccessInv'
<1> DEFINE u == call[c].user
           keep == call[c].session
<1>1. /\ u \in Users /\ keep \in SessionIds
      /\ \A s \in SessionIds : Live(s) /\ s = keep => session[s].user = u
  BY DEF PasswordChange, AccessInv, CallOK, At, UnderSession
<1>2. CASE SamePassword(c)
  <2>1. password' = [password EXCEPT ![u] = @ + 1] /\ password[u] < MaxPasswords /\ ~UserLocked(u)
    BY <1>2 DEF PasswordChange
  <2>2. session' = [s \in SessionIds |->
            IF s \in LiveOf(u) \ {keep} THEN Over
            ELSE IF s = keep /\ Live(s) THEN [session[s] EXCEPT !.with = password[u] + 1]
            ELSE session[s]]
    BY <1>2 DEF PasswordChange
  <2> DEFINE used == {}
             gone == {x \in RecoveryTokens \ {Nothing} : recovery[x].user = u}
  <2>3. recovery' = [t \in RecoveryTokens |->
            IF t \in used /\ Undecided(recovery[t]) THEN [recovery[t] EXCEPT !.state = "used"]
            ELSE IF t \in gone /\ Undecided(recovery[t])
            THEN [recovery[t] EXCEPT !.state = "revoked"] ELSE recovery[t]]
    BY <1>2 DEF PasswordChange, RevokeLinks
  <2> HIDE DEF u, keep, used, gone
  <2>4. /\ password' \in [Users -> 0..MaxPasswords]
        /\ session' \in [SessionIds -> SessionRow \cup {Nothing, Over}]
        /\ SessionsKept /\ SessionsCurrent'
    BY <1>1, <2>1, <2>2, PasswordReplaced
  <2>5. /\ recovery' \in [RecoveryTokens -> RecoveryRow \cup {Nothing}]
        /\ LinksKept /\ OneLink'
    BY <2>3, LinksDecided
  <2>6. LockedKept(c)
    BY <1>1, <2>1, LockHolds
  <2>7. RowsTyped' /\ CredentialsCurrent'
    BY <2>4, <2>5, RowsUntouched, TwoParts DEF RowsTyped, PasswordChange
  <2> QED
    BY <2>4, <2>5, <2>6, <2>7, RowsUntouched, WriteStep DEF PasswordChange, Finish
<1>3. CASE ~SamePassword(c)
  <2>1. UNCHANGED <<password, session, recovery, member, invitation>>
    BY <1>3 DEF PasswordChange
  <2>2. RowsTyped' /\ CredentialsCurrent'
    BY <2>1, RowsUntouched, TwoParts DEF RowsTyped
  <2> QED
    BY <2>1, <2>2, RowsUntouched, WriteStep DEF PasswordChange, Finish
<1> QED
  BY <1>2, <1>3

(* A completed recovery replaces the password and removes the sessions.     *)
LEMMA RecoveryStep ==
  ASSUME AccessInv, NEW c \in Calls, RecoverPassword(c) PROVE AccessInv'
<1> DEFINE u == call[c].user
           t == call[c].target
<1>1. u \in Users
  BY DEF RecoverPassword, AccessInv, CallOK, At
<1>2. CASE LinkOpen(t)
  <2>1. password' = [password EXCEPT ![u] = @ + 1] /\ password[u] < MaxPasswords /\ ~UserLocked(u)
    BY <1>2 DEF RecoverPassword
  <2>2. session' = [s \in SessionIds |->
            IF s \in LiveOf(u) \ {0} THEN Over
            ELSE IF s = 0 /\ Live(s) THEN [session[s] EXCEPT !.with = password[u] + 1]
            ELSE session[s]]
    BY <1>2 DEF RecoverPassword, RevokeSessions, SessionIds
  <2>3. recovery' = [x \in RecoveryTokens |->
            IF x \in {t} /\ Undecided(recovery[x]) THEN [recovery[x] EXCEPT !.state = "used"]
            ELSE IF x \in {y \in RecoveryTokens : recovery[y].user = u} /\ Undecided(recovery[x])
            THEN [recovery[x] EXCEPT !.state = "revoked"] ELSE recovery[x]]
    BY <1>2 DEF RecoverPassword, LinkOpen
  <2> HIDE DEF u, t
  <2>4. /\ password' \in [Users -> 0..MaxPasswords]
        /\ session' \in [SessionIds -> SessionRow \cup {Nothing, Over}]
        /\ SessionsKept /\ SessionsCurrent'
    <3>1. \A s \in SessionIds : s # 0
      BY DEF SessionIds
    <3> QED
      BY <1>1, <2>1, <2>2, <3>1, PasswordReplaced
  <2>5. /\ recovery' \in [RecoveryTokens -> RecoveryRow \cup {Nothing}]
        /\ LinksKept /\ OneLink'
    BY <2>3, LinksDecided
  <2>6. LockedKept(c)
    BY <1>1, <2>1, LockHolds
  <2>7. RowsTyped' /\ CredentialsCurrent'
    BY <2>4, <2>5, RowsUntouched, TwoParts DEF RowsTyped, RecoverPassword
  <2> QED
    BY <2>4, <2>5, <2>6, <2>7, RowsUntouched, WriteStep DEF RecoverPassword, Finish
<1>3. CASE ~LinkOpen(t)
  <2>1. UNCHANGED <<password, session, recovery, member, invitation>>
    BY <1>3 DEF RecoverPassword
  <2>2. RowsTyped' /\ CredentialsCurrent'
    BY <2>1, RowsUntouched, TwoParts DEF RowsTyped
  <2> QED
    BY <2>1, <2>2, RowsUntouched, WriteStep DEF RecoverPassword, Finish
<1> QED
  BY <1>2, <1>3
-----------------------------------------------------------------------------
(* Members and invitations. *)
LEMMA InviteStep ==
  ASSUME AccessInv, NEW c \in Calls, CreateInvitation(c) PROVE AccessInv'
<1> DEFINE w == call[c].workspace
           u == call[c].target
<1>1. w \in Workspaces /\ u \in Users
  BY DEF CreateInvitation, AccessInv, CallOK, At
<1>2. PICK i \in Invitations, role \in Roles :
        /\ invitation[i] = Nothing
        /\ invitation' = [x \in Invitations |->
              IF x = i THEN [workspace |-> w, email |-> u, role |-> role, state |-> "pending"]
              ELSE IF x \in call[c].stale /\ Undecided(invitation[x])
              THEN [invitation[x] EXCEPT !.state = "revoked"] ELSE invitation[x]]
  BY DEF CreateInvitation
<1> HIDE DEF w, u
<1>3. ASSUME NEW x \in Invitations
      PROVE  /\ invitation'[x] \in InvitationRow \cup {Nothing}
             /\ invitation[x] # Nothing => /\ invitation'[x] # Nothing
                                           /\ invitation'[x].workspace = invitation[x].workspace
                                           /\ invitation'[x].email = invitation[x].email
  <2>1. invitation[x] \in InvitationRow \cup {Nothing}
    BY DEF AccessInv, AccessTypeOK
  <2>2. CASE x = i
    <3>1. invitation'[x] = [workspace |-> w, email |-> u, role |-> role, state |-> "pending"]
      BY <1>2, <2>2
    <3> QED
      BY <1>1, <1>2, <2>2, <3>1 DEF InvitationRow
  <2>3. CASE x # i /\ Undecided(invitation[x])
    <3> DEFINE row == [invitation[x] EXCEPT !.state = "revoked"]
    <3>1. invitation[x] \in InvitationRow
      BY <2>1, <2>3 DEF Undecided
    <3>2. /\ row \in InvitationRow /\ row.workspace = invitation[x].workspace
          /\ row.email = invitation[x].email
      BY <3>1 DEF InvitationRow
    <3>3. invitation'[x] = row \/ invitation'[x] = invitation[x]
      BY <1>2, <2>3
    <3> HIDE DEF row
    <3> QED
      BY <3>1, <3>2, <3>3, NothingIsNoRow
  <2>4. CASE x # i /\ ~Undecided(invitation[x])
    BY <1>2, <2>1, <2>4
  <2> QED
    BY <2>2, <2>3, <2>4
<1>4. invitation' \in [Invitations -> InvitationRow \cup {Nothing}]
  BY <1>2, <1>3
<1>5. InvitationsKept
  BY <1>3 DEF InvitationsKept
<1>6. RowsTyped' /\ CredentialsCurrent'
  BY <1>4, RowsUntouched, TwoParts DEF RowsTyped, CreateInvitation
<1> QED
  BY <1>5, <1>6, RowsUntouched, WriteStep DEF CreateInvitation, Finish

(* An invitation is revoked while it is pending.                            *)
LEMMA RevokeInvitationStep ==
  ASSUME AccessInv, NEW c \in Calls, RevokeInvitation(c) PROVE AccessInv'
<1>1. PICK i \in Invitations : /\ invitation[i] # Nothing
                               /\ invitation' = [invitation EXCEPT ![i].state = "revoked"]
  BY DEF RevokeInvitation, Undecided
<1>2. invitation' \in [Invitations -> InvitationRow \cup {Nothing}] /\ InvitationsKept
  BY <1>1, InvitationDecided
<1>3. RowsTyped' /\ CredentialsCurrent'
  BY <1>2, RowsUntouched, TwoParts DEF RowsTyped, RevokeInvitation
<1> QED
  BY <1>2, <1>3, RowsUntouched, WriteStep DEF RevokeInvitation, Finish

(* The role of a member is changed.                                         *)
LEMMA RoleStep ==
  ASSUME AccessInv, NEW c \in Calls, UpdateMemberRole(c) PROVE AccessInv'
<1>1. call[c].workspace \in Workspaces /\ call[c].target \in Users /\ call[c].grant \in Roles
  BY DEF UpdateMemberRole, AccessInv, CallOK, At
<1>2. member' \in [Workspaces \X Users -> Roles \cup {Nothing}]
  BY <1>1 DEF UpdateMemberRole, AccessInv, AccessTypeOK
<1>3. RowsTyped' /\ CredentialsCurrent'
  BY <1>2, RowsUntouched, TwoParts DEF RowsTyped, UpdateMemberRole
<1> QED
  BY <1>3, RowsUntouched, WriteStep DEF UpdateMemberRole, Finish

(* A member is removed with the sessions in that workspace.                 *)
LEMMA RemoveStep ==
  ASSUME AccessInv, NEW c \in Calls, RemoveMember(c) PROVE AccessInv'
<1>1. call[c].workspace \in Workspaces /\ call[c].target \in Users
  BY DEF RemoveMember, AccessInv, CallOK, At
<1>2. member' \in [Workspaces \X Users -> Roles \cup {Nothing}]
  BY <1>1 DEF RemoveMember, AccessInv, AccessTypeOK
<1>3. /\ session' \in [SessionIds -> SessionRow \cup {Nothing, Over}]
      /\ SessionsKept /\ SessionsCurrent'
  <2>1. UNCHANGED session \/ \E which : RevokeSessions(which)
    BY DEF RemoveMember
  <2> QED
    BY <2>1, RowsUntouched, SessionsEnd DEF RemoveMember
<1>4. RowsTyped' /\ CredentialsCurrent'
  BY <1>2, <1>3, RowsUntouched, TwoParts DEF RowsTyped, RemoveMember
<1> QED
  BY <1>3, <1>4, RowsUntouched, WriteStep DEF RemoveMember, Finish

(* The acceptance still has the password of its user, which is what its     *)
(* session is opened with; a user without a password has no session.        *)
LEMMA AcceptStep ==
  ASSUME AccessInv, NEW c \in Calls, AcceptInvitation(c) PROVE AccessInv'
<1> DEFINE w == call[c].workspace
           u == call[c].user
           i == call[c].target
           hash == IF call[c].hash = 0 THEN 1 ELSE call[c].hash
<1>1. /\ w \in Workspaces /\ u \in Users /\ i \in Invitations
      /\ invitation[i] # Nothing /\ password[u] = call[c].hash
      /\ hash \in 1..MaxPasswords
  <2>1. call[c] \in CallRow /\ CallOK(c)
    BY DEF AccessInv, AccessTypeOK
  <2> QED
    BY <2>1, AccessAssumption DEF AcceptInvitation, CallOK, At, CallRow
<1>2. CASE StillOpen(i)
  <2>1. /\ member' = Admitted(c) /\ password' = [password EXCEPT ![u] = hash]
        /\ invitation' = [invitation EXCEPT ![i].state = "accepted"]
        /\ OpenSession(u, w, hash)
    BY <1>2 DEF AcceptInvitation
  <2>2. invitation[i] \in InvitationRow
    BY <1>1 DEF AccessInv, AccessTypeOK
  <2>3. member' \in [Workspaces \X Users -> Roles \cup {Nothing}]
    BY <1>1, <2>1, <2>2 DEF Admitted, InvitationRow, AccessInv, AccessTypeOK
  <2>4. password' \in [Users -> 0..MaxPasswords]
    BY <1>1, <2>1 DEF AccessInv, AccessTypeOK
  <2>5. password[u] = hash \/ password[u] = 0
    BY <1>1
  <2>6. ~UserLocked(u) \/ (c \in Calls /\ At(c, "accepting") /\ call[c].user = u)
    BY DEF AcceptInvitation
  <2> HIDE DEF w, u, i, hash
  <2>7. /\ session' \in [SessionIds -> SessionRow \cup {Nothing, Over}]
        /\ SessionsKept /\ SessionsCurrent'
    BY <1>1, <2>1, <2>5, SessionOpens
  <2>8. invitation' \in [Invitations -> InvitationRow \cup {Nothing}] /\ InvitationsKept
    BY <1>1, <2>1, InvitationDecided
  <2>9. LockedKept(c)
    BY <1>1, <2>1, <2>6, LockHolds
  <2>10. RowsTyped' /\ CredentialsCurrent'
    BY <2>3, <2>4, <2>7, <2>8, RowsUntouched, TwoParts DEF RowsTyped, AcceptInvitation
  <2> QED
    BY <2>7, <2>8, <2>9, <2>10, RowsUntouched, WriteStep DEF AcceptInvitation, Finish
<1>3. CASE ~StillOpen(i)
  <2>1. UNCHANGED <<password, session, recovery, member, invitation>>
    BY <1>3 DEF AcceptInvitation
  <2>2. RowsTyped' /\ CredentialsCurrent'
    BY <2>1, RowsUntouched, TwoParts DEF RowsTyped
  <2> QED
    BY <2>1, <2>2, RowsUntouched, WriteStep DEF AcceptInvitation, Finish
<1> QED
  BY <1>2, <1>3

(* A new link is the only undecided one of its user.                        *)
LEMMA IssueStep ==
  ASSUME AccessInv, IssueRecovery PROVE AccessInv'
<1>1. PICK u \in Users, t \in RecoveryTokens :
        /\ recovery[t] = Nothing
        /\ recovery' = [x \in RecoveryTokens |->
              IF x = t THEN [user |-> u, state |-> "pending"]
              ELSE IF Undecided(recovery[x]) /\ recovery[x].user = u
              THEN [recovery[x] EXCEPT !.state = "revoked"] ELSE recovery[x]]
        /\ UNCHANGED <<password, member, session, invitation, call>>
  BY DEF IssueRecovery
<1> DEFINE new == [user |-> u, state |-> "pending"]
<1>2. new \in RecoveryRow /\ new.user = u /\ recovery'[t] = new
  BY <1>1 DEF RecoveryRow
<1>3. ASSUME NEW x \in RecoveryTokens, x # t
      PROVE  /\ recovery'[x] \in RecoveryRow \cup {Nothing}
             /\ recovery[x] # Nothing =>
                  recovery'[x] # Nothing /\ recovery'[x].user = recovery[x].user
             /\ Undecided(recovery'[x]) => /\ Undecided(recovery[x]) /\ recovery'[x] = recovery[x]
                                           /\ recovery[x].user # u
  <2>1. recovery[x] \in RecoveryRow \cup {Nothing}
    BY DEF AccessInv, AccessTypeOK
  <2>2. CASE Undecided(recovery[x]) /\ recovery[x].user = u
    <3> DEFINE row == [recovery[x] EXCEPT !.state = "revoked"]
    <3>1. recovery[x] \in RecoveryRow
      BY <2>1, <2>2 DEF Undecided
    <3>2. row \in RecoveryRow /\ row.user = recovery[x].user /\ row.state = "revoked"
      BY <3>1 DEF RecoveryRow
    <3>3. recovery'[x] = row
      BY <1>1, <1>3, <2>2
    <3> HIDE DEF row
    <3> QED
      BY <3>2, <3>3, NothingIsNoRow DEF Undecided
  <2>3. CASE ~(Undecided(recovery[x]) /\ recovery[x].user = u)
    <3>1. recovery'[x] = recovery[x]
      BY <1>1, <1>3, <2>3
    <3> QED
      BY <2>1, <2>3, <3>1
  <2> QED
    BY <2>2, <2>3
<1> HIDE DEF new
<1>4. recovery' \in [RecoveryTokens -> RecoveryRow \cup {Nothing}]
  <2>1. \A x \in RecoveryTokens : recovery'[x] \in RecoveryRow \cup {Nothing}
    BY <1>2, <1>3
  <2> QED
    BY <1>1, <2>1
<1>5. LinksKept
  BY <1>1, <1>3 DEF LinksKept
<1>6. OneLink'
  BY <1>2, <1>3 DEF OneLink, AccessInv, CredentialsCurrent
<1>7. RowsTyped' /\ CredentialsCurrent'
  BY <1>1, <1>4, <1>6, RowsUntouched, TwoParts DEF RowsTyped
<1>8. PICK none : none \notin Calls
  BY NoSetContainsEverything
<1> QED
  BY <1>1, <1>5, <1>7, <1>8, RowsUntouched, WriteStep

(* A session whose term is over ends without a call.                        *)
LEMMA ExpiryStep ==
  ASSUME AccessInv, NEW s \in SessionIds, ExpireSession(s) PROVE AccessInv'
<1>1. /\ session' \in [SessionIds -> SessionRow \cup {Nothing, Over}]
      /\ SessionsKept /\ SessionsCurrent'
  BY SessionsEnd DEF ExpireSession
<1>2. RowsTyped' /\ CredentialsCurrent'
  BY <1>1, RowsUntouched, TwoParts DEF RowsTyped, ExpireSession
<1>3. PICK none : none \notin Calls
  BY NoSetContainsEverything
<1> QED
  BY <1>1, <1>2, <1>3, RowsUntouched, WriteStep DEF ExpireSession

-----------------------------------------------------------------------------
(* The calls, the rows and the locks stay as AccessInv says, whatever the   *)
(* requests do.                                                             *)
THEOREM CallsKeepTheirRows == AccessSpec => []AccessInv
<1>1. AccessInit => AccessInv
  <2> SUFFICES ASSUME AccessInit PROVE AccessInv
    OBVIOUS
  <2>1. AccessTypeOK
    BY IdleRow, AccessAssumption DEF AccessInit, AccessTypeOK, Roles
  <2>2. ASSUME NEW c \in Calls PROVE CallOK(c)
    BY DEF AccessInit, CallOK, At, Idle, UnderSession
  <2>3. OneLock
    BY DEF AccessInit, OneLock, At, Idle
  <2>4. CredentialsCurrent
    BY DEF AccessInit, CredentialsCurrent, Live, Undecided
  <2> QED
    BY <2>1, <2>2, <2>3, <2>4 DEF AccessInv
<1>2. AccessInv /\ [AccessNext]_accessVars => AccessInv'
  <2> SUFFICES ASSUME AccessInv, [AccessNext]_accessVars PROVE AccessInv'
    OBVIOUS
  <2>1. ASSUME NEW c \in Calls, ResolveContext(c) \/ Answer(c) PROVE AccessInv'
    BY <2>1, ContextRead, SessionSteps
  <2>2. ASSUME NEW c \in Calls, PasswordSteps(c) PROVE AccessInv'
    BY <2>2, LoginReads, LoginStep, SessionSteps, HandlerReads, PasswordStep, RecoveryReads,
       RecoveryStep DEF PasswordSteps
  <2>3. ASSUME NEW c \in Calls, MemberSteps(c) PROVE AccessInv'
    BY <2>3, HandlerReads, SwitchStep, CreateStep, InviteStep, RevokeInvitationStep, RoleStep,
       RemoveStep, AcceptanceReads, AcceptanceLocks, AcceptStep DEF MemberSteps
  <2>4. CASE IssueRecovery
    BY <2>4, IssueStep
  <2>5. ASSUME NEW s \in SessionIds, ExpireSession(s) PROVE AccessInv'
    BY <2>5, ExpiryStep
  <2>6. CASE UNCHANGED accessVars
    <3>1. UNCHANGED <<password, member, session, invitation, recovery, call>>
      BY <2>6 DEF accessVars
    <3>2. RowsTyped' /\ CredentialsCurrent'
      BY <3>1, RowsUntouched, TwoParts DEF RowsTyped
    <3>3. PICK none : none \notin Calls
      BY NoSetContainsEverything
    <3> QED
      BY <3>1, <3>2, <3>3, RowsUntouched, WriteStep
  <2> QED
    BY <2>1, <2>2, <2>3, <2>4, <2>5, <2>6 DEF AccessNext
<1> QED
  BY <1>1, <1>2, PTL DEF AccessSpec

(* No session outlives the password that opened it and no user holds two    *)
(* recovery links, for every number of users, sessions and requests.        *)
THEOREM CredentialsStayCurrent == AccessSpec => []CredentialsCurrent
<1>1. AccessInv => CredentialsCurrent
  BY DEF AccessInv
<1> QED
  BY <1>1, CallsKeepTheirRows, PTL
-----------------------------------------------------------------------------
(* The two halves of AdmittedByInvitation, as step predicates. *)
EntersRightly == \A w \in Workspaces, u \in Users :
    member[<<w, u>>] = Nothing /\ member'[<<w, u>>] # Nothing =>
       \/ Owners(w) = {} /\ member'[<<w, u>>] = "OWNER"
       \/ \E i \in Invitations :
             /\ Undecided(invitation[i]) /\ invitation'[i].state = "accepted"
             /\ invitation[i].workspace = w /\ invitation[i].email = u
DecisionsFinal == \A i \in Invitations :
    invitation[i] # Nothing /\ ~Undecided(invitation[i]) => invitation'[i] = invitation[i]

(* Three steps write memberships ...                                        *)
LEMMA MembersWritten ==
  ASSUME AccessNext
  PROVE  \/ UNCHANGED member
         \/ \E c \in Calls : CreateWorkspace(c) \/ UpdateMemberRole(c)
                             \/ RemoveMember(c) \/ AcceptInvitation(c)
<1>1. ASSUME NEW c \in Calls, PasswordSteps(c) PROVE UNCHANGED member
  BY <1>1 DEF PasswordSteps, LoginRead, LoginCreate, Logout, RevokeUserSession,
              PasswordRead, PasswordChange, RecoverRead, RecoverPassword
<1>2. ASSUME NEW c \in Calls, MemberSteps(c)
      PROVE  \/ UNCHANGED member
             \/ CreateWorkspace(c) \/ UpdateMemberRole(c) \/ RemoveMember(c) \/ AcceptInvitation(c)
  BY <1>2 DEF MemberSteps, SwitchRead, SwitchWorkspace, CreateWorkspaceRead, InviteRead,
              CreateInvitation, RevokeInvitation, RoleRead, RemoveRead, AcceptRead, AcceptLock
<1> QED
  BY <1>1, <1>2 DEF AccessNext, ResolveContext, Answer, IssueRecovery, ExpireSession

(* ... and three write invitations.                                         *)
LEMMA InvitationsWritten ==
  ASSUME AccessNext
  PROVE  \/ UNCHANGED invitation
         \/ \E c \in Calls : CreateInvitation(c) \/ RevokeInvitation(c) \/ AcceptInvitation(c)
<1>1. ASSUME NEW c \in Calls, PasswordSteps(c) PROVE UNCHANGED invitation
  BY <1>1 DEF PasswordSteps, LoginRead, LoginCreate, Logout, RevokeUserSession,
              PasswordRead, PasswordChange, RecoverRead, RecoverPassword
<1>2. ASSUME NEW c \in Calls, MemberSteps(c)
      PROVE  \/ UNCHANGED invitation
             \/ CreateInvitation(c) \/ RevokeInvitation(c) \/ AcceptInvitation(c)
  BY <1>2 DEF MemberSteps, SwitchRead, SwitchWorkspace, CreateWorkspaceRead, CreateWorkspace,
              InviteRead, RoleRead, UpdateMemberRole, RemoveRead, RemoveMember, AcceptRead, AcceptLock
<1> QED
  BY <1>1, <1>2 DEF AccessNext, ResolveContext, Answer, IssueRecovery, ExpireSession

(* An acceptance that commits admits the user its invitation names. *)
LEMMA AcceptanceAdmits ==
  ASSUME AccessInv, NEW c \in Calls, AcceptInvitation(c) PROVE EntersRightly
<1> DEFINE w == call[c].workspace
           u == call[c].user
           i == call[c].target
<1>1. /\ w \in Workspaces /\ u \in Users /\ i \in Invitations
      /\ invitation[i].workspace = w /\ invitation[i].email = u
  BY DEF AcceptInvitation, AccessInv, CallOK, At
<1>2. CASE StillOpen(i)
  <2>1. \A x \in Workspaces, y \in Users :
          member'[<<x, y>>] = member[<<x, y>>] \/ (x = w /\ y = u)
    BY <1>2 DEF AcceptInvitation, Admitted, AccessInv, AccessTypeOK
  <2>2. invitation'[i].state = "accepted"
    <3>1. invitation' = [invitation EXCEPT ![i].state = "accepted"]
      BY <1>2 DEF AcceptInvitation
    <3>2. invitation[i] \in InvitationRow
      BY <1>1, <1>2 DEF StillOpen, Undecided, AccessInv, AccessTypeOK
    <3> QED
      BY <1>1, <3>1, <3>2 DEF InvitationRow, AccessInv, AccessTypeOK
  <2>3. Undecided(invitation[i])
    BY <1>2 DEF StillOpen
  <2> HIDE DEF w, u, i
  <2> QED
    BY <1>1, <2>1, <2>2, <2>3 DEF EntersRightly
<1>3. CASE ~StillOpen(i)
  BY <1>3 DEF AcceptInvitation, EntersRightly
<1> QED
  BY <1>2, <1>3

(* A user enters a workspace by creating it or by an invitation that was    *)
(* undecided until that step, and a decision on an invitation is final.     *)
THEOREM AdmissionByInvitation == AccessSpec => AdmittedByInvitation
<1>1. ASSUME AccessInv, AccessNext PROVE EntersRightly
  <2>1. ASSUME NEW c \in Calls, CreateWorkspace(c) PROVE EntersRightly
    <3>1. PICK w \in Workspaces : /\ \A u \in Users : member[<<w, u>>] = Nothing
                                  /\ member' = [member EXCEPT ![<<w, call[c].user>>] = "OWNER"]
      BY <2>1 DEF CreateWorkspace
    <3>2. Owners(w) = {}
      BY <3>1, NothingIsNoRow DEF Owners, Roles
    <3>3. call[c].user \in Users
      <4>1. CallOK(c) /\ call[c].step = "create"
        BY <1>1, <2>1 DEF CreateWorkspace, At, AccessInv
      <4> QED
        BY <4>1 DEF CallOK, At
    <3>4. \A x \in Workspaces, y \in Users :
            member'[<<x, y>>] = member[<<x, y>>] \/ (x = w /\ member'[<<x, y>>] = "OWNER")
      BY <3>1, <3>3 DEF AccessInv, AccessTypeOK
    <3> QED
      BY <3>2, <3>4 DEF EntersRightly
  <2>2. ASSUME NEW c \in Calls, UpdateMemberRole(c) PROVE EntersRightly
    <3>1. \A x \in Workspaces, y \in Users :
            member'[<<x, y>>] = member[<<x, y>>] \/ member[<<x, y>>] # Nothing
      BY <2>2 DEF UpdateMemberRole, AccessInv, AccessTypeOK
    <3> QED
      BY <3>1 DEF EntersRightly
  <2>3. ASSUME NEW c \in Calls, RemoveMember(c) PROVE EntersRightly
    <3>1. \A x \in Workspaces, y \in Users :
            member'[<<x, y>>] = member[<<x, y>>] \/ member'[<<x, y>>] = Nothing
      <4>1. member \in [Workspaces \X Users -> Roles \cup {Nothing}]
        BY <1>1 DEF AccessInv, AccessTypeOK
      <4>2. \/ UNCHANGED member
            \/ member' = [member EXCEPT ![<<call[c].workspace, call[c].target>>] = Nothing]
        BY <2>3 DEF RemoveMember
      <4> QED
        BY <4>1, <4>2
    <3> QED
      BY <3>1 DEF EntersRightly
  <2>4. CASE UNCHANGED member
    BY <2>4 DEF EntersRightly
  <2> QED
    BY <1>1, <2>1, <2>2, <2>3, <2>4, MembersWritten, AcceptanceAdmits
<1>2. ASSUME AccessInv, AccessNext PROVE DecisionsFinal
  <2>1. ASSUME NEW c \in Calls, CreateInvitation(c) PROVE DecisionsFinal
    BY <2>1 DEF CreateInvitation, DecisionsFinal
  <2>2. ASSUME NEW c \in Calls, RevokeInvitation(c) PROVE DecisionsFinal
    BY <2>2 DEF RevokeInvitation, DecisionsFinal, AccessInv, AccessTypeOK
  <2>3. ASSUME NEW c \in Calls, AcceptInvitation(c) PROVE DecisionsFinal
    <3>1. invitation \in [Invitations -> InvitationRow \cup {Nothing}]
      BY <1>2 DEF AccessInv, AccessTypeOK
    <3>2. \/ UNCHANGED invitation
          \/ /\ Undecided(invitation[call[c].target])
             /\ invitation' = [invitation EXCEPT ![call[c].target].state = "accepted"]
      BY <2>3 DEF AcceptInvitation, StillOpen
    <3> QED
      BY <3>1, <3>2 DEF DecisionsFinal
  <2>4. CASE UNCHANGED invitation
    BY <2>4 DEF DecisionsFinal
  <2> QED
    BY <1>2, <2>1, <2>2, <2>3, <2>4, InvitationsWritten
<1>3. AccessInv /\ [AccessNext]_accessVars => [EntersRightly /\ DecisionsFinal]_accessVars
  BY <1>1, <1>2
<1>4. AccessSpec => [][EntersRightly /\ DecisionsFinal]_accessVars
  BY <1>3, CallsKeepTheirRows, PTL DEF AccessSpec
<1> QED
  BY <1>4, PTL DEF AdmittedByInvitation, EntersRightly, DecisionsFinal
=============================================================================
