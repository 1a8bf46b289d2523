------------------------------ MODULE MCAccess ------------------------------
(***************************************************************************)
(* Two small systems that share nothing: the access to workspaces and the  *)
(* prices of a position.  A behaviour is about one `subject`; the          *)
(* variables of the other keep one initial value.                          *)
(***************************************************************************)
EXTENDS WorkspaceAccess, PositionPricing, TLC

Interchangeable == Permutations(Calls)
VARIABLE subject

(* The access starts in one of two states the program reaches, in which    *)
(* the rows that its questions do not need are already used up.            *)
CONSTANTS Guest, i1, i2, t1, t2

(* Passwords, links and sessions race with one pending invitation of a user  *)
(* who has a password but no workspace.                                     *)
Credentials ==
    /\ password = [u \in Users |-> IF u = Guest THEN 1 ELSE MaxPasswords]
    /\ member = [w \in Workspaces, u \in Users |-> IF u = Founder THEN "OWNER" ELSE Nothing]
    /\ session = [s \in SessionIds |-> Nothing]
    /\ invitation = [i \in Invitations |->
          [workspace |-> FirstWorkspace, email |-> Guest, role |-> "MEMBER",
           state |-> IF i = i1 THEN "pending" ELSE "revoked"]]
    /\ recovery = [t \in RecoveryTokens |->
          IF t = t1 THEN [user |-> Guest, state |-> "pending"]
          ELSE Nothing]
    /\ call = [c \in Calls |-> Idle]

(* The founder signed in, a new user invited as owner.                         *)
Membership ==
    /\ password = [u \in Users |-> IF u = Founder THEN MaxPasswords ELSE 0]
    /\ member = [w \in Workspaces, u \in Users |->
                    IF w = FirstWorkspace /\ u = Founder THEN "OWNER" ELSE Nothing]
    /\ session = [s \in SessionIds |->
          IF s = 1 THEN [user |-> Founder, active |-> FirstWorkspace, with |-> MaxPasswords]
          ELSE IF s < MaxSessions THEN Over ELSE Nothing]
    /\ invitation = [i \in Invitations |->
          IF i = i1 THEN Nothing
          ELSE [workspace |-> FirstWorkspace, email |-> Guest, role |-> "OWNER",
                state |-> "pending"]]
    /\ recovery = [t \in RecoveryTokens |-> [user |-> Founder, state |-> "used"]]
    /\ call = [c \in Calls |-> Idle]

(* The prices: three trades after an entry in the middle of a minute, at   *)
(* one price that moves the trailing stop, at one that it then stops and   *)
(* at one between; before the entry the market stood higher.               *)
SessionsInit ==
    /\ subject \in {"access", "pricing"}
    /\ Membership \/ (subject = "access" /\ Credentials)
    /\ PricingInit /\ tape[1].price = 12
    /\ subject = "access" => recoveryModel = "strict"

SessionsNext ==
    /\ UNCHANGED subject
    /\ \/ subject = "access" /\ AccessNext /\ UNCHANGED pricingVars
       \/ subject = "pricing" /\ PricingNext /\ UNCHANGED accessVars

\* Access alone.
OwnersSpec == SessionsInit /\ subject = "access"
              /\ [][SessionsNext]_<<subject, accessVars, pricingVars>>
SessionsSpec == SessionsInit /\ [][SessionsNext]_<<subject, accessVars, pricingVars>>
=============================================================================
