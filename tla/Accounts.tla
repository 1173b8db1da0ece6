------------------------------ MODULE Accounts ------------------------------
(***************************************************************************)
(* Accounts: the users table (adapter/sqlite/user_store.go), the connect   *)
(* endpoint that sets up the first administrator and logs users in, with   *)
(* its lockout table (routes/auth), the accounts a trusted proxy creates   *)
(* (api/proxy_auth.go), token authentication of MCP requests, and the      *)
(* administrator's user tools.                                             *)
(***************************************************************************)
EXTENDS Integers, FiniteSets

CONSTANTS Emails, Clients,
          MaxFailedLogins, LockoutDuration, FailureDecayWindow, MaxTrackedLogins

ASSUME LockoutWindows ==
  /\ IsFiniteSet(Clients) /\ MaxFailedLogins \in Nat \ {0}
  /\ LockoutDuration \in Nat /\ FailureDecayWindow \in Nat
  /\ LockoutDuration < FailureDecayWindow

VARIABLES users,     \* email -> row, or NoUser
          connects,  \* client -> [at, email, ok]: how far its connect request is
          mutexFree, \* firstAdminMu
          tracker,   \* email -> [failures, lockedFor, since], or NoAttempt
          everAdmin, \* an active administrator has existed
          setups     \* accounts created by connect
accountVars == <<users, connects, mutexFree, tracker, everAdmin, setups>>

NoUser == [role |-> "none", active |-> FALSE, pass |-> FALSE, token |-> FALSE, enabled |-> FALSE]
NoAttempt == [failures |-> 0, lockedFor |-> -1, since |-> -1]
Away == [at |-> "away", email |-> "", ok |-> FALSE]

HasUser(e) == users[e] # NoUser
IsAdmin(u) == u.role = "admin" /\ u.active
Admins == {e \in Emails : IsAdmin(users[e])}

AccountsInit ==
  /\ users = [e \in Emails |-> NoUser]
  /\ connects = [k \in Clients |-> Away]
  /\ mutexFree = TRUE
  /\ tracker = [e \in Emails |-> NoAttempt]
  /\ everAdmin = FALSE /\ setups = 0

SetUsers(new) ==
  /\ users' = new
  /\ everAdmin' = (everAdmin \/ \E e \in Emails : IsAdmin(new[e]))

----------------------------------------------------------------------------
\* The login tracker.  A time is kept as its age, -1 when it is the zero time.
Locked(a) == a.lockedFor >= 0 /\ a.lockedFor <= LockoutDuration
expired(a) == ~Locked(a) /\ a.since > FailureDecayWindow
Tracked(t) == {e \in Emails : t[e] # NoAttempt}
Forget(t, S) == [e \in Emails |-> IF e \in S THEN NoAttempt ELSE t[e]]

pruneLocked(t) ==
  LET old == {e \in Tracked(t) : expired(t[e])}
      loose == {e \in Tracked(t) : ~Locked(t[e])}
  IN IF Cardinality(Tracked(t)) < MaxTrackedLogins THEN t
     ELSE IF Cardinality(Tracked(t) \ old) < MaxTrackedLogins THEN Forget(t, old)
     ELSE Forget(t, loose)

recordFailure(t, e) ==
  LET room == IF t[e] = NoAttempt THEN pruneLocked(t) ELSE t
      n == IF t[e].since > FailureDecayWindow THEN 1 ELSE t[e].failures + 1
  IN [room EXCEPT ![e] =
        [failures |-> n, since |-> 0,
         lockedFor |-> IF n >= MaxFailedLogins THEN 0
                       ELSE IF t[e].since > FailureDecayWindow THEN -1 ELSE t[e].lockedFor]]

isLocked(t, e) ==
  IF expired(t[e]) \/ (t[e].lockedFor >= 0 /\ ~Locked(t[e]))
    THEN [locked |-> FALSE, t |-> Forget(t, {e})]
    ELSE [locked |-> Locked(t[e]), t |-> t]

recordSuccess(t, e) == Forget(t, {e})

----------------------------------------------------------------------------
\* userStore.Create, which fails on a taken email.
CreateUser(e, row) == ~HasUser(e) /\ SetUsers([users EXCEPT ![e] = row])

\* checkLastAdminTx, inside the transaction of the change it guards.
\* Mutant: the count includes the administrator being removed.
checkLastAdminTxSelf(e) == IsAdmin(users[e]) => Admins # {}
checkLastAdminTx(e) == IsAdmin(users[e]) => Admins \ {e} # {}

\* userStore.Update with a role or an active flag: one transaction.
UpdateUser(e, row, demotes) ==
  /\ demotes => checkLastAdminTx(e)
  /\ SetUsers([users EXCEPT ![e] = row])

HandleUpdateRole(e, role) ==
  /\ HasUser(e)
  /\ UpdateUser(e, [users[e] EXCEPT !.role = role], role = "member")
  /\ UNCHANGED <<connects, mutexFree, tracker, setups>>

HandleToggleActive(e, active) ==
  /\ HasUser(e)
  /\ UpdateUser(e, [users[e] EXCEPT !.active = active], ~active)
  /\ UNCHANGED <<connects, mutexFree, tracker, setups>>

HandleDeleteUser(e) ==
  /\ HasUser(e) /\ checkLastAdminTx(e)
  /\ SetUsers([users EXCEPT ![e] = NoUser])
  /\ UNCHANGED <<connects, mutexFree, tracker, setups>>

\* ProxyAuth creates the account of an email it has not seen: a role from
\* resolveProxyRole, no token, and a password hash nothing matches.
ProxyAuth(e) ==
  /\ \E role \in {"admin", "member"} :
       CreateUser(e, [role |-> role, active |-> TRUE, pass |-> FALSE, token |-> FALSE,
                      enabled |-> FALSE])
  /\ UNCHANGED <<connects, mutexFree, tracker, setups>>

----------------------------------------------------------------------------
GoTo(k, at, e, ok) == connects' = [connects EXCEPT ![k] = [at |-> at, email |-> e, ok |-> ok]]

\* handleConnect: the user count, under firstAdminMu.
handleConnect(k, e) ==
  /\ connects[k].at = "away" /\ mutexFree
  /\ IF \A f \in Emails : ~HasUser(f)
       THEN GoTo(k, "setup", e, FALSE) /\ mutexFree' = FALSE
       ELSE GoTo(k, "login", e, FALSE) /\ UNCHANGED mutexFree
  /\ UNCHANGED <<users, tracker, everAdmin, setups>>

\* The rest of the set-up, still under the mutex; a short password, a taken email
\* or a failing insert answers an error.
handleConnectCreateAdmin(k) ==
  /\ connects[k].at = "setup" /\ mutexFree' = TRUE
  /\ connects' = [connects EXCEPT ![k] = Away]
  /\ \/ /\ CreateUser(connects[k].email, [role |-> "admin", active |-> TRUE, pass |-> TRUE,
                                          token |-> TRUE, enabled |-> TRUE])
        /\ setups' = setups + 1
     \/ UNCHANGED <<users, everAdmin, setups>>
  /\ UNCHANGED tracker

\* handleConnectLogin in its three accesses to shared state: the lockout check,
\* the row it reads and the outcome it records, the update of the row.
LoginCheck(k) ==
  LET e == connects[k].email
      r == isLocked(tracker, e)
  IN /\ connects[k].at = "login"
     /\ tracker' = r.t
     /\ connects' = [connects EXCEPT ![k] = IF r.locked THEN Away ELSE [@ EXCEPT !.at = "checked"]]
     /\ UNCHANGED <<users, mutexFree, everAdmin, setups>>

LoginRead(k) ==
  /\ connects[k].at = "checked"
  /\ LET u == users[connects[k].email]
     IN GoTo(k, "read", connects[k].email, u.active /\ u.pass)
  /\ UNCHANGED <<users, mutexFree, tracker, everAdmin, setups>>

LoginCompare(k) ==
  LET e == connects[k].email
  IN /\ connects[k].at = "read"
     /\ \/ connects[k].ok /\ tracker' = recordSuccess(tracker, e) /\ GoTo(k, "enable", e, TRUE)
        \/ /\ tracker' = recordFailure(tracker, e)
           /\ connects' = [connects EXCEPT ![k] = Away]
     /\ UNCHANGED <<users, mutexFree, everAdmin, setups>>

\* A missing token is made up and a disabled one enabled; an account deleted
\* meanwhile is not found.
LoginEnable(k) ==
  LET e == connects[k].email
  IN /\ connects[k].at = "enable"
     /\ connects' = [connects EXCEPT ![k] = Away]
     /\ SetUsers(IF HasUser(e) THEN [users EXCEPT ![e].token = TRUE, ![e].enabled = TRUE]
                 ELSE users)
     /\ UNCHANGED <<mutexFree, tracker, setups>>

\* Ages saturate just past the windows they are compared with.
Older(a) ==
  IF a = NoAttempt THEN a
  ELSE [a EXCEPT !.since = IF @ <= FailureDecayWindow THEN @ + 1 ELSE @,
                 !.lockedFor = IF @ >= 0 /\ @ <= LockoutDuration THEN @ + 1 ELSE @]
AccountsTick ==
  /\ tracker' = [e \in Emails |-> Older(tracker[e])] /\ tracker' # tracker
  /\ UNCHANGED <<users, connects, mutexFree, everAdmin, setups>>

\* A role or flag set to the value it has leaves the state as it is.
AccountsNext ==
  \/ \E e \in Emails :
       \/ ProxyAuth(e) \/ HandleDeleteUser(e)
       \/ \E role \in {"admin", "member"} \ {users[e].role} : HandleUpdateRole(e, role)
       \/ HandleToggleActive(e, ~users[e].active)
       \/ \E k \in Clients : handleConnect(k, e)
  \/ \E k \in Clients :
       \/ handleConnectCreateAdmin(k) \/ LoginCheck(k) \/ LoginRead(k) \/ LoginCompare(k)
       \/ LoginEnable(k)
  \/ AccountsTick

AccountsSpec == AccountsInit /\ [][AccountsNext]_accountVars

\* Once there has been an active administrator there always is one, whatever
\* roles are changed, accounts disabled or deleted at the same time, so the
\* unauthenticated set-up creates at most one account for the life of the server
\* (checkLastAdminTx and firstAdminMu).
AdminRemains ==
  /\ everAdmin => Admins # {}
  /\ setups <= 1

\* The lockout holds against concurrent logins: failures of one email exceed the
\* limit by at most the requests that were past the check when it was reached, and
\* every counted failure past the limit keeps the account locked.
LockoutHolds ==
  \A e \in Emails :
    LET past == {k \in Clients : connects[k].at \in {"checked", "read"} /\ connects[k].email = e}
    IN /\ tracker[e].failures + Cardinality(past) <= MaxFailedLogins - 1 + Cardinality(Clients)
       /\ tracker[e].failures >= MaxFailedLogins => tracker[e].lockedFor >= 0
=============================================================================
