--------------------------- MODULE Access_proofs ----------------------------
(***************************************************************************)
(* Accounts, backups and the circuit breaker, each for any number of actors *)
(* and any bounds.  Every component has an inductive invariant XInv, true  *)
(* of its initial states and kept by its steps, from which its property    *)
(* follows.                                                                *)
(***************************************************************************)
EXTENDS Accounts, Backups, Breaker, Counting, FiniteSetTheorems, TLAPS

(* The sizes of finite sets the components' proofs count with.             *)
LEMMA CountingHolds == CountingFacts
<1>1. EmptyCounts /\ OneCounts
  BY FS_EmptySet, FS_Singleton DEF EmptyCounts, OneCounts
<1>2. RangesCount
  BY FS_Interval DEF RangesCount
<1>3. PartsCount
  <2>1. ASSUME NEW S, IsFiniteSet(S) PROVE Cardinality(S) \in Nat
    BY <2>1, FS_CardinalityType
  <2>2. ASSUME NEW S, IsFiniteSet(S), NEW T \in SUBSET S
        PROVE IsFiniteSet(T) /\ Cardinality(T) <= Cardinality(S)
    BY <2>2, FS_Subset
  <2> QED
    BY <2>1, <2>2 DEF PartsCount
<1>4. AddingCounts
  BY FS_AddElement DEF AddingCounts
<1>5. RemovingCounts
  BY FS_RemoveElement DEF RemovingCounts
<1>6. PairsCount
  BY FS_Product DEF PairsCount
<1> QED
  BY <1>1, <1>2, <1>3, <1>4, <1>5, <1>6 DEF CountingFacts

-----------------------------------------------------------------------------
(* Accounts.                                                               *)
UserRows == [role : {"admin", "member", "none"}, active : BOOLEAN, pass : BOOLEAN,
             token : BOOLEAN, enabled : BOOLEAN]
AttemptRows == [failures : Nat, lockedFor : Int, since : Int]
AccountsTypes ==
  /\ users \in [Emails -> UserRows]
  /\ tracker \in [Emails -> AttemptRows]
  /\ connects \in [Clients -> [at : {"away", "setup", "login", "checked", "read", "enable"},
                               email : Emails \cup {""}, ok : BOOLEAN]]
  /\ \A k \in Clients : connects[k].at # "away" => connects[k].email \in Emails
  /\ setups \in Nat /\ everAdmin \in BOOLEAN /\ mutexFree \in BOOLEAN

(* A set-up under way holds the mutex alone and is the first one; a        *)
(* finished one left an administrator.                                     *)
OneSetUp ==
  /\ \A k \in Clients : connects[k].at = "setup" => ~mutexFree /\ setups = 0
  /\ \A j, k \in Clients : connects[j].at = "setup" /\ connects[k].at = "setup" => j = k
  /\ setups > 0 => everAdmin

PastIn(c, e) == {k \in Clients : c[k].at \in {"checked", "read"} /\ c[k].email = e}
Past(e) == PastIn(connects, e)
AccountsInv == AccountsTypes /\ OneSetUp /\ AdminRemains /\ LockoutHolds

(* What a write to the users table keeps: the changed entry is an            *)
(* administrator, or was none, or leaves another one.                      *)
LEMMA SetUsersKeepsAdmins ==
  ASSUME NEW e \in Emails, NEW entry \in UserRows, AccountsTypes,
         everAdmin => Admins # {},
         IsAdmin(users[e]) => IsAdmin(entry) \/ Admins \ {e} # {},
         SetUsers([users EXCEPT ![e] = entry])
  PROVE  /\ users' \in [Emails -> UserRows] /\ everAdmin' \in BOOLEAN
         /\ everAdmin => everAdmin'
         /\ everAdmin' => Admins' # {}
         /\ IsAdmin(entry) => everAdmin'
<1>1. /\ users' = [users EXCEPT ![e] = entry] /\ users' \in [Emails -> UserRows]
      /\ everAdmin' = (everAdmin \/ \E f \in Emails : IsAdmin(users'[f]))
  BY Zenon DEF SetUsers, AccountsTypes
<1>2. everAdmin' \in BOOLEAN /\ (everAdmin => everAdmin') /\ (IsAdmin(entry) => everAdmin')
  BY Zenon, <1>1 DEF AccountsTypes
<1>3. ASSUME everAdmin' PROVE Admins' # {}
  <2>1. CASE \E f \in Emails : IsAdmin(users'[f])
    BY <2>1 DEF Admins
  <2>2. CASE everAdmin
    <3>1. PICK f \in Emails : IsAdmin(users[f])
      BY <2>2 DEF Admins
    <3>2. CASE \E g \in Emails : g # e /\ IsAdmin(users[g])
      BY Zenon, <1>1, <3>2 DEF Admins, AccountsTypes
    <3>3. CASE IsAdmin(users[e]) /\ IsAdmin(entry)
      BY Zenon, <1>1, <3>3 DEF Admins, AccountsTypes
    <3> QED
      BY <3>1, <3>2, <3>3 DEF Admins
  <2> QED
    BY Zenon, <1>1, <1>3, <2>1, <2>2
<1> QED
  BY <1>1, <1>2, <1>3

(* Pruning and the other updates of the login tracker only ever drop       *)
(* entries, except for the one failure that is counted.                    *)
LEMMA TrackerTypes ==
  ASSUME NEW t \in [Emails -> AttemptRows], NEW S
  PROVE  /\ NoAttempt \in AttemptRows
         /\ Forget(t, S) \in [Emails -> AttemptRows]
         /\ \A f \in Emails : Forget(t, S)[f] \in {t[f], NoAttempt}
<1>1. NoAttempt \in AttemptRows
  BY DEF NoAttempt, AttemptRows
<1> QED
  BY <1>1 DEF Forget

(* Dropping expired attempts (pruneLocked) changes an entry only to "no    *)
(* attempt".                                                               *)
LEMMA PruneOnlyForgets ==
  ASSUME NEW t \in [Emails -> AttemptRows]
  PROVE  /\ pruneLocked(t) \in [Emails -> AttemptRows]
         /\ \A f \in Emails : pruneLocked(t)[f] \in {t[f], NoAttempt}
<1>1. \E S : pruneLocked(t) = Forget(t, S) \/ pruneLocked(t) = t
  BY Zenon DEF pruneLocked
<1> QED
  BY <1>1, TrackerTypes

(* A recorded failure adds at most one to its own account and starts the   *)
(* lockout when it reaches the limit.                                      *)
LEMMA FailureCounted ==
  ASSUME NEW t \in [Emails -> AttemptRows], NEW e \in Emails
  PROVE  LET r == recordFailure(t, e) IN
         /\ r \in [Emails -> AttemptRows]
         /\ \A f \in Emails \ {e} : r[f] \in {t[f], NoAttempt}
         /\ r[e].failures <= t[e].failures + 1
         /\ r[e].failures >= MaxFailedLogins => r[e].lockedFor >= 0
<1> DEFINE n == IF t[e].since > FailureDecayWindow THEN 1 ELSE t[e].failures + 1
           room == IF t[e] = NoAttempt THEN pruneLocked(t) ELSE t
           entry == [failures |-> n, since |-> 0,
                   lockedFor |-> IF n >= MaxFailedLogins THEN 0
                                 ELSE IF t[e].since > FailureDecayWindow THEN -1
                                 ELSE t[e].lockedFor]
<1>1. recordFailure(t, e) = [room EXCEPT ![e] = entry]
  BY DEF recordFailure
<1>2. /\ room \in [Emails -> AttemptRows]
      /\ \A f \in Emails : room[f] \in {t[f], NoAttempt}
  BY PruneOnlyForgets
<1>3. t[e] \in AttemptRows /\ t[e].failures \in Nat /\ t[e].lockedFor \in Int /\ t[e].since \in Int
  BY DEF AttemptRows
<1>4. n \in Nat /\ n <= t[e].failures + 1
  BY <1>3
<1>5. entry \in AttemptRows /\ entry.failures = n /\ (n >= MaxFailedLogins => entry.lockedFor >= 0)
  BY <1>3, <1>4, LockoutWindows DEF AttemptRows
<1> HIDE DEF entry, room, n
<1> QED
  BY <1>1, <1>2, <1>4, <1>5

(* A login that isLocked lets pass has fewer failures than the limit.      *)
LEMMA CheckedUnlocked ==
  ASSUME NEW t \in [Emails -> AttemptRows], NEW e \in Emails,
         t[e].failures >= MaxFailedLogins => t[e].lockedFor >= 0
  PROVE  LET r == isLocked(t, e) IN
         /\ r.t \in [Emails -> AttemptRows]
         /\ \A f \in Emails : r.t[f] \in {t[f], NoAttempt}
         /\ ~r.locked => r.t[e].failures < MaxFailedLogins
<1>1. t[e] \in AttemptRows /\ t[e].failures \in Nat /\ t[e].lockedFor \in Int /\ t[e].since \in Int
  BY DEF AttemptRows
<1>2. CASE expired(t[e]) \/ (t[e].lockedFor >= 0 /\ ~Locked(t[e]))
  <2>1. isLocked(t, e) = [locked |-> FALSE, t |-> Forget(t, {e})]
    BY <1>2 DEF isLocked
  <2>2. Forget(t, {e})[e] = NoAttempt /\ NoAttempt.failures = 0
    BY DEF Forget, NoAttempt
  <2> QED
    BY <2>1, <2>2, TrackerTypes, LockoutWindows
<1>3. CASE ~(expired(t[e]) \/ (t[e].lockedFor >= 0 /\ ~Locked(t[e])))
  <2>1. isLocked(t, e) = [locked |-> Locked(t[e]), t |-> t]
    BY <1>3 DEF isLocked
  <2>2. ~Locked(t[e]) => t[e].failures < MaxFailedLogins
    BY <1>1, <1>3, LockoutWindows
  <2> QED
    BY <2>1, <2>2
<1> QED
  BY <1>2, <1>3

(* At most every client is past the lockout check at once.                 *)
LEMMA PastBounded ==
  ASSUME NEW c, NEW e
  PROVE  /\ IsFiniteSet(PastIn(c, e)) /\ Cardinality(PastIn(c, e)) \in Nat
         /\ Cardinality(Clients) \in Nat /\ Cardinality(PastIn(c, e)) <= Cardinality(Clients)
<1>1. PastIn(c, e) \in SUBSET Clients
  BY DEF PastIn
<1> QED
  BY <1>1, FS_Subset, FS_CardinalityType, LockoutWindows

(* The lockout of one account, as the invariant states it.                 *)
Lockout(e) ==
  /\ tracker[e].failures + Cardinality(Past(e)) <= MaxFailedLogins - 1 + Cardinality(Clients)
  /\ tracker[e].failures >= MaxFailedLogins => tracker[e].lockedFor >= 0

(* The lockout property, account by account.                               *)
LEMMA LockoutPerAccount == LockoutHolds <=> \A e \in Emails : Lockout(e)
BY DEF LockoutHolds, Lockout, Past, PastIn

(* An entry dropped, or kept while nobody gets past the check, stays       *)
(* within the limit.                                                       *)
LEMMA LockoutKept ==
  ASSUME NEW e \in Emails, AccountsTypes, Lockout(e),
         tracker'[e] \in {tracker[e], NoAttempt},
         tracker'[e] # NoAttempt => Cardinality(Past(e)') <= Cardinality(Past(e))
  PROVE  Lockout(e)'
<1>1. tracker[e].failures \in Nat /\ tracker[e].lockedFor \in Int
  BY Zenon DEF AccountsTypes, AttemptRows
<1>2. NoAttempt.failures = 0
  BY DEF NoAttempt
<1>3. /\ Cardinality(Clients) \in Nat /\ Cardinality(Past(e)) \in Nat
      /\ Cardinality(Past(e)') \in Nat /\ Cardinality(Past(e)') <= Cardinality(Clients)
  BY PastBounded DEF Past
<1>4. CASE tracker'[e] = NoAttempt
  BY <1>2, <1>3, <1>4, LockoutWindows DEF Lockout
<1>5. CASE tracker'[e] # NoAttempt
  BY <1>1, <1>3, <1>5, LockoutWindows DEF Lockout
<1> QED
  BY <1>4, <1>5

(* A write to the users table alone.                                       *)
LEMMA UsersStep ==
  ASSUME AccountsInv, NEW e \in Emails, NEW entry \in UserRows,
         SetUsers([users EXCEPT ![e] = entry]),
         IsAdmin(users[e]) => IsAdmin(entry) \/ Admins \ {e} # {},
         UNCHANGED <<connects, mutexFree, tracker, setups>>
  PROVE  AccountsInv'
<1>1. /\ users' \in [Emails -> UserRows] /\ everAdmin' \in BOOLEAN
      /\ everAdmin => everAdmin'
      /\ everAdmin' => Admins' # {}
  BY SetUsersKeepsAdmins DEF AccountsInv, AdminRemains
<1>2. AccountsTypes'
  BY Zenon, <1>1 DEF AccountsInv, AccountsTypes
<1>3. OneSetUp' /\ AdminRemains'
  BY <1>1 DEF AccountsInv, OneSetUp, AdminRemains
<1>4. LockoutHolds'
  BY DEF AccountsInv, LockoutHolds
<1> QED
  BY <1>2, <1>3, <1>4 DEF AccountsInv

(* The edits of a user row stay user rows and only the intended ones       *)
(* touch an administrator.                                                 *)
LEMMA RowTypes ==
  ASSUME AccountsTypes, NEW e \in Emails
  PROVE  /\ users[e] \in UserRows /\ NoUser \in UserRows
         /\ \A role \in {"admin", "member"} :
              /\ [users[e] EXCEPT !.role = role] \in UserRows
              /\ role = "admin" =>
                   (IsAdmin(users[e]) => IsAdmin([users[e] EXCEPT !.role = role]))
         /\ \A active \in BOOLEAN :
              /\ [users[e] EXCEPT !.active = active] \in UserRows
              /\ active => (IsAdmin(users[e]) => IsAdmin([users[e] EXCEPT !.active = active]))
         /\ [users[e] EXCEPT !.token = TRUE, !.enabled = TRUE] \in UserRows
         /\ IsAdmin([users[e] EXCEPT !.token = TRUE, !.enabled = TRUE]) = IsAdmin(users[e])
         /\ \A role \in {"admin", "member"}, pass, token \in BOOLEAN :
              [role |-> role, active |-> TRUE, pass |-> pass, token |-> token,
               enabled |-> token] \in UserRows
         /\ ~IsAdmin(NoUser)
<1>1. users[e] \in UserRows
  BY Zenon DEF AccountsTypes
<1>2. NoUser \in UserRows /\ ~IsAdmin(NoUser)
  BY DEF UserRows, NoUser, IsAdmin
<1>3. ASSUME NEW role \in {"admin", "member"}
      PROVE  /\ [users[e] EXCEPT !.role = role] \in UserRows
             /\ role = "admin" =>
                  (IsAdmin(users[e]) => IsAdmin([users[e] EXCEPT !.role = role]))
  BY <1>1 DEF UserRows, IsAdmin
<1>4. ASSUME NEW active \in BOOLEAN
      PROVE  /\ [users[e] EXCEPT !.active = active] \in UserRows
             /\ active => (IsAdmin(users[e]) => IsAdmin([users[e] EXCEPT !.active = active]))
  BY <1>1 DEF UserRows, IsAdmin
<1>5. /\ [users[e] EXCEPT !.token = TRUE, !.enabled = TRUE] \in UserRows
      /\ IsAdmin([users[e] EXCEPT !.token = TRUE, !.enabled = TRUE]) = IsAdmin(users[e])
  BY Zenon, <1>1 DEF UserRows, IsAdmin
<1>6. \A role \in {"admin", "member"}, pass, token \in BOOLEAN :
        [role |-> role, active |-> TRUE, pass |-> pass, token |-> token,
         enabled |-> token] \in UserRows
  BY DEF UserRows
<1> QED
  BY <1>1, <1>2, <1>3, <1>4, <1>5, <1>6

(* The user handlers and the proxy login keep the invariant of the         *)
(* accounts.                                                               *)
LEMMA AdminToolsKeep ==
  ASSUME AccountsInv, NEW e \in Emails,
         \/ ProxyAuth(e) \/ HandleDeleteUser(e)
         \/ \E role \in {"admin", "member"} \ {users[e].role} : HandleUpdateRole(e, role)
         \/ HandleToggleActive(e, ~users[e].active)
  PROVE  AccountsInv'
<1>0. AccountsTypes
  BY DEF AccountsInv
<1>1. CASE ProxyAuth(e)
  <2>1. PICK role \in {"admin", "member"} :
          CreateUser(e, [role |-> role, active |-> TRUE, pass |-> FALSE, token |-> FALSE,
                         enabled |-> FALSE])
    BY Zenon, <1>1 DEF ProxyAuth
  <2> DEFINE entry == [role |-> role, active |-> TRUE, pass |-> FALSE, token |-> FALSE,
                     enabled |-> FALSE]
  <2>2. entry \in UserRows
    BY Zenon, <1>0, RowTypes
  <2>3. ~IsAdmin(users[e]) /\ SetUsers([users EXCEPT ![e] = entry])
    BY Zenon, <1>0, <2>1, RowTypes DEF CreateUser, HasUser
  <2>4. UNCHANGED <<connects, mutexFree, tracker, setups>>
    BY <1>1 DEF ProxyAuth
  <2> QED
    BY Zenon, <2>2, <2>3, <2>4, UsersStep
<1>2. CASE HandleDeleteUser(e)
  BY Zenon, <1>0, <1>2, RowTypes, UsersStep DEF HandleDeleteUser, checkLastAdminTx
<1>3. ASSUME NEW role \in {"admin", "member"}, HandleUpdateRole(e, role) PROVE AccountsInv'
  <2> DEFINE entry == [users[e] EXCEPT !.role = role]
  <2>1. entry \in UserRows
    BY Zenon, <1>0, RowTypes
  <2>2. IsAdmin(users[e]) => IsAdmin(entry) \/ Admins \ {e} # {}
    BY Zenon, <1>0, <1>3, RowTypes DEF HandleUpdateRole, UpdateUser, checkLastAdminTx
  <2>3. SetUsers([users EXCEPT ![e] = entry]) /\ UNCHANGED <<connects, mutexFree, tracker, setups>>
    BY <1>3 DEF HandleUpdateRole, UpdateUser
  <2> QED
    BY <2>1, <2>2, <2>3, UsersStep
<1>4. CASE HandleToggleActive(e, ~users[e].active)
  <2> DEFINE active == ~users[e].active
             entry == [users[e] EXCEPT !.active = active]
  <2>1. active \in BOOLEAN /\ entry \in UserRows
    BY Zenon, <1>0, RowTypes
  <2>2. IsAdmin(users[e]) => IsAdmin(entry) \/ Admins \ {e} # {}
    BY Zenon, <1>0, <1>4, RowTypes DEF HandleToggleActive, UpdateUser, checkLastAdminTx
  <2>3. SetUsers([users EXCEPT ![e] = entry]) /\ UNCHANGED <<connects, mutexFree, tracker, setups>>
    BY <1>4 DEF HandleToggleActive, UpdateUser
  <2> QED
    BY <2>1, <2>2, <2>3, UsersStep
<1> QED
  BY <1>1, <1>2, <1>3, <1>4

(* A request that moves on.  It joins the requests past the check only     *)
(* where it gets past it.                                                  *)
ConnectRows == [at : {"away", "setup", "login", "checked", "read", "enable"},
                email : Emails \cup {""}, ok : BOOLEAN]

(* One client moving on changes no other client's place in the login.      *)
LEMMA ConnectMoves ==
  ASSUME AccountsTypes, NEW k \in Clients, NEW entry \in ConnectRows,
         entry.at # "away" => entry.email \in Emails,
         connects' = [connects EXCEPT ![k] = entry]
  PROVE  /\ connects' \in [Clients -> ConnectRows]
         /\ \A j \in Clients : connects'[j].at # "away" => connects'[j].email \in Emails
         /\ \A f \in Emails :
              /\ ~(entry.at \in {"checked", "read"} /\ entry.email = f) => Past(f)' = Past(f) \ {k}
              /\ k \in Past(f) \/ ~(entry.at \in {"checked", "read"} /\ entry.email = f) =>
                   Cardinality(Past(f)') <= Cardinality(Past(f))
<1>1. connects \in [Clients -> ConnectRows]
  BY Zenon DEF AccountsTypes, ConnectRows
<1>2. /\ connects' \in [Clients -> ConnectRows]
      /\ \A j \in Clients : connects'[j].at # "away" => connects'[j].email \in Emails
  BY Zenon, <1>1 DEF AccountsTypes
<1>3. ASSUME NEW f \in Emails
      PROVE  /\ ~(entry.at \in {"checked", "read"} /\ entry.email = f) => Past(f)' = Past(f) \ {k}
             /\ k \in Past(f) \/ ~(entry.at \in {"checked", "read"} /\ entry.email = f) =>
                  Past(f)' \in SUBSET Past(f)
  BY <1>1 DEF Past, PastIn
<1>4. ASSUME NEW f \in Emails, Past(f)' \in SUBSET Past(f)
      PROVE  Cardinality(Past(f)') <= Cardinality(Past(f))
  BY Zenon, <1>4, PastBounded, FS_Subset DEF Past
<1> QED
  BY <1>2, <1>3, <1>4

(* The steps of a request that leave the tracker alone.                    *)
LEMMA ConnectStep ==
  ASSUME AccountsInv, NEW k \in Clients, NEW entry \in ConnectRows,
         entry.at # "away" => entry.email \in Emails,
         connects' = [connects EXCEPT ![k] = entry],
         entry.at \in {"checked", "read"} => k \in Past(entry.email),
         tracker' = tracker
  PROVE  LockoutHolds'
<1>1. AccountsTypes /\ \A e \in Emails : Lockout(e)
  BY LockoutPerAccount DEF AccountsInv
<1>2. \A f \in Emails : Cardinality(Past(f)') <= Cardinality(Past(f))
  BY Zenon, <1>1, ConnectMoves
<1>3. \A e \in Emails : Lockout(e)'
  BY <1>1, <1>2, LockoutKept
<1> QED
  BY <1>3 DEF LockoutHolds, Lockout, Past, PastIn

(* A client that is done is away.                                          *)
LEMMA AwayRow == Away \in ConnectRows /\ Away.at = "away"
BY DEF Away, ConnectRows

(* The setup form, with its mutex, keeps the invariant.                    *)
LEMMA SetUpSteps ==
  ASSUME AccountsInv, NEW k \in Clients,
         handleConnectCreateAdmin(k) \/ \E e \in Emails : handleConnect(k, e)
  PROVE  AccountsInv'
<1>0. AccountsTypes /\ OneSetUp /\ AdminRemains
  BY DEF AccountsInv
<1>1. CASE handleConnectCreateAdmin(k)
  <2> DEFINE e == connects[k].email
             entry == [role |-> "admin", active |-> TRUE, pass |-> TRUE,
                     token |-> TRUE, enabled |-> TRUE]
  <2>1. connects[k].at = "setup" /\ e \in Emails /\ setups = 0
        /\ mutexFree' = TRUE /\ tracker' = tracker
        /\ connects' = [connects EXCEPT ![k] = Away]
    BY Zenon, <1>0, <1>1 DEF handleConnectCreateAdmin, AccountsTypes, OneSetUp
  <2>2. /\ connects' \in [Clients -> ConnectRows]
        /\ \A j \in Clients : connects'[j].at # "away" => connects'[j].email \in Emails
    BY Zenon, <1>0, <2>1, AwayRow, ConnectMoves
  <2>3. LockoutHolds'
    BY Zenon, <2>1, AwayRow, ConnectStep
  <2>4. \A j \in Clients : connects'[j].at # "setup"
    BY Zenon, <1>0, <2>1, AwayRow DEF OneSetUp, AccountsTypes
  <2>5. CASE CreateUser(e, entry) /\ setups' = setups + 1
    <3>1. entry \in UserRows /\ IsAdmin(entry)
      BY DEF UserRows, IsAdmin
    <3>2. SetUsers([users EXCEPT ![e] = entry])
      BY <2>5 DEF CreateUser
    <3> HIDE DEF entry, e
    <3>3. users' \in [Emails -> UserRows] /\ everAdmin' \in BOOLEAN /\ everAdmin' /\ Admins' # {}
      BY <1>0, <2>1, <3>1, <3>2, SetUsersKeepsAdmins DEF AdminRemains
    <3>4. setups' = 1
      BY <2>1, <2>5
    <3>5. AccountsTypes'
      BY Zenon, <1>0, <2>1, <2>2, <3>3, <3>4 DEF AccountsTypes, ConnectRows
    <3>6. OneSetUp' /\ AdminRemains'
      BY <2>4, <3>3, <3>4 DEF OneSetUp, AdminRemains
    <3> QED
      BY <2>3, <3>5, <3>6 DEF AccountsInv
  <2>6. CASE UNCHANGED <<users, everAdmin, setups>>
    <3>1. AccountsTypes'
      BY Zenon, <1>0, <2>1, <2>2, <2>6 DEF AccountsTypes, ConnectRows
    <3> QED
      BY <1>0, <2>3, <2>4, <2>6, <3>1 DEF AccountsInv, OneSetUp, AdminRemains, Admins
  <2> QED
    BY <1>1, <2>5, <2>6 DEF handleConnectCreateAdmin
<1>2. ASSUME NEW e \in Emails, handleConnect(k, e) PROVE AccountsInv'
  <2>1. PICK at \in {"setup", "login"} :
          /\ GoTo(k, at, e, FALSE)
          /\ at = "setup" => mutexFree' = FALSE /\ \A f \in Emails : ~HasUser(f)
          /\ at = "login" => mutexFree' = mutexFree
    BY Zenon, <1>2 DEF handleConnect
  <2> DEFINE entry == [at |-> at, email |-> e, ok |-> FALSE]
  <2>2. entry \in ConnectRows /\ entry.at = at /\ entry.email = e
    BY Zenon DEF ConnectRows
  <2>3. connects' = [connects EXCEPT ![k] = entry] /\ mutexFree
        /\ UNCHANGED <<users, tracker, everAdmin, setups>>
    BY <1>2, <2>1 DEF GoTo, handleConnect
  <2> HIDE DEF entry
  <2>4. /\ connects' \in [Clients -> ConnectRows]
        /\ \A j \in Clients : connects'[j].at # "away" => connects'[j].email \in Emails
    BY Zenon, <1>0, <2>2, <2>3, ConnectMoves
  <2>5. LockoutHolds'
    BY Zenon, <2>1, <2>2, <2>3, ConnectStep
  <2>6. AccountsTypes'
    BY Zenon, <1>0, <2>1, <2>3, <2>4 DEF AccountsTypes, ConnectRows
  <2>7. \A j \in Clients : connects[j].at # "setup"
    BY <1>0, <2>3 DEF OneSetUp
  <2>8. \A j \in Clients : connects'[j].at = "setup" => j = k /\ at = "setup"
    BY Zenon, <1>0, <2>2, <2>3, <2>7 DEF AccountsTypes
  <2>9. at = "setup" => setups = 0
    <3>1. (\A f \in Emails : ~HasUser(f)) => Admins = {}
      BY Zenon, <1>0, RowTypes DEF HasUser, Admins
    <3>2. setups \in Nat /\ (setups > 0 => Admins # {})
      BY Zenon, <1>0 DEF AdminRemains, OneSetUp, AccountsTypes
    <3> QED
      BY <2>1, <3>1, <3>2
  <2>10. at = "setup" => ~mutexFree' /\ setups' = 0
    BY <2>1, <2>3, <2>9
  <2>11. OneSetUp'
    BY <1>0, <2>3, <2>8, <2>10 DEF OneSetUp
  <2>12. AdminRemains'
    BY <1>0, <2>3 DEF AdminRemains, Admins
  <2> QED
    BY <2>5, <2>6, <2>11, <2>12 DEF AccountsInv
<1> QED
  BY <1>1, <1>2

(* The steps of a login.                                                   *)
LEMMA LoginFrame ==
  ASSUME AccountsInv, NEW k \in Clients, NEW entry \in ConnectRows,
         entry.at # "away" => entry.email \in Emails, entry.at # "setup",
         connects[k].at # "setup",
         connects' = [connects EXCEPT ![k] = entry],
         tracker' \in [Emails -> AttemptRows],
         UNCHANGED <<users, mutexFree, everAdmin, setups>>
  PROVE  AccountsTypes' /\ OneSetUp' /\ AdminRemains'
<1>1. AccountsTypes /\ OneSetUp /\ AdminRemains
  BY DEF AccountsInv
<1>2. /\ connects' \in [Clients -> ConnectRows]
      /\ \A j \in Clients : connects'[j].at # "away" => connects'[j].email \in Emails
  BY Zenon, <1>1, ConnectMoves
<1>3. AccountsTypes'
  BY Zenon, <1>1, <1>2 DEF AccountsTypes, ConnectRows
<1>4. \A j \in Clients : connects'[j].at = "setup" => connects[j].at = "setup"
  BY Zenon, <1>1 DEF AccountsTypes
<1>5. OneSetUp'
  BY <1>1, <1>4 DEF OneSetUp
<1>6. AdminRemains'
  BY <1>1 DEF AdminRemains, Admins
<1> QED
  BY <1>3, <1>5, <1>6

(* The lockout check of a login keeps the invariant.                       *)
LEMMA LoginCheckKeeps ==
  ASSUME AccountsInv, NEW k \in Clients, LoginCheck(k)
  PROVE  AccountsInv'
<1>a. PICK e \in Emails : e = connects[k].email
  BY Zenon DEF LoginCheck, AccountsInv, AccountsTypes
<1> DEFINE r == isLocked(tracker, e)
           entry == IF r.locked THEN Away ELSE [connects[k] EXCEPT !.at = "checked"]
<1>0. AccountsTypes /\ \A f \in Emails : Lockout(f)
  BY LockoutPerAccount DEF AccountsInv
<1>1. connects[k].at = "login" /\ connects[k] \in ConnectRows
  BY Zenon, <1>0, <1>a DEF LoginCheck, AccountsTypes, ConnectRows
<1>2. /\ r.t \in [Emails -> AttemptRows]
      /\ \A f \in Emails : r.t[f] \in {tracker[f], NoAttempt}
      /\ ~r.locked => r.t[e].failures < MaxFailedLogins
  BY Zenon, <1>0, <1>1, CheckedUnlocked DEF AccountsTypes, Lockout
<1>3. /\ connects' = [connects EXCEPT ![k] = entry] /\ tracker' = r.t
      /\ UNCHANGED <<users, mutexFree, everAdmin, setups>>
  BY Zenon, <1>0, <1>a DEF LoginCheck, AccountsTypes
<1>4. [connects[k] EXCEPT !.at = "checked"] \in ConnectRows
      /\ [connects[k] EXCEPT !.at = "checked"].email = e
      /\ [connects[k] EXCEPT !.at = "checked"].at = "checked"
  BY Zenon, <1>1, <1>a DEF ConnectRows
<1>5. /\ entry \in ConnectRows /\ entry.at \in {"away", "checked"}
      /\ entry.at = "checked" => entry.email = e /\ ~r.locked
  BY <1>4, AwayRow
<1> HIDE DEF entry, r
<1>6. AccountsTypes' /\ OneSetUp' /\ AdminRemains'
  BY Zenon, <1>1, <1>2, <1>3, <1>5, LoginFrame
<1>7. ASSUME NEW f \in Emails PROVE Lockout(f)'
  <2>1. CASE entry.at = "checked" /\ f = e
    <3>1. tracker'[e].failures < MaxFailedLogins /\ tracker'[e].failures \in Nat
      BY <1>2, <1>3, <1>5, <2>1 DEF AttemptRows
    <3>2. /\ Cardinality(Clients) \in Nat
          /\ Cardinality(Past(e)') \in Nat /\ Cardinality(Past(e)') <= Cardinality(Clients)
      BY PastBounded DEF Past
    <3> QED
      BY <2>1, <3>1, <3>2, LockoutWindows DEF Lockout
  <2>2. CASE ~(entry.at = "checked" /\ f = e)
    <3>1. Cardinality(Past(f)') <= Cardinality(Past(f))
      BY Zenon, <1>0, <1>1, <1>3, <1>5, <2>2, ConnectMoves
    <3> QED
      BY <1>0, <1>2, <1>3, <3>1, LockoutKept
  <2> QED
    BY Zenon, <2>1, <2>2
<1> QED
  BY <1>6, <1>7 DEF AccountsInv, LockoutHolds, Lockout, Past, PastIn

(* Reading the user row of a login keeps the invariant.                    *)
LEMMA LoginReadKeeps ==
  ASSUME AccountsInv, NEW k \in Clients, LoginRead(k)
  PROVE  AccountsInv'
<1> DEFINE e == connects[k].email
           ok == users[e].active /\ users[e].pass
           entry == [at |-> "read", email |-> e, ok |-> ok]
<1>0. AccountsTypes
  BY DEF AccountsInv
<1>1. connects[k].at = "checked" /\ e \in Emails
  BY Zenon, <1>0 DEF LoginRead, AccountsTypes
<1>2. entry \in ConnectRows /\ entry.at = "read" /\ entry.email = e
  BY Zenon, <1>0, <1>1 DEF ConnectRows, AccountsTypes, UserRows
<1>3. connects' = [connects EXCEPT ![k] = entry]
      /\ UNCHANGED <<users, mutexFree, tracker, everAdmin, setups>>
  BY DEF LoginRead, GoTo
<1>4. k \in Past(e) /\ tracker' \in [Emails -> AttemptRows]
  BY Zenon, <1>0, <1>1, <1>3 DEF Past, PastIn, AccountsTypes
<1> HIDE DEF entry, e
<1> QED
  BY Zenon, <1>1, <1>2, <1>3, <1>4, LoginFrame, ConnectStep DEF AccountsInv

(* Comparing the password, and recording a failure, keeps the invariant.   *)
LEMMA LoginCompareKeeps ==
  ASSUME AccountsInv, NEW k \in Clients, LoginCompare(k)
  PROVE  AccountsInv'
<1>a. PICK e \in Emails : e = connects[k].email
  BY Zenon DEF LoginCompare, AccountsInv, AccountsTypes
<1> DEFINE enable == [at |-> "enable", email |-> e, ok |-> TRUE]
<1>0. AccountsTypes /\ \A f \in Emails : Lockout(f)
  BY LockoutPerAccount DEF AccountsInv
<1>1. connects[k].at = "read" /\ k \in Past(e)
      /\ UNCHANGED <<users, mutexFree, everAdmin, setups>>
  BY Zenon, <1>0, <1>a DEF LoginCompare, AccountsTypes, Past, PastIn
<1>2. enable \in ConnectRows /\ enable.at = "enable" /\ enable.email = e
  BY Zenon, <1>1 DEF ConnectRows
<1>3. tracker \in [Emails -> AttemptRows]
  BY Zenon, <1>0 DEF AccountsTypes
<1>4. CASE tracker' = recordSuccess(tracker, e) /\ connects' = [connects EXCEPT ![k] = enable]
  <2> HIDE DEF enable
  <2>1. /\ tracker' \in [Emails -> AttemptRows]
        /\ \A f \in Emails : tracker'[f] \in {tracker[f], NoAttempt}
    BY <1>3, <1>4, TrackerTypes DEF recordSuccess
  <2>2. \A f \in Emails : Cardinality(Past(f)') <= Cardinality(Past(f))
    BY Zenon, <1>0, <1>1, <1>2, <1>4, ConnectMoves
  <2>3. \A f \in Emails : Lockout(f)'
    BY <1>0, <2>1, <2>2, LockoutKept
  <2>4. AccountsTypes' /\ OneSetUp' /\ AdminRemains'
    BY Zenon, <1>1, <1>2, <1>4, <2>1, LoginFrame
  <2> QED
    BY <2>3, <2>4 DEF AccountsInv, LockoutHolds, Lockout, Past, PastIn
<1>5. CASE tracker' = recordFailure(tracker, e) /\ connects' = [connects EXCEPT ![k] = Away]
  <2>1. /\ tracker' \in [Emails -> AttemptRows]
        /\ \A f \in Emails \ {e} : tracker'[f] \in {tracker[f], NoAttempt}
        /\ tracker'[e].failures <= tracker[e].failures + 1
        /\ tracker'[e].failures >= MaxFailedLogins => tracker'[e].lockedFor >= 0
    BY <1>1, <1>3, <1>5, FailureCounted
  <2>2. \A f \in Emails : /\ Cardinality(Past(f)') <= Cardinality(Past(f))
                          /\ Past(f)' = Past(f) \ {k}
    BY Zenon, <1>0, <1>1, <1>5, AwayRow, ConnectMoves
  <2>3. AccountsTypes' /\ OneSetUp' /\ AdminRemains'
    BY Zenon, <1>1, <1>5, <2>1, AwayRow, LoginFrame
  <2>4. Lockout(e)'
    <3>1. Cardinality(Past(e)') = Cardinality(Past(e)) - 1
      BY <1>1, <2>2, PastBounded, FS_RemoveElement DEF Past
    <3>2. /\ Cardinality(Clients) \in Nat /\ Cardinality(Past(e)) \in Nat
          /\ tracker[e].failures \in Nat /\ tracker'[e].failures \in Nat
      BY <1>1, <1>3, <2>1, PastBounded DEF Past, AttemptRows
    <3> QED
      BY <1>0, <1>1, <2>1, <3>1, <3>2, LockoutWindows DEF Lockout
  <2>5. \A f \in Emails \ {e} : Lockout(f)'
    BY <1>0, <2>1, <2>2, LockoutKept
  <2> QED
    BY Zenon, <2>3, <2>4, <2>5 DEF AccountsInv, LockoutHolds, Lockout, Past, PastIn
<1> QED
  BY <1>4, <1>5, <1>a DEF LoginCompare, GoTo

(* Storing the connection of a successful login keeps the invariant.       *)
LEMMA LoginEnableKeeps ==
  ASSUME AccountsInv, NEW k \in Clients, LoginEnable(k)
  PROVE  AccountsInv'
<1>0. AccountsTypes /\ OneSetUp /\ AdminRemains
  BY DEF AccountsInv
<1>a. PICK e \in Emails : e = connects[k].email
  BY Zenon, <1>0 DEF LoginEnable, AccountsTypes
<1> DEFINE token == [users[e] EXCEPT !.token = TRUE, !.enabled = TRUE]
           entry == IF HasUser(e) THEN token ELSE users[e]
<1>1. /\ connects[k].at = "enable" /\ connects' = [connects EXCEPT ![k] = Away]
      /\ UNCHANGED <<mutexFree, tracker, setups>>
  BY DEF LoginEnable
<1>2. SetUsers([users EXCEPT ![e] = entry])
  <2>1. [users EXCEPT ![e].token = TRUE, ![e].enabled = TRUE] = [users EXCEPT ![e] = token]
    BY Zenon, <1>0 DEF AccountsTypes, UserRows
  <2>2. users = [users EXCEPT ![e] = users[e]]
    BY Zenon, <1>0 DEF AccountsTypes
  <2>3. CASE HasUser(e)
    BY <1>a, <2>1, <2>3 DEF LoginEnable
  <2>4. CASE ~HasUser(e)
    BY <1>a, <2>2, <2>4 DEF LoginEnable
  <2> QED
    BY <2>3, <2>4
<1>3. entry \in UserRows /\ (IsAdmin(users[e]) => IsAdmin(entry))
  BY Zenon, <1>0, RowTypes
<1> HIDE DEF entry
<1>4. /\ users' \in [Emails -> UserRows] /\ everAdmin' \in BOOLEAN
      /\ everAdmin => everAdmin'
      /\ everAdmin' => Admins' # {}
  BY <1>0, <1>2, <1>3, SetUsersKeepsAdmins DEF AdminRemains
<1>5. /\ connects' \in [Clients -> ConnectRows]
      /\ \A j \in Clients : connects'[j].at # "away" => connects'[j].email \in Emails
  BY Zenon, <1>0, <1>1, AwayRow, ConnectMoves
<1>6. AccountsTypes'
  BY Zenon, <1>0, <1>1, <1>4, <1>5 DEF AccountsTypes, ConnectRows
<1>7. LockoutHolds'
  BY Zenon, <1>1, AwayRow, ConnectStep
<1>8. \A j \in Clients : connects'[j].at = "setup" => connects[j].at = "setup"
  BY Zenon, <1>0, <1>1, AwayRow DEF AccountsTypes
<1>9. OneSetUp' /\ AdminRemains'
  BY <1>0, <1>1, <1>4, <1>8 DEF OneSetUp, AdminRemains
<1> QED
  BY <1>6, <1>7, <1>9 DEF AccountsInv

(* The clock moving past a lockout keeps the invariant.                    *)
LEMMA AccountsTickKeeps ==
  ASSUME AccountsInv, AccountsTick
  PROVE  AccountsInv'
<1>0. AccountsTypes /\ \A f \in Emails : Lockout(f)
  BY LockoutPerAccount DEF AccountsInv
<1>1. ASSUME NEW a \in AttemptRows
      PROVE  /\ Older(a) \in AttemptRows
             /\ Older(a).failures = a.failures
             /\ a.lockedFor >= 0 => Older(a).lockedFor >= 0
  <2>1. a.failures \in Nat /\ a.lockedFor \in Int /\ a.since \in Int
    BY DEF AttemptRows
  <2>2. CASE a = NoAttempt
    BY <2>2 DEF Older
  <2>3. CASE a # NoAttempt
    <3> DEFINE s == IF a.since <= FailureDecayWindow THEN a.since + 1 ELSE a.since
               l == IF a.lockedFor >= 0 /\ a.lockedFor <= LockoutDuration THEN a.lockedFor + 1
                    ELSE a.lockedFor
    <3>1. s \in Int /\ l \in Int /\ (a.lockedFor >= 0 => l >= 0)
      BY <2>1, LockoutWindows
    <3>2. Older(a) = [a EXCEPT !.since = s, !.lockedFor = l]
      BY <2>3 DEF Older, AttemptRows
    <3> HIDE DEF s, l
    <3> QED
      BY Zenon, <2>1, <3>1, <3>2 DEF AttemptRows
  <2> QED
    BY <2>2, <2>3
<1>2. /\ tracker' = [f \in Emails |-> Older(tracker[f])]
      /\ UNCHANGED <<users, connects, mutexFree, everAdmin, setups>>
  BY DEF AccountsTick
<1>3. /\ tracker' \in [Emails -> AttemptRows]
      /\ \A f \in Emails : /\ tracker'[f].failures = tracker[f].failures
                           /\ tracker[f].lockedFor >= 0 => tracker'[f].lockedFor >= 0
  BY Zenon, <1>0, <1>1, <1>2 DEF AccountsTypes
<1>4. AccountsTypes'
  BY Zenon, <1>0, <1>2, <1>3 DEF AccountsTypes
<1>5. \A f \in Emails : Lockout(f)'
  BY Zenon, <1>0, <1>2, <1>3 DEF Lockout, Past, PastIn
<1>6. OneSetUp' /\ AdminRemains'
  BY <1>2 DEF AccountsInv, OneSetUp, AdminRemains, Admins
<1> QED
  BY <1>4, <1>5, <1>6 DEF AccountsInv, LockoutHolds, Lockout, Past, PastIn

(* The two properties of the users table and the login tracker hold at     *)
(* the start and after every step.                                         *)
LEMMA AccountsStart == AccountsInit => AccountsInv
<1> SUFFICES ASSUME AccountsInit PROVE AccountsInv
  OBVIOUS
<1>1. AccountsTypes
  <2>1. NoUser \in UserRows /\ NoAttempt \in AttemptRows
    BY DEF NoUser, UserRows, NoAttempt, AttemptRows
  <2> QED
    BY Zenon, <2>1, AwayRow DEF AccountsInit, AccountsTypes, ConnectRows
<1>2. OneSetUp /\ AdminRemains
  BY AwayRow DEF AccountsInit, OneSetUp, AdminRemains
<1>3. ASSUME NEW e \in Emails PROVE Lockout(e)
  BY PastBounded, LockoutWindows DEF AccountsInit, Lockout, Past, NoAttempt
<1> QED
  BY <1>1, <1>2, <1>3 DEF AccountsInv, LockoutHolds, Lockout, Past, PastIn

(* Every step of the accounts keeps their invariant.                       *)
LEMMA AccountsStep == AccountsInv /\ [AccountsNext]_accountVars => AccountsInv'
<1> SUFFICES ASSUME AccountsInv, [AccountsNext]_accountVars PROVE AccountsInv'
  OBVIOUS
<1>1. CASE UNCHANGED accountVars
  BY Zenon, <1>1 DEF accountVars, AccountsInv, AccountsTypes, OneSetUp, AdminRemains, Admins,
              LockoutHolds
<1>2. ASSUME NEW e \in Emails,
             \/ ProxyAuth(e) \/ HandleDeleteUser(e)
             \/ \E role \in {"admin", "member"} \ {users[e].role} : HandleUpdateRole(e, role)
             \/ HandleToggleActive(e, ~users[e].active)
      PROVE  AccountsInv'
  BY <1>2, AdminToolsKeep
<1>3. ASSUME NEW k \in Clients,
             handleConnectCreateAdmin(k) \/ \E e \in Emails : handleConnect(k, e)
      PROVE  AccountsInv'
  BY <1>3, SetUpSteps
<1>4. ASSUME NEW k \in Clients, LoginCheck(k) \/ LoginRead(k) \/ LoginCompare(k) \/ LoginEnable(k)
      PROVE  AccountsInv'
  BY <1>4, LoginCheckKeeps, LoginReadKeeps, LoginCompareKeeps, LoginEnableKeeps
<1>5. CASE AccountsTick
  BY <1>5, AccountsTickKeeps
<1> QED
  BY <1>1, <1>2, <1>3, <1>4, <1>5 DEF AccountsNext

(* An administrator who can sign in remains and a locked account stays     *)
(* locked, for any number of accounts, concurrent logins and any limit     *)
(* (internal/auth, the connect handlers).                                  *)
THEOREM AccountsAlwaysSafe == AccountsSpec => [](AdminRemains /\ LockoutHolds)
<1>1. AccountsInv => AdminRemains /\ LockoutHolds
  BY DEF AccountsInv
<1> QED
  BY <1>1, AccountsStart, AccountsStep, PTL DEF AccountsSpec

-----------------------------------------------------------------------------
(* Backups.                                                                *)
Copies == {"none", "partial", "stale", "all", "backup"}
BackupsTypes ==
  /\ main \in {"all", "stale", "backup", "partial"} /\ wal \in BOOLEAN
  /\ dest \in {"none", "partial", "whole"}
  /\ safety \in [0..MaxBackupSeconds -> Copies]
  /\ command \in [Commands -> {"ready", "forced", "vacuum", "writing", "verify", "snapshot",
                               "vacuuming", "copying", "saved", "staging", "whole", "partial",
                               "ended"}]
  /\ bkSecond \in 0..MaxBackupSeconds
  /\ reported \in BOOLEAN /\ crossed \in BOOLEAN /\ twice \in BOOLEAN /\ leftBehind \in BOOLEAN

(* One restore at a time and, unless crossed, one command at a time.       *)
OneCommand ==
  /\ \A r \in BackupRuns : command[r] \in {"ready", "forced", "vacuum", "writing", "verify", "ended"}
  /\ \A r \in RestoreRuns : command[r] \notin {"forced", "vacuum", "writing", "verify"}
  /\ \A q, r \in RestoreRuns : Going(q) /\ Going(r) => q = r
  /\ ~crossed => \A q, r \in Commands : Going(q) /\ Going(r) => q = r

(* The WAL is gone, or known to be left, before the file is replaced.      *)
WALBeforeFile ==
  \A r \in RestoreRuns : command[r] \in {"staging", "whole", "partial"} /\ wal => leftBehind

(* A safety copy is overwritten only by a restore of its own second, and   *)
(* the data is saved before anything is removed.                           *)
SafetySaved == \E s \in 0..MaxBackupSeconds : safety[s] = "all"
SavedBeforeRemoved ==
  /\ \A s \in 0..MaxBackupSeconds : safety[s] # "none" => s \in restored
  /\ \A r \in RestoreRuns :
       command[r] \in {"snapshot", "vacuuming", "copying"} =>
         bkSecond \in restored /\ (twice \/ safety[bkSecond] \in {"none", "partial"})
  /\ \A r \in RestoreRuns :
       command[r] \in {"saved", "staging", "whole", "partial"} => SafetySaved \/ twice

(* Unless crossed, the backup being restored stays whole.                  *)
SourceWhole ==
  ~crossed => \A r \in RestoreRuns : Going(r) => dest = "whole" /\ command[r] # "partial"

BackupsInv ==
  BackupsTypes /\ OneCommand /\ WALBeforeFile /\ SavedBeforeRemoved /\ SourceWhole /\ RestoreSafe

(* The invariant of the backup commands holds when none has run.           *)
LEMMA BackupsStart == BackupsInit => BackupsInv
<1> SUFFICES ASSUME BackupsInit PROVE BackupsInv
  OBVIOUS
<1>1. BackupsTypes
  <2>1. reported \in BOOLEAN /\ wal \in BOOLEAN
    BY Zenon DEF BackupsInit
  <2>2. bkSecond \in 0..MaxBackupSeconds
    BY CommandsDiffer DEF BackupsInit
  <2>3. safety \in [0..MaxBackupSeconds -> Copies]
    BY DEF BackupsInit, Copies
  <2> QED
    BY Zenon, <2>1, <2>2, <2>3 DEF BackupsInit, BackupsTypes
<1>2. OneCommand /\ WALBeforeFile /\ SavedBeforeRemoved /\ SourceWhole
  BY DEF BackupsInit, OneCommand, WALBeforeFile, SavedBeforeRemoved, SourceWhole, Commands, Going
<1>3. RestoreSafe
  BY Zenon DEF BackupsInit, RestoreSafe, Data
<1> QED
  BY <1>1, <1>2, <1>3 DEF BackupsInv

(* The steps of a backup: they write the destination, and only while no    *)
(* restore is under way unless they are crossed.                           *)
LEMMA BackupKeeps ==
  ASSUME BackupsInv, NEW r \in BackupRuns,
         BackupForce(r) \/ BackupStat(r) \/ BackupVacuum(r) \/ BackupVerify(r)
  PROVE  BackupsInv'
<1> USE DEF Step
<1>0. /\ BackupsTypes /\ OneCommand /\ WALBeforeFile /\ SavedBeforeRemoved /\ SourceWhole
      /\ RestoreSafe
  BY Zenon DEF BackupsInv
<1>1. /\ r \in Commands /\ \A q \in RestoreRuns : q \in Commands /\ q # r
      /\ UNCHANGED <<main, wal, safety, bkSecond, restored, twice, leftBehind>>
  BY Zenon, CommandsDiffer DEF Commands, BackupForce, BackupStat, BackupVacuum, BackupVerify
<1>2. PICK to \in {"forced", "vacuum", "writing", "verify", "ended"} :
        command' = [command EXCEPT ![r] = to]
  BY DEF BackupForce, BackupStat, BackupVacuum, BackupVerify
<1>3. /\ dest' \in {"none", "partial", "whole"} /\ reported' \in BOOLEAN /\ crossed' \in BOOLEAN
      /\ crossed => crossed'
      /\ ~crossed' => \A q \in Commands \ {r} : ~Going(q)
      /\ ~crossed' => (reported' => dest' = "whole")
  <2>1. CASE BackupForce(r)
    BY Zenon, <1>0, <1>1, <2>1 DEF BackupForce, BackupsTypes
  <2>2. CASE BackupStat(r)
    BY Zenon, <1>0, <1>1, <2>2 DEF BackupStat, BackupsTypes, RestoreSafe
  <2>3. CASE BackupVacuum(r) \/ BackupVerify(r)
    <3>1. Going(r) /\ crossed' = crossed
      BY <2>3 DEF BackupVacuum, BackupVerify, Going
    <3>2. ~crossed => \A q \in Commands \ {r} : ~Going(q)
      BY <1>0, <1>1, <3>1 DEF OneCommand
    <3>3. crossed \in BOOLEAN /\ reported \in BOOLEAN /\ (~crossed => (reported => dest = "whole"))
      BY Zenon, <1>0 DEF BackupsTypes, RestoreSafe
    <3>4. \/ dest = "none" /\ dest' = "partial" /\ reported' = reported
          \/ dest' = "none" /\ reported' = FALSE
          \/ dest' = "whole" /\ reported' = reported
          \/ dest' = "whole" /\ reported' = TRUE
      BY <2>3 DEF BackupVacuum, BackupVerify
    <3>5. dest' \in {"none", "partial", "whole"} /\ reported' \in BOOLEAN
      BY Zenon, <3>3, <3>4
    <3>6. ~crossed' => (reported' => dest' = "whole")
      BY Zenon, <3>1, <3>3, <3>4
    <3> QED
      BY Zenon, <3>1, <3>2, <3>3, <3>5, <3>6
  <2> QED
    BY <2>1, <2>2, <2>3
<1>4. \A q \in RestoreRuns : command'[q] = command[q]
  BY <1>0, <1>1, <1>2 DEF BackupsTypes
<1>5. BackupsTypes'
  BY Zenon, <1>0, <1>1, <1>2, <1>3 DEF BackupsTypes, Commands
<1>6. OneCommand'
  BY Zenon, <1>0, <1>1, <1>2, <1>3, <1>4 DEF OneCommand, BackupsTypes, Going, Commands
<1>7. WALBeforeFile' /\ SavedBeforeRemoved'
  BY Zenon, <1>0, <1>1, <1>4 DEF WALBeforeFile, SavedBeforeRemoved, SafetySaved
<1>8. SourceWhole'
  BY <1>1, <1>3, <1>4 DEF SourceWhole, Going
<1>9. RestoreSafe'
  BY <1>0, <1>1, <1>3 DEF RestoreSafe, Data
<1> QED
  BY <1>5, <1>6, <1>7, <1>8, <1>9 DEF BackupsInv

(* The steps of a restore move its own command only.                       *)
LEMMA RestoreFrame ==
  ASSUME BackupsInv, NEW r \in RestoreRuns,
         NEW to \in {"snapshot", "vacuuming", "copying", "saved", "staging", "whole", "partial",
                     "ended"},
         command' = [command EXCEPT ![r] = to], Going(r), crossed' = crossed
  PROVE  /\ r \in Commands
         /\ command' \in [Commands -> {"ready", "forced", "vacuum", "writing", "verify", "snapshot",
                               "vacuuming", "copying", "saved", "staging", "whole", "partial",
                               "ended"}]
         /\ OneCommand'
         /\ \A q \in RestoreRuns \ {r} : command'[q] \in {"ready", "ended"}
<1>1. r \in Commands /\ r \notin BackupRuns /\ RestoreRuns \in SUBSET Commands
      /\ BackupRuns \in SUBSET Commands
  BY CommandsDiffer DEF Commands
<1>2. BackupsTypes /\ OneCommand
  BY DEF BackupsInv
<1>3. command' \in [Commands -> {"ready", "forced", "vacuum", "writing", "verify", "snapshot",
                               "vacuuming", "copying", "saved", "staging", "whole", "partial",
                               "ended"}]
      /\ \A q \in Commands \ {r} : command'[q] = command[q]
      /\ command'[r] = to
  BY <1>1, <1>2 DEF BackupsTypes
<1>4. \A q \in Commands \ {r} : Going(q)' = Going(q)
  BY Zenon, <1>3 DEF Going
<1>5. OneCommand'
  BY <1>1, <1>2, <1>3, <1>4 DEF OneCommand
<1>6. \A q \in RestoreRuns \ {r} : command'[q] \in {"ready", "ended"}
  BY <1>1, <1>2, <1>3 DEF OneCommand, Going
<1> QED
  BY <1>1, <1>3, <1>5, <1>6

(* Starting a restore keeps the invariant.                                 *)
LEMMA RestoreBeginKeeps ==
  ASSUME BackupsInv, NEW r \in RestoreRuns, RestoreBegin(r)
  PROVE  BackupsInv'
<1>0. /\ BackupsTypes /\ OneCommand /\ WALBeforeFile /\ SavedBeforeRemoved /\ SourceWhole
      /\ RestoreSafe
  BY DEF BackupsInv
<1>1. /\ r \in Commands /\ \A q \in BackupRuns : q \in Commands /\ q # r
      /\ RestoreRuns \in SUBSET Commands
      /\ UNCHANGED <<main, wal, dest, safety, bkSecond, reported, leftBehind>>
  BY CommandsDiffer DEF Commands, RestoreBegin
<1>2. PICK to \in {"snapshot", "ended"} :
        command' = [command EXCEPT ![r] = to] /\ (to = "snapshot" => dest = "whole")
  BY DEF RestoreBegin
<1>3. /\ restored' = restored \cup {bkSecond} /\ twice' \in BOOLEAN /\ crossed' \in BOOLEAN
      /\ (twice => twice') /\ (~twice' => bkSecond \notin restored)
      /\ (crossed => crossed') /\ (~crossed' => \A q \in BackupRuns : ~Going(q))
      /\ \A q \in RestoreRuns : ~Going(q)
  BY Zenon, <1>0 DEF RestoreBegin, BackupsTypes
<1>4. /\ \A q \in Commands \ {r} : command'[q] = command[q]
      /\ command'[r] = to
      /\ \A q \in RestoreRuns \ {r} : command'[q] \in {"ready", "ended"}
  BY Zenon, <1>0, <1>1, <1>2, <1>3 DEF BackupsTypes, Going
<1>5. BackupsTypes'
  BY Zenon, <1>0, <1>1, <1>2, <1>3 DEF BackupsTypes, Commands
<1>6. OneCommand'
  BY <1>0, <1>1, <1>3, <1>4 DEF OneCommand, Going, Commands
<1>7. WALBeforeFile'
  BY Zenon, <1>4 DEF WALBeforeFile
<1>8. SavedBeforeRemoved'
  <2>1. twice' \/ safety'[bkSecond] = "none"
    BY <1>0, <1>1, <1>3 DEF SavedBeforeRemoved, BackupsTypes
  <2> QED
    BY Zenon, <1>0, <1>1, <1>3, <1>4, <2>1 DEF SavedBeforeRemoved
<1>9. SourceWhole'
  BY <1>1, <1>2, <1>4 DEF SourceWhole, Going
<1>10. RestoreSafe'
  BY <1>0, <1>1, <1>3 DEF RestoreSafe, Data
<1> QED
  BY <1>5, <1>6, <1>7, <1>8, <1>9, <1>10 DEF BackupsInv

(* The safety copy, and reading the backup set into a staging file, keep   *)
(* the invariant.                                                          *)
LEMMA SafetyKeeps ==
  ASSUME BackupsInv, NEW r \in RestoreRuns, createSafetyBackup(r) \/ copyDatabaseSet(r)
  PROVE  BackupsInv'
<1> USE DEF Step
<1>0. /\ BackupsTypes /\ OneCommand /\ WALBeforeFile /\ SavedBeforeRemoved /\ SourceWhole
      /\ RestoreSafe
  BY Zenon DEF BackupsInv
<1>1. /\ Going(r) /\ command[r] \in {"snapshot", "vacuuming", "copying"}
      /\ UNCHANGED <<main, wal, dest, bkSecond, reported, crossed, restored, twice, leftBehind>>
  BY Zenon DEF createSafetyBackup, copyDatabaseSet, Going
<1>2. PICK to \in {"vacuuming", "copying", "saved", "ended"} :
        /\ command' = [command EXCEPT ![r] = to]
        /\ safety' = safety \/ SetSafety("partial") \/ SetSafety(Data)
        /\ to = "saved" => SetSafety(Data)
        /\ to \in {"vacuuming", "copying"} => safety' = safety \/ SetSafety("partial")
  BY DEF createSafetyBackup, copyDatabaseSet
<1>3. /\ r \in Commands /\ OneCommand'
      /\ command' \in [Commands -> {"ready", "forced", "vacuum", "writing", "verify", "snapshot",
                               "vacuuming", "copying", "saved", "staging", "whole", "partial",
                               "ended"}]
      /\ \A q \in RestoreRuns \ {r} : command'[q] \in {"ready", "ended"}
      /\ command'[r] = to
  BY Zenon, <1>0, <1>1, <1>2, RestoreFrame DEF BackupsTypes
<1>4. Data \in {"all", "stale", "backup", "partial"}
  BY <1>0 DEF BackupsTypes, Data
<1>5. /\ safety' \in [0..MaxBackupSeconds -> Copies]
      /\ \A s \in 0..MaxBackupSeconds : s # bkSecond => safety'[s] = safety[s]
      /\ to = "saved" => safety'[bkSecond] = Data
      /\ to \in {"vacuuming", "copying"} => safety'[bkSecond] \in {safety[bkSecond], "partial"}
  BY Zenon, <1>0, <1>2, <1>4 DEF BackupsTypes, Copies, SetSafety
<1>6. BackupsTypes'
  BY <1>0, <1>1, <1>3, <1>5 DEF BackupsTypes
<1>7. WALBeforeFile' /\ SourceWhole'
  BY <1>0, <1>1, <1>3 DEF WALBeforeFile, SourceWhole, Going
<1>8. bkSecond \in restored /\ bkSecond \in 0..MaxBackupSeconds
      /\ (twice \/ safety[bkSecond] \in {"none", "partial"})
  BY <1>0, <1>1 DEF SavedBeforeRemoved, BackupsTypes
<1>9. Data = "all" \/ SafetySaved' \/ twice
  <2>1. CASE twice \/ Data = "all"
    BY <2>1
  <2>2. CASE ~twice /\ Data # "all"
    <3>1. PICK s \in 0..MaxBackupSeconds : safety[s] = "all"
      BY <1>0, <2>2 DEF RestoreSafe
    <3>2. s # bkSecond
      BY <1>8, <2>2, <3>1
    <3> QED
      BY <1>5, <3>1, <3>2 DEF SafetySaved
  <2> QED
    BY <2>1, <2>2
<1>10. to = "saved" => SafetySaved' \/ twice
  BY Zenon, <1>5, <1>8, <1>9 DEF SafetySaved
<1>11. SavedBeforeRemoved'
  <2>1. \A s \in 0..MaxBackupSeconds : safety'[s] # "none" => s \in restored
    BY <1>0, <1>5, <1>8 DEF SavedBeforeRemoved
  <2>2. to \in {"vacuuming", "copying"} => twice \/ safety'[bkSecond] \in {"none", "partial"}
    BY <1>5, <1>8
  <2> QED
    BY <1>1, <1>3, <1>8, <1>10, <2>1, <2>2 DEF SavedBeforeRemoved
<1>12. RestoreSafe'
  BY <1>0, <1>1, <1>9 DEF RestoreSafe, Data, SafetySaved
<1> QED
  BY <1>3, <1>6, <1>7, <1>11, <1>12 DEF BackupsInv

(* Removing the sidecars and renaming the restored file over the database  *)
(* keep it.                                                                *)
LEMMA ReplaceKeeps ==
  ASSUME BackupsInv, NEW r \in RestoreRuns, RemoveSidecars(r) \/ copyFileAtomic(r)
  PROVE  BackupsInv'
<1> USE DEF Step
<1>0. /\ BackupsTypes /\ OneCommand /\ WALBeforeFile /\ SavedBeforeRemoved /\ SourceWhole
      /\ RestoreSafe
  BY DEF BackupsInv
<1>1. /\ Going(r) /\ command[r] \in {"saved", "staging", "whole", "partial"}
      /\ UNCHANGED <<dest, safety, bkSecond, reported, crossed, restored, twice>>
  BY Zenon DEF RemoveSidecars, copyFileAtomic, Going
<1>2. PICK to \in {"staging", "whole", "partial", "ended"} : command' = [command EXCEPT ![r] = to]
  BY Zenon, <1>0 DEF RemoveSidecars, copyFileAtomic, BackupsTypes
<1>3. /\ r \in Commands /\ OneCommand'
      /\ command' \in [Commands -> {"ready", "forced", "vacuum", "writing", "verify", "snapshot",
                               "vacuuming", "copying", "saved", "staging", "whole", "partial",
                               "ended"}]
      /\ \A q \in RestoreRuns \ {r} : command'[q] \in {"ready", "ended"}
      /\ command'[r] = to
  BY Zenon, <1>0, <1>1, <1>2, RestoreFrame DEF BackupsTypes
<1>4. SafetySaved \/ twice
  BY Zenon, <1>0, <1>1 DEF SavedBeforeRemoved
<1>5. SavedBeforeRemoved'
  BY <1>0, <1>1, <1>3, <1>4 DEF SavedBeforeRemoved, SafetySaved
<1>6. ~crossed => dest = "whole" /\ command[r] # "partial"
  BY <1>0, <1>1 DEF SourceWhole
<1>7. CASE RemoveSidecars(r)
  <2>1. /\ main' = main /\ wal' \in BOOLEAN /\ leftBehind' \in BOOLEAN
        /\ (wal' => leftBehind') /\ (leftBehind => leftBehind') /\ (wal' => wal)
    <3>1. wal \in BOOLEAN /\ leftBehind \in BOOLEAN
      BY <1>0 DEF BackupsTypes
    <3>2. main' = main /\ wal' \in {FALSE, wal} /\ leftBehind' = (leftBehind \/ wal')
      BY Zenon, <1>7 DEF RemoveSidecars
    <3>3. wal' \in BOOLEAN /\ (wal' => wal)
      <4>1. CASE wal' = FALSE
        BY Zenon, <4>1
      <4>2. CASE wal' = wal
        BY Zenon, <3>1, <4>2
      <4> QED
        BY Zenon, <3>2, <4>1, <4>2
    <3> QED
      BY <3>1, <3>2, <3>3
  <2>2. BackupsTypes'
    BY <1>0, <1>1, <1>3, <2>1 DEF BackupsTypes
  <2>3. WALBeforeFile'
    BY <2>1 DEF WALBeforeFile
  <2>4. command'[r] = "staging"
    BY <1>0, <1>3, <1>7 DEF RemoveSidecars, BackupsTypes
  <2>5. SourceWhole'
    BY <1>0, <1>1, <1>3, <1>6, <2>4 DEF SourceWhole, Going
  <2>6. RestoreSafe'
    BY Zenon, <1>0, <1>1, <1>4, <2>1 DEF RestoreSafe, SafetySaved
  <2> QED
    BY <1>3, <1>5, <2>2, <2>3, <2>5, <2>6 DEF BackupsInv
<1>8. CASE copyFileAtomic(r)
  <2>1. /\ UNCHANGED <<wal, leftBehind>>
        /\ command[r] \in {"staging", "whole", "partial"}
        /\ \/ main' = main
           \/ command[r] = "whole" /\ main' = "backup"
           \/ command[r] = "partial" /\ main' = "partial"
        /\ to \in {dest, "ended"}
    BY Zenon, <1>0, <1>1, <1>2, <1>3, <1>8 DEF copyFileAtomic
  <2>2. BackupsTypes'
    BY <1>0, <1>1, <1>3, <2>1 DEF BackupsTypes
  <2>3. wal => leftBehind
    BY <1>0, <2>1 DEF WALBeforeFile
  <2>4. WALBeforeFile'
    BY <2>1, <2>3 DEF WALBeforeFile
  <2>5. SourceWhole'
    BY <1>0, <1>1, <1>3, <1>6, <2>1 DEF SourceWhole, Going
  <2>6. RestoreSafe'
    BY <1>0, <1>1, <1>4, <1>6, <2>1, <2>3 DEF RestoreSafe, SafetySaved
  <2> QED
    BY <1>3, <1>5, <2>2, <2>4, <2>5, <2>6 DEF BackupsInv
<1> QED
  BY <1>7, <1>8

(* A command killed at any step, and the clock, keep the invariant.        *)
LEMMA DiesKeeps ==
  ASSUME BackupsInv, (\E r \in Commands : Dies(r)) \/ NextSecond \/ UNCHANGED backupVars
  PROVE  BackupsInv'
<1>0. /\ BackupsTypes /\ OneCommand /\ WALBeforeFile /\ SavedBeforeRemoved /\ SourceWhole
      /\ RestoreSafe
  BY DEF BackupsInv
<1>1. ASSUME NEW r \in Commands, Dies(r) PROVE BackupsInv'
  <2>1. /\ command' = [command EXCEPT ![r] = "ended"]
        /\ UNCHANGED <<main, wal, dest, safety, bkSecond, reported, crossed, restored, twice,
                       leftBehind>>
    BY <1>1 DEF Dies
  <2>2. \A q \in Commands : command'[q] = command[q] \/ command'[q] = "ended"
    BY <1>0, <2>1 DEF BackupsTypes
  <2>3. BackupsTypes'
    BY <1>0, <2>1 DEF BackupsTypes
  <2>4. RestoreRuns \in SUBSET Commands /\ BackupRuns \in SUBSET Commands
    BY DEF Commands
  <2>5. OneCommand'
    BY <1>0, <2>1, <2>2, <2>4 DEF OneCommand, Going
  <2>6. WALBeforeFile' /\ SourceWhole'
    BY <1>0, <2>1, <2>2, <2>4 DEF WALBeforeFile, SourceWhole, Going
  <2>7. SavedBeforeRemoved'
    BY <1>0, <2>1, <2>2, <2>4 DEF SavedBeforeRemoved, SafetySaved
  <2>8. RestoreSafe'
    BY <1>0, <2>1 DEF RestoreSafe, Data
  <2> QED
    BY <2>3, <2>5, <2>6, <2>7, <2>8 DEF BackupsInv
<1>2. CASE NextSecond
  <2>1. BackupsTypes'
    BY <1>0, <1>2, CommandsDiffer DEF NextSecond, BackupsTypes
  <2>2. OneCommand' /\ WALBeforeFile' /\ SourceWhole' /\ RestoreSafe'
    BY <1>0, <1>2
    DEF NextSecond, OneCommand, WALBeforeFile, SourceWhole, RestoreSafe, Going, Data
  <2>3. SavedBeforeRemoved'
    BY Zenon, <1>0, <1>2 DEF NextSecond, SavedBeforeRemoved, SafetySaved
  <2> QED
    BY Zenon, <2>1, <2>2, <2>3 DEF BackupsInv
<1>3. CASE UNCHANGED backupVars
  BY <1>0, <1>3 DEF backupVars, BackupsInv, BackupsTypes, OneCommand, WALBeforeFile,
     SavedBeforeRemoved, SafetySaved, SourceWhole, RestoreSafe, Going, Data
<1> QED
  BY <1>1, <1>2, <1>3

(* Every step of the backup and restore commands keeps their invariant.    *)
LEMMA BackupsStep == BackupsInv /\ [BackupsNext]_backupVars => BackupsInv'
<1> SUFFICES ASSUME BackupsInv, [BackupsNext]_backupVars PROVE BackupsInv'
  OBVIOUS
<1>1. ASSUME NEW r \in BackupRuns,
             BackupForce(r) \/ BackupStat(r) \/ BackupVacuum(r) \/ BackupVerify(r)
      PROVE  BackupsInv'
  BY <1>1, BackupKeeps
<1>2. ASSUME NEW r \in RestoreRuns,
             \/ RestoreBegin(r) \/ createSafetyBackup(r) \/ copyDatabaseSet(r)
             \/ RemoveSidecars(r) \/ copyFileAtomic(r)
      PROVE  BackupsInv'
  BY <1>2, RestoreBeginKeeps, SafetyKeeps, ReplaceKeeps
<1> QED
  BY <1>1, <1>2, DiesKeeps DEF BackupsNext

-----------------------------------------------------------------------------
(* The circuit breaker.                                                    *)
BreakerRows == [state : {"closed", "half_open", "open"}, failCount : Nat, successCount : Nat,
                since : Nat]
BreakerTypes ==
  /\ breaker \in BreakerRows /\ row \in Nat /\ DOMAIN calls = Callers
  /\ opened \in [from : {"closed", "half_open"}, row : Nat, inFlight : Nat, restarts : Nat]

(* A closed circuit has counted the failures in a row, too few to open it. *)
BreakerInv ==
  /\ BreakerTypes /\ CutOffWithCause
  /\ breaker.state = "closed" => breaker.failCount < Threshold

(* The calls in flight are finitely many and one fewer when a call         *)
(* returns.                                                                *)
LEMMA InFlightBounded ==
  ASSUME NEW S, S \in SUBSET Callers
  PROVE  /\ IsFiniteSet(S) /\ Cardinality(S) \in Nat
         /\ \A T \in SUBSET S : Cardinality(T) \in Nat /\ Cardinality(T) <= Cardinality(S)
         /\ \A c \in S : Cardinality(S \ {c}) = Cardinality(S) - 1
<1>1. IsFiniteSet(S)
  BY Zenon, FS_Subset, BreakerLimits
<1> QED
  BY <1>1, FS_Subset, FS_CardinalityType, FS_RemoveElement

(* The breaker's own operations.                                           *)
LEMMA AllowStep ==
  ASSUME NEW b \in BreakerRows
  PROVE  /\ Allow(b).b \in BreakerRows /\ Allow(b).b.since = b.since
         /\ Allow(b).err => b.state = "open" /\ Allow(b).b = b
         /\ Allow(b).b.state = "open" => Allow(b).err
         /\ Allow(b).b.state = "closed" => Allow(b).b = b
         /\ Allow(b).b.state = "half_open" => Allow(b).b = b \/ Allow(b).b.successCount = 0
<1> DEFINE probe == [b EXCEPT !.state = "half_open", !.successCount = 0]
<1>1. /\ probe \in BreakerRows /\ probe.since = b.since /\ probe.state = "half_open"
      /\ probe.successCount = 0
  BY Zenon DEF BreakerRows
<1> HIDE DEF probe
<1>2. CASE b.state # "open"
  BY Zenon, <1>2 DEF Allow
<1>3. CASE b.state = "open" /\ b.since >= ResetTimeout
  <2>1. Allow(b) = [err |-> FALSE, b |-> probe]
    BY <1>3 DEF Allow, probe
  <2> QED
    BY <1>1, <2>1
<1>4. CASE b.state = "open" /\ ~(b.since >= ResetTimeout)
  BY Zenon, <1>4 DEF Allow
<1> QED
  BY <1>2, <1>3, <1>4

(* What RecordSuccess does to the circuit, state by state.                 *)
LEMMA SuccessStep ==
  ASSUME NEW b \in BreakerRows, b.state = "half_open" => b.successCount < HalfOpenMax
  PROVE  LET s == RecordSuccess(b) IN
         /\ s \in BreakerRows
         /\ s.state = "closed" => s.failCount = 0
         /\ s.state = "half_open" => s.successCount < HalfOpenMax
         /\ s.state = "open" => b.state = "open"
<1>0. /\ b.successCount \in Nat /\ b.failCount \in Nat
      /\ b.state \in {"closed", "half_open", "open"}
  BY DEF BreakerRows
<1>1. CASE b.state = "half_open" /\ b.successCount + 1 >= HalfOpenMax
  <2> DEFINE shut == [b EXCEPT !.state = "closed", !.failCount = 0, !.successCount = 0]
  <2>1. shut \in BreakerRows /\ shut.state = "closed" /\ shut.failCount = 0
    BY Zenon DEF BreakerRows
  <2>2. ~(b.successCount + 1 < HalfOpenMax) /\ ~(b.state = "closed")
    BY <1>0, <1>1, BreakerLimits
  <2>3. RecordSuccess(b) = shut
    BY <1>1, <2>2, Zenon DEF RecordSuccess
  <2> HIDE DEF shut
  <2> QED
    BY <2>1, <2>3
<1>2. CASE b.state = "half_open" /\ b.successCount + 1 < HalfOpenMax
  <2>1. PICK n \in Nat : n = b.successCount + 1
    BY <1>0
  <2>2. ~(b.successCount + 1 >= HalfOpenMax)
    BY <1>0, <1>2, BreakerLimits
  <2>3. RecordSuccess(b) = [b EXCEPT !.successCount = n]
    BY <1>2, <2>1, <2>2 DEF RecordSuccess
  <2> QED
    BY <1>2, <2>1, <2>3 DEF BreakerRows
<1>3. CASE b.state = "closed"
  <2>1. RecordSuccess(b) = [b EXCEPT !.failCount = 0]
    BY <1>3 DEF RecordSuccess
  <2> QED
    BY <1>3, <2>1 DEF BreakerRows
<1>4. CASE b.state = "open"
  <2>1. RecordSuccess(b) = b
    BY <1>4 DEF RecordSuccess
  <2> QED
    BY <1>4, <2>1
<1>5. b.successCount + 1 >= HalfOpenMax \/ b.successCount + 1 < HalfOpenMax
  BY <1>0, BreakerLimits
<1> QED
  BY <1>0, <1>1, <1>2, <1>3, <1>4, <1>5

(* What RecordFailure does to the circuit, state by state.                 *)
LEMMA FailureStep ==
  ASSUME NEW b \in BreakerRows
  PROVE  LET f == RecordFailure(b) IN
         /\ f \in BreakerRows /\ f.state # "half_open"
         /\ f.state = "closed" => /\ b.state = "closed" /\ f.failCount = b.failCount + 1
                                  /\ f.failCount < Threshold
         /\ b.state = "closed" /\ f.state = "open" => b.failCount + 1 >= Threshold
<1>0. b.failCount \in Nat /\ b.state \in {"closed", "half_open", "open"}
  BY DEF BreakerRows
<1> DEFINE now == [b EXCEPT !.since = 0]
<1>1. now \in BreakerRows /\ now.state = b.state /\ now.failCount = b.failCount
  BY DEF BreakerRows
<1> HIDE DEF now
<1>2. CASE b.state = "closed"
  <2>1. PICK n \in Nat : n = b.failCount + 1
    BY <1>0
  <2>2. PICK to \in {"closed", "open"} : to = IF n >= Threshold THEN "open" ELSE "closed"
    OBVIOUS
  <2>3. RecordFailure(b) = [now EXCEPT !.failCount = n, !.state = to]
    BY <1>1, <1>2, <2>1, <2>2 DEF RecordFailure, now
  <2>4. /\ RecordFailure(b) \in BreakerRows /\ RecordFailure(b).state = to
        /\ RecordFailure(b).failCount = n
    BY Zenon, <1>1, <2>3 DEF BreakerRows
  <2> QED
    BY <1>2, <2>1, <2>2, <2>4, BreakerLimits
<1>3. CASE b.state = "half_open"
  <2> DEFINE cut == [now EXCEPT !.state = "open", !.successCount = 0]
  <2>1. cut \in BreakerRows /\ cut.state = "open"
    BY Zenon, <1>1 DEF BreakerRows
  <2>2. RecordFailure(b) = cut
    BY <1>3 DEF RecordFailure, now
  <2> HIDE DEF cut
  <2> QED
    BY <1>3, <2>1, <2>2
<1>4. CASE b.state = "open"
  <2>1. RecordFailure(b) = now
    BY <1>4 DEF RecordFailure, now
  <2> QED
    BY <1>1, <1>4, <2>1
<1> QED
  BY <1>0, <1>2, <1>3, <1>4

(* The invariant of the circuit breaker holds of a new one.                *)
LEMMA BreakerStart == BreakerInit => BreakerInv
<1> SUFFICES ASSUME BreakerInit PROVE BreakerInv
  OBVIOUS
<1>1. BreakerTypes /\ breaker.state = "closed" /\ breaker.failCount = 0 /\ row = 0
  BY BreakerLimits DEF BreakerInit, NewCircuitBreaker, BreakerTypes, BreakerRows
<1> QED
  BY <1>1, BreakerLimits DEF BreakerInv, CutOffWithCause

(* What a call reports leaves it out of the calls in flight.               *)
LEMMA Reported ==
  ASSUME BreakerTypes, NEW c \in InFlight, calls' = [calls EXCEPT ![c] = Resting]
  PROVE  /\ c \in Callers /\ DOMAIN calls' = Callers /\ InFlight' = InFlight \ {c}
         /\ Cardinality(InFlight') = Cardinality(InFlight) - 1
         /\ Cardinality(InFlight) \in Nat /\ Cardinality(InFlight') \in Nat
<1>1. c \in Callers /\ DOMAIN calls' = Callers /\ InFlight' = InFlight \ {c}
  BY DEF BreakerTypes, InFlight
<1>2. InFlight \in SUBSET Callers
  BY DEF InFlight
<1>3. /\ Cardinality(InFlight) \in Nat /\ Cardinality(InFlight \ {c}) = Cardinality(InFlight) - 1
      /\ InFlight \ {c} \in SUBSET InFlight
  BY <1>2, InFlightBounded
<1>4. Cardinality(InFlight \ {c}) \in Nat
  BY Zenon, <1>2, <1>3, InFlightBounded
<1> QED
  BY <1>1, <1>3, <1>4

(* A call that asks the breaker, allowed or refused, keeps the invariant.  *)
LEMMA BeginKeeps ==
  ASSUME BreakerInv, NEW c \in Callers, NEW op, NEW cached, CallBegin(c, op, cached)
  PROVE  BreakerInv'
<1> DEFINE a == Allow(breaker)
<1>0. /\ breaker \in BreakerRows /\ breaker.since \in Nat /\ DOMAIN calls = Callers
      /\ opened \in [from : {"closed", "half_open"}, row : Nat, inFlight : Nat, restarts : Nat]
      /\ row \in Nat
  BY Zenon DEF BreakerInv, BreakerTypes, BreakerRows
<1>1. /\ a.b \in BreakerRows /\ a.b.since = breaker.since
      /\ a.err => breaker.state = "open" /\ a.b = breaker
      /\ a.b.state = "open" => a.err
      /\ a.b.state = "closed" => a.b = breaker
      /\ a.b.state = "half_open" => a.b = breaker \/ a.b.successCount = 0
  BY <1>0, AllowStep
<1>2. /\ breaker' = a.b /\ row' = row
      /\ calls' = [calls EXCEPT ![c] = IF a.err THEN Resting ELSE [rest |-> op, cached |-> cached]]
      /\ opened' = [opened EXCEPT !.restarts = IF a.b.since < breaker.since
                                                 THEN opened.restarts + 1 ELSE opened.restarts]
      /\ calls[c] = Resting
  BY DEF CallBegin
<1> HIDE DEF a
<1>3. opened' = opened
  <2>1. ~(a.b.since < breaker.since)
    BY <1>0, <1>1
  <2> QED
    BY Zenon, <1>0, <1>2, <2>1
<1>4. DOMAIN calls' = Callers
  BY <1>0, <1>2
<1>5. BreakerTypes'
  BY <1>0, <1>1, <1>2, <1>3, <1>4 DEF BreakerTypes
<1>6. a.err => InFlight' = InFlight
  BY <1>0, <1>2 DEF InFlight
<1>7. CASE a.b.state = "open"
  BY Zenon, <1>1, <1>2, <1>3, <1>5, <1>6, <1>7 DEF BreakerInv, CutOffWithCause
<1>8. CASE a.b.state = "closed"
  BY <1>1, <1>2, <1>3, <1>5, <1>8 DEF BreakerInv, CutOffWithCause
<1>9. CASE a.b.state = "half_open"
  BY <1>1, <1>2, <1>3, <1>5, <1>9, BreakerLimits DEF BreakerInv, CutOffWithCause
<1> QED
  BY <1>1, <1>7, <1>8, <1>9 DEF BreakerRows

(* A call in flight that fails keeps it, however late it returns.          *)
LEMMA FailsKeeps ==
  ASSUME BreakerInv, NEW c \in InFlight, CallFails(c)
  PROVE  BreakerInv'
<1> DEFINE b == RecordFailure(breaker)
           after == Cardinality(InFlight \ {c})
<1>0. /\ breaker \in BreakerRows /\ breaker.failCount \in Nat /\ row \in Nat
      /\ breaker.state \in {"closed", "half_open", "open"}
      /\ opened \in [from : {"closed", "half_open"}, row : Nat, inFlight : Nat, restarts : Nat]
      /\ opened.restarts \in Nat /\ opened.inFlight \in Nat /\ opened.row \in Nat
  BY Zenon DEF BreakerInv, BreakerTypes, BreakerRows
<1>1. /\ b \in BreakerRows /\ b.state # "half_open"
      /\ b.state = "closed" => /\ breaker.state = "closed" /\ b.failCount = breaker.failCount + 1
                               /\ b.failCount < Threshold
      /\ breaker.state = "closed" /\ b.state = "open" => breaker.failCount + 1 >= Threshold
  BY <1>0, FailureStep
<1>2. /\ breaker' = b /\ calls' = [calls EXCEPT ![c] = Resting]
      /\ row' = IF row < Threshold THEN row + 1 ELSE row
      /\ opened' = IF breaker.state # "open" /\ b.state = "open"
                     THEN [from |-> breaker.state, row |-> row + 1, inFlight |-> after,
                           restarts |-> 0]
                   ELSE IF breaker.state = "open"
                     THEN [opened EXCEPT !.restarts = opened.restarts + 1]
                   ELSE opened
  BY DEF CallFails, Report
<1>3. /\ DOMAIN calls' = Callers /\ InFlight' = InFlight \ {c}
      /\ Cardinality(InFlight') = Cardinality(InFlight) - 1
      /\ Cardinality(InFlight) \in Nat /\ Cardinality(InFlight') \in Nat /\ c \in Callers
  BY Zenon, <1>2, Reported DEF BreakerInv
<1>4. after = Cardinality(InFlight') /\ after \in Nat
  BY <1>3
<1> HIDE DEF b, after
<1>5. b.state \in {"closed", "open"}
  BY <1>1 DEF BreakerRows
<1>6. row' \in Nat
  BY <1>0, <1>2
<1>7. CASE b.state = "closed"
  <2>1. opened' = opened /\ breaker.state = "closed"
    BY Zenon, <1>1, <1>2, <1>7
  <2>2. row = breaker.failCount /\ row < Threshold
    BY <1>1, <2>1 DEF BreakerInv, CutOffWithCause
  <2>3. row' = b.failCount /\ b.failCount < Threshold
    BY <1>1, <1>2, <1>7, <2>2
  <2>4. BreakerTypes'
    BY <1>0, <1>1, <1>2, <1>3, <1>6, <2>1 DEF BreakerTypes
  <2> QED
    BY <1>2, <1>7, <2>3, <2>4 DEF BreakerInv, CutOffWithCause
<1>8. CASE b.state = "open" /\ breaker.state # "open"
  <2>1. opened' = [from |-> breaker.state, row |-> row + 1, inFlight |-> after, restarts |-> 0]
    BY <1>2, <1>8
  <2>2. PICK n \in Nat : n = row + 1
    BY <1>0
  <2>3. /\ opened' \in [from : {"closed", "half_open"}, row : Nat, inFlight : Nat, restarts : Nat]
        /\ opened'.from = breaker.state /\ opened'.row = n /\ opened'.inFlight = after
        /\ opened'.restarts = 0
    BY <1>0, <1>4, <1>8, <2>1, <2>2
  <2>4. breaker.state = "closed" => n >= Threshold
    <3>1. breaker.state = "closed" => row = breaker.failCount
      BY DEF BreakerInv, CutOffWithCause
    <3> QED
      BY <1>1, <1>8, <2>2, <3>1
  <2>5. n >= 1
    BY <1>0, <2>2
  <2>6. opened'.restarts + Cardinality(InFlight') <= opened'.inFlight
    BY <1>3, <1>4, <2>3
  <2>7. opened'.row >= (IF opened'.from = "closed" THEN Threshold ELSE 1)
    BY <2>3, <2>4, <2>5
  <2>8. BreakerTypes'
    BY <1>1, <1>2, <1>3, <1>6, <2>3 DEF BreakerTypes
  <2> QED
    BY <1>2, <1>8, <2>6, <2>7, <2>8 DEF BreakerInv, CutOffWithCause
<1>9. CASE b.state = "open" /\ breaker.state = "open"
  <2>1. PICK n \in Nat : n = opened.restarts + 1
    BY <1>0
  <2>2. opened' = [opened EXCEPT !.restarts = n]
    BY <1>2, <1>9, <2>1
  <2>3. /\ opened' \in [from : {"closed", "half_open"}, row : Nat, inFlight : Nat, restarts : Nat]
        /\ opened'.from = opened.from /\ opened'.row = opened.row
        /\ opened'.inFlight = opened.inFlight /\ opened'.restarts = n
    BY <1>0, <2>2
  <2>4. /\ opened.row >= (IF opened.from = "closed" THEN Threshold ELSE 1)
        /\ opened.restarts + Cardinality(InFlight) <= opened.inFlight
    BY Zenon, <1>9 DEF BreakerInv, CutOffWithCause
  <2>5. opened'.restarts + Cardinality(InFlight') <= opened'.inFlight
    BY <1>0, <1>3, <2>1, <2>3, <2>4
  <2>6. BreakerTypes'
    BY Zenon, <1>1, <1>2, <1>3, <1>6, <2>3 DEF BreakerTypes
  <2> QED
    BY <1>2, <1>9, <2>3, <2>4, <2>5, <2>6 DEF BreakerInv, CutOffWithCause
<1> QED
  BY Zenon, <1>5, <1>7, <1>8, <1>9

(* A step that leaves the breaker alone, or only its clock, and takes no   *)
(* call in.                                                                *)
LEMMA QuietKeeps ==
  ASSUME BreakerInv, NEW b \in BreakerRows, breaker' = b, row' = row, opened' = opened,
         b.state = breaker.state, b.failCount = breaker.failCount,
         b.successCount = breaker.successCount,
         DOMAIN calls' = Callers, InFlight' \in SUBSET InFlight
  PROVE  BreakerInv'
<1>0. opened.restarts \in Nat /\ opened.inFlight \in Nat
  BY Zenon DEF BreakerInv, BreakerTypes
<1>1. BreakerTypes'
  BY Zenon DEF BreakerInv, BreakerTypes
<1>2. InFlight \in SUBSET Callers
  BY Zenon DEF InFlight
<1>3. /\ Cardinality(InFlight) \in Nat /\ Cardinality(InFlight') \in Nat
      /\ Cardinality(InFlight') <= Cardinality(InFlight)
  BY Zenon, <1>2, InFlightBounded
<1>4. opened.restarts + Cardinality(InFlight) <= opened.inFlight
        => opened.restarts + Cardinality(InFlight') <= opened.inFlight
  BY <1>0, <1>3
<1> QED
  BY Zenon, <1>1, <1>4 DEF BreakerInv, CutOffWithCause

(* A call in flight that succeeds keeps it, however late it returns.       *)
LEMMA SucceedsKeeps ==
  ASSUME BreakerInv, NEW c \in InFlight, CallSucceeds(c)
  PROVE  BreakerInv'
<1> DEFINE s == RecordSuccess(breaker)
<1>0. /\ breaker \in BreakerRows
      /\ opened \in [from : {"closed", "half_open"}, row : Nat, inFlight : Nat, restarts : Nat]
      /\ opened.restarts \in Nat /\ opened.inFlight \in Nat
      /\ breaker.state = "half_open" => breaker.successCount < HalfOpenMax
  BY Zenon DEF BreakerInv, BreakerTypes, CutOffWithCause
<1>1. /\ s \in BreakerRows
      /\ s.state = "closed" => s.failCount = 0
      /\ s.state = "half_open" => s.successCount < HalfOpenMax
      /\ s.state = "open" => breaker.state = "open"
  BY Zenon, <1>0, SuccessStep
<1>2. /\ breaker' = s /\ calls' = [calls EXCEPT ![c] = Resting] /\ row' = 0 /\ opened' = opened
  BY DEF CallSucceeds, Report
<1>3. /\ DOMAIN calls' = Callers /\ InFlight' = InFlight \ {c}
      /\ Cardinality(InFlight') = Cardinality(InFlight) - 1
      /\ Cardinality(InFlight) \in Nat /\ Cardinality(InFlight') \in Nat /\ c \in Callers
  BY Zenon, <1>2, Reported DEF BreakerInv
<1> HIDE DEF s
<1>4. BreakerTypes'
  BY <1>0, <1>1, <1>2, <1>3 DEF BreakerTypes
<1>5. s.state = "closed" => breaker'.failCount = row' /\ breaker'.failCount < Threshold
  BY <1>1, <1>2, BreakerLimits
<1>6. s.state = "open" =>
        /\ opened'.row >= (IF opened'.from = "closed" THEN Threshold ELSE 1)
        /\ opened'.restarts + Cardinality(InFlight') <= opened'.inFlight
  <2>1. s.state = "open" =>
          /\ opened.row >= (IF opened.from = "closed" THEN Threshold ELSE 1)
          /\ opened.restarts + Cardinality(InFlight) <= opened.inFlight
    BY Zenon, <1>1 DEF BreakerInv, CutOffWithCause
  <2>2. opened.restarts + Cardinality(InFlight) <= opened.inFlight
          => opened.restarts + Cardinality(InFlight') <= opened.inFlight
    BY <1>0, <1>3
  <2> QED
    BY Zenon, <1>2, <2>1, <2>2
<1> QED
  BY <1>1, <1>2, <1>4, <1>5, <1>6 DEF BreakerInv, CutOffWithCause

(* Every step of one caller keeps it.                                      *)
LEMMA RoundTripKeeps ==
  ASSUME BreakerInv, NEW c \in Callers, CallStep(c)
  PROVE  BreakerInv'
<1> DEFINE rest == calls[c].rest
           kind == Head(rest)
<1>0. /\ c \in InFlight /\ breaker \in BreakerRows /\ DOMAIN calls = Callers
  BY DEF CallStep, BreakerInv, BreakerTypes
<1>1. \/ CallFails(c) \/ CallSucceeds(c)
      \/ Report(c, breaker) /\ UNCHANGED <<schemaAge, row, opened>>
      \/ /\ calls' = [calls EXCEPT ![c].rest = Tail(rest)]
         /\ UNCHANGED <<breaker, schemaAge, row, opened>>
  BY DEF CallStep
<1>2. CASE CallFails(c)
  BY <1>0, <1>2, FailsKeeps
<1>3. CASE CallSucceeds(c)
  BY Zenon, <1>0, <1>3, SucceedsKeeps
<1>4. CASE Report(c, breaker) /\ UNCHANGED <<schemaAge, row, opened>>
  <2>1. DOMAIN calls' = Callers /\ InFlight' \in SUBSET InFlight
    BY <1>0, <1>4 DEF Report, InFlight
  <2>2. breaker' = breaker /\ row' = row /\ opened' = opened
    BY Zenon, <1>4 DEF Report
  <2> QED
    BY <1>0, <2>1, <2>2, QuietKeeps
<1>5. CASE /\ calls' = [calls EXCEPT ![c].rest = Tail(rest)]
           /\ UNCHANGED <<breaker, schemaAge, row, opened>>
  <2>1. DOMAIN calls' = Callers /\ \A d \in Callers : d # c => calls'[d] = calls[d]
    BY Zenon, <1>0, <1>5
  <2>2. InFlight' \in SUBSET InFlight
    BY <1>0, <2>1 DEF InFlight
  <2>3. breaker' = breaker /\ row' = row /\ opened' = opened
    BY <1>5
  <2> QED
    BY <1>0, <2>1, <2>2, <2>3, QuietKeeps
<1> QED
  BY <1>1, <1>2, <1>3, <1>4, <1>5

(* Every step of the circuit breaker keeps its invariant.                  *)
LEMMA BreakerStep == BreakerInv /\ [BreakerNext]_breakerVars => BreakerInv'
<1> SUFFICES ASSUME BreakerInv, [BreakerNext]_breakerVars PROVE BreakerInv'
  OBVIOUS
<1>0. breaker \in BreakerRows /\ DOMAIN calls = Callers /\ breaker.since \in Nat
  BY DEF BreakerInv, BreakerTypes, BreakerRows
<1>1. ASSUME NEW c \in Callers, NEW op \in Direct, CallBegin(c, op, FALSE) PROVE BreakerInv'
  BY Zenon, <1>1, BeginKeeps
<1>2. ASSUME NEW c \in Callers, NEW op \in Cached, CallBegin(c, op, TRUE) PROVE BreakerInv'
  BY Zenon, <1>2, BeginKeeps
<1>3. ASSUME NEW c \in Callers, CallStep(c) PROVE BreakerInv'
  BY Zenon, <1>3, RoundTripKeeps
<1>4. CASE BreakerTick
  <2>1. PICK n \in Nat : n = IF breaker.since < ResetTimeout THEN breaker.since + 1
                                                            ELSE breaker.since
    BY <1>0
  <2>2. breaker' = [breaker EXCEPT !.since = n]
    BY <1>4, <2>1 DEF BreakerTick
  <2> DEFINE b == [breaker EXCEPT !.since = n]
  <2>3. /\ b \in BreakerRows /\ b.state = breaker.state /\ b.failCount = breaker.failCount
        /\ b.successCount = breaker.successCount
    BY <1>0 DEF BreakerRows
  <2>4. calls' = calls /\ row' = row /\ opened' = opened
    BY <1>4 DEF BreakerTick
  <2>5. InFlight' \in SUBSET InFlight
    BY <2>4 DEF InFlight
  <2>6. DOMAIN calls' = Callers
    BY <1>0, <2>4
  <2>7. breaker' = b
    BY Zenon, <2>2
  <2> HIDE DEF b
  <2> QED
    BY <2>3, <2>4, <2>5, <2>6, <2>7, QuietKeeps
<1>5. CASE UNCHANGED breakerVars
  BY <1>5 DEF breakerVars, BreakerInv, BreakerTypes, CutOffWithCause, InFlight
<1> QED
  BY Zenon, <1>1, <1>2, <1>3, <1>4, <1>5 DEF BreakerNext
=============================================================================
