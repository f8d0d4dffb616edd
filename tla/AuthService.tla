----------------------------- MODULE AuthService -----------------------------
(***************************************************************************)
(* The account of one email address: registration, verification of the     *)
(* address, logins with the lock after too many wrong passwords, reset of  *)
(* the password, and what administrators set.  Every save of UserStorage   *)
(* writes some fields of the document, so a handler is several writes and  *)
(* a login decides with the copy of the user it read before it compared    *)
(* the password.                                                           *)
(***************************************************************************)
EXTENDS Naturals

CONSTANTS Logins,                      \* login requests that may overlap
          PasswordWrongNumberOfTrial,  \* wrong passwords before the lock
          MaxAdmin                     \* bound on the changes by administrators

VARIABLES account,      \* the stored document
          reg,          \* next write of the running registration
          login,        \* the copy each running login has read
          overtaken,    \* a login or a registration wrote over a change it had not seen
          interrupted,  \* a registration did not end
          admin         \* number of changes by administrators

vars == <<account, reg, login, overtaken, interrupted, admin>>

NoAccount == [exists |-> FALSE, role |-> "none", status |-> "none", password |-> FALSE,
              tries |-> 0, blocked |-> "no", verification |-> FALSE, reset |-> FALSE]
NoCopy == [status |-> "none", tries |-> 0, password |-> FALSE]
NoLogin == [st |-> "idle", user |-> NoCopy]
RegistrationSteps == <<"saveUser", "saveUserRole", "saveUserStatus", "saveUserPassword",
                       "saveUserAccountVerification">>

TypeOK ==
    /\ account \in [exists : BOOLEAN, role : {"none", "B", "A"},
                    status : {"none", "PENDING", "ACTIVE", "INACTIVE", "LOCKED"},
                    password : BOOLEAN, tries : 0..PasswordWrongNumberOfTrial,
                    blocked : {"no", "until", "past"}, verification : BOOLEAN, reset : BOOLEAN]
    /\ reg \in 0..5

Init ==
    /\ account = NoAccount
    /\ reg = 0
    /\ login = [l \in Logins |-> NoLogin]
    /\ overtaken = FALSE
    /\ interrupted = FALSE
    /\ admin = 0

-----------------------------------------------------------------------------
(* The writes of UserStorage.                                              *)
SaveUser(a) == [a EXCEPT !.exists = TRUE]
SaveUserRole(a, role) == [a EXCEPT !.role = role]
SaveUserStatus(a, status) == [a EXCEPT !.status = status]
SaveUserAccountVerification(a, set) == [a EXCEPT !.verification = set]
\* A lock without an end.
SaveTrialsOnly(a, tries, blocked) == [a EXCEPT !.tries = tries]

SavePasswordTrials(a, tries, blocked) == [a EXCEPT !.tries = tries, !.blocked = blocked]
SaveUserPassword(a) == [a EXCEPT !.password = TRUE, !.tries = 0, !.blocked = "no", !.reset = FALSE]

-----------------------------------------------------------------------------
\* handleRegisterUser: the address must be free, then one write after the
\* other; a restart of the server leaves what is written so far.
RegistrationWrite(step, a) ==
    CASE step = 1 -> SaveUser(a)
      [] step = 2 -> SaveUserRole(a, "B")
      [] step = 3 -> SaveUserStatus(a, "PENDING")
      [] step = 4 -> SaveUserPassword(a)
      [] step = 5 -> SaveUserAccountVerification(a, TRUE)

HandleRegisterUser ==
    /\ IF reg = 0 THEN ~account.exists ELSE TRUE
    /\ account' = RegistrationWrite(reg + 1, account)
    /\ reg' = (reg + 1) % 5
    /\ overtaken' = (overtaken \/ account.status = "LOCKED")
    /\ UNCHANGED <<login, interrupted, admin>>

RegistrationFails ==
    /\ reg # 0
    /\ reg' = 0
    /\ interrupted' = TRUE
    /\ UNCHANGED <<account, login, overtaken, admin>>

\* handleVerifyEmail with the right token: active or inactive, as the
\* settings of the tenant say.
HandleVerifyEmail ==
    /\ account.exists /\ account.status # "ACTIVE" /\ account.verification
    /\ \E status \in {"ACTIVE", "INACTIVE"} :
          account' = SaveUserAccountVerification(SaveUserStatus(account, status), FALSE)
    /\ UNCHANGED <<reg, login, overtaken, interrupted, admin>>

HandleResendVerificationEmail ==
    /\ account.exists /\ account.status # "ACTIVE" /\ ~account.verification
    /\ account' = SaveUserAccountVerification(account, TRUE)
    /\ UNCHANGED <<reg, login, overtaken, interrupted, admin>>

\* checkAndSendResetPasswordConfirmationEmail, then resetUserPassword with
\* the hash of the mail.
SendResetPasswordConfirmation ==
    /\ account.exists
    /\ account' = [account EXCEPT !.reset = TRUE]
    /\ UNCHANGED <<reg, login, overtaken, interrupted, admin>>

ResetUserPassword ==
    /\ account.reset
    /\ account' = IF account.status = "LOCKED" THEN SaveUserStatus(SaveUserPassword(account), "ACTIVE")
                  ELSE SaveUserPassword(account)
    /\ UNCHANGED <<reg, login, overtaken, interrupted, admin>>

\* handleLogIn: reads the user.  A locked one whose time has passed is made
\* active again; a locked one whose time has not passed is refused.
Expired(user) == user.tries >= PasswordWrongNumberOfTrial /\ user.status = "LOCKED"
                 /\ user.blocked = "past"

Refused(user) == user.tries >= PasswordWrongNumberOfTrial /\ user.status = "LOCKED"
                 /\ user.blocked # "past"

Unlocked(a) == SavePasswordTrials(SaveUserStatus(a, "ACTIVE"), 0, "no")

HandleLogIn(l) ==
    /\ account.exists
    /\ login[l].st = "idle"
    /\ ~Refused(account)
    /\ account' = IF Expired(account) THEN Unlocked(account) ELSE account
    /\ login' = [login EXCEPT ![l] =
          [st |-> "read",
           user |-> [status |-> account'.status, password |-> account.password,
                     tries |-> IF account'.tries >= PasswordWrongNumberOfTrial THEN 0
                               ELSE account'.tries]]]
    /\ UNCHANGED <<reg, overtaken, interrupted, admin>>

Stale(l) == \/ login[l].user.tries # account.tries /\ account.tries < PasswordWrongNumberOfTrial
            \/ login[l].user.status # account.status

\* checkUserLogin and userLoginWrongPassword, with the counter it read.
UserLoginWrongPassword(l) ==
    LET tries == login[l].user.tries + 1
    IN  /\ login[l].st = "read"
        /\ account' = IF tries >= PasswordWrongNumberOfTrial
                      THEN SavePasswordTrials(SaveUserStatus(account, "LOCKED"), tries, "until")
                      ELSE SavePasswordTrials(account, tries, account.blocked)
        /\ login' = [login EXCEPT ![l] = NoLogin]
        /\ overtaken' = (overtaken \/ Stale(l))
        /\ UNCHANGED <<reg, interrupted, admin>>

\* checkUserLogin with the right password: an active user gets his token,
\* any other status ends the login without a write.
UserLoginSucceeded(l) ==
    /\ login[l].st = "read" /\ login[l].user.password
    /\ account' = IF login[l].user.status \in {"ACTIVE", "none"}
                  THEN [SavePasswordTrials(account, 0, "no") EXCEPT !.reset = FALSE] ELSE account
    /\ login' = [login EXCEPT ![l] = NoLogin]
    /\ overtaken' = (overtaken \/ Stale(l))
    /\ UNCHANGED <<reg, interrupted, admin>>

BlockTimePasses ==
    /\ account.blocked = "until"
    /\ account' = [account EXCEPT !.blocked = "past"]
    /\ UNCHANGED <<reg, login, overtaken, interrupted, admin>>

\* updateUserAdminData.
UpdateUserAdminData ==
    /\ account.exists /\ admin < MaxAdmin
    /\ \E status \in {"ACTIVE", "INACTIVE"}, role \in {"A", "B"} :
          account' = SaveUserRole(SaveUserStatus(account, status), role)
    /\ admin' = admin + 1
    /\ UNCHANGED <<reg, login, overtaken, interrupted>>

Next ==
    \/ HandleRegisterUser \/ RegistrationFails
    \/ HandleVerifyEmail \/ HandleResendVerificationEmail
    \/ SendResetPasswordConfirmation \/ ResetUserPassword
    \/ \E l \in Logins : HandleLogIn(l) \/ UserLoginWrongPassword(l) \/ UserLoginSucceeded(l)
    \/ BlockTimePasses \/ UpdateUserAdminData

Spec == Init /\ [][Next]_vars

-----------------------------------------------------------------------------
\* A lock ends by itself: a locked account has its counter at the limit and
\* a time until which it is blocked, so that the first login after that time
\* opens it (handleLogIn).  Only a login that wrote with a stale copy of the
\* user, or a registration still running, can leave a lock no time ends.
LockEnds ==
    account.status = "LOCKED" /\ ~overtaken =>
        account.tries >= PasswordWrongNumberOfTrial /\ account.blocked \in {"until", "past"}

\* An account that may be used has a role, from which its groups follow;
\* only a registration that did not end leaves one without
\* (handleRegisterUser saves the role in a write of its own).
UsableHasRole ==
    account.status \in {"ACTIVE", "INACTIVE"} /\ ~interrupted /\ reg = 0 => account.role # "none"

AccountsAgree == TypeOK /\ LockEnds /\ UsableHasRole
=============================================================================
