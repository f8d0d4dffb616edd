--------------------------- MODULE MCAccess_proofs ---------------------------
(***************************************************************************)
(* Proofs about accounts, sessions and lists, for any number of logins,    *)
(* sites, changes, documents and any size of a page.                       *)
(*                                                                         *)
(* Accounts: a login writes with the copy of the user it has read, so the  *)
(* invariant says of every copy that it is not a locked one.  Sessions: a  *)
(* token keeps the groups that went with its hash, and what a decision     *)
(* lets through follows from the filters of the grants, one sequence of    *)
(* filters after the other.  Lists: what was read so far is the beginning  *)
(* of the documents found, up to the next page.                            *)
(***************************************************************************)
EXTENDS MCAccess, SequenceTheorems, WellFoundedInduction, TLAPS

-----------------------------------------------------------------------------
(* Accounts. *)

Accounts == [exists : BOOLEAN, role : {"none", "B", "A"},
             status : {"none", "PENDING", "ACTIVE", "INACTIVE", "LOCKED"},
             password : BOOLEAN, tries : 0 .. PasswordWrongNumberOfTrial,
             blocked : {"no", "until", "past"}, verification : BOOLEAN, reset : BOOLEAN]

CopiesType ==
    logins \in [Logins -> [st : {"idle", "read"},
                           user : [status : {"none", "PENDING", "ACTIVE", "INACTIVE", "LOCKED"},
                                   tries : 0 .. PasswordWrongNumberOfTrial,
                                   password : BOOLEAN]]]

\* What is not there has nothing, and nobody works on it.
NothingBefore ==
    ~ account.exists => /\ account.status = "none" /\ ~ account.reset /\ reg = 0
                        /\ \A l \in Logins : logins[l].st = "idle"

\* A registration that goes on has saved the role in its second write.
RoleAgrees ==
    /\ reg \in 0 .. 4
    /\ reg >= 2 => account.role # "none"
    /\ account.exists /\ reg = 0 /\ ~ interrupted => account.role # "none"

\* A login goes on with a copy that is not locked and has a trial left.
CopiesOpen ==
    \A l \in Logins : logins[l].st = "read" =>
        /\ logins[l].user.tries < PasswordWrongNumberOfTrial
        /\ ~ overtaken => logins[l].user.status # "LOCKED"

AccountInv == A!TypeOK /\ CopiesType /\ NothingBefore /\ RoleAgrees /\ CopiesOpen /\ A!LockEnds

LEMMA AccountStarts == A!Init => AccountInv
<1> SUFFICES ASSUME A!Init PROVE AccountInv
  OBVIOUS
<1>1. A!TypeOK
  BY TrialsAssumption DEF A!Init, A!TypeOK, A!NoAccount
<1>2. CopiesType /\ CopiesOpen
  BY TrialsAssumption DEF A!Init, CopiesType, CopiesOpen, A!NoLogin, A!NoCopy
<1>3. NothingBefore /\ RoleAgrees /\ A!LockEnds
  BY DEF A!Init, NothingBefore, RoleAgrees, A!LockEnds, A!NoAccount, A!NoLogin
<1> QED BY <1>1, <1>2, <1>3 DEF AccountInv

LEMMA SavesAreTyped ==
  ASSUME NEW a \in Accounts
  PROVE  /\ A!SaveUser(a) \in Accounts
         /\ \A role \in {"none", "B", "A"} : A!SaveUserRole(a, role) \in Accounts
         /\ \A status \in {"none", "PENDING", "ACTIVE", "INACTIVE", "LOCKED"} :
               A!SaveUserStatus(a, status) \in Accounts
         /\ \A set \in BOOLEAN : A!SaveUserAccountVerification(a, set) \in Accounts
         /\ \A tries \in 0 .. PasswordWrongNumberOfTrial, blocked \in {"no", "until", "past"} :
               A!SavePasswordTrials(a, tries, blocked) \in Accounts
         /\ A!SaveUserPassword(a) \in Accounts
         /\ \A b \in BOOLEAN : [a EXCEPT !.reset = b] \in Accounts
         /\ [a EXCEPT !.blocked = "past"] \in Accounts
<1>1. 0 \in 0 .. PasswordWrongNumberOfTrial
  BY TrialsAssumption
<1>2. \A tries \in 0 .. PasswordWrongNumberOfTrial, blocked \in {"no", "until", "past"} :
         A!SavePasswordTrials(a, tries, blocked) \in Accounts
  BY DEF Accounts, A!SavePasswordTrials
<1>3. A!SaveUserPassword(a) \in Accounts
  BY <1>1 DEF Accounts, A!SaveUserPassword
<1> QED
  BY <1>2, <1>3 DEF Accounts, A!SaveUser, A!SaveUserRole, A!SaveUserStatus,
                    A!SaveUserAccountVerification

LEMMA RegistrationWrites ==
  ASSUME NEW a
  PROVE  /\ A!RegistrationWrite(1, a) = A!SaveUser(a)
         /\ A!RegistrationWrite(2, a) = A!SaveUserRole(a, "B")
         /\ A!RegistrationWrite(3, a) = A!SaveUserStatus(a, "PENDING")
         /\ A!RegistrationWrite(4, a) = A!SaveUserPassword(a)
         /\ A!RegistrationWrite(5, a) = A!SaveUserAccountVerification(a, TRUE)
BY DEF A!RegistrationWrite

LEMMA AccountTyped == AccountInv /\ [A!Next]_aVars => A!TypeOK'
<1> SUFFICES ASSUME AccountInv, [A!Next]_aVars PROVE A!TypeOK'
  OBVIOUS
<1>0. account \in Accounts /\ reg \in 0 .. 4 /\ 0 \in 0 .. PasswordWrongNumberOfTrial
  BY TrialsAssumption DEF AccountInv, A!TypeOK, RoleAgrees, Accounts
<1> SUFFICES account' \in Accounts /\ reg' \in 0 .. 5
  BY DEF A!TypeOK, Accounts
<1>8. ASSUME NEW a \in Accounts, NEW status \in {"PENDING", "ACTIVE", "INACTIVE", "LOCKED"}
      PROVE  A!SaveUserStatus(a, status) \in Accounts
  BY SavesAreTyped
<1>9. ASSUME NEW a \in Accounts
      PROVE  /\ A!SaveUserAccountVerification(a, TRUE) \in Accounts
             /\ A!SaveUserAccountVerification(a, FALSE) \in Accounts
  BY DEF Accounts, A!SaveUserAccountVerification
<1>10. ASSUME NEW a \in Accounts, NEW role \in {"A", "B"}
       PROVE  A!SaveUserRole(a, role) \in Accounts
  BY SavesAreTyped
<1>1. CASE A!HandleRegisterUser
  <2>1. reg' \in 0 .. 5
    BY <1>0, <1>1 DEF A!HandleRegisterUser
  <2>2. A!RegistrationWrite(reg + 1, account) \in Accounts
    <3>1. /\ A!SaveUser(account) \in Accounts /\ A!SaveUserRole(account, "B") \in Accounts
          /\ A!SaveUserStatus(account, "PENDING") \in Accounts
          /\ A!SaveUserPassword(account) \in Accounts
          /\ A!SaveUserAccountVerification(account, TRUE) \in Accounts
      BY <1>0, SavesAreTyped
    <3>2. reg = 0 \/ reg = 1 \/ reg = 2 \/ reg = 3 \/ reg = 4
      BY <1>0
    <3>3. \/ reg + 1 = 1 \/ reg + 1 = 2 \/ reg + 1 = 3 \/ reg + 1 = 4 \/ reg + 1 = 5
      BY <3>2
    <3> QED BY <3>1, <3>3, RegistrationWrites
  <2> QED BY <1>1, <2>1, <2>2 DEF A!HandleRegisterUser
<1>2. CASE A!RegistrationFails
  BY <1>0, <1>2 DEF A!RegistrationFails
<1>3. CASE A!HandleVerifyEmail \/ A!HandleResendVerificationEmail
  <2>1. CASE A!HandleVerifyEmail
    <3>1. PICK status \in {"ACTIVE", "INACTIVE"} :
             account' = A!SaveUserAccountVerification(A!SaveUserStatus(account, status), FALSE)
      BY <2>1 DEF A!HandleVerifyEmail
    <3>2. A!SaveUserStatus(account, status) \in Accounts
      BY <1>0, <1>8
    <3>3. account' \in Accounts
      BY <1>9, <3>1, <3>2
    <3>4. reg' = reg
      BY <2>1, Zenon DEF A!HandleVerifyEmail
    <3> QED BY <1>0, <3>3, <3>4
  <2>2. CASE A!HandleResendVerificationEmail
    <3>1. account' = A!SaveUserAccountVerification(account, TRUE) /\ reg' = reg
      BY <2>2, Zenon DEF A!HandleResendVerificationEmail
    <3>2. A!SaveUserAccountVerification(account, TRUE) \in Accounts
      BY <1>0, <1>9
    <3>3. account' \in Accounts
      BY <3>1, <3>2, Zenon
    <3>4. reg' = reg
      BY <3>1, Zenon
    <3> QED BY <1>0, <3>3, <3>4
  <2> QED BY <1>3, <2>1, <2>2
<1>4. CASE A!SendResetPasswordConfirmation \/ A!ResetUserPassword
  <2>1. [account EXCEPT !.reset = TRUE] \in Accounts
    BY <1>0, SavesAreTyped
  <2>2. A!SaveUserPassword(account) \in Accounts
    BY <1>0, SavesAreTyped
  <2>3. A!SaveUserStatus(A!SaveUserPassword(account), "ACTIVE") \in Accounts
    BY <2>2, SavesAreTyped
  <2>4. CASE A!SendResetPasswordConfirmation
    BY <1>0, <2>1, <2>4 DEF A!SendResetPasswordConfirmation
  <2>5. CASE A!ResetUserPassword
    <3> DEFINE saved == A!SaveUserPassword(account)
               open == A!SaveUserStatus(saved, "ACTIVE")
    <3>1. (account' = saved \/ account' = open) /\ UNCHANGED reg
      BY <2>5 DEF A!ResetUserPassword
    <3>2. saved \in Accounts /\ open \in Accounts
      BY <2>2, <2>3
    <3> HIDE DEF saved, open
    <3> QED BY <1>0, <3>1, <3>2
  <2> QED BY <1>4, <2>4, <2>5
<1>5. ASSUME NEW l \in Logins,
             A!HandleLogIn(l) \/ A!UserLoginWrongPassword(l) \/ A!UserLoginSucceeded(l)
      PROVE  account' \in Accounts /\ reg' \in 0 .. 5
  <2>1. CASE A!HandleLogIn(l)
    <3>1. A!Unlocked(account) \in Accounts
      BY <1>0, SavesAreTyped DEF A!Unlocked
    <3> QED BY <1>0, <2>1, <3>1 DEF A!HandleLogIn
  <2>2. CASE A!UserLoginWrongPassword(l)
    <3> DEFINE tries == logins[l].user.tries + 1
    <3>1. tries \in 0 .. PasswordWrongNumberOfTrial
      BY <2>2, TrialsAssumption DEF A!UserLoginWrongPassword, AccountInv, CopiesOpen, CopiesType
    <3>2. UNCHANGED reg
      BY <2>2 DEF A!UserLoginWrongPassword
    <3>3. \/ account' = A!SavePasswordTrials(A!SaveUserStatus(account, "LOCKED"), tries, "until")
          \/ account' = A!SavePasswordTrials(account, tries, account.blocked)
      BY <2>2 DEF A!UserLoginWrongPassword
    <3> HIDE DEF tries
    <3>4. account.blocked \in {"no", "until", "past"} /\ A!SaveUserStatus(account, "LOCKED") \in Accounts
      BY <1>0, SavesAreTyped DEF Accounts
    <3>5. /\ A!SavePasswordTrials(A!SaveUserStatus(account, "LOCKED"), tries, "until") \in Accounts
          /\ A!SavePasswordTrials(account, tries, account.blocked) \in Accounts
      BY <1>0, <3>1, <3>4, SavesAreTyped
    <3> QED BY <1>0, <3>2, <3>3, <3>5
  <2>3. CASE A!UserLoginSucceeded(l)
    <3>1. A!SavePasswordTrials(account, 0, "no") \in Accounts
      BY <1>0, SavesAreTyped
    <3>2. [A!SavePasswordTrials(account, 0, "no") EXCEPT !.reset = FALSE] \in Accounts
      BY <3>1, SavesAreTyped
    <3> QED BY <1>0, <2>3, <3>2 DEF A!UserLoginSucceeded
  <2> QED BY <1>5, <2>1, <2>2, <2>3
<1>6. CASE A!BlockTimePasses \/ A!UpdateUserAdminData
  <2>1. CASE A!BlockTimePasses
    <3>1. [account EXCEPT !.blocked = "past"] \in Accounts
      BY <1>0, SavesAreTyped
    <3> QED BY <1>0, <2>1, <3>1 DEF A!BlockTimePasses
  <2>2. CASE A!UpdateUserAdminData
    <3>1. PICK status \in {"ACTIVE", "INACTIVE"}, role \in {"A", "B"} :
             account' = A!SaveUserRole(A!SaveUserStatus(account, status), role)
      BY <2>2 DEF A!UpdateUserAdminData
    <3>2. A!SaveUserStatus(account, status) \in Accounts
      BY <1>0, <1>8
    <3>3. account' \in Accounts
      BY <1>10, <3>1, <3>2
    <3> QED BY <1>0, <2>2, <3>3 DEF A!UpdateUserAdminData
  <2> QED BY <1>6, <2>1, <2>2
<1>7. CASE UNCHANGED aVars
  BY <1>0, <1>7 DEF aVars
<1> QED BY <1>1, <1>2, <1>3, <1>4, <1>5, <1>6, <1>7 DEF A!Next

LEMMA CopiesTyped == AccountInv /\ [A!Next]_aVars => CopiesType'
<1> SUFFICES ASSUME AccountInv, [A!Next]_aVars PROVE CopiesType'
  OBVIOUS
<1>1. A!TypeOK'
  BY AccountTyped
<1>2. CASE UNCHANGED logins
  BY <1>2 DEF AccountInv, CopiesType
<1>3. ASSUME NEW l \in Logins, A!HandleLogIn(l) PROVE CopiesType'
  <2> DEFINE tries == IF account'.tries >= PasswordWrongNumberOfTrial THEN 0 ELSE account'.tries
  <2>1. tries \in 0 .. PasswordWrongNumberOfTrial
    BY <1>1, TrialsAssumption DEF A!TypeOK
  <2>2. logins' = [logins EXCEPT ![l] =
           [st |-> "read", user |-> [status |-> account'.status, password |-> account.password,
                                     tries |-> tries]]]
    BY <1>3 DEF A!HandleLogIn
  <2> HIDE DEF tries
  <2> QED BY <1>1, <2>1, <2>2 DEF AccountInv, A!TypeOK, CopiesType
<1>4. ASSUME NEW l \in Logins, A!UserLoginWrongPassword(l) \/ A!UserLoginSucceeded(l)
      PROVE CopiesType'
  <2>1. logins' = [logins EXCEPT ![l] = A!NoLogin]
    BY <1>4 DEF A!UserLoginWrongPassword, A!UserLoginSucceeded
  <2> QED BY <2>1, TrialsAssumption DEF AccountInv, CopiesType, A!NoLogin, A!NoCopy
<1>5. ASSUME A!HandleRegisterUser \/ A!RegistrationFails \/ A!HandleVerifyEmail
             \/ A!HandleResendVerificationEmail \/ A!SendResetPasswordConfirmation
             \/ A!ResetUserPassword \/ A!BlockTimePasses \/ A!UpdateUserAdminData
      PROVE  UNCHANGED logins
  BY <1>5 DEF A!HandleRegisterUser, A!RegistrationFails, A!HandleVerifyEmail,
              A!HandleResendVerificationEmail, A!SendResetPasswordConfirmation,
              A!ResetUserPassword, A!BlockTimePasses, A!UpdateUserAdminData
<1> QED BY <1>2, <1>3, <1>4, <1>5 DEF A!Next, aVars

\* What a write of a registration does to the fields the invariant is about.
LEMMA Registering ==
  AccountInv /\ A!HandleRegisterUser =>
    /\ reg' = (reg + 1) % 5
    /\ account'.exists
    /\ account'.role = account.role \/ account'.role # "none"
    /\ reg = 1 => account'.role # "none"
    /\ account.status # "LOCKED" => account'.status # "LOCKED"
<1> SUFFICES ASSUME AccountInv, A!HandleRegisterUser
             PROVE  /\ account'.exists
                    /\ account'.role = account.role \/ account'.role # "none"
                    /\ reg = 1 => account'.role # "none"
                    /\ account.status # "LOCKED" => account'.status # "LOCKED"
  BY DEF A!HandleRegisterUser
<1>0. account \in Accounts /\ reg \in 0 .. 4
  BY DEF AccountInv, A!TypeOK, Accounts, RoleAgrees
<1>1. account' = A!RegistrationWrite(reg + 1, account)
  BY Zenon DEF A!HandleRegisterUser
<1>2. reg # 0 => account.exists
  BY DEF AccountInv, NothingBefore
<1>3. CASE reg = 0
  <2>1. reg + 1 = 1
    BY <1>3
  <2>2. account' = A!SaveUser(account)
    BY <1>1, <2>1, RegistrationWrites, Zenon
  <2> QED BY <1>0, <1>2, <1>3, <2>2 DEF Accounts, A!SaveUser
<1>4. CASE reg = 1
  <2>1. reg + 1 = 2
    BY <1>4
  <2>2. account' = A!SaveUserRole(account, "B")
    BY <1>1, <2>1, RegistrationWrites, Zenon
  <2> QED BY <1>0, <1>2, <1>4, <2>2 DEF Accounts, A!SaveUserRole
<1>5. CASE reg = 2
  <2>1. reg + 1 = 3
    BY <1>5
  <2>2. account' = A!SaveUserStatus(account, "PENDING")
    BY <1>1, <2>1, RegistrationWrites, Zenon
  <2> QED BY <1>0, <1>2, <1>5, <2>2 DEF Accounts, A!SaveUserStatus
<1>6. CASE reg = 3
  <2>1. reg + 1 = 4
    BY <1>6
  <2>2. account' = A!SaveUserPassword(account)
    BY <1>1, <2>1, RegistrationWrites, Zenon
  <2> QED BY <1>0, <1>2, <1>6, <2>2 DEF Accounts, A!SaveUserPassword
<1>7. CASE reg = 4
  <2>1. reg + 1 = 5
    BY <1>7
  <2>2. account' = A!SaveUserAccountVerification(account, TRUE)
    BY <1>1, <2>1, RegistrationWrites, Zenon
  <2> QED BY <1>0, <1>2, <1>7, <2>2 DEF Accounts, A!SaveUserAccountVerification
<1> QED BY <1>0, <1>3, <1>4, <1>5, <1>6, <1>7

LEMMA NothingPreserved == AccountInv /\ [A!Next]_aVars => NothingBefore'
<1> SUFFICES ASSUME AccountInv, [A!Next]_aVars PROVE NothingBefore'
  OBVIOUS
<1>0. NothingBefore /\ account \in Accounts /\ CopiesType
  BY DEF AccountInv, A!TypeOK, Accounts
<1>1. CASE A!HandleRegisterUser
  BY <1>1, Registering DEF NothingBefore
<1>2. CASE A!RegistrationFails
  BY <1>0, <1>2 DEF A!RegistrationFails, NothingBefore
<1>3. CASE A!HandleVerifyEmail \/ A!HandleResendVerificationEmail
           \/ A!SendResetPasswordConfirmation \/ A!UpdateUserAdminData
  BY <1>0, <1>3 DEF A!HandleVerifyEmail, A!HandleResendVerificationEmail, Accounts,
              A!SendResetPasswordConfirmation, A!UpdateUserAdminData, NothingBefore,
              A!SaveUserStatus, A!SaveUserRole, A!SaveUserAccountVerification
<1>4. CASE A!ResetUserPassword
  BY <1>0, <1>4 DEF A!ResetUserPassword, NothingBefore, Accounts, A!SaveUserStatus, A!SaveUserPassword
<1>5. ASSUME NEW l \in Logins, A!HandleLogIn(l) PROVE NothingBefore'
  BY <1>0, <1>5 DEF A!HandleLogIn, NothingBefore, Accounts, A!Unlocked, A!SavePasswordTrials,
              A!SaveUserStatus
<1>6. ASSUME NEW l \in Logins, A!UserLoginWrongPassword(l) \/ A!UserLoginSucceeded(l)
      PROVE  NothingBefore'
  <2>1. account.exists
    BY <1>0, <1>6 DEF A!UserLoginWrongPassword, A!UserLoginSucceeded, NothingBefore
  <2>2. account'.exists
    BY <1>0, <1>6, <2>1 DEF A!UserLoginWrongPassword, A!UserLoginSucceeded, Accounts,
                       A!SavePasswordTrials, A!SaveUserStatus
  <2> QED BY <2>2 DEF NothingBefore
<1>7. CASE A!BlockTimePasses
  BY <1>0, <1>7 DEF A!BlockTimePasses, NothingBefore, Accounts
<1>8. CASE UNCHANGED aVars
  BY <1>0, <1>8 DEF aVars, NothingBefore
<1> QED BY <1>1, <1>2, <1>3, <1>4, <1>5, <1>6, <1>7, <1>8 DEF A!Next

LEMMA RolePreserved == AccountInv /\ [A!Next]_aVars => RoleAgrees'
<1> SUFFICES ASSUME AccountInv, [A!Next]_aVars PROVE RoleAgrees'
  OBVIOUS
<1>0. RoleAgrees /\ account \in Accounts
  BY DEF AccountInv, A!TypeOK, Accounts
<1>1. CASE A!HandleRegisterUser
  <2>1. reg = 0 \/ reg = 1 \/ reg = 2 \/ reg = 3 \/ reg = 4
    BY <1>0 DEF RoleAgrees
  <2>2. /\ reg' = (reg + 1) % 5
        /\ account'.role = account.role \/ account'.role # "none"
        /\ reg = 1 => account'.role # "none"
    BY <1>1, Registering
  <2> QED BY <1>0, <2>1, <2>2 DEF RoleAgrees
<1>2. CASE A!RegistrationFails
  BY <1>0, <1>2 DEF A!RegistrationFails, RoleAgrees
<1>3. ASSUME UNCHANGED <<reg, interrupted>>, account.exists \/ ~ account'.exists,
             account'.role = account.role \/ account'.role # "none"
      PROVE  RoleAgrees'
  BY <1>0, <1>3 DEF RoleAgrees
<1>4. CASE A!HandleVerifyEmail \/ A!HandleResendVerificationEmail
           \/ A!SendResetPasswordConfirmation \/ A!UpdateUserAdminData
  <2>1. UNCHANGED <<reg, interrupted>> /\ account.exists
    BY <1>4 DEF A!HandleVerifyEmail, A!HandleResendVerificationEmail,
                A!SendResetPasswordConfirmation, A!UpdateUserAdminData
  <2>2. account'.role = account.role \/ account'.role # "none"
    BY <1>0, <1>4 DEF A!HandleVerifyEmail, A!HandleResendVerificationEmail, Accounts,
              A!SendResetPasswordConfirmation, A!UpdateUserAdminData,
              A!SaveUserStatus, A!SaveUserRole, A!SaveUserAccountVerification
  <2> QED BY <1>3, <2>1, <2>2
<1>5. CASE A!ResetUserPassword \/ A!BlockTimePasses
  <2>1. UNCHANGED <<reg, interrupted>>
    BY <1>5 DEF A!ResetUserPassword, A!BlockTimePasses
  <2>2. account'.role = account.role /\ account'.exists = account.exists
    BY <1>0, <1>5 DEF A!ResetUserPassword, A!BlockTimePasses, Accounts, A!SaveUserStatus,
              A!SaveUserPassword
  <2> QED BY <1>3, <2>1, <2>2
<1>6. ASSUME NEW l \in Logins,
             A!HandleLogIn(l) \/ A!UserLoginWrongPassword(l) \/ A!UserLoginSucceeded(l)
      PROVE  RoleAgrees'
  <2>1. UNCHANGED <<reg, interrupted>>
    BY <1>6 DEF A!HandleLogIn, A!UserLoginWrongPassword, A!UserLoginSucceeded
  <2>2. account'.role = account.role /\ account'.exists = account.exists
    BY <1>0, <1>6 DEF A!HandleLogIn, A!UserLoginWrongPassword, A!UserLoginSucceeded, Accounts,
              A!Unlocked, A!SavePasswordTrials, A!SaveUserStatus
  <2> QED BY <1>3, <2>1, <2>2
<1>7. CASE UNCHANGED aVars
  BY <1>0, <1>7 DEF aVars, RoleAgrees
<1> QED BY <1>1, <1>2, <1>4, <1>5, <1>6, <1>7 DEF A!Next

LEMMA LocksPreserved == AccountInv /\ [A!Next]_aVars => A!LockEnds'
<1> SUFFICES ASSUME AccountInv, [A!Next]_aVars, account'.status = "LOCKED", ~ overtaken'
             PROVE  /\ account'.tries >= PasswordWrongNumberOfTrial
                    /\ account'.blocked \in {"until", "past"}
  BY DEF A!LockEnds
<1>0. A!LockEnds /\ account \in Accounts /\ CopiesOpen /\ CopiesType
  BY DEF AccountInv, A!TypeOK, Accounts
<1>1. ASSUME ~ overtaken, account.status = "LOCKED", account'.tries = account.tries,
             account'.blocked = account.blocked \/ account'.blocked = "past"
      PROVE  /\ account'.tries >= PasswordWrongNumberOfTrial
             /\ account'.blocked \in {"until", "past"}
  BY <1>0, <1>1 DEF A!LockEnds
<1>2. CASE A!HandleRegisterUser
  <2>1. account.status # "LOCKED"
    BY <1>2 DEF A!HandleRegisterUser
  <2> QED BY <1>2, <2>1, Registering
<1>3. CASE A!RegistrationFails \/ A!HandleResendVerificationEmail
           \/ A!SendResetPasswordConfirmation \/ A!BlockTimePasses
  BY <1>0, <1>1, <1>3 DEF A!RegistrationFails, A!HandleResendVerificationEmail, Accounts,
     A!SendResetPasswordConfirmation, A!BlockTimePasses, A!SaveUserAccountVerification
<1>4. CASE A!HandleVerifyEmail \/ A!UpdateUserAdminData \/ A!ResetUserPassword
  <2>1. account'.status # "LOCKED"
    BY <1>0, <1>4 DEF A!HandleVerifyEmail, A!UpdateUserAdminData, A!ResetUserPassword, Accounts,
       A!SaveUserStatus, A!SaveUserRole, A!SaveUserAccountVerification, A!SaveUserPassword
  <2> QED BY <2>1
<1>5. ASSUME NEW l \in Logins, A!HandleLogIn(l)
      PROVE  account'.tries = account.tries /\ account'.blocked = account.blocked
             /\ account.status = "LOCKED" /\ ~ overtaken
  BY <1>0, <1>5 DEF A!HandleLogIn, Accounts, A!Unlocked, A!SavePasswordTrials, A!SaveUserStatus
<1>6. ASSUME NEW l \in Logins, A!UserLoginWrongPassword(l) \/ A!UserLoginSucceeded(l)
      PROVE  /\ account'.tries >= PasswordWrongNumberOfTrial
             /\ account'.blocked \in {"until", "past"}
  <2>1. ~ overtaken /\ ~ A!Stale(l) /\ logins[l].st = "read"
    BY <1>6 DEF A!UserLoginWrongPassword, A!UserLoginSucceeded
  <2>2. account.status # "LOCKED"
    BY <1>0, <2>1 DEF A!Stale, CopiesOpen
  <2> DEFINE tries == logins[l].user.tries + 1
  <2>3. /\ tries >= PasswordWrongNumberOfTrial
        /\ account' = A!SavePasswordTrials(A!SaveUserStatus(account, "LOCKED"), tries, "until")
    BY <1>0, <1>6, <2>2 DEF A!UserLoginWrongPassword, A!UserLoginSucceeded, Accounts,
       A!SavePasswordTrials
  <2> HIDE DEF tries
  <2> QED BY <1>0, <2>3 DEF A!SavePasswordTrials, A!SaveUserStatus, Accounts
<1>7. CASE UNCHANGED aVars
  BY <1>1, <1>7 DEF aVars
<1> QED BY <1>1, <1>2, <1>3, <1>4, <1>5, <1>6, <1>7 DEF A!Next

LEMMA CopiesPreserved == AccountInv /\ [A!Next]_aVars => CopiesOpen'
<1> SUFFICES ASSUME AccountInv, [A!Next]_aVars, NEW k \in Logins, logins'[k].st = "read"
             PROVE  /\ logins'[k].user.tries < PasswordWrongNumberOfTrial
                    /\ ~ overtaken' => logins'[k].user.status # "LOCKED"
  BY DEF CopiesOpen
<1>0. A!LockEnds /\ account \in Accounts /\ CopiesOpen /\ CopiesType
  BY DEF AccountInv, A!TypeOK, Accounts
<1>1. ASSUME logins'[k] = logins[k], overtaken => overtaken'
      PROVE  /\ logins'[k].user.tries < PasswordWrongNumberOfTrial
             /\ ~ overtaken' => logins'[k].user.status # "LOCKED"
  BY <1>0, <1>1 DEF CopiesOpen
<1>2. ASSUME NEW l \in Logins, A!HandleLogIn(l)
      PROVE  /\ logins'[k].user.tries < PasswordWrongNumberOfTrial
             /\ ~ overtaken' => logins'[k].user.status # "LOCKED"
  <2>1. CASE k # l
    BY <1>0, <1>1, <1>2, <2>1 DEF A!HandleLogIn, CopiesType
  <2>2. CASE k = l
    <3> DEFINE tries == IF account'.tries >= PasswordWrongNumberOfTrial THEN 0
                        ELSE account'.tries
    <3>1. account'.tries \in 0 .. PasswordWrongNumberOfTrial
      BY AccountTyped DEF A!TypeOK
    <3>2. tries < PasswordWrongNumberOfTrial
      BY <3>1, TrialsAssumption
    <3>3. logins'[k].user.tries = tries /\ logins'[k].user.status = account'.status
      BY <1>0, <1>2, <2>2 DEF A!HandleLogIn, CopiesType
    <3>4. ~ overtaken' => account'.status # "LOCKED"
      <4>1. SUFFICES ASSUME ~ overtaken', account'.status = "LOCKED" PROVE FALSE
        OBVIOUS
      <4>2. ~ overtaken /\ ~ A!Refused(account) /\ ~ A!Expired(account) /\ account' = account
        BY <1>0, <1>2, <4>1 DEF A!HandleLogIn, Accounts, A!Unlocked, A!SavePasswordTrials,
           A!SaveUserStatus
      <4> QED BY <1>0, <4>1, <4>2 DEF A!Refused, A!Expired, A!LockEnds
    <3> QED BY <3>2, <3>3, <3>4
  <2> QED BY <2>1, <2>2
<1>3. ASSUME NEW l \in Logins, A!UserLoginWrongPassword(l) \/ A!UserLoginSucceeded(l)
      PROVE  logins'[k] = logins[k] /\ (overtaken => overtaken')
  <2>1. logins' = [logins EXCEPT ![l] = A!NoLogin] /\ (overtaken => overtaken')
    BY <1>3 DEF A!UserLoginWrongPassword, A!UserLoginSucceeded
  <2> QED BY <1>0, <2>1 DEF CopiesType, A!NoLogin
<1>4. CASE A!HandleRegisterUser \/ A!RegistrationFails \/ A!HandleVerifyEmail
           \/ A!HandleResendVerificationEmail \/ A!SendResetPasswordConfirmation
           \/ A!ResetUserPassword \/ A!BlockTimePasses \/ A!UpdateUserAdminData
  <2>1. CASE A!HandleRegisterUser
    <3>1. logins' = logins /\ (overtaken => overtaken')
      BY <2>1, Zenon DEF A!HandleRegisterUser
    <3> QED BY <1>1, <3>1
  <2>2. CASE ~ A!HandleRegisterUser
    <3>1. logins' = logins /\ overtaken' = overtaken
      BY <1>4, <2>2 DEF A!RegistrationFails, A!HandleVerifyEmail,
         A!HandleResendVerificationEmail, A!SendResetPasswordConfirmation,
         A!ResetUserPassword, A!BlockTimePasses, A!UpdateUserAdminData
    <3> QED BY <1>1, <3>1
  <2> QED BY <2>1, <2>2
<1>5. CASE UNCHANGED aVars
  BY <1>1, <1>5 DEF aVars
<1> QED BY <1>1, <1>2, <1>3, <1>4, <1>5 DEF A!Next

LEMMA AccountPreserved == AccountInv /\ [A!Next]_aVars => AccountInv'
BY AccountTyped, CopiesTyped, NothingPreserved, RolePreserved, LocksPreserved, CopiesPreserved
   DEF AccountInv

LEMMA AccountConclusion == AccountInv => A!AccountsAgree
<1> SUFFICES ASSUME AccountInv PROVE A!UsableHasRole
  BY DEF AccountInv, A!AccountsAgree
<1> QED BY DEF AccountInv, A!UsableHasRole, RoleAgrees, NothingBefore

-----------------------------------------------------------------------------
(* The grants: their filters are among these sequences, and a grant to     *)
(* delete a user always excludes oneself first.                            *)

PlainFilters ==
    {<<>>, <<"LocalIssuer">>, <<"ExcludeAction">>, <<"OwnUser">>, <<"AssignedSitesCompanies">>,
     <<"AssignedSites">>, <<"SitesAdmin">>, <<"SitesOwner">>, <<"SitesAdminUsers">>,
     <<"SitesOwnerUsers">>, <<"AssignedSites", "LocalIssuer">>, <<"SitesAdmin", "LocalIssuer">>,
     <<"SitesOwner", "LocalIssuer">>, <<"SitesAdminOrOwner", "LocalIssuer">>,
     <<"SitesAdminUsers", "LocalIssuer">>}

OthersOnly == {<<"-OwnUser", "LocalIssuer">>, <<"-OwnUser", "SitesAdmin", "LocalIssuer">>}

KnownGrant(g) ==
    /\ g.filters \in PlainFilters \cup OthersOnly
    /\ g.resource = "User" /\ "Delete" \in g.actions => g.cond /\ g.filters \in OthersOnly

LEMMA FreeKnown ==
  ASSUME NEW resource, NEW actions, resource # "User" \/ "Delete" \notin actions
  PROVE  KnownGrant(Free(resource, actions))
BY DEF Free, KnownGrant, PlainFilters

LEMMA DynKnown ==
  ASSUME NEW resource, NEW actions, NEW filters \in PlainFilters, NEW asserts,
         resource # "User" \/ "Delete" \notin actions
  PROVE  KnownGrant(Dyn(resource, actions, filters, asserts))
BY DEF Dyn, KnownGrant

LEMMA OthersKnown ==
  ASSUME NEW resource, NEW actions, NEW filters \in OthersOnly, NEW asserts
  PROVE  KnownGrant(Dyn(resource, actions, filters, asserts))
BY DEF Dyn, KnownGrant

LEMMA FiltersKnown ==
  /\ <<>> \in PlainFilters /\ <<"LocalIssuer">> \in PlainFilters
  /\ <<"ExcludeAction">> \in PlainFilters /\ <<"OwnUser">> \in PlainFilters
  /\ <<"AssignedSitesCompanies">> \in PlainFilters /\ <<"AssignedSites">> \in PlainFilters
  /\ <<"SitesAdmin">> \in PlainFilters /\ <<"SitesOwner">> \in PlainFilters
  /\ <<"SitesAdminUsers">> \in PlainFilters /\ <<"SitesOwnerUsers">> \in PlainFilters
  /\ <<"AssignedSites", "LocalIssuer">> \in PlainFilters
  /\ <<"SitesAdmin", "LocalIssuer">> \in PlainFilters
  /\ <<"SitesOwner", "LocalIssuer">> \in PlainFilters
  /\ <<"SitesAdminOrOwner", "LocalIssuer">> \in PlainFilters
  /\ <<"SitesAdminUsers", "LocalIssuer">> \in PlainFilters
  /\ <<"-OwnUser", "LocalIssuer">> \in OthersOnly
  /\ <<"-OwnUser", "SitesAdmin", "LocalIssuer">> \in OthersOnly
BY DEF PlainFilters, OthersOnly

KnownGrants(grants) == \E S : grants \in Seq(S) /\ \A g \in S : KnownGrant(g)

LEMMA GrantsJoined ==
  ASSUME NEW s, NEW t, KnownGrants(s), KnownGrants(t)
  PROVE  KnownGrants(s \o t)
<1>1. PICK S : s \in Seq(S) /\ \A g \in S : KnownGrant(g)
  BY DEF KnownGrants
<1>2. PICK T : t \in Seq(T) /\ \A g \in T : KnownGrant(g)
  BY DEF KnownGrants
<1>3. s \o t \in Seq(S \cup T)
  BY <1>1, <1>2
<1> QED BY <1>1, <1>2, <1>3 DEF KnownGrants

LEMMA GrantKnown ==
  ASSUME NEW s, KnownGrants(s), NEW i \in DOMAIN s
  PROVE  i \in Nat /\ KnownGrant(s[i])
BY DEF KnownGrants

LEMMA SuperAdminGrantsKnown == KnownGrants(SuperAdminGrants)
<1> DEFINE S == {SuperAdminGrants[i] : i \in 1 .. 9}
<1>1. SuperAdminGrants \in Seq(S)
  BY DEF SuperAdminGrants
<1>2. \A i \in 1 .. 9 : KnownGrant(SuperAdminGrants[i])
  BY FreeKnown, DynKnown, OthersKnown, FiltersKnown DEF SuperAdminGrants
<1> QED BY <1>1, <1>2 DEF KnownGrants

LEMMA AdminGrants1Known == KnownGrants(AdminGrants1)
<1> DEFINE S == {AdminGrants1[i] : i \in 1 .. 11}
<1>1. AdminGrants1 \in Seq(S)
  BY DEF AdminGrants1
<1>2. /\ KnownGrant(Free("Tenant", {"Read", "Update"}))
      /\ KnownGrant(Free("User", {"SynchronizeBillingUser"}))
      /\ KnownGrant(Free("User", {"Read", "Create"}))
      /\ KnownGrant(Free("Company", {"List"}))
      /\ KnownGrant(Free("Tag", {"List", "Import", "Export"}))
      /\ KnownGrant(Free("Tag", {"Create"}))
  BY FreeKnown
<1>3. /\ KnownGrant(Dyn("User", {"List", "Export", "Import", "InError"}, <<>>, <<>>))
      /\ KnownGrant(Dyn("User", {"Update", "AssignUnassignSites"}, <<"LocalIssuer">>, <<>>))
      /\ KnownGrant(Dyn("Tag", {"Read"}, <<>>, <<>>))
      /\ KnownGrant(Dyn("Tag", {"Update", "Delete"}, <<"LocalIssuer">>, <<>>))
  BY DynKnown, FiltersKnown
<1>4. KnownGrant(Dyn("User", {"Delete"}, <<"-OwnUser", "LocalIssuer">>, <<>>))
  BY OthersKnown, FiltersKnown
<1>5. ASSUME NEW i \in 1 .. 11 PROVE KnownGrant(AdminGrants1[i])
  BY <1>2, <1>3, <1>4 DEF AdminGrants1
<1> HIDE DEF S
<1>6. \A g \in S : KnownGrant(g)
  BY <1>5 DEF S
<1> QED BY <1>1, <1>6 DEF KnownGrants

LEMMA AdminGrants2Known == KnownGrants(AdminGrants2)
<1> DEFINE S == {AdminGrants2[i] : i \in 1 .. 10}
<1>1. AdminGrants2 \in Seq(S)
  BY DEF AdminGrants2
<1>2. \A i \in 1 .. 10 : KnownGrant(AdminGrants2[i])
  BY FreeKnown, DynKnown, FiltersKnown DEF AdminGrants2
<1> QED BY <1>1, <1>2 DEF KnownGrants

LEMMA AdminGrants3Known == KnownGrants(AdminGrants3)
<1> DEFINE S == {AdminGrants3[i] : i \in 1 .. 10}
<1>1. AdminGrants3 \in Seq(S)
  BY DEF AdminGrants3
<1>2. \A i \in 1 .. 10 : KnownGrant(AdminGrants3[i])
  BY FreeKnown, DynKnown, FiltersKnown DEF AdminGrants3
<1> QED BY <1>1, <1>2 DEF KnownGrants

LEMMA AdminGrants4Known == KnownGrants(AdminGrants4)
<1> DEFINE S == {AdminGrants4[i] : i \in 1 .. 3}
<1>1. AdminGrants4 \in Seq(S)
  BY DEF AdminGrants4
<1>2. \A i \in 1 .. 3 : KnownGrant(AdminGrants4[i])
  BY FreeKnown, DynKnown, FiltersKnown DEF AdminGrants4
<1> QED BY <1>1, <1>2 DEF KnownGrants

LEMMA AdminGrants5Known == KnownGrants(AdminGrants5)
<1> DEFINE S == {AdminGrants5[i] : i \in 1 .. 9}
<1>1. AdminGrants5 \in Seq(S)
  BY DEF AdminGrants5
<1>2. \A i \in 1 .. 9 : KnownGrant(AdminGrants5[i])
  BY FreeKnown, DynKnown, FiltersKnown DEF AdminGrants5
<1> QED BY <1>1, <1>2 DEF KnownGrants

LEMMA AdminGrants6Known == KnownGrants(AdminGrants6)
<1> DEFINE S == {AdminGrants6[i] : i \in 1 .. 15}
<1>1. AdminGrants6 \in Seq(S)
  BY DEF AdminGrants6
<1>2. ASSUME NEW i \in 1 .. 15 PROVE KnownGrant(AdminGrants6[i])
  <2>1. CASE i \in 1 .. 5
    BY <2>1, FreeKnown, DynKnown, FiltersKnown DEF AdminGrants6
  <2>2. CASE i \in 6 .. 10
    BY <2>2, FreeKnown, DynKnown, FiltersKnown DEF AdminGrants6
  <2>3. CASE i \in 11 .. 15
    BY <2>3, FreeKnown, DynKnown, FiltersKnown DEF AdminGrants6
  <2> QED BY <2>1, <2>2, <2>3
<1> HIDE DEF S
<1>3. \A g \in S : KnownGrant(g)
  BY <1>2 DEF S
<1> QED BY <1>1, <1>3 DEF KnownGrants

LEMMA AdminGrants7Known == KnownGrants(AdminGrants7)
<1> DEFINE S == {AdminGrants7[i] : i \in 1 .. 6}
<1>1. AdminGrants7 \in Seq(S)
  BY DEF AdminGrants7
<1>2. \A i \in 1 .. 6 : KnownGrant(AdminGrants7[i])
  BY FreeKnown, DynKnown, FiltersKnown DEF AdminGrants7
<1> QED BY <1>1, <1>2 DEF KnownGrants

LEMMA BasicGrants1Known == KnownGrants(BasicGrants1)
<1> DEFINE S == {BasicGrants1[i] : i \in 1 .. 9}
<1>1. BasicGrants1 \in Seq(S)
  BY DEF BasicGrants1
<1>2. \A i \in 1 .. 9 : KnownGrant(BasicGrants1[i])
  BY FreeKnown, DynKnown, FiltersKnown DEF BasicGrants1
<1> QED BY <1>1, <1>2 DEF KnownGrants

LEMMA BasicGrants2Known == KnownGrants(BasicGrants2)
<1> DEFINE S == {BasicGrants2[i] : i \in 1 .. 5}
<1>1. BasicGrants2 \in Seq(S)
  BY DEF BasicGrants2
<1>2. \A i \in 1 .. 5 : KnownGrant(BasicGrants2[i])
  BY FreeKnown, DynKnown, FiltersKnown DEF BasicGrants2
<1> QED BY <1>1, <1>2 DEF KnownGrants

LEMMA BasicGrants3Known == KnownGrants(BasicGrants3)
<1> DEFINE S == {BasicGrants3[i] : i \in 1 .. 9}
<1>1. BasicGrants3 \in Seq(S)
  BY DEF BasicGrants3
<1>2. \A i \in 1 .. 9 : KnownGrant(BasicGrants3[i])
  BY FreeKnown, DynKnown, FiltersKnown DEF BasicGrants3
<1> QED BY <1>1, <1>2 DEF KnownGrants

LEMMA BasicGrants4Known == KnownGrants(BasicGrants4)
<1> DEFINE S == {BasicGrants4[i] : i \in 1 .. 5}
<1>1. BasicGrants4 \in Seq(S)
  BY DEF BasicGrants4
<1>2. \A i \in 1 .. 5 : KnownGrant(BasicGrants4[i])
  BY FreeKnown, DynKnown, FiltersKnown DEF BasicGrants4
<1> QED BY <1>1, <1>2 DEF KnownGrants

LEMMA BasicGrants5Known == KnownGrants(BasicGrants5)
<1> DEFINE S == {BasicGrants5[i] : i \in 1 .. 5}
<1>1. BasicGrants5 \in Seq(S)
  BY DEF BasicGrants5
<1>2. \A i \in 1 .. 5 : KnownGrant(BasicGrants5[i])
  BY FreeKnown, DynKnown, FiltersKnown DEF BasicGrants5
<1> QED BY <1>1, <1>2 DEF KnownGrants

LEMMA DemoGrants1Known == KnownGrants(DemoGrants1)
<1> DEFINE S == {DemoGrants1[i] : i \in 1 .. 9}
<1>1. DemoGrants1 \in Seq(S)
  BY DEF DemoGrants1
<1>2. \A i \in 1 .. 9 : KnownGrant(DemoGrants1[i])
  BY FreeKnown, DynKnown, FiltersKnown DEF DemoGrants1
<1> QED BY <1>1, <1>2 DEF KnownGrants

LEMMA DemoGrants2Known == KnownGrants(DemoGrants2)
<1> DEFINE S == {DemoGrants2[i] : i \in 1 .. 5}
<1>1. DemoGrants2 \in Seq(S)
  BY DEF DemoGrants2
<1>2. \A i \in 1 .. 5 : KnownGrant(DemoGrants2[i])
  BY FreeKnown, DynKnown, FiltersKnown DEF DemoGrants2
<1> QED BY <1>1, <1>2 DEF KnownGrants

LEMMA DemoGrants3Known == KnownGrants(DemoGrants3)
<1> DEFINE S == {DemoGrants3[i] : i \in 1 .. 3}
<1>1. DemoGrants3 \in Seq(S)
  BY DEF DemoGrants3
<1>2. \A i \in 1 .. 3 : KnownGrant(DemoGrants3[i])
  BY FreeKnown, DynKnown, FiltersKnown DEF DemoGrants3
<1> QED BY <1>1, <1>2 DEF KnownGrants

LEMMA SiteAdminGrants1Known == KnownGrants(SiteAdminGrants1)
<1> DEFINE S == {SiteAdminGrants1[i] : i \in 1 .. 10}
<1>1. SiteAdminGrants1 \in Seq(S)
  BY DEF SiteAdminGrants1
<1>2. ASSUME NEW i \in 1 .. 10 PROVE KnownGrant(SiteAdminGrants1[i])
  <2>1. CASE i \in 1 .. 5
    BY <2>1, FreeKnown, DynKnown, FiltersKnown DEF SiteAdminGrants1
  <2>2. CASE i \in 6 .. 10
    BY <2>2, FreeKnown, DynKnown, OthersKnown, FiltersKnown DEF SiteAdminGrants1
  <2> QED BY <2>1, <2>2
<1> HIDE DEF S
<1>3. \A g \in S : KnownGrant(g)
  BY <1>2 DEF S
<1> QED BY <1>1, <1>3 DEF KnownGrants

LEMMA SiteAdminGrants2Known == KnownGrants(SiteAdminGrants2)
<1> DEFINE S == {SiteAdminGrants2[i] : i \in 1 .. 9}
<1>1. SiteAdminGrants2 \in Seq(S)
  BY DEF SiteAdminGrants2
<1>2. \A i \in 1 .. 9 : KnownGrant(SiteAdminGrants2[i])
  BY FreeKnown, DynKnown, FiltersKnown DEF SiteAdminGrants2
<1> QED BY <1>1, <1>2 DEF KnownGrants

LEMMA SiteAdminGrants3Known == KnownGrants(SiteAdminGrants3)
<1> DEFINE S == {SiteAdminGrants3[i] : i \in 1 .. 7}
<1>1. SiteAdminGrants3 \in Seq(S)
  BY DEF SiteAdminGrants3
<1>2. \A i \in 1 .. 7 : KnownGrant(SiteAdminGrants3[i])
  BY FreeKnown, DynKnown, FiltersKnown DEF SiteAdminGrants3
<1> QED BY <1>1, <1>2 DEF KnownGrants

LEMMA SiteAdminGrants4Known == KnownGrants(SiteAdminGrants4)
<1> DEFINE S == {SiteAdminGrants4[i] : i \in 1 .. 9}
<1>1. SiteAdminGrants4 \in Seq(S)
  BY DEF SiteAdminGrants4
<1>2. \A i \in 1 .. 9 : KnownGrant(SiteAdminGrants4[i])
  BY FreeKnown, DynKnown, FiltersKnown DEF SiteAdminGrants4
<1> QED BY <1>1, <1>2 DEF KnownGrants

LEMMA SiteAdminGrants5Known == KnownGrants(SiteAdminGrants5)
<1> DEFINE S == {SiteAdminGrants5[i] : i \in 1 .. 3}
<1>1. SiteAdminGrants5 \in Seq(S)
  BY DEF SiteAdminGrants5
<1>2. \A i \in 1 .. 3 : KnownGrant(SiteAdminGrants5[i])
  BY FreeKnown, DynKnown, FiltersKnown DEF SiteAdminGrants5
<1> QED BY <1>1, <1>2 DEF KnownGrants

LEMMA SiteAdminGrants6Known == KnownGrants(SiteAdminGrants6)
<1> DEFINE S == {SiteAdminGrants6[i] : i \in 1 .. 7}
<1>1. SiteAdminGrants6 \in Seq(S)
  BY DEF SiteAdminGrants6
<1>2. \A i \in 1 .. 7 : KnownGrant(SiteAdminGrants6[i])
  BY FreeKnown, DynKnown, FiltersKnown DEF SiteAdminGrants6
<1> QED BY <1>1, <1>2 DEF KnownGrants

LEMMA SiteAdminGrants7Known == KnownGrants(SiteAdminGrants7)
<1> DEFINE S == {SiteAdminGrants7[i] : i \in 1 .. 7}
<1>1. SiteAdminGrants7 \in Seq(S)
  BY DEF SiteAdminGrants7
<1>2. \A i \in 1 .. 7 : KnownGrant(SiteAdminGrants7[i])
  BY FreeKnown, DynKnown, FiltersKnown DEF SiteAdminGrants7
<1> QED BY <1>1, <1>2 DEF KnownGrants

LEMMA SiteOwnerGrants1Known == KnownGrants(SiteOwnerGrants1)
<1> DEFINE S == {SiteOwnerGrants1[i] : i \in 1 .. 5}
<1>1. SiteOwnerGrants1 \in Seq(S)
  BY DEF SiteOwnerGrants1
<1>2. \A i \in 1 .. 5 : KnownGrant(SiteOwnerGrants1[i])
  BY FreeKnown, DynKnown, FiltersKnown DEF SiteOwnerGrants1
<1> QED BY <1>1, <1>2 DEF KnownGrants

LEMMA SiteOwnerGrants2Known == KnownGrants(SiteOwnerGrants2)
<1> DEFINE S == {SiteOwnerGrants2[i] : i \in 1 .. 6}
<1>1. SiteOwnerGrants2 \in Seq(S)
  BY DEF SiteOwnerGrants2
<1>2. \A i \in 1 .. 6 : KnownGrant(SiteOwnerGrants2[i])
  BY FreeKnown, DynKnown, FiltersKnown DEF SiteOwnerGrants2
<1> QED BY <1>1, <1>2 DEF KnownGrants

LEMMA SiteOwnerGrants3Known == KnownGrants(SiteOwnerGrants3)
<1> DEFINE S == {SiteOwnerGrants3[i] : i \in 1 .. 6}
<1>1. SiteOwnerGrants3 \in Seq(S)
  BY DEF SiteOwnerGrants3
<1>2. \A i \in 1 .. 6 : KnownGrant(SiteOwnerGrants3[i])
  BY FreeKnown, DynKnown, FiltersKnown DEF SiteOwnerGrants3
<1> QED BY <1>1, <1>2 DEF KnownGrants

LEMMA GroupsKnown == \A group \in Groups : KnownGrants(GrantsOfGroup(group))
<1>1. KnownGrants(GrantsOfGroup("superAdmin"))
  BY SuperAdminGrantsKnown DEF GrantsOfGroup
<1>2. KnownGrants(GrantsOfGroup("admin"))
  <2>1. KnownGrants(AdminGrants1 \o AdminGrants2)
    BY AdminGrants1Known, AdminGrants2Known, GrantsJoined
  <2>2. KnownGrants(AdminGrants1 \o AdminGrants2 \o AdminGrants3)
    BY <2>1, AdminGrants3Known, GrantsJoined
  <2>3. KnownGrants(AdminGrants1 \o AdminGrants2 \o AdminGrants3 \o AdminGrants4)
    BY <2>2, AdminGrants4Known, GrantsJoined
  <2>4. KnownGrants(AdminGrants1 \o AdminGrants2 \o AdminGrants3 \o AdminGrants4 \o AdminGrants5)
    BY <2>3, AdminGrants5Known, GrantsJoined
  <2>5. KnownGrants(AdminGrants1 \o AdminGrants2 \o AdminGrants3 \o AdminGrants4 \o AdminGrants5 \o AdminGrants6)
    BY <2>4, AdminGrants6Known, GrantsJoined
  <2>6. KnownGrants(AdminGrants1 \o AdminGrants2 \o AdminGrants3 \o AdminGrants4 \o AdminGrants5 \o AdminGrants6 \o AdminGrants7)
    BY <2>5, AdminGrants7Known, GrantsJoined
  <2> QED BY <2>6, Zenon DEF GrantsOfGroup, AdminGrants
<1>3. KnownGrants(GrantsOfGroup("basic"))
  <2>1. KnownGrants(BasicGrants1 \o BasicGrants2)
    BY BasicGrants1Known, BasicGrants2Known, GrantsJoined
  <2>2. KnownGrants(BasicGrants1 \o BasicGrants2 \o BasicGrants3)
    BY <2>1, BasicGrants3Known, GrantsJoined
  <2>3. KnownGrants(BasicGrants1 \o BasicGrants2 \o BasicGrants3 \o BasicGrants4)
    BY <2>2, BasicGrants4Known, GrantsJoined
  <2>4. KnownGrants(BasicGrants1 \o BasicGrants2 \o BasicGrants3 \o BasicGrants4 \o BasicGrants5)
    BY <2>3, BasicGrants5Known, GrantsJoined
  <2> QED BY <2>4, Zenon DEF GrantsOfGroup, BasicGrants
<1>4. KnownGrants(GrantsOfGroup("demo"))
  <2>1. KnownGrants(DemoGrants1 \o DemoGrants2)
    BY DemoGrants1Known, DemoGrants2Known, GrantsJoined
  <2>2. KnownGrants(DemoGrants1 \o DemoGrants2 \o DemoGrants3)
    BY <2>1, DemoGrants3Known, GrantsJoined
  <2> QED BY <2>2, Zenon DEF GrantsOfGroup, DemoGrants
<1>5. KnownGrants(GrantsOfGroup("siteAdmin"))
  <2>1. KnownGrants(SiteAdminGrants1 \o SiteAdminGrants2)
    BY SiteAdminGrants1Known, SiteAdminGrants2Known, GrantsJoined
  <2>2. KnownGrants(SiteAdminGrants1 \o SiteAdminGrants2 \o SiteAdminGrants3)
    BY <2>1, SiteAdminGrants3Known, GrantsJoined
  <2>3. KnownGrants(SiteAdminGrants1 \o SiteAdminGrants2 \o SiteAdminGrants3 \o SiteAdminGrants4)
    BY <2>2, SiteAdminGrants4Known, GrantsJoined
  <2>4. KnownGrants(SiteAdminGrants1 \o SiteAdminGrants2 \o SiteAdminGrants3 \o SiteAdminGrants4 \o SiteAdminGrants5)
    BY <2>3, SiteAdminGrants5Known, GrantsJoined
  <2>5. KnownGrants(SiteAdminGrants1 \o SiteAdminGrants2 \o SiteAdminGrants3 \o SiteAdminGrants4 \o SiteAdminGrants5 \o SiteAdminGrants6)
    BY <2>4, SiteAdminGrants6Known, GrantsJoined
  <2>6. KnownGrants(SiteAdminGrants1 \o SiteAdminGrants2 \o SiteAdminGrants3 \o SiteAdminGrants4 \o SiteAdminGrants5 \o SiteAdminGrants6 \o SiteAdminGrants7)
    BY <2>5, SiteAdminGrants7Known, GrantsJoined
  <2> QED BY <2>6, Zenon DEF GrantsOfGroup, SiteAdminGrants
<1>6. KnownGrants(GrantsOfGroup("siteOwner"))
  <2>1. KnownGrants(SiteOwnerGrants1 \o SiteOwnerGrants2)
    BY SiteOwnerGrants1Known, SiteOwnerGrants2Known, GrantsJoined
  <2>2. KnownGrants(SiteOwnerGrants1 \o SiteOwnerGrants2 \o SiteOwnerGrants3)
    BY <2>1, SiteOwnerGrants3Known, GrantsJoined
  <2> QED BY <2>2, Zenon DEF GrantsOfGroup, SiteOwnerGrants
<1> QED BY <1>1, <1>2, <1>3, <1>4, <1>5, <1>6 DEF Groups

LEMMA MinInside ==
  ASSUME NEW S, S \subseteq Nat, S # {}
  PROVE  Min(S) \in S
<1>1. PICK x \in S : \A y \in S : ~ (y < x)
  <2>1. PICK x \in S : \A y \in S : <<y, x>> \notin OpToRel(<, Nat)
    BY NatLessThanWellFounded, WFMin
  <2> QED BY <2>1 DEF OpToRel
<1>2. \A y \in S : x <= y
  BY <1>1
<1> QED BY <1>1, <1>2 DEF Min

\* What canPerformAction hands to the filters.
LEMMA ConditionKnown ==
  ASSUME NEW flat \in Seq(Groups), NEW resource, NEW action, NEW granting,
         granting = [k \in DOMAIN flat |-> Granting(flat[k], resource, action)]
  PROVE  /\ FirstCondition(flat, granting).filters \in PlainFilters \cup OthersOnly
         /\ resource = "User" /\ action = "Delete"
              /\ (\E k \in DOMAIN flat : granting[k] # {})
            => FirstCondition(flat, granting).filters \in OthersOnly
<1> DEFINE conditions == [k \in DOMAIN flat |-> {i \in granting[k] : GrantsOfGroup(flat[k])[i].cond}]
           having == {k \in DOMAIN flat : conditions[k] # {}}
           first == GrantsOfGroup(flat[Min(having)])[Min(conditions[Min(having)])]
<1>1. ASSUME NEW k \in DOMAIN flat, NEW i \in granting[k]
      PROVE  /\ i \in Nat /\ KnownGrant(GrantsOfGroup(flat[k])[i])
             /\ GrantsOfGroup(flat[k])[i].resource = resource
             /\ action \in GrantsOfGroup(flat[k])[i].actions
  <2>1. flat[k] \in Groups
    OBVIOUS
  <2>2. KnownGrants(GrantsOfGroup(flat[k]))
    BY <2>1, GroupsKnown
  <2>3. /\ i \in DOMAIN GrantsOfGroup(flat[k])
        /\ GrantsOfGroup(flat[k])[i].resource = resource
        /\ action \in GrantsOfGroup(flat[k])[i].actions
    BY <1>1 DEF Granting
  <2> QED BY <2>2, <2>3, GrantKnown
<1>2. FirstCondition(flat, granting).filters = IF having = {} THEN <<>> ELSE first.filters
  BY DEF FirstCondition
<1>3. CASE having = {}
  <2>1. ASSUME NEW k \in DOMAIN flat, NEW i \in granting[k]
        PROVE  ~ GrantsOfGroup(flat[k])[i].cond
    BY <1>3, <2>1
  <2>2. ~ (resource = "User" /\ action = "Delete"
           /\ \E k \in DOMAIN flat : granting[k] # {})
    BY <1>1, <2>1 DEF KnownGrant
  <2> QED BY <1>2, <1>3, <2>2, FiltersKnown
<1>4. CASE having # {}
  <2> DEFINE k == Min(having)
             i == Min(conditions[k])
  <2>1. k \in DOMAIN flat /\ conditions[k] # {}
    <3>1. having \subseteq Nat
      OBVIOUS
    <3>2. k \in having
      BY <1>4, <3>1, MinInside
    <3> QED BY <3>2
  <2>2. i \in conditions[k]
    <3>1. conditions[k] \subseteq Nat
      BY <1>1, <2>1
    <3> QED BY <2>1, <3>1, MinInside
  <2> HIDE DEF k
  <2>3. i \in granting[k]
    BY <2>1, <2>2
  <2> HIDE DEF i
  <2>4. /\ KnownGrant(GrantsOfGroup(flat[k])[i])
        /\ GrantsOfGroup(flat[k])[i].resource = resource
        /\ action \in GrantsOfGroup(flat[k])[i].actions
    BY <1>1, <2>1, <2>3
  <2>5. FirstCondition(flat, granting).filters = GrantsOfGroup(flat[k])[i].filters
    BY <1>2, <1>4 DEF k, i
  <2> QED BY <2>4, <2>5 DEF KnownGrant
<1> QED BY <1>3, <1>4

-----------------------------------------------------------------------------
(* Tokens and questions. *)

LEMMA GroupsOfUser ==
  ASSUME NEW role, NEW adminOf, NEW ownerOf
  PROVE  GetAuthGroupsFromUser(role, adminOf, ownerOf) \in AllGroups
<1>1. /\ <<"siteAdmin">> \o <<>> = <<"siteAdmin">>
      /\ <<>> \o <<"siteOwner">> = <<"siteOwner">>
      /\ <<"siteAdmin">> \o <<"siteOwner">> = <<"siteAdmin", "siteOwner">>
      /\ <<>> \o <<>> = <<>>
  <2> DEFINE names == {"siteAdmin", "siteOwner"}
             s == <<"siteAdmin">> \o <<"siteOwner">>
             t == <<"siteAdmin", "siteOwner">>
  <2>1. <<"siteAdmin">> \o <<>> = <<"siteAdmin">> /\ <<>> \o <<"siteOwner">> = <<"siteOwner">>
    OBVIOUS
  <2>2. <<>> \o <<>> = <<>>
    OBVIOUS
  <2>3. s \in Seq(names) /\ t \in Seq(names)
    OBVIOUS
  <2>4. Len(s) = Len(t) /\ \A i \in 1 .. Len(s) : s[i] = t[i]
    OBVIOUS
  <2>5. s = t
    <3> HIDE DEF s, t, names
    <3> QED BY <2>3, <2>4, SeqEqual
  <2> HIDE DEF names
  <2> QED BY <2>1, <2>2, <2>5, Zenon
<1>2. CASE role = "A" \/ role = "D"
  BY <1>2 DEF GetAuthGroupsFromUser, AllGroups
<1>3. CASE role # "A" /\ role # "D"
  <2> DEFINE s == IF adminOf # {} THEN <<"siteAdmin">> ELSE <<>>
             t == IF ownerOf # {} THEN <<"siteOwner">> ELSE <<>>
  <2>1. GetAuthGroupsFromUser(role, adminOf, ownerOf) = IF s \o t = <<>> THEN <<"basic">> ELSE s \o t
    BY <1>3 DEF GetAuthGroupsFromUser
  <2>2. s \o t \in {<<>>, <<"siteAdmin">>, <<"siteOwner">>, <<"siteAdmin", "siteOwner">>}
    BY <1>1
  <2> HIDE DEF s, t
  <2> QED BY <2>1, <2>2 DEF AllGroups
<1> QED BY <1>2, <1>3

LEMMA FlatKnown ==
  ASSUME NEW groups \in AllGroups
  PROVE  FlatGroups(groups) \in Seq(Groups)
<1>1. "admin" \in Groups /\ "demo" \in Groups /\ "basic" \in Groups /\ "siteAdmin" \in Groups
      /\ "siteOwner" \in Groups
  BY DEF Groups
<1>2. /\ <<"admin">> \in Seq(Groups) /\ <<"demo">> \in Seq(Groups) /\ <<"basic">> \in Seq(Groups)
      /\ <<"siteAdmin">> \in Seq(Groups) /\ <<"siteOwner">> \in Seq(Groups)
      /\ <<"siteAdmin", "siteOwner">> \in Seq(Groups)
  BY <1>1
<1>3. groups \in Seq(Groups)
  BY <1>2 DEF AllGroups
<1>4. Append(groups, "basic") \in Seq(Groups)
  BY <1>1, <1>3
<1> QED BY <1>3, <1>4 DEF FlatGroups

KnownQuestion(q) ==
    /\ q.context.filters \in PlainFilters \cup OthersOnly
    /\ q.ownDelete => q.context.filters \in OthersOnly

LEMMA QuestionKnown ==
  ASSUME NEW groups \in AllGroups, NEW q \in QuestionsOf[groups]
  PROVE  KnownQuestion(q)
<1> DEFINE can(c, a) == CanPerformAction(groups, c.entity, a)
           actions(c) == IF c.actions = AnyAction THEN ActionsOn(c.entity) ELSE c.actions
           question(c, a, ids) ==
              [context |-> can(c, a).context, data |-> c.data, dynamic |-> c.dynamic,
               ids |-> ids \cap IDsRead(can(c, a).context.filters),
               ownDelete |-> c.entity = "User" /\ a = "Delete"]
           of(c) == {question(c, a, ids) :
                     a \in {b \in actions(c) : can(c, b).authorized}, ids \in c.ids}
<1>1. QuestionsOf[groups] = UNION {of(c) : c \in AllChecks}
  BY DEF QuestionsOf, Questions
<1> HIDE DEF of
<1>2. PICK c \in AllChecks : q \in of(c)
  BY <1>1
<1>3. PICK a \in {b \in actions(c) : can(c, b).authorized}, ids \in c.ids : q = question(c, a, ids)
  BY <1>2 DEF of
<1>4. can(c, a).authorized
  BY <1>3
<1> DEFINE flat == FlatGroups(groups)
           granting == [k \in DOMAIN flat |-> Granting(flat[k], c.entity, a)]
<1>5. /\ q.context.filters = FirstCondition(flat, granting).filters
      /\ q.ownDelete = (c.entity = "User" /\ a = "Delete")
      /\ \E k \in DOMAIN flat : granting[k] # {}
  BY <1>3, <1>4 DEF CanPerformAction
<1>6. flat \in Seq(Groups)
  BY FlatKnown
<1> HIDE DEF flat
<1> QED BY <1>5, <1>6, ConditionKnown DEF KnownQuestion

-----------------------------------------------------------------------------
(* One filter: what it lets through when it authorizes. *)

Results == [authorized : BOOLEAN, sites : SUBSET Sites, userSites : SUBSET Sites,
            users : SUBSET {Self}, tags : SUBSET GetUserTagIDs, companies : SUBSET Sites]

KnownNames == {"LocalIssuer", "ExcludeAction", "OwnUser", "-OwnUser", "AssignedSitesCompanies",
               "AssignedSites", "SitesAdmin", "SitesOwner", "SitesAdminOrOwner",
               "SitesAdminUsers", "SitesOwnerUsers"}

LEMMA AmongOwn ==
  ASSUME NEW ask, NEW id, NEW own
  PROVE  /\ Among(ask, id, own) \subseteq own
         /\ id \in DOMAIN ask => Among(ask, id, own) \subseteq ask[id]
BY DEF Among

LEMMA SourcesKnown ==
  /\ DataSources.self = Self /\ DataSources.tags = GetUserTagIDs
  /\ DataSources.admin \in SUBSET Sites /\ DataSources.owner \in SUBSET Sites
  /\ DataSources.assigned \in SUBSET Sites
BY DEF DataSources, GetSitesAdminSiteIDs, GetSitesOwnerSiteIDs, GetAssignedSiteIDs, SitesWith

\* What an authorized result has found: own sites among those asked for, or
\* something of the user's when he asks for a user.
OwnSites(sites, ask, own) ==
    /\ sites # {} /\ sites \subseteq own
    /\ "SiteID" \in DOMAIN ask => sites \subseteq ask["SiteID"]

SomethingOwn(result, ask, own) ==
    /\ result.userSites \subseteq own
    /\ "UserID" \in DOMAIN ask => result.users # {} \/ result.userSites # {} \/ result.tags # {}

LEMMA SitesFiltered ==
  ASSUME NEW acc \in Results, ~ acc.authorized, NEW ask, NEW own \in SUBSET Sites,
         NEW tenant, tenant \in BOOLEAN, NEW result, result = SitesFilter(acc, ask, own, tenant)
  PROVE  /\ result \in Results /\ result.userSites = acc.userSites
         /\ result.authorized /\ tenant => OwnSites(result.sites, ask, own)
<1> DEFINE sites == Among(ask, "SiteID", own)
<1>1. sites \subseteq own /\ ("SiteID" \in DOMAIN ask => sites \subseteq ask["SiteID"])
  BY AmongOwn
<1>2. result = IF ~ tenant THEN [acc EXCEPT !.authorized = TRUE]
               ELSE [acc EXCEPT !.sites = sites, !.authorized = @ \/ sites # {}]
  BY DEF SitesFilter
<1> HIDE DEF sites
<1>3. CASE ~ tenant
  BY <1>2, <1>3 DEF Results
<1>4. CASE tenant
  <2>1. result = [acc EXCEPT !.sites = sites, !.authorized = acc.authorized \/ sites # {}]
    BY <1>2, <1>4 DEF Results
  <2>2. CASE sites = {}
    <3>1. result = [acc EXCEPT !.sites = sites, !.authorized = FALSE]
      BY <2>1, <2>2
    <3> QED BY <1>1, <3>1 DEF Results
  <2>3. CASE sites # {}
    <3>1. result = [acc EXCEPT !.sites = sites, !.authorized = TRUE]
      BY <2>1, <2>3
    <3> QED BY <1>1, <2>3, <3>1 DEF Results, OwnSites
  <2> QED BY <2>2, <2>3
<1> QED BY <1>3, <1>4

LEMMA CompaniesFiltered ==
  ASSUME NEW acc \in Results, ~ acc.authorized, NEW ask, NEW own \in SUBSET Sites,
         NEW result, result = CompaniesFilter(acc, ask, own)
  PROVE  /\ result \in Results /\ result.userSites = acc.userSites
         /\ result.authorized => result.companies # {} /\ result.companies \subseteq own
<1> DEFINE companies == Among(ask, "CompanyID", own)
<1>1. companies \subseteq own
  BY AmongOwn
<1>2. result = [acc EXCEPT !.companies = companies, !.authorized = acc.authorized \/ companies # {}]
  BY DEF CompaniesFilter, Results
<1> HIDE DEF companies
<1>3. CASE companies = {}
  <2>1. result = [acc EXCEPT !.companies = companies, !.authorized = FALSE]
    BY <1>2, <1>3
  <2> QED BY <1>1, <2>1 DEF Results
<1>4. CASE companies # {}
  <2>1. result = [acc EXCEPT !.companies = companies, !.authorized = TRUE]
    BY <1>2, <1>4
  <2> QED BY <1>1, <1>4, <2>1 DEF Results
<1> QED BY <1>3, <1>4

\* What authorizes a user who asks for users: himself, or one of his tags.
LEMMA OwnUserFiltered ==
  ASSUME NEW acc \in Results, ~ acc.authorized, NEW ask,
         NEW result, result = OwnUserFilter(acc, ask, DataSources)
  PROVE  /\ result \in Results /\ result.userSites = acc.userSites
         /\ result.authorized /\ "UserID" \in DOMAIN ask => result.users # {} \/ result.tags # {}
         /\ "UserID" \in DOMAIN ask /\ ask["UserID"] = {Self} => result.authorized
<1> DEFINE users == Among(ask, "UserID", {Self})
           tags == Among(ask, "TagIDs", GetUserTagIDs)
           used == "UserID" \in DOMAIN ask \/ (GetUserTagIDs # {} /\ "TagIDs" \in DOMAIN ask)
           match == ("UserID" \in DOMAIN ask /\ users # {}) \/ ("TagIDs" \in DOMAIN ask /\ tags # {})
<1>1. users \subseteq {Self} /\ tags \subseteq GetUserTagIDs
  BY AmongOwn
<1>2. "UserID" \in DOMAIN ask /\ ask["UserID"] = {Self} => users = {Self}
  BY DEF Among
<1>3. result = [acc EXCEPT !.users = users, !.tags = tags,
                           !.authorized = acc.authorized \/ match \/ ~ used]
  BY SourcesKnown DEF OwnUserFilter, Results
<1> HIDE DEF users, tags
<1>4. CASE match \/ ~ used
  <2>1. result = [acc EXCEPT !.users = users, !.tags = tags, !.authorized = TRUE]
    BY <1>3, <1>4
  <2> QED BY <1>1, <1>2, <1>4, <2>1 DEF Results
<1>5. CASE ~ (match \/ ~ used)
  <2>1. result = [acc EXCEPT !.users = users, !.tags = tags, !.authorized = FALSE]
    BY <1>3, <1>5
  <2> QED BY <1>1, <1>2, <1>5, <2>1 DEF Results
<1> QED BY <1>4, <1>5

LEMMA SiteUsersFiltered ==
  ASSUME NEW acc \in Results, ~ acc.authorized, NEW ask, NEW own \in SUBSET Sites,
         NEW tenant, tenant \in BOOLEAN, NEW result,
         result = SiteUsersFilter(acc, ask, DataSources, own, tenant)
  PROVE  /\ result \in Results
         /\ result.authorized => SomethingOwn(result, ask, own)
<1> DEFINE sites == IF tenant THEN Among(ask, "SiteID", own) ELSE {}
           users == Among(ask, "UserID", {Self})
           tags == Among(ask, "TagIDs", GetUserTagIDs)
           used == \/ tenant /\ own # {} /\ "SiteID" \in DOMAIN ask
                   \/ "UserID" \in DOMAIN ask
                   \/ GetUserTagIDs # {} /\ "TagIDs" \in DOMAIN ask
           match == \/ "SiteID" \in DOMAIN ask /\ sites # {}
                    \/ "UserID" \in DOMAIN ask /\ users # {}
                    \/ "TagIDs" \in DOMAIN ask /\ tags # {}
<1>1. sites \subseteq own /\ users \subseteq {Self} /\ tags \subseteq GetUserTagIDs
  BY AmongOwn
<1>2. result = [acc EXCEPT !.userSites = sites, !.users = users, !.tags = tags,
                           !.authorized = acc.authorized \/ match \/ ~ used]
  BY SourcesKnown DEF SiteUsersFilter, Results
<1> HIDE DEF sites, users, tags
<1>3. CASE match \/ ~ used
  <2>1. result = [acc EXCEPT !.userSites = sites, !.users = users, !.tags = tags,
                             !.authorized = TRUE]
    BY <1>2, <1>3
  <2> QED BY <1>1, <1>3, <2>1 DEF Results, SomethingOwn
<1>4. CASE ~ (match \/ ~ used)
  <2>1. result = [acc EXCEPT !.userSites = sites, !.users = users, !.tags = tags,
                             !.authorized = FALSE]
    BY <1>2, <1>4
  <2> QED BY <1>1, <2>1 DEF Results
<1> QED BY <1>3, <1>4

-----------------------------------------------------------------------------
(* The filters of a grant, one after the other. *)

SameData(a, b) ==
    /\ a.sites = b.sites /\ a.userSites = b.userSites /\ a.users = b.users
    /\ a.tags = b.tags /\ a.companies = b.companies

LEMMA IssuerProcessed ==
  ASSUME NEW acc \in Results, NEW ask, NEW tenant, NEW data, NEW entity, NEW result,
         result = ProcessNext("LocalIssuer", acc, ask, DataSources, tenant, data, entity)
  PROVE  result \in Results /\ SameData(result, acc)
<1> DEFINE closed == [acc EXCEPT !.authorized = FALSE]
<1>1. ProcessFilter("LocalIssuer", closed, ask, DataSources, tenant, data, entity)
      = LocalIssuerFilter(closed, data, entity)
  BY DEF ProcessFilter
<1>2. result = IF ~ acc.authorized THEN acc
               ELSE [closed EXCEPT !.authorized = ~ data \/ "issuer" \in entity]
  BY <1>1 DEF ProcessNext, PositiveName, IsNegated, LocalIssuerFilter
<1>3. CASE ~ acc.authorized
  BY <1>2, <1>3 DEF SameData
<1>4. CASE acc.authorized /\ (~ data \/ "issuer" \in entity)
  <2>1. result = [closed EXCEPT !.authorized = TRUE]
    BY <1>2, <1>4
  <2> QED BY <2>1 DEF Results, SameData
<1>5. CASE acc.authorized /\ ~ (~ data \/ "issuer" \in entity)
  <2>1. result = [closed EXCEPT !.authorized = FALSE]
    BY <1>2, <1>5
  <2> QED BY <2>1 DEF Results, SameData
<1> QED BY <1>3, <1>4, <1>5

LEMMA ClosedStays ==
  ASSUME NEW name, NEW acc, ~ acc.authorized, NEW ask, NEW tenant, NEW data, NEW entity
  PROVE  ProcessNext(name, acc, ask, DataSources, tenant, data, entity) = acc
BY DEF ProcessNext

\* What a filter that was processed promises of a decision d that keeps what
\* it has found.
FilterRight(name, ask, result, d) ==
    /\ result \in Results
    /\ result.authorized => FilterHolds(name, d)
    /\ name = "-OwnUser" => /\ result.userSites = {}
                            /\ "UserID" \in DOMAIN ask /\ ask["UserID"] = {Self} =>
                                  ~ result.authorized

LEMMA FilterProcessed ==
  ASSUME NEW name \in KnownNames, NEW acc \in Results, acc.authorized, acc.userSites = {},
         NEW ask, NEW tenant \in BOOLEAN, NEW data, NEW entity, NEW result,
         result = ProcessNext(name, acc, ask, DataSources, tenant, data, entity),
         NEW d, d.ask = ask, d.org = tenant, SameData(d.result, result)
  PROVE  FilterRight(name, ask, result, d)
<1> USE DEF FilterRight
<1> DEFINE closed == [acc EXCEPT !.authorized = FALSE]
           run == ProcessFilter(PositiveName(name), closed, ask, DataSources, tenant, data, entity)
<1>1. closed \in Results /\ ~ closed.authorized /\ closed.userSites = {}
  BY DEF Results
<1>2. ~ IsNegated(name) => PositiveName(name) = name /\ result = run
  BY DEF KnownNames, ProcessNext, PositiveName, IsNegated
<1>3. /\ DataSources.admin \in SUBSET Sites /\ DataSources.owner \in SUBSET Sites
      /\ DataSources.assigned \in SUBSET Sites
  BY SourcesKnown
<1> HIDE DEF closed
<1>4. CASE name \in {"SitesAdmin", "SitesOwner", "AssignedSites"}
  <2> DEFINE own == OwnOf(name)
  <2>1. result = SitesFilter(closed, ask, own, tenant)
    BY <1>2, <1>4 DEF ProcessFilter, IsNegated, SitesAdminFilter, SitesOwnerFilter,
                      AssignedSitesFilter, OwnOf
  <2>2. own \in SUBSET Sites
    BY <1>3, <1>4 DEF OwnOf
  <2> HIDE DEF own
  <2>3. /\ result \in Results /\ result.userSites = closed.userSites
        /\ result.authorized /\ tenant => OwnSites(result.sites, ask, own)
    BY <1>1, <2>1, <2>2, SitesFiltered
  <2>4. FilterHolds(name, d) =
          (d.org => (d.result.sites # {} /\ d.result.sites \subseteq own
                     /\ ("SiteID" \in DOMAIN d.ask => d.result.sites \subseteq d.ask["SiteID"])))
    BY <1>4 DEF FilterHolds, own
  <2> QED BY <1>4, <2>3, <2>4 DEF SameData, OwnSites
<1>5. CASE name = "SitesAdminOrOwner"
  <2> DEFINE own == OwnOf(name)
  <2>1. result = SitesFilter(closed, ask, own, TRUE)
    BY <1>2, <1>5 DEF ProcessFilter, IsNegated, SitesAdminOrOwnerFilter, OwnOf
  <2>2. own \in SUBSET Sites
    BY <1>3, <1>5 DEF OwnOf
  <2> HIDE DEF own
  <2>3. /\ result \in Results /\ result.userSites = closed.userSites
        /\ result.authorized /\ TRUE => OwnSites(result.sites, ask, own)
    <3>1. TRUE \in BOOLEAN
      OBVIOUS
    <3> QED BY <1>1, <2>1, <2>2, <3>1, SitesFiltered, Zenon
  <2>4. FilterHolds(name, d) = (d.result.sites # {} /\ d.result.sites \subseteq own)
    BY <1>5 DEF FilterHolds, own
  <2> QED BY <1>5, <2>3, <2>4 DEF SameData, OwnSites
<1>6. CASE name = "AssignedSitesCompanies"
  <2> DEFINE own == OwnOf(name)
  <2>1. result = CompaniesFilter(closed, ask, own)
    BY <1>2, <1>6 DEF ProcessFilter, IsNegated, OwnOf
  <2>2. own \in SUBSET Sites
    BY <1>3, <1>6 DEF OwnOf
  <2> HIDE DEF own
  <2>3. /\ result \in Results
        /\ result.authorized => result.companies # {} /\ result.companies \subseteq own
    BY <1>1, <2>1, <2>2, CompaniesFiltered
  <2>4. FilterHolds(name, d) = (d.result.companies # {} /\ d.result.companies \subseteq own)
    BY <1>6 DEF FilterHolds, own
  <2> QED BY <1>6, <2>3, <2>4 DEF SameData
<1>7. CASE name = "OwnUser"
  <2>1. result = OwnUserFilter(closed, ask, DataSources)
    BY <1>2, <1>7 DEF ProcessFilter, IsNegated
  <2>2. /\ result \in Results /\ result.userSites = {}
        /\ result.authorized /\ "UserID" \in DOMAIN ask => result.users # {} \/ result.tags # {}
    BY <1>1, <2>1, OwnUserFiltered
  <2>3. result.users \subseteq {Self}
    BY <2>2 DEF Results
  <2>4. FilterHolds(name, d) =
          (/\ d.result.users \subseteq {Self}
           /\ d.result.userSites \subseteq OwnOf(name)
           /\ "UserID" \in DOMAIN d.ask /\ d.result.users = {} =>
                 d.result.userSites # {} \/ d.result.tags # {})
    BY <1>7 DEF FilterHolds
  <2> QED BY <1>7, <2>2, <2>3, <2>4 DEF SameData
<1>8. CASE name \in {"SitesAdminUsers", "SitesOwnerUsers"}
  <2> DEFINE own == OwnOf(name)
  <2>1. result = SiteUsersFilter(closed, ask, DataSources, own, tenant)
    BY <1>2, <1>8 DEF ProcessFilter, IsNegated, SitesAdminUsersFilter, SitesOwnerUsersFilter, OwnOf
  <2>2. own \in SUBSET Sites
    BY <1>3, <1>8 DEF OwnOf
  <2> HIDE DEF own
  <2>3. /\ result \in Results
        /\ result.authorized => SomethingOwn(result, ask, own)
    BY <1>1, <2>1, <2>2, SiteUsersFiltered
  <2>4. result.users \subseteq {Self}
    BY <2>3 DEF Results
  <2>5. FilterHolds(name, d) =
          (/\ d.result.users \subseteq {Self}
           /\ d.result.userSites \subseteq own
           /\ "UserID" \in DOMAIN d.ask /\ d.result.users = {} =>
                 d.result.userSites # {} \/ d.result.tags # {})
    BY <1>8 DEF FilterHolds, own
  <2> QED BY <1>8, <2>3, <2>4, <2>5 DEF SameData, SomethingOwn
<1>9. CASE name = "-OwnUser"
  <2>1. run = OwnUserFilter(closed, ask, DataSources)
    BY <1>9 DEF ProcessFilter, PositiveName
  <2>2. /\ run \in Results /\ run.userSites = {}
        /\ "UserID" \in DOMAIN ask /\ ask["UserID"] = {Self} => run.authorized
    BY <1>1, <2>1, OwnUserFiltered
  <2>3. result = [run EXCEPT !.authorized = ~ run.authorized]
    BY <1>9 DEF ProcessNext, IsNegated, closed
  <2> HIDE DEF run
  <2>4. result \in Results /\ result.userSites = {} /\ (run.authorized => ~ result.authorized)
    <3>1. CASE run.authorized
      <4>1. result = [run EXCEPT !.authorized = FALSE]
        BY <2>3, <3>1
      <4> QED BY <2>2, <4>1 DEF Results
    <3>2. CASE ~ run.authorized
      <4>1. result = [run EXCEPT !.authorized = TRUE]
        BY <2>3, <3>2
      <4> QED BY <2>2, <3>2, <4>1 DEF Results
    <3> QED BY <3>1, <3>2
  <2>5. FilterHolds(name, d) =
          ("UserID" \in DOMAIN d.ask => d.ask["UserID"] # {Self} \/ "TagIDs" \in DOMAIN d.ask)
    BY <1>9 DEF FilterHolds
  <2> QED BY <2>2, <2>4, <2>5
<1>10. CASE name \in {"LocalIssuer", "ExcludeAction"}
  <2>1. result \in Results
    <3>1. CASE name = "LocalIssuer"
      BY <3>1, IssuerProcessed
    <3>2. CASE name = "ExcludeAction"
      <4>1. result = [closed EXCEPT !.authorized = FALSE]
        BY <1>2, <3>2 DEF ProcessFilter, IsNegated, ExcludeActionFilter
      <4> QED BY <1>1, <4>1 DEF Results
    <3> QED BY <1>10, <3>1, <3>2
  <2> QED BY <1>10, <2>1 DEF FilterHolds
<1> QED BY <1>4, <1>5, <1>6, <1>7, <1>8, <1>9, <1>10 DEF KnownNames

\* The processing as a sequence of results, for as many filters as a grant has.
InOrder(after, filters, ask, tenant, data, entity) ==
    /\ after[0] = NewFilter
    /\ \A n \in 1 .. Len(filters) :
          after[n] = ProcessNext(filters[n], after[n - 1], ask, DataSources, tenant, data, entity)
    /\ ProcessDynamicFilters(filters, ask, DataSources, tenant, data, entity) = after[Len(filters)]

LEMMA ProcessedInOrder ==
  ASSUME NEW filters, Len(filters) \in 0 .. 3, NEW ask, NEW tenant, NEW data, NEW entity
  PROVE  \E after : InOrder(after, filters, ask, tenant, data, entity)
<1> DEFINE next(name, acc) == ProcessNext(name, acc, ask, DataSources, tenant, data, entity)
           last == Len(filters)
           body(f) == [n \in 0 .. last |-> IF n = 0 THEN NewFilter ELSE next(filters[n], f[n - 1])]
           after == CHOOSE f : f = body(f)
           one == next(filters[1], NewFilter)
           two == next(filters[2], one)
           three == next(filters[3], two)
           found == [n \in 0 .. last |-> IF n = 0 THEN NewFilter ELSE IF n = 1 THEN one
                                         ELSE IF n = 2 THEN two ELSE three]
<1>1. ProcessDynamicFilters(filters, ask, DataSources, tenant, data, entity) = after[last]
  BY DEF ProcessDynamicFilters
<1>2. last \in 0 .. 3
  OBVIOUS
<1> HIDE DEF next, last
<1>3. found = body(found)
  <2>1. \A n \in 0 .. last : found[n] = body(found)[n]
    <3>1. ASSUME NEW n \in 0 .. last
          PROVE  found[n] = body(found)[n]
      <4>1. n = 0 \/ (n = 1 /\ n - 1 \in 0 .. last) \/ (n = 2 /\ n - 1 \in 0 .. last)
            \/ (n = 3 /\ n - 1 \in 0 .. last)
        BY <1>2
      <4> QED BY <4>1
    <3> QED BY <3>1
  <2> QED BY <2>1
<1>4. after = body(after)
  <2> HIDE DEF body, found
  <2>1. \E f : f = body(f)
    BY <1>3
  <2> QED BY <2>1
<1>5. after[0] = NewFilter /\ \A n \in 1 .. last : after[n] = next(filters[n], after[n - 1])
  <2> HIDE DEF after
  <2> QED BY <1>2, <1>4
<1> QED BY <1>1, <1>5 DEF InOrder, next, last

OneFilter(s) == Len(s) = 1 /\ s[1] \in KnownNames

ThenLocal(s) == Len(s) = 2 /\ s[1] \in KnownNames /\ s[2] = "LocalIssuer"

OthersOnlySite(s) ==
    Len(s) = 3 /\ s[1] = "-OwnUser" /\ s[2] = "SitesAdmin" /\ s[3] = "LocalIssuer"

LEMMA FiltersShape ==
  ASSUME NEW s \in PlainFilters \cup OthersOnly
  PROVE  /\ s \in Seq(KnownNames)
         /\ s = <<>> \/ OneFilter(s) \/ ThenLocal(s) \/ OthersOnlySite(s)
         /\ s \in OthersOnly => s[1] = "-OwnUser" /\ Len(s) \in {2, 3}
<1> DEFINE shaped(x) == /\ x \in Seq(KnownNames)
                        /\ x = <<>> \/ OneFilter(x) \/ ThenLocal(x) \/ OthersOnlySite(x)
<1>1. /\ "LocalIssuer" \in KnownNames /\ "ExcludeAction" \in KnownNames /\ "OwnUser" \in KnownNames
      /\ "-OwnUser" \in KnownNames /\ "AssignedSitesCompanies" \in KnownNames
      /\ "AssignedSites" \in KnownNames /\ "SitesAdmin" \in KnownNames
      /\ "SitesOwner" \in KnownNames /\ "SitesAdminOrOwner" \in KnownNames
      /\ "SitesAdminUsers" \in KnownNames /\ "SitesOwnerUsers" \in KnownNames
  BY DEF KnownNames
<1>2. /\ shaped(<<>>)
      /\ \A a \in KnownNames : shaped(<<a>>) /\ shaped(<<a, "LocalIssuer">>)
      /\ shaped(<<"-OwnUser", "SitesAdmin", "LocalIssuer">>)
  BY <1>1 DEF OneFilter, ThenLocal, OthersOnlySite
<1>3. shaped(s)
  <2> HIDE DEF shaped
  <2> QED BY <1>1, <1>2 DEF PlainFilters, OthersOnly
<1>4. s \in OthersOnly => s[1] = "-OwnUser" /\ Len(s) \in {2, 3}
  BY DEF OthersOnly
<1> QED BY <1>3, <1>4

LEMMA DecisionNarrows ==
  ASSUME NEW context, NEW ask, NEW tenant, NEW data, NEW entity, NEW acc \in Results,
         acc = ProcessDynamicFilters(context.filters, ask, DataSources, tenant, data, entity),
         NEW result, result = Decide(context, ask, DataSources, tenant, data, entity)
  PROVE  SameData(result, acc) /\ (result.authorized => acc.authorized)
<1> DEFINE asserted == ProcessDynamicAsserts(context.asserts, data, entity)
<1>1. result = [acc EXCEPT !.authorized = acc.authorized /\ asserted]
  BY DEF Decide, Results
<1> HIDE DEF asserted
<1>2. CASE acc.authorized /\ asserted
  <2>1. result = [acc EXCEPT !.authorized = TRUE]
    BY <1>1, <1>2
  <2> QED BY <1>2, <2>1 DEF Results, SameData
<1>3. CASE ~ (acc.authorized /\ asserted)
  <2>1. result = [acc EXCEPT !.authorized = FALSE]
    BY <1>1, <1>3
  <2> QED BY <2>1 DEF Results, SameData
<1> QED BY <1>2, <1>3

\* A filter that lets everything through, or that looks at the request only.
LEMMA EasyFilters ==
  ASSUME NEW d
  PROVE  FilterHolds("LocalIssuer", d)
BY DEF FilterHolds

LEMMA FilterTyped ==
  ASSUME NEW name \in KnownNames, NEW acc \in Results, acc.userSites = {} \/ ~ acc.authorized,
         NEW ask, NEW tenant \in BOOLEAN, NEW data, NEW entity, NEW result,
         result = ProcessNext(name, acc, ask, DataSources, tenant, data, entity)
  PROVE  result \in Results /\ (result.authorized => acc.authorized)
<1> DEFINE d == [ask |-> ask, org |-> tenant, result |-> result]
<1>1. CASE ~ acc.authorized
  BY <1>1, ClosedStays
<1>2. CASE acc.authorized
  <2>1. d.ask = ask /\ d.org = tenant /\ SameData(d.result, result)
    BY DEF SameData
  <2> HIDE DEF d
  <2>2. FilterRight(name, ask, result, d)
    BY <1>2, <2>1, FilterProcessed, Zenon
  <2> QED BY <1>2, <2>2 DEF FilterRight
<1> QED BY <1>1, <1>2

LEMMA OthersOnlyAsks ==
  ASSUME NEW d, NEW e, d.ask = e.ask, FilterHolds("-OwnUser", d)
  PROVE  FilterHolds("-OwnUser", e)
<1>1. \A x : FilterHolds("-OwnUser", x) =
               ("UserID" \in DOMAIN x.ask => x.ask["UserID"] # {Self} \/ "TagIDs" \in DOMAIN x.ask)
  BY DEF FilterHolds
<1> QED BY <1>1

LEMMA DecisionHolds ==
  ASSUME NEW context, context.filters \in PlainFilters \cup OthersOnly, NEW ask,
         NEW tenant \in BOOLEAN, NEW data, NEW entity,
         NEW d, d.ask = ask, d.org = tenant,
         d.result = Decide(context, ask, DataSources, tenant, data, entity)
  PROVE  /\ d.result.authorized =>
               \A i \in DOMAIN context.filters : FilterHolds(context.filters[i], d)
         /\ context.filters \in OthersOnly /\ "UserID" \in DOMAIN ask /\ ask["UserID"] = {Self} =>
               ~ d.result.authorized
<1> DEFINE s == context.filters
           next(name, acc) == ProcessNext(name, acc, ask, DataSources, tenant, data, entity)
<1>1. /\ s \in Seq(KnownNames)
      /\ s = <<>> \/ OneFilter(s) \/ ThenLocal(s) \/ OthersOnlySite(s)
      /\ s \in OthersOnly => s[1] = "-OwnUser" /\ Len(s) \in {2, 3}
  BY FiltersShape
<1>2. Len(s) \in 0 .. 3
  BY <1>1 DEF OneFilter, ThenLocal, OthersOnlySite
<1>3. PICK after : InOrder(after, s, ask, tenant, data, entity)
  BY <1>2, ProcessedInOrder, Zenon
<1> DEFINE acc == after[Len(s)]
<1>4. NewFilter \in Results /\ NewFilter.authorized /\ NewFilter.userSites = {}
  BY DEF NewFilter, Results
<1>5. acc \in Results => SameData(d.result, acc) /\ (d.result.authorized => acc.authorized)
  <2> HIDE DEF acc
  <2>1. acc = ProcessDynamicFilters(context.filters, ask, DataSources, tenant, data, entity)
    BY <1>3 DEF acc, InOrder
  <2> QED BY <2>1, DecisionNarrows
<1> HIDE DEF s
<1>6. CASE s = <<>>
  BY <1>1, <1>6 DEF s
<1>7. ASSUME Len(s) \in 1 .. 3, s[1] \in KnownNames
      PROVE  /\ after[1] = next(s[1], NewFilter) /\ after[1] \in Results
             /\ \A e : e.ask = ask /\ e.org = tenant /\ SameData(e.result, after[1]) =>
                        FilterRight(s[1], ask, after[1], e)
  <2>1. after[1] = next(s[1], NewFilter)
    <3>1. 1 \in 1 .. Len(s) /\ 1 - 1 = 0
      BY <1>7
    <3>2. after[1] = next(s[1], after[1 - 1])
      BY <1>3, <3>1, Zenon DEF InOrder
    <3>3. after[0] = NewFilter
      BY <1>3 DEF InOrder
    <3> HIDE DEF next
    <3> QED BY <3>1, <3>2, <3>3
  <2> DEFINE result == after[1]
  <2>2. result \in Results
    BY <1>4, <1>7, <2>1, FilterTyped
  <2> HIDE DEF result
  <2>3. ASSUME NEW e, e.ask = ask, e.org = tenant, SameData(e.result, result)
        PROVE  FilterRight(s[1], ask, result, e)
    BY <1>4, <1>7, <2>1, <2>3, FilterProcessed, Zenon DEF result
  <2> QED BY <2>1, <2>2, <2>3 DEF result
<1>8. ASSUME NEW r \in Results
      PROVE  /\ next("LocalIssuer", r) \in Results /\ SameData(next("LocalIssuer", r), r)
             /\ next("LocalIssuer", r).authorized => r.authorized
  <2> DEFINE local == next("LocalIssuer", r)
  <2>1. local \in Results /\ SameData(local, r)
    BY <1>8, IssuerProcessed
  <2>2. local.authorized => r.authorized
    <3>1. CASE ~ r.authorized
      <4>1. local = r
        BY <3>1, ClosedStays
      <4> HIDE DEF local
      <4> QED BY <3>1, <4>1
    <3> QED BY <3>1
  <2> QED BY <2>1, <2>2
<1>9. ASSUME NEW n \in 1 .. Len(s)
      PROVE  after[n] = next(s[n], after[n - 1])
  BY <1>3, <1>9, Zenon DEF InOrder
<1> HIDE DEF next
<1>10. ASSUME NEW r, after[1] \in Results, SameData(r, after[1]), SameData(d.result, r)
       PROVE  SameData(d.result, after[1])
  BY <1>10 DEF SameData
<1>11. \A i \in DOMAIN s : i \in 1 .. Len(s)
  BY <1>1
<1>12. CASE OneFilter(s)
  <2>1. /\ after[1] \in Results /\ acc = after[1]
        /\ \A e : e.ask = ask /\ e.org = tenant /\ SameData(e.result, after[1]) =>
                   FilterRight(s[1], ask, after[1], e)
    BY <1>7, <1>12 DEF OneFilter, acc
  <2>2. FilterRight(s[1], ask, after[1], d) /\ (d.result.authorized => after[1].authorized)
    BY <1>5, <2>1
  <2>3. d.result.authorized => FilterHolds(s[1], d)
    BY <2>2 DEF FilterRight
  <2>4. s \notin OthersOnly /\ \A i \in DOMAIN s : i = 1
    BY <1>1, <1>11, <1>12 DEF OneFilter
  <2> QED BY <2>3, <2>4 DEF s
<1>13. CASE ThenLocal(s)
  <2>1. /\ after[1] \in Results /\ acc = after[2] /\ after[2] = next("LocalIssuer", after[1])
        /\ \A e : e.ask = ask /\ e.org = tenant /\ SameData(e.result, after[1]) =>
                   FilterRight(s[1], ask, after[1], e)
    <3>1. 2 \in 1 .. Len(s) /\ 2 - 1 = 1 /\ s[2] = "LocalIssuer" /\ Len(s) = 2
      BY <1>13 DEF ThenLocal
    <3>2. after[2] = next(s[2], after[2 - 1])
      BY <1>9, <3>1
    <3> QED BY <1>7, <1>13, <3>1, <3>2 DEF ThenLocal, acc
  <2>2. /\ after[2] \in Results /\ SameData(after[2], after[1])
        /\ after[2].authorized => after[1].authorized
    BY <1>8, <2>1
  <2>3. SameData(d.result, after[2]) /\ (d.result.authorized => after[2].authorized)
    BY <1>5, <2>1, <2>2
  <2>4. SameData(d.result, after[1])
    BY <1>10, <2>1, <2>2, <2>3
  <2>5. FilterRight(s[1], ask, after[1], d)
    BY <2>1, <2>4
  <2>6. d.result.authorized => FilterHolds(s[1], d) /\ FilterHolds(s[2], d)
    BY <1>13, <2>2, <2>3, <2>5, EasyFilters DEF FilterRight, ThenLocal
  <2>7. s \in OthersOnly /\ "UserID" \in DOMAIN ask /\ ask["UserID"] = {Self} => ~ d.result.authorized
    BY <1>1, <2>2, <2>3, <2>5 DEF FilterRight
  <2>8. \A i \in DOMAIN s : i = 1 \/ i = 2
    BY <1>11, <1>13 DEF ThenLocal
  <2> QED BY <2>6, <2>7, <2>8 DEF s
<1>14. CASE OthersOnlySite(s)
  <2>1. /\ after[1] \in Results /\ acc = after[3]
        /\ after[2] = next("SitesAdmin", after[1]) /\ after[3] = next("LocalIssuer", after[2])
        /\ \A e : e.ask = ask /\ e.org = tenant /\ SameData(e.result, after[1]) =>
                   FilterRight("-OwnUser", ask, after[1], e)
    <3>1. /\ 2 \in 1 .. Len(s) /\ 2 - 1 = 1 /\ 3 \in 1 .. Len(s) /\ 3 - 1 = 2 /\ Len(s) = 3
          /\ s[1] = "-OwnUser" /\ s[2] = "SitesAdmin" /\ s[3] = "LocalIssuer"
      BY <1>14 DEF OthersOnlySite
    <3>2. after[2] = next(s[2], after[2 - 1]) /\ after[3] = next(s[3], after[3 - 1])
      BY <1>9, <3>1
    <3>3. s[1] \in KnownNames
      BY <3>1 DEF KnownNames
    <3> QED BY <1>7, <3>1, <3>2, <3>3 DEF acc
  <2>2. /\ FilterHolds("-OwnUser", d) \/ ~ after[1].authorized
        /\ after[1].userSites = {}
        /\ "UserID" \in DOMAIN ask /\ ask["UserID"] = {Self} => ~ after[1].authorized
    <3> DEFINE e == [ask |-> ask, org |-> tenant, result |-> after[1]]
    <3>1. e.ask = ask /\ e.org = tenant /\ SameData(e.result, after[1])
      BY DEF SameData
    <3> HIDE DEF e
    <3>2. FilterRight("-OwnUser", ask, after[1], e)
      BY <2>1, <3>1
    <3>3. after[1].authorized => FilterHolds("-OwnUser", d)
      <4>1. ASSUME after[1].authorized
            PROVE  FilterHolds("-OwnUser", d)
        <5>1. FilterHolds("-OwnUser", e)
          BY <3>2, <4>1 DEF FilterRight
        <5> QED BY <3>1, <5>1, OthersOnlyAsks
      <4> QED BY <4>1
    <3> QED BY <3>2, <3>3 DEF FilterRight
  <2>3. "SitesAdmin" \in KnownNames
    BY DEF KnownNames
  <2>4. after[2] \in Results /\ (after[2].authorized => after[1].authorized)
    BY <2>1, <2>2, <2>3, FilterTyped DEF next
  <2>5. /\ after[3] \in Results /\ SameData(after[3], after[2])
        /\ after[3].authorized => after[2].authorized
    BY <1>8, <2>1, <2>4
  <2>6. SameData(d.result, after[2]) /\ (d.result.authorized => after[3].authorized)
    BY <1>5, <2>1, <2>5 DEF SameData
  <2>7. d.result.authorized => FilterHolds("SitesAdmin", d)
    <3>1. ASSUME d.result.authorized
          PROVE  FilterHolds("SitesAdmin", d)
      <4>1. after[1].authorized /\ after[2].authorized
        BY <2>4, <2>5, <2>6, <3>1
      <4> DEFINE result == after[2]
      <4>2. result = ProcessNext("SitesAdmin", after[1], ask, DataSources, tenant, data, entity)
        BY <2>1 DEF next
      <4>3. SameData(d.result, result) /\ result.authorized
        BY <2>6, <4>1
      <4> HIDE DEF result
      <4>4. FilterRight("SitesAdmin", ask, result, d)
        BY <2>1, <2>2, <2>3, <4>1, <4>2, <4>3, FilterProcessed, Zenon
      <4> QED BY <4>3, <4>4 DEF FilterRight
    <3> QED BY <3>1
  <2>8. d.result.authorized => FilterHolds("-OwnUser", d) /\ FilterHolds("LocalIssuer", d)
    BY <2>2, <2>4, <2>5, <2>6, EasyFilters
  <2>9. "UserID" \in DOMAIN ask /\ ask["UserID"] = {Self} => ~ d.result.authorized
    BY <2>2, <2>4, <2>5, <2>6
  <2>10. \A i \in DOMAIN s : i = 1 \/ i = 2 \/ i = 3
    BY <1>11, <1>14 DEF OthersOnlySite
  <2> QED BY <1>14, <2>7, <2>8, <2>9, <2>10 DEF s, OthersOnlySite
<1> QED BY <1>1, <1>6, <1>12, <1>13, <1>14

-----------------------------------------------------------------------------
(* Sessions: the groups of a token are those of the role in its hash.      *)

SessionUsers == [role : Roles, status : Statuses]

GroupsOfHash(t) ==
    \E user \in SessionUsers, adminOf, ownerOf \in SUBSET Sites :
       /\ t.hash = BuildUserHashID(user)
       /\ t.groups = GetAuthGroupsFromUser(user.role, adminOf, ownerOf)

SessionType ==
    /\ stored \in SessionUsers /\ org \in BOOLEAN
    /\ login.st = "read" => login.user \in SessionUsers

CallKnown ==
    call.st = "verified" => call.org \in BOOLEAN /\ GroupsOfHash(call.token)

SessionInv ==
    /\ SessionType
    /\ token # NoToken => GroupsOfHash(token)
    /\ CallKnown
    /\ NoOneDeletesHimself

LEMMA SessionStarts == SessionsInit => SessionInv
BY DEF SessionsInit, SessionInv, SessionType, CallKnown, NoOneDeletesHimself, NoLogin, NoCall,
       SessionUsers, Roles, Statuses

LEMMA TokenOfUser ==
  ASSUME NEW user \in SessionUsers, NEW tenant
  PROVE  GroupsOfHash(BuildUserToken(user, tenant))
<1> DEFINE adminOf == IF user.role = "A" THEN {} ELSE SitesWith("admin")
           ownerOf == SitesWith("owner")
           built == BuildUserToken(user, tenant)
<1>1. adminOf \in SUBSET Sites /\ ownerOf \in SUBSET Sites
  BY DEF SitesWith
<1>2. /\ built.hash = BuildUserHashID(user)
      /\ built.groups = GetAuthGroupsFromUser(user.role, adminOf, ownerOf)
  BY DEF BuildUserToken
<1> HIDE DEF adminOf, ownerOf, built
<1>3. GroupsOfHash(built)
  BY <1>1, <1>2 DEF GroupsOfHash
<1> QED BY <1>3 DEF built

\* What a decision is taken about, and with what.
Decided(q, ask, d) ==
    /\ q \in QuestionsOf[call.token.groups]
    /\ d.q = q /\ d.ask = ask /\ d.org = call.org
    /\ \E entity : q.dynamic =>
          d.result = Decide(q.context, ask, DataSources, call.org, q.data, entity)

LEMMA CallDecided ==
  ASSUME AuthorizeCall
  PROVE  /\ call.st = "verified" /\ call'.st = "decided"
         /\ \E q, ask : Decided(q, ask, call')
         /\ UNCHANGED <<stored, rights, org, login, token>>
<1>1. PICK q \in QuestionsOf[call.token.groups] : \E ask, entity : AuthorizeRequest(q, ask, entity)
  BY DEF AuthorizeCall
<1>2. PICK ask, entity : AuthorizeRequest(q, ask, entity)
  BY <1>1
<1>3. /\ call' = [st |-> "decided", q |-> q, ask |-> ask, org |-> call.org,
                  result |-> IF q.dynamic
                             THEN Decide(q.context, ask, DataSources, call.org, q.data, entity)
                             ELSE NewFilter]
      /\ UNCHANGED <<stored, rights, org, login, token>>
  BY <1>2 DEF AuthorizeRequest
<1>4. Decided(q, ask, call')
  <2> DEFINE result == IF q.dynamic
                       THEN Decide(q.context, ask, DataSources, call.org, q.data, entity)
                       ELSE NewFilter
  <2>1. q.dynamic => result = Decide(q.context, ask, DataSources, call.org, q.data, entity)
    OBVIOUS
  <2>2. /\ call'.q = q /\ call'.ask = ask /\ call'.org = call.org /\ call'.result = result
    BY <1>3
  <2> HIDE DEF result
  <2>3. q.dynamic => call'.result = Decide(q.context, ask, DataSources, call.org, q.data, entity)
    BY <2>1, <2>2
  <2> QED BY <1>1, <2>2, <2>3, Zenon DEF Decided
<1> QED BY <1>3, <1>4 DEF AuthorizeCall

\* What RightsAreStored says of one step.
LetIn ==
    (call.st = "idle" /\ call'.st = "verified") =>
       \E adminOf, ownerOf \in SUBSET Sites :
          call'.token.groups = GetAuthGroupsFromUser(stored.role, adminOf, ownerOf)

LetThrough ==
    (call.st = "verified" /\ call'.st = "decided" /\ call'.result.authorized /\ call'.q.dynamic) =>
       \A i \in DOMAIN call'.q.context.filters : FilterHolds(call'.q.context.filters[i], call')

\* A decision on a known question, and what it does not let through.
LEMMA DecidedRight ==
  ASSUME CallKnown, AuthorizeCall
  PROVE  LetThrough /\ NoOneDeletesHimself'
<1>1. /\ call.st = "verified" /\ call'.st = "decided"
      /\ \E q, ask : Decided(q, ask, call')
  BY CallDecided
<1>2. call.org \in BOOLEAN /\ GroupsOfHash(call.token)
  BY <1>1 DEF CallKnown
<1>3. PICK q : \E ask : Decided(q, ask, call')
  BY <1>1
<1>4. PICK ask : Decided(q, ask, call')
  BY <1>3
<1>5. call.token.groups \in AllGroups
  BY <1>2, GroupsOfUser DEF GroupsOfHash
<1>6. KnownQuestion(q)
  BY <1>4, <1>5, QuestionKnown DEF Decided
<1>7. call'.q = q /\ call'.ask = ask /\ call'.org = call.org
  BY <1>4 DEF Decided
<1>8. CASE q.dynamic
  <2>1. PICK entity : call'.result = Decide(q.context, ask, DataSources, call.org, q.data, entity)
    BY <1>4, <1>8 DEF Decided
  <2>2. /\ call'.result.authorized =>
              \A i \in DOMAIN q.context.filters : FilterHolds(q.context.filters[i], call')
        /\ q.context.filters \in OthersOnly /\ "UserID" \in DOMAIN ask /\ ask["UserID"] = {Self} =>
              ~ call'.result.authorized
    <3> DEFINE d == call'
               context == q.context
               tenant == call.org
    <3>1. /\ context.filters \in PlainFilters \cup OthersOnly /\ tenant \in BOOLEAN
          /\ d.ask = ask /\ d.org = tenant
          /\ d.result = Decide(context, ask, DataSources, tenant, q.data, entity)
      BY <1>2, <1>6, <1>7, <2>1 DEF KnownQuestion
    <3> HIDE DEF d, context, tenant
    <3>2. /\ d.result.authorized =>
                \A i \in DOMAIN context.filters : FilterHolds(context.filters[i], d)
          /\ context.filters \in OthersOnly /\ "UserID" \in DOMAIN ask /\ ask["UserID"] = {Self} =>
                ~ d.result.authorized
      BY <3>1, DecisionHolds, Zenon
    <3> QED BY <3>2 DEF d, context
  <2>3. LetThrough
    BY <1>7, <2>2 DEF LetThrough
  <2>4. NoOneDeletesHimself'
    BY <1>6, <1>7, <2>2 DEF NoOneDeletesHimself, KnownQuestion
  <2> QED BY <2>3, <2>4
<1>9. CASE ~ q.dynamic
  BY <1>7, <1>9 DEF LetThrough, NoOneDeletesHimself
<1> QED BY <1>8, <1>9

LEMMA SessionPreserved == SessionInv /\ [SessionsNext]_sessionVars => SessionInv'
<1> SUFFICES ASSUME SessionInv, [SessionsNext]_sessionVars
             PROVE  SessionInv'
  OBVIOUS
<1> USE DEF SessionInv
<1>1. CASE LogInReads
  BY <1>1 DEF LogInReads, SessionType, GroupsOfHash, CallKnown, NoOneDeletesHimself
<1>2. CASE UserLoginSucceeded
  <2>1. login.user \in SessionUsers
    BY <1>2 DEF UserLoginSucceeded, SessionType
  <2>2. token' = BuildUserToken(login.user, login.org)
    BY <1>2 DEF UserLoginSucceeded
  <2>3. GroupsOfHash(token')
    <3> DEFINE built == BuildUserToken(login.user, login.org)
    <3>1. GroupsOfHash(built)
      BY <2>1, TokenOfUser
    <3> HIDE DEF built
    <3> QED BY <2>2, <3>1 DEF built
  <2>4. SessionType' /\ CallKnown' /\ NoOneDeletesHimself'
    BY <1>2 DEF UserLoginSucceeded, SessionType, CallKnown, NoOneDeletesHimself, NoLogin
  <2> QED BY <2>3, <2>4 DEF GroupsOfHash
<1>3. CASE CheckUserAndTenantValidity
  <2>1. /\ token # NoToken /\ call' = [st |-> "verified", org |-> org, token |-> token]
        /\ UNCHANGED <<stored, org, login, token>>
    BY <1>3 DEF CheckUserAndTenantValidity
  <2> QED BY <2>1 DEF SessionType, GroupsOfHash, CallKnown, NoOneDeletesHimself
<1>4. CASE AuthorizeCall
  <2>1. NoOneDeletesHimself'
    BY <1>4, DecidedRight
  <2>2. call'.st = "decided" /\ UNCHANGED <<stored, org, login, token>>
    BY <1>4, CallDecided
  <2> QED BY <2>1, <2>2 DEF SessionType, GroupsOfHash, CallKnown
<1>5. CASE EndRequest
  BY <1>5 DEF EndRequest, NoCall, SessionType, GroupsOfHash, CallKnown, NoOneDeletesHimself
<1>6. CASE ChangeUser
  BY <1>6 DEF ChangeUser, SessionType, SessionUsers, GroupsOfHash, CallKnown, NoOneDeletesHimself
<1>7. CASE ChangeSite
  BY <1>7 DEF ChangeSite, SessionType, GroupsOfHash, CallKnown, NoOneDeletesHimself
<1>8. CASE ChangeComponents
  BY <1>8 DEF ChangeComponents, SessionType, GroupsOfHash, CallKnown, NoOneDeletesHimself
<1>9. CASE UNCHANGED sessionVars
  BY <1>9 DEF sessionVars, SessionType, GroupsOfHash, CallKnown, NoOneDeletesHimself
<1> QED BY <1>1, <1>2, <1>3, <1>4, <1>5, <1>6, <1>7, <1>8, <1>9 DEF SessionsNext

LEMMA RightsStep == SessionInv /\ [SessionsNext]_sessionVars => LetIn /\ LetThrough
<1> SUFFICES ASSUME SessionInv, [SessionsNext]_sessionVars
             PROVE  LetIn /\ LetThrough
  OBVIOUS
<1>1. CASE CheckUserAndTenantValidity
  <2>1. /\ token # NoToken /\ token.hash = BuildUserHashID(stored)
        /\ call' = [st |-> "verified", org |-> org, token |-> token]
    BY <1>1 DEF CheckUserAndTenantValidity
  <2>2. PICK user \in SessionUsers, adminOf \in SUBSET Sites, ownerOf \in SUBSET Sites :
           /\ token.hash = BuildUserHashID(user)
           /\ token.groups = GetAuthGroupsFromUser(user.role, adminOf, ownerOf)
    BY <2>1 DEF SessionInv, GroupsOfHash
  <2>3. user.role = stored.role
    BY <2>1, <2>2 DEF BuildUserHashID
  <2>4. call'.token.groups = GetAuthGroupsFromUser(stored.role, adminOf, ownerOf)
    BY <2>1, <2>2, <2>3
  <2> QED BY <2>1, <2>4 DEF LetIn, LetThrough
<1>2. CASE AuthorizeCall
  BY <1>2, CallDecided, DecidedRight DEF SessionInv, LetIn
<1>3. CASE EndRequest
  BY <1>3 DEF EndRequest, NoCall, LetIn, LetThrough
<1>4. CASE UNCHANGED call
  BY <1>4 DEF LetIn, LetThrough
<1> QED BY <1>1, <1>2, <1>3, <1>4
        DEF SessionsNext, LogInReads, UserLoginSucceeded, ChangeUser, ChangeSite,
            ChangeComponents, sessionVars

-----------------------------------------------------------------------------
(* Lists: the documents that match come each once, and the pages already   *)
(* read are their beginning.                                               *)

Numbered(s) ==
    \E D : /\ s \in Seq(D)
           /\ \A i \in DOMAIN s : s[i].id = i

Rising(s, n) ==
    /\ \A i \in 1 .. Len(s) : s[i].id \in 1 .. n
    /\ \A i, j \in 1 .. Len(s) : i < j => s[i].id < s[j].id

\* The elements of s at the places in K, up to each place.
Selects(upTo, s, K, last) ==
    upTo = [n \in 0 .. last |->
              IF n = 0 THEN <<>>
              ELSE IF n \in K THEN Append(upTo[n - 1], s[n]) ELSE upTo[n - 1]]

\* The definition by recursion has a solution.
LEMMA UpToExists ==
  ASSUME NEW s, NEW K, NEW last \in Nat
  PROVE  \E upTo : Selects(upTo, s, K, last)
<1> DEFINE body(n, f) == [k \in 0 .. n |-> IF k = 0 THEN <<>>
                                           ELSE IF k \in K THEN Append(f[k - 1], s[k]) ELSE f[k - 1]]
           without == {n \in Nat : ~ \E f : f = body(n, f)}
<1>1. without = {}
  <2>1. ASSUME without # {}
        PROVE  FALSE
    <3>1. PICK n \in without : \A m \in without : ~ (m < n)
      <4>1. PICK n \in without : \A m \in without : <<m, n>> \notin OpToRel(<, Nat)
        BY <2>1, NatLessThanWellFounded, WFMin
      <4> QED BY <4>1 DEF OpToRel
    <3>2. CASE n = 0
      <4> DEFINE f == [k \in 0 .. 0 |-> <<>>]
      <4>1. f = body(0, f)
        OBVIOUS
      <4> QED BY <3>2, <4>1
    <3>3. CASE n # 0
      <4>1. n - 1 \in Nat /\ n - 1 < n
        BY <3>3
      <4>2. n - 1 \notin without
        BY <3>1, <4>1
      <4>3. PICK f : f = body(n - 1, f)
        BY <4>1, <4>2
      <4> DEFINE g == [k \in 0 .. n |-> IF k = n
                                        THEN IF n \in K THEN Append(f[n - 1], s[n]) ELSE f[n - 1]
                                        ELSE f[k]]
      <4>4. ASSUME NEW k \in 0 .. n
            PROVE  g[k] = body(n, g)[k]
        <5>1. CASE k = n
          BY <3>3, <4>1, <5>1
        <5>2. CASE k # n
          <6>1. k \in 0 .. n - 1 /\ k # n /\ (k # 0 => k - 1 \in 0 .. n /\ k - 1 # n)
            BY <5>2
          <6>2. f[k] = body(n - 1, f)[k]
            BY <4>3
          <6>3. k # 0 => g[k - 1] = f[k - 1]
            BY <6>1
          <6> QED BY <6>1, <6>2, <6>3
        <5> QED BY <5>1, <5>2
      <4>5. g = body(n, g)
        BY <4>4
      <4> QED BY <4>5
    <3> QED BY <3>2, <3>3
  <2> QED BY <2>1
<1> QED BY <1>1 DEF Selects

LEMMA UpToRises ==
  ASSUME NEW D, NEW s \in Seq(D), \A i \in DOMAIN s : s[i].id = i, NEW K, NEW upTo,
         Selects(upTo, s, K, Len(s))
  PROVE  \A n \in 0 .. Len(s) : upTo[n] \in Seq(D) /\ Rising(upTo[n], n)
<1> USE DEF Selects
<1> DEFINE right(n) == upTo[n] \in Seq(D) /\ Rising(upTo[n], n)
           wrong == {n \in 0 .. Len(s) : ~ right(n)}
<1>1. ASSUME wrong # {}
      PROVE  FALSE
  <2>1. PICK n \in wrong : \A m \in wrong : ~ (m < n)
    <3>1. wrong \subseteq Nat
      OBVIOUS
    <3>2. PICK n \in wrong : \A m \in wrong : <<m, n>> \notin OpToRel(<, Nat)
      BY <1>1, <3>1, NatLessThanWellFounded, WFMin
    <3> QED BY <3>1, <3>2 DEF OpToRel
  <2>2. n \in 0 .. Len(s) /\ ~ right(n)
    OBVIOUS
  <2>3. CASE n = 0
    BY <2>2, <2>3 DEF Rising
  <2>4. CASE n # 0
    <3>1. n - 1 \in 0 .. Len(s) /\ n - 1 < n /\ n \in DOMAIN s
      BY <2>2, <2>4
    <3>2. right(n - 1)
      BY <2>1, <3>1
    <3> DEFINE before == upTo[n - 1]
    <3>3. upTo[n] = IF n \in K THEN Append(before, s[n]) ELSE before
      BY <2>2, <2>4
    <3>4. before \in Seq(D) /\ Rising(before, n - 1) /\ s[n] \in D /\ s[n].id = n
      BY <3>1, <3>2
    <3> HIDE DEF before
    <3>5. Append(before, s[n]) \in Seq(D) /\ Rising(Append(before, s[n]), n)
      <4> DEFINE after == Append(before, s[n])
      <4>1. after \in Seq(D) /\ Len(after) = Len(before) + 1 /\ Len(before) \in Nat
        BY <3>4
      <4>2. /\ \A i \in 1 .. Len(before) : after[i] = before[i]
            /\ after[Len(before) + 1] = s[n]
        BY <3>4
      <4> HIDE DEF after
      <4>3. \A i \in 1 .. Len(after) : i \in 1 .. Len(before) \/ i = Len(before) + 1
        BY <4>1
      <4>4. ASSUME NEW i \in 1 .. Len(after)
            PROVE  after[i].id \in 1 .. n
        <5>1. CASE i \in 1 .. Len(before)
          <6>1. after[i].id = before[i].id /\ before[i].id \in 1 .. n - 1
            BY <3>4, <4>2, <5>1 DEF Rising
          <6> QED BY <3>1, <6>1
        <5>2. CASE i = Len(before) + 1
          <6>1. after[i].id = n
            BY <3>4, <4>2, <5>2
          <6> QED BY <2>2, <2>4, <6>1
        <5> QED BY <4>3, <5>1, <5>2
      <4>5. ASSUME NEW i \in 1 .. Len(after), NEW j \in 1 .. Len(after), i < j
            PROVE  after[i].id < after[j].id
        <5>1. i \in 1 .. Len(before)
          BY <4>1, <4>5
        <5>2. after[i].id = before[i].id /\ before[i].id \in 1 .. n - 1
          BY <3>4, <4>2, <5>1 DEF Rising
        <5>3. CASE j \in 1 .. Len(before)
          BY <3>4, <4>2, <4>5, <5>1, <5>3 DEF Rising
        <5>4. CASE j = Len(before) + 1
          BY <2>2, <2>4, <3>4, <4>2, <5>2, <5>4
        <5> QED BY <4>3, <5>3, <5>4
      <4>6. Rising(after, n)
        BY <4>4, <4>5 DEF Rising
      <4> QED BY <4>1, <4>6 DEF after
    <3>6. before \in Seq(D) /\ Rising(before, n)
      BY <2>2, <2>4, <3>4 DEF Rising
    <3> QED BY <2>2, <3>3, <3>5, <3>6
  <2> QED BY <2>3, <2>4
<1> QED BY <1>1

LEMMA FoundKnown ==
  ASSUME Numbered(store)
  PROVE  \E D : /\ Found \in Seq(D)
                /\ \A i, j \in 1 .. Len(Found) : Found[i] = Found[j] => i = j
<1>1. PICK D : store \in Seq(D) /\ \A i \in DOMAIN store : store[i].id = i
  BY DEF Numbered
<1> DEFINE last == Len(store)
           upTo == CHOOSE f : Selects(f, store, Matching, last)
<1>2. Found = upTo[last]
  BY DEF Found, Selects
<1>3. last \in Nat
  BY <1>1
<1>4. Selects(upTo, store, Matching, last)
  <2>1. \E f : Selects(f, store, Matching, last)
    BY <1>3, UpToExists
  <2> QED BY <2>1
<1> HIDE DEF upTo
<1>5. upTo[last] \in Seq(D) /\ Rising(upTo[last], last)
  BY <1>1, <1>3, <1>4, UpToRises
<1>6. Found \in Seq(D) /\ Rising(Found, last)
  BY <1>2, <1>5
<1>7. ASSUME NEW i \in 1 .. Len(Found), NEW j \in 1 .. Len(Found), Found[i] = Found[j]
      PROVE  i = j
  <2>1. ~ (i < j) /\ ~ (j < i)
    BY <1>3, <1>6, <1>7 DEF Rising
  <2> QED BY <2>1
<1> QED BY <1>6, <1>7

RequestKeys == {"st", "n", "u", "org", "params", "export", "count", "skip", "shown", "disturbed"}

\* The state of a list nobody has disturbed.
PagesRead ==
    /\ Numbered(store) /\ request.skip \in Nat
    /\ request.st = "page" => request.count = CountFromDatabase(Len(Found), Ceil)
    /\ request.export =>
          IF request.st = "done" THEN request.shown = Page(Found, 0, ExportPageSize)
          ELSE request.skip = 0 /\ request.shown = <<>>
    /\ ~ request.export =>
          IF request.st = "done" THEN request.shown = Found
          ELSE request.skip <= Len(Found) /\ request.shown = SubSeq(Found, 1, request.skip)

ListInv ==
    request.st \in {"count", "page", "done"} =>
       /\ DOMAIN request = RequestKeys
       /\ ~ request.disturbed => PagesRead

LEMMA ListStarts == Init => ListInv
BY DEF Init, Idle, ListInv

LEMMA FoundKnownNext == Numbered(store)' => (\E D : Found \in Seq(D))'
<1>1. Numbered(store) => \E D : Found \in Seq(D)
  BY FoundKnown
<1> QED BY <1>1, PTL

LEMMA FoundStays ==
  ASSUME store' = store, request'.n = request.n, request'.params = request.params
  PROVE  Found' = Found
BY DEF Found, Matching

LEMMA PageOfFound ==
  ASSUME NEW D, NEW s \in Seq(D), NEW skip \in Nat, NEW limit \in Nat, skip <= Len(s)
  PROVE  LET last == IF skip + limit < Len(s) THEN skip + limit ELSE Len(s)
         IN  /\ Len(Page(s, skip, limit)) = last - skip
             /\ SubSeq(s, 1, skip) \o Page(s, skip, limit) = SubSeq(s, 1, last)
<1> DEFINE last == IF skip + limit < Len(s) THEN skip + limit ELSE Len(s)
<1>1. /\ last \in skip .. Len(s) /\ Len(s) \in Nat
      /\ 1 \in 1 .. Len(s) + 1 /\ skip \in 1 - 1 .. Len(s)
  OBVIOUS
<1>2. Page(s, skip, limit) = SubSeq(s, skip + 1, last)
  BY DEF Page
<1> HIDE DEF last
<1>3. SubSeq(s, 1, skip) \o SubSeq(s, skip + 1, last) = SubSeq(s, 1, last)
  BY <1>1, ConcatAdjacentSubSeq
<1>4. Len(SubSeq(s, skip + 1, last)) = last - skip
  <2>1. skip + 1 \in Int /\ last \in Int /\ \A i \in skip + 1 .. last : s[i] \in D
    BY <1>1
  <2>2. Len(SubSeq(s, skip + 1, last)) = IF skip + 1 <= last THEN last - (skip + 1) + 1 ELSE 0
    BY <2>1, SubSeqProperties
  <2> QED BY <1>1, <2>2
<1> QED BY <1>2, <1>3, <1>4 DEF last

\* An export whose count is known ends with its first page.
LEMMA CountFits ==
  ASSUME NEW n \in Nat
  PROVE  /\ ~ (ExportPageSize < CountFromDatabase(n, Ceil))
         /\ CountFromDatabase(n, Ceil) \in Int
         /\ CountFromDatabase(n, Ceil) >= 0 => CountFromDatabase(n, Ceil) = n
BY PagesAssumption DEF CountFromDatabase

LEMMA ListAuthorized ==
  ASSUME Authorize
  PROVE  ListInv'
<1>1. /\ request.st = "asked"
      /\ AuthorizeList(HandlerSeq[request.n], Can[request.n, request.u].context)
  BY DEF Authorize
<1>2. \/ request' = [st |-> "denied"]
      \/ \E h, names, params, export : StartList(h, names, params, export)
  BY <1>1, Zenon DEF AuthorizeList
<1>3. CASE request' = [st |-> "denied"]
  BY <1>3 DEF ListInv
<1>4. CASE \E h, names, params, export : StartList(h, names, params, export)
  <2>1. PICK h, names, params, export : StartList(h, names, params, export)
    BY <1>4
  <2>2. /\ request' = [st |-> "count", n |-> request.n, u |-> request.u, org |-> request.org,
                       params |-> params, export |-> export, count |-> 0, skip |-> 0,
                       shown |-> <<>>, disturbed |-> FALSE]
        /\ \E doc : store' = [i \in 1 .. Documents |-> [id |-> i, doc |-> doc[i]]]
    <3>1. PICK v : store' = [i \in 1 .. Documents |->
                       [id |-> i, doc |-> IF i = 2 THEN v @@ Plain(h, params, names)
                                          ELSE Plain(h, params, names)]]
      BY <2>1 DEF StartList
    <3> DEFINE doc == [i \in 1 .. Documents |-> IF i = 2 THEN v @@ Plain(h, params, names)
                                                ELSE Plain(h, params, names)]
    <3>2. store' = [i \in 1 .. Documents |-> [id |-> i, doc |-> doc[i]]]
      BY <3>1
    <3> HIDE DEF doc
    <3>3. request' = [st |-> "count", n |-> request.n, u |-> request.u, org |-> request.org,
                      params |-> params, export |-> export, count |-> 0, skip |-> 0,
                      shown |-> <<>>, disturbed |-> FALSE]
      BY <2>1, Zenon DEF StartList
    <3> QED BY <3>2, <3>3
  <2>3. Numbered(store')
    <3>1. PICK doc : store' = [i \in 1 .. Documents |-> [id |-> i, doc |-> doc[i]]]
      BY <2>2
    <3> DEFINE D == {store'[i] : i \in 1 .. Documents}
    <3>2. store' \in Seq(D) /\ DOMAIN store' = 1 .. Documents
      BY <3>1, PagesAssumption
    <3>3. \A i \in DOMAIN store' : store'[i].id = i
      BY <3>1, <3>2
    <3> HIDE DEF D
    <3> QED BY <3>2, <3>3 DEF Numbered
  <2>4. /\ request'.st = "count" /\ request'.skip = 0 /\ request'.shown = <<>>
        /\ DOMAIN request' = RequestKeys
    BY <2>2 DEF RequestKeys
  <2>5. Len(Found') \in Nat
    BY <2>3, FoundKnownNext DEF Numbered
  <2>6. SubSeq(Found', 1, 0) = <<>>
    BY SubSeqEmpty
  <2>7. PagesRead'
    BY <2>3, <2>4, <2>5, <2>6 DEF PagesRead
  <2> QED BY <2>4, <2>7 DEF ListInv
<1> QED BY <1>2, <1>3, <1>4

LEMMA PageRead ==
  ASSUME ListInv, ReadPage
  PROVE  ListInv'
<1> DEFINE page == Page(Found, request.skip, Limit)
           last == IF request.count >= 0 THEN request.skip + Limit >= request.count
                   ELSE Len(page) < Limit
<1>1. /\ request.st = "page" /\ ~ request.export /\ store' = store
      /\ request' = [request EXCEPT !.shown = request.shown \o page, !.skip = request.skip + Limit,
                                    !.st = IF last THEN "done" ELSE "count"]
  BY DEF ReadPage
<1>2. DOMAIN request = RequestKeys
  BY <1>1 DEF ListInv
<1> HIDE DEF page, last
<1>3. /\ DOMAIN request' = RequestKeys /\ request'.n = request.n /\ request'.params = request.params
      /\ request'.export = request.export /\ request'.disturbed = request.disturbed
      /\ request'.shown = request.shown \o page /\ request'.skip = request.skip + Limit
      /\ request'.st = IF last THEN "done" ELSE "count"
  BY <1>1, <1>2 DEF RequestKeys
<1>4. ASSUME ~ request.disturbed
      PROVE  PagesRead'
  <2>1. /\ Numbered(store) /\ request.skip \in Nat
        /\ request.count = CountFromDatabase(Len(Found), Ceil)
        /\ request.skip <= Len(Found) /\ request.shown = SubSeq(Found, 1, request.skip)
    BY <1>1, <1>4 DEF ListInv, PagesRead
  <2>2. PICK D : Found \in Seq(D)
    BY <2>1, FoundKnown
  <2>3. Found' = Found
    BY <1>1, <1>3, FoundStays
  <2> DEFINE end == IF request.skip + Limit < Len(Found) THEN request.skip + Limit ELSE Len(Found)
             length == Len(Found)
  <2>4. Limit \in Nat /\ Limit # 0
    BY PagesAssumption
  <2>5. Len(page) = end - request.skip /\ request.shown \o page = SubSeq(Found, 1, end)
    BY <2>1, <2>2, <2>4, PageOfFound DEF page
  <2>6. length \in Nat /\ (request.count >= 0 => request.count = length)
    BY <2>1, <2>2, CountFits
  <2>7. IF last THEN end = length ELSE end = request.skip + Limit /\ request.skip + Limit <= length
    BY <2>1, <2>4, <2>5, <2>6 DEF last
  <2>8. Numbered(store)' /\ request'.skip \in Nat
    BY <1>1, <1>3, <2>1, <2>4 DEF Numbered
  <2>9. CASE last
    <3>1. request'.st = "done" /\ request'.shown = Found
      BY <1>3, <2>2, <2>5, <2>7, <2>9, SubSeqFull
    <3> QED BY <1>1, <1>3, <2>3, <2>8, <3>1 DEF PagesRead
  <2>10. CASE ~ last
    <3>1. /\ request'.st = "count" /\ request'.skip <= length
          /\ request'.shown = SubSeq(Found, 1, request'.skip)
      BY <1>3, <2>5, <2>7, <2>10
    <3> QED BY <1>1, <1>3, <2>3, <2>8, <3>1 DEF PagesRead
  <2> QED BY <2>9, <2>10
<1> QED BY <1>3, <1>4 DEF ListInv

LEMMA PageExported ==
  ASSUME ListInv, ExportPage
  PROVE  ListInv'
<1> DEFINE more == request.skip + ExportPageSize < request.count
<1>1. /\ request.st = "page" /\ request.export /\ store' = store
      /\ request' = [request EXCEPT !.shown = request.shown \o Page(Found, 0, ExportPageSize),
                                    !.skip = request.skip + ExportPageSize,
                                    !.st = IF more THEN "page" ELSE "done"]
  BY DEF ExportPage
<1>2. DOMAIN request = RequestKeys
  BY <1>1 DEF ListInv
<1> HIDE DEF more
<1>3. /\ DOMAIN request' = RequestKeys /\ request'.n = request.n /\ request'.params = request.params
      /\ request'.export = request.export /\ request'.disturbed = request.disturbed
      /\ request'.shown = request.shown \o Page(Found, 0, ExportPageSize)
      /\ request'.skip = request.skip + ExportPageSize
      /\ request'.st = IF more THEN "page" ELSE "done"
  BY <1>1, <1>2 DEF RequestKeys
<1>4. ASSUME ~ request.disturbed
      PROVE  PagesRead'
  <2>1. /\ Numbered(store) /\ request.skip = 0 /\ request.shown = <<>>
        /\ request.count = CountFromDatabase(Len(Found), Ceil)
    BY <1>1, <1>4 DEF ListInv, PagesRead
  <2>2. PICK D : Found \in Seq(D)
    BY <2>1, FoundKnown
  <2>3. Found' = Found
    BY <1>1, <1>3, FoundStays
  <2>4. ~ more
    <3>1. Len(Found) \in Nat
      BY <2>2
    <3> QED BY <2>1, <3>1, CountFits, PagesAssumption DEF more
  <2>5. ExportPageSize \in Nat
    BY PagesAssumption
  <2>6. <<>> \o Page(Found, 0, ExportPageSize) = Page(Found, 0, ExportPageSize)
    <3> DEFINE last == IF 0 + ExportPageSize < Len(Found) THEN 0 + ExportPageSize ELSE Len(Found)
    <3>1. Page(Found, 0, ExportPageSize) = SubSeq(Found, 0 + 1, last)
      BY DEF Page
    <3>2. 0 + 1 \in Int /\ last \in Int /\ \A i \in 0 + 1 .. last : Found[i] \in D
      BY <2>2, <2>5
    <3> HIDE DEF last
    <3>3. SubSeq(Found, 0 + 1, last) \in Seq(D)
      BY <3>2, SubSeqProperties
    <3> QED BY <3>1, <3>3
  <2>7. request'.st = "done" /\ request'.shown = Page(Found, 0, ExportPageSize)
    BY <1>3, <2>1, <2>4, <2>6
  <2>8. Numbered(store)' /\ request'.skip \in Nat
    BY <1>1, <1>3, <2>1, <2>5 DEF Numbered
  <2> QED BY <1>1, <1>3, <2>3, <2>7, <2>8 DEF PagesRead
<1> QED BY <1>3, <1>4 DEF ListInv

LEMMA CountRead ==
  ASSUME ListInv, Count
  PROVE  ListInv'
<1>1. /\ request.st = "count" /\ store' = store
      /\ request' = [request EXCEPT !.st = "page", !.count = CountFromDatabase(Len(Found), Ceil)]
  BY DEF Count
<1>2. DOMAIN request = RequestKeys
  BY <1>1 DEF ListInv
<1>3. /\ DOMAIN request' = RequestKeys /\ request'.n = request.n /\ request'.params = request.params
      /\ request'.export = request.export /\ request'.disturbed = request.disturbed
      /\ request'.shown = request.shown /\ request'.skip = request.skip
      /\ request'.count = CountFromDatabase(Len(Found), Ceil) /\ request'.st = "page"
  BY <1>1, <1>2 DEF RequestKeys
<1>4. Found' = Found
  BY <1>1, <1>3, FoundStays
<1>5. ~ request.disturbed => PagesRead'
  BY <1>1, <1>3, <1>4 DEF ListInv, PagesRead, Numbered
<1> QED BY <1>3, <1>5 DEF ListInv

LEMMA ListPreserved == ListInv /\ [Next \/ OneNext]_vars => ListInv'
<1> SUFFICES ASSUME ListInv, [Next \/ OneNext]_vars
             PROVE  ListInv'
  OBVIOUS
<1>1. CASE Ask
  <2>1. PICK n, u, tenant : request' = [st |-> "asked", n |-> n, u |-> u, org |-> tenant]
    BY <1>1, Zenon DEF Ask
  <2> QED BY <2>1 DEF ListInv
<1>2. CASE Authorize
  BY <1>2, ListAuthorized
<1>3. CASE Count
  BY <1>3, CountRead
<1>4. CASE ReadPage
  BY <1>4, PageRead
<1>5. CASE ExportPage
  BY <1>5, PageExported
<1>6. CASE Write
  <2>1. request.st \in {"count", "page"} /\ request' = [request EXCEPT !.disturbed = TRUE]
    BY <1>6 DEF Write
  <2>2. DOMAIN request = RequestKeys
    BY <2>1 DEF ListInv
  <2>3. DOMAIN request' = RequestKeys /\ request'.disturbed
    BY <2>1, <2>2 DEF RequestKeys
  <2> QED BY <2>3 DEF ListInv
<1>7. CASE AskOne
  <2>1. request'.st \in {"one", "denied"}
    <3>1. PICK h, u, tenant, ids, context : AuthorizeOne(h, u, tenant, ids, context)
      BY <1>7, Zenon DEF AskOne
    <3>2. \/ request' = [st |-> "denied"]
          \/ \E names, params : StartOne(h, u, tenant, ids, names, params)
      BY <3>1, Zenon DEF AuthorizeOne
    <3>3. ASSUME NEW names, NEW params, StartOne(h, u, tenant, ids, names, params)
          PROVE  request'.st = "one"
      <4>1. request' = [st |-> "one", h |-> h, u |-> u, org |-> tenant, params |-> params,
                        ids |-> ids, shown |-> <<>>]
        BY <3>3, Zenon DEF StartOne
      <4> QED BY <4>1
    <3>4. CASE \E names, params : StartOne(h, u, tenant, ids, names, params)
      BY <3>3, <3>4
    <3>5. CASE request' = [st |-> "denied"]
      BY <3>5
    <3> QED BY <3>2, <3>4, <3>5
  <2> QED BY <2>1 DEF ListInv
<1>8. CASE GetOne
  <2>1. request.st = "one" /\ request'.st \in {"got", "denied", "one"}
    BY <1>8 DEF GetOne
  <2> QED BY <2>1 DEF ListInv
<1>9. CASE UNCHANGED vars
  <2>1. request' = request /\ store' = store
    BY <1>9 DEF vars
  <2>2. Found' = Found
    BY <2>1, FoundStays
  <2> QED BY <2>1, <2>2 DEF ListInv, PagesRead, Numbered
<1> QED BY <1>1, <1>2, <1>3, <1>4, <1>5, <1>6, <1>7, <1>8, <1>9 DEF Next, OneNext

LEMMA ListConclusion == ListInv => PagesAgree
<1> SUFFICES ASSUME ListInv, request.st = "done", ~ request.disturbed
             PROVE  IF request.export THEN IsInjective(request.shown) ELSE request.shown = Found
  BY DEF PagesAgree
<1>1. PagesRead
  BY DEF ListInv
<1>2. PICK D : /\ Found \in Seq(D)
               /\ \A i, j \in 1 .. Len(Found) : Found[i] = Found[j] => i = j
  BY <1>1, FoundKnown DEF PagesRead
<1>3. CASE request.export
  <2> DEFINE last == IF 0 + ExportPageSize < Len(Found) THEN 0 + ExportPageSize ELSE Len(Found)
  <2>1. request.shown = SubSeq(Found, 0 + 1, last)
    BY <1>1, <1>3 DEF PagesRead, Page
  <2>2. last \in 0 .. Len(Found) /\ \A i \in 1 .. last : Found[i] \in D
    BY <1>2, PagesAssumption
  <2> HIDE DEF last
  <2>3. /\ request.shown \in Seq(D) /\ Len(request.shown) = last
        /\ \A i \in 1 .. last : request.shown[i] = Found[i]
    <3>1. 1 \in Int /\ last \in Int
      BY <2>2
    <3>2. /\ SubSeq(Found, 1, last) \in Seq(D)
          /\ Len(SubSeq(Found, 1, last)) = IF 1 <= last THEN last - 1 + 1 ELSE 0
          /\ \A i \in 1 .. last - 1 + 1 : SubSeq(Found, 1, last)[i] = Found[1 + i - 1]
      BY <2>2, <3>1, SubSeqProperties
    <3> QED BY <2>1, <2>2, <3>2
  <2>4. IsInjective(request.shown)
    BY <1>2, <2>2, <2>3 DEF IsInjective
  <2> QED BY <1>3, <2>4
<1>4. CASE ~ request.export
  BY <1>1, <1>4 DEF PagesRead
<1> QED BY <1>3, <1>4

-----------------------------------------------------------------------------
(* The specification. *)

LEMMA AccessInvariant == MCSpec => [](AccountInv /\ SessionInv /\ ListInv)
<1>1. MCInit => AccountInv /\ SessionInv /\ ListInv
  BY AccountStarts, SessionStarts, ListStarts DEF MCInit
<1>2. AccountInv /\ SessionInv /\ ListInv /\ [MCNext]_<<vars, sessionVars, aVars, focus>>
      => AccountInv' /\ SessionInv' /\ ListInv'
  <2>1. [MCNext]_<<vars, sessionVars, aVars, focus>> =>
           [A!Next]_aVars /\ [SessionsNext]_sessionVars /\ [Next \/ OneNext]_vars
    BY DEF MCNext
  <2> QED BY <2>1, AccountPreserved, SessionPreserved, ListPreserved
<1> QED BY <1>1, <1>2, PTL DEF MCSpec

\* A lock after wrong passwords ends by itself unless a login wrote with a
\* stale copy of the user, an account that may be used has a role unless its
\* registration was interrupted, and nobody passes the check to delete his own
\* account (AuthService, processOwnUserFilter).
THEOREM AccountsAlwaysAgree == MCSpec => []AccountsAgree
<1>1. AccountInv /\ SessionInv => AccountsAgree
  BY AccountConclusion DEF SessionInv, AccountsAgree
<1> QED BY <1>1, AccessInvariant, PTL

\* A request is let in with the groups of the stored role, and a decision lets
\* through only what the storage gives the user when it is taken
\* (checkUserAndTenantValidity, processDynamicFilters).
THEOREM RightsAreAlwaysStored == MCSpec => RightsAreStored
<1>1. SessionInv /\ [MCNext]_<<vars, sessionVars, aVars, focus>> =>
         [/\ LetIn
          /\ LetThrough]_sessionVars
  <2>1. [MCNext]_<<vars, sessionVars, aVars, focus>> => [SessionsNext]_sessionVars
    BY DEF MCNext
  <2> QED BY <2>1, RightsStep
<1> QED BY <1>1, AccessInvariant, PTL DEF MCSpec, RightsAreStored, LetIn, LetThrough

\* Unless somebody writes between the reads, the pages of a list add up to the
\* documents that match, each once and in order, whether the count is known or
\* capped, and an export repeats none (DatabaseUtils, exportToCSV).
THEOREM PagesAlwaysAgree == MCSpec => []PagesAgree
BY AccessInvariant, ListConclusion, PTL

=============================================================================
