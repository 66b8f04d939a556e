---------------------------- MODULE AccountsProofs ----------------------------
(***************************************************************************)
(* Proofs about Accounts, for any number of accounts, callers, tokens and  *)
(* sign-ins, with the backend dying at any time.                            *)
(*                                                                         *)
(* As in VaultStoreProofs the invariants speak of the copies that calls    *)
(* hold as well as of the stored accounts: a stale copy may become the      *)
(* stored account at any later time.                                        *)
(***************************************************************************)
EXTENDS Accounts, TLAPS

\* Calls that are about an account, and those that end in update_user.
UpdateOperations == {"verify_email", "request_reset", "request_my_reset",
                     "reset_password", "update_profile", "crypto_profile",
                     "change_password"}
ResetRequests == {"request_reset", "request_my_reset"}
AboutAnAccount == UpdateOperations \cup {"create_vault", "delete_account"}

\* What a call in progress holds, by its operation and step.
CallShape(k, H) ==
    /\ k.op \in AboutAnAccount => k.user \in H
    /\ k.step = "load" => k.op \in UpdateOperations \cup {"delete_account"}
    /\ k.step = "save" => k.snap \in User /\ k.op \in UpdateOperations
    /\ k.op = "register" => k.value \in User /\ k.value.verified = FALSE
    /\ k.op \in ResetRequests \cup {"reset_password"} => k.value \in Token
    /\ k.op = "change_password" => k.value = None
    /\ k.op = "update_profile" => k.value \in Names
    /\ k.op = "login" => k.value \in [email : Emails, at : Nat]

Shaped == /\ AccountsTypeOK
          /\ \A u \in Ids : users[u] # None => u \in handed
          /\ \A s \in sessions : s.user \in handed
          /\ \A u \in Ids : users[u] = None <=> intended[u] = None
          /\ \A c \in Clients : CallShape(call[c], handed)

LEMMA IdleShape == ASSUME NEW H PROVE Idle \in CallType /\ CallShape(Idle, H)
BY DEF Idle, CallType, CallShape, AccountOperations, AboutAnAccount, UpdateOperations,
       ResetRequests

\* The common shape of a step of a call: it replaces the call's record, and leaves the
\* rest of the state as well typed as it was.
LEMMA CallStep ==
    ASSUME Shaped, NEW c \in Clients, NEW k \in CallType,
           call' = [call EXCEPT ![c] = k],
           handed \subseteq handed', CallShape(k, handed')
    PROVE  /\ call' \in [Clients -> CallType]
           /\ \A d \in Clients : CallShape(call'[d], handed')
<1>1. call' \in [Clients -> CallType]
  BY DEF Shaped, AccountsTypeOK
<1>2. ASSUME NEW d \in Clients
      PROVE  CallShape(call'[d], handed')
  <2>1. CASE d = c
    BY <2>1 DEF Shaped, AccountsTypeOK
  <2>2. CASE d # c
    <3>1. call'[d] = call[d]
      BY <2>2 DEF Shaped, AccountsTypeOK
    <3> QED
      BY <3>1 DEF Shaped, CallShape
  <2> QED
    BY <2>1, <2>2
<1> QED
  BY <1>1, <1>2

\* A step that only moves a call on.
LEMMA QuietStep ==
    ASSUME Shaped, NEW c \in Clients, NEW k \in CallType,
           call' = [call EXCEPT ![c] = k], CallShape(k, handed), Quiet
    PROVE  Shaped'
<1>1. /\ call' \in [Clients -> CallType]
      /\ \A d \in Clients : CallShape(call'[d], handed')
  BY CallStep DEF Quiet, stored
<1>2. AccountsTypeOK'
  BY <1>1 DEF Quiet, stored, history, limiterVars, Shaped, AccountsTypeOK, LimiterTypeOK
<1> QED
  BY <1>1, <1>2 DEF Quiet, stored, history, Shaped

\* The documents the handlers build and the fields they lay over a document.
LEMMA NewUserType ==
    ASSUME NEW e \in Emails, NEW n \in Names, NEW p \in Passwords, NEW t \in Token \cup {None}
    PROVE  NewUser(e, n, p, t) \in User
BY DEF NewUser, User

LEMMA ProfileType ==
    ASSUME NEW u \in User, NEW n \in Names PROVE WithProfile(u, n) \in User
BY DEF WithProfile, User

LEMMA KeysType ==
    ASSUME NEW u \in User, NEW k \in KeyProfiles PROVE WithKeys(u, k) \in User
BY DEF WithKeys, User

LEMMA ResetType ==
    ASSUME NEW u \in User, NEW t \in Token PROVE WithReset(u, t) \in User
BY DEF WithReset, User

LEMMA PasswordType ==
    ASSUME NEW u \in User, NEW p \in Passwords PROVE WithPassword(u, p) \in User
BY DEF WithPassword, User

LEMMA VerifiedType == ASSUME NEW u \in User PROVE WithVerified(u) \in User
BY DEF WithVerified, User

LEMMA NewTokenType ==
    ASSUME Shaped, NEW life \in Nat PROVE NewToken(life) \in Token
BY DEF NewToken, Token, Shaped, AccountsTypeOK

-----------------------------------------------------------------------------
LEMMA InitShaped == Init => Shaped
<1> SUFFICES ASSUME Init PROVE Shaped
  OBVIOUS
<1>1. users \in [Ids -> User \cup {None}] /\ handed \subseteq Ids /\ proven \subseteq Ids
      /\ \A u \in Ids : users[u] # None => u \in handed
  <2>1. CASE users = [u \in Ids |-> None] /\ handed = {} /\ proven = {}
    BY <2>1
  <2>2. CASE \E u \in Ids, e \in Emails, n \in Names, p \in Passwords :
                 /\ users = [x \in Ids |-> IF x = u
                              THEN WithVerified(NewUser(e, n, p, None)) ELSE None]
                 /\ handed = {u} /\ proven = {u}
    <3>1. PICK u \in Ids, e \in Emails, n \in Names, p \in Passwords :
                 /\ users = [x \in Ids |-> IF x = u
                              THEN WithVerified(NewUser(e, n, p, None)) ELSE None]
                 /\ handed = {u} /\ proven = {u}
      BY <2>2
    <3>2. WithVerified(NewUser(e, n, p, None)) \in User
      BY NewUserType, VerifiedType
    <3> QED
      BY <3>1, <3>2
  <2> QED
    BY <2>1, <2>2 DEF Init
<1>2. sessions \subseteq Session /\ \A s \in sessions : s.user \in handed
  BY <1>1, AccountBounds DEF Init, Session
<1>3. call \in [Clients -> CallType] /\ \A c \in Clients : CallShape(call[c], handed)
  BY IdleShape DEF Init
<1>4. LimiterTypeOK
  BY DEF Init, LimiterInit, LimiterTypeOK
<1>5. mix \in Mixes /\ intended = users /\ fresh \in Nat /\ now \in Nat
      /\ vaults \subseteq Vault /\ orphaned \subseteq Vault /\ retired \subseteq Token
      /\ overlapped \subseteq Ids /\ contested \subseteq Emails \cup Names
  BY DEF Init
<1> QED
  BY <1>1, <1>2, <1>3, <1>4, <1>5 DEF Shaped, AccountsTypeOK

\* What update_user works on.
LEMMA SaveLemma ==
    ASSUME Shaped, NEW c \in Clients, call[c].step = "save"
    PROVE  /\ call[c].user \in handed /\ call[c].user \in Ids
           /\ Snap(c) \in User
           /\ users[call[c].user] # None => Meant(c) \in User
           /\ call[c] \in CallType
BY NoneIsNoValue
DEF Shaped, CallShape, AboutAnAccount, AccountsTypeOK, Snap, Meant

\* A whole-document write ends the call and keeps every type.
LEMMA ReplaceShaped ==
    ASSUME Shaped, NEW c \in Clients, call[c].step = "save",
           NEW doc \in User, NEW meant,
           users[call[c].user] # None => meant \in User,
           Replace(c, doc, meant), fresh' = fresh, retired' \subseteq Token,
           contested' \subseteq Emails \cup Names
    PROVE  Shaped'
<1> DEFINE u == call[c].user
<1>1. u \in handed /\ u \in Ids
  BY SaveLemma
<1>2. /\ call' = [call EXCEPT ![c] = Idle] /\ handed' = handed /\ sessions' = sessions
      /\ vaults' = vaults /\ now' = now /\ mix' = mix /\ proven' = proven
      /\ orphaned' = orphaned /\ accepted' = accepted /\ first' = first
  BY DEF Replace, Finish, limiterVars
<1>3. /\ call' \in [Clients -> CallType]
      /\ \A d \in Clients : CallShape(call'[d], handed')
  BY <1>2, IdleShape, CallStep
<1>4. /\ users' \in [Ids -> User \cup {None}] /\ intended' \in [Ids -> User \cup {None}]
      /\ overlapped' \subseteq Ids
      /\ \A x \in Ids : users'[x] # None => x \in handed'
      /\ \A x \in Ids : users'[x] = None <=> intended'[x] = None
  <2>1. CASE users[u] = None
    BY <2>1, <1>2 DEF Replace, Shaped, AccountsTypeOK
  <2>2. CASE users[u] # None
    <3>1. /\ users' = [users EXCEPT ![u] = doc] /\ intended' = [intended EXCEPT ![u] = meant]
          /\ overlapped' = IF HoldACopy(c, u) = {} THEN overlapped ELSE overlapped \cup {u}
      BY <2>2 DEF Replace
    <3>2. meant \in User
      BY <2>2
    <3>3. doc # None /\ meant # None
      BY <3>2, NoneIsNoValue
    <3> QED
      BY <1>1, <1>2, <3>1, <3>2, <3>3 DEF Shaped, AccountsTypeOK
  <2> QED
    BY <2>1, <2>2
<1>5. /\ \A s \in sessions' : s.user \in handed'
      /\ AccountsTypeOK'
  BY <1>2, <1>3, <1>4 DEF Shaped, AccountsTypeOK, LimiterTypeOK
<1> QED
  BY <1>3, <1>4, <1>5 DEF Shaped

\* What other calls claim, and hence what is contested, are e-mails and names.
LEMMA ClaimedType ==
    ASSUME Shaped, NEW c \in Clients
    PROVE  Claimed(c) \subseteq Emails \cup Names
BY DEF Shaped, CallShape, Claimed, User

LEMMA ContestType ==
    ASSUME Shaped, NEW c \in Clients, Contest(c)
    PROVE  contested' \subseteq Emails \cup Names
BY ClaimedType DEF Contest, Shaped, AccountsTypeOK

\* The links a new password retires are links.
LEMMA RetireLemma ==
    ASSUME Shaped, NEW c \in Clients, SavePassword(c)
    PROVE  retired' \subseteq Token
<1>1. call[c].step = "save" /\ CallShape(call[c], handed)
  BY DEF SavePassword, Saving, At, Shaped
<1>2. call[c].value \in Token \cup {None}
  BY <1>1 DEF SavePassword, Saving, At, CallShape
<1>3. CASE users[call[c].user] = None
  BY <1>3 DEF SavePassword, Shaped, AccountsTypeOK
<1>4. CASE users[call[c].user] # None
  <2>1. Meant(c).reset \in Token \cup {None}
    <3>1. Meant(c) \in User
      BY <1>1, <1>4, SaveLemma
    <3> QED
      BY <3>1 DEF User
  <2> QED
    BY <1>2, <1>4, <2>1 DEF SavePassword, Shaped, AccountsTypeOK
<1> QED
  BY <1>3, <1>4

\* The five writes of update_user.
LEMMA SavesShaped ==
    ASSUME Shaped, NEW c \in Clients,
           \/ SaveVerified(c) \/ SaveReset(c) \/ SavePassword(c) \/ SaveProfile(c)
           \/ SaveCryptoProfile(c)
    PROVE  Shaped'
<1>0. call[c].step = "save"
  BY DEF SaveVerified, SaveReset, SavePassword, SaveProfile, SaveCryptoProfile, Saving, At
<1>1. /\ Snap(c) \in User
      /\ users[call[c].user] # None => Meant(c) \in User
      /\ call[c] \in CallType /\ CallShape(call[c], handed)
  BY <1>0, SaveLemma DEF Shaped
<1>2. retired \subseteq Token /\ contested \subseteq Emails \cup Names
  BY DEF Shaped, AccountsTypeOK
<1>3. CASE SaveVerified(c)
  <2>1. /\ WithVerified(Snap(c)) \in User
        /\ users[call[c].user] # None => WithVerified(Meant(c)) \in User
    BY <1>1, VerifiedType
  <2> QED
    BY <1>0, <1>2, <1>3, <2>1, ReplaceShaped DEF SaveVerified
<1>4. CASE SaveReset(c)
  <2>1. call[c].value \in Token
    BY <1>1, <1>4 DEF SaveReset, Saving, At, CallShape, ResetRequests
  <2>2. /\ WithReset(Snap(c), call[c].value) \in User
        /\ users[call[c].user] # None => WithReset(Meant(c), call[c].value) \in User
    BY <1>1, <2>1, ResetType
  <2> QED
    BY <1>0, <1>2, <1>4, <2>2, ReplaceShaped DEF SaveReset
<1>5. CASE SavePassword(c)
  <2>1. PICK p \in Passwords : Replace(c, WithPassword(Snap(c), p), WithPassword(Meant(c), p))
    BY <1>5 DEF SavePassword
  <2>2. /\ WithPassword(Snap(c), p) \in User
        /\ users[call[c].user] # None => WithPassword(Meant(c), p) \in User
    BY <1>1, PasswordType
  <2>3. retired' \subseteq Token
    BY <1>0, <1>5, RetireLemma
  <2>4. fresh' = fresh /\ contested' = contested
    BY <1>5 DEF SavePassword
  <2> QED
    BY <1>0, <1>2, <2>1, <2>2, <2>3, <2>4, ReplaceShaped
<1>6. CASE SaveProfile(c)
  <2>1. call[c].value \in Names
    BY <1>1, <1>6 DEF SaveProfile, Saving, At, CallShape
  <2>2. contested' \subseteq Emails \cup Names
    BY <1>6, ContestType DEF SaveProfile
  <2>3. /\ WithProfile(Snap(c), call[c].value) \in User
        /\ users[call[c].user] # None => WithProfile(Meant(c), call[c].value) \in User
    BY <1>1, <2>1, ProfileType
  <2> QED
    BY <1>0, <1>2, <1>6, <2>2, <2>3, ReplaceShaped DEF SaveProfile
<1>7. CASE SaveCryptoProfile(c)
  <2>1. PICK k \in KeyProfiles : Replace(c, WithKeys(Snap(c), k), WithKeys(Meant(c), k))
    BY <1>7 DEF SaveCryptoProfile
  <2>2. /\ WithKeys(Snap(c), k) \in User
        /\ users[call[c].user] # None => WithKeys(Meant(c), k) \in User
    BY <1>1, KeysType
  <2>3. fresh' = fresh /\ retired' = retired /\ contested' = contested
    BY <1>7 DEF SaveCryptoProfile
  <2> QED
    BY <1>0, <1>2, <2>1, <2>2, <2>3, ReplaceShaped
<1> QED
  BY <1>3, <1>4, <1>5, <1>6, <1>7

-----------------------------------------------------------------------------
\* The steps that begin a call about an account, and update_user's read.
LEMMA BeginQuiet ==
    ASSUME Shaped, NEW c \in Clients, NEW u \in Ids, users[u] # None,
           NEW op \in AboutAnAccount \ ResetRequests, NEW step \in {"load", "create", "vaults"},
           NEW value, Begin(c, op, step, u, value), Quiet,
           op \notin UpdateOperations => step # "load",
           op = "reset_password" => value \in Token,
           op = "update_profile" => value \in Names,
           op \notin {"reset_password", "update_profile"} => value = None
    PROVE  Shaped'
<1> DEFINE k == [op |-> op, step |-> step, user |-> u, snap |-> None,
                 value |-> value, todo |-> {}]
<1>1. call' = [call EXCEPT ![c] = k]
  BY DEF Begin
<1>2. k \in CallType
  BY DEF CallType, AccountOperations, AboutAnAccount, UpdateOperations, ResetRequests
<1>3. CallShape(k, handed)
  BY DEF CallShape, Shaped, AboutAnAccount, UpdateOperations, ResetRequests
<1> QED
  BY <1>1, <1>2, <1>3, QuietStep

LEMMA SignedInLives == ASSUME NEW u \in Ids, SignedIn(u) PROVE users[u] # None
BY DEF SignedIn

LEMMA StartsShaped ==
    ASSUME Shaped, NEW c \in Clients,
           \/ StartResetPassword(c) \/ StartChangePassword(c) \/ StartUpdateProfile(c)
           \/ StartCryptoProfile(c) \/ StartCreateVault(c) \/ StartDeleteAccount(c)
    PROVE  Shaped'
<1>1. CASE StartResetPassword(c)
  <2>1. PICK u \in Live : /\ users[u].reset # None
                          /\ Begin(c, "reset_password", "load", u, users[u].reset)
    BY <1>1 DEF StartResetPassword
  <2>2. u \in Ids /\ users[u] # None
    BY DEF Live
  <2>3. users[u].reset \in Token
    BY <2>1, <2>2 DEF Shaped, AccountsTypeOK, User
  <2> QED
    BY <1>1, <2>1, <2>2, <2>3, BeginQuiet
    DEF StartResetPassword, AboutAnAccount, UpdateOperations, ResetRequests
<1>2. CASE StartChangePassword(c)
  BY <1>2, SignedInLives, BeginQuiet
  DEF StartChangePassword, AboutAnAccount, UpdateOperations, ResetRequests
<1>3. CASE StartUpdateProfile(c)
  BY <1>3, SignedInLives, BeginQuiet
  DEF StartUpdateProfile, AboutAnAccount, UpdateOperations, ResetRequests
<1>4. CASE StartCryptoProfile(c)
  BY <1>4, SignedInLives, BeginQuiet
  DEF StartCryptoProfile, AboutAnAccount, UpdateOperations, ResetRequests
<1>5. CASE StartCreateVault(c)
  BY <1>5, SignedInLives, BeginQuiet
  DEF StartCreateVault, AboutAnAccount, UpdateOperations, ResetRequests
<1>6. CASE StartDeleteAccount(c)
  BY <1>6, SignedInLives, BeginQuiet
  DEF StartDeleteAccount, AboutAnAccount, UpdateOperations, ResetRequests
<1> QED
  BY <1>1, <1>2, <1>3, <1>4, <1>5, <1>6

LEMMA LoadShaped == ASSUME Shaped, NEW c \in Clients, LoadUser(c) PROVE Shaped'
<1> DEFINE u == call[c].user
           k == [call[c] EXCEPT !.step = "save", !.snap = users[u]]
<1>1. call[c] \in CallType /\ CallShape(call[c], handed) /\ call[c].step = "load"
  BY DEF LoadUser, Shaped, AccountsTypeOK
<1>2. call[c].op \in AboutAnAccount /\ u \in Ids /\ Quiet
  BY <1>1 DEF CallShape, AboutAnAccount, LoadUser, Shaped, AccountsTypeOK
<1>3. CASE users[u] = None
  BY <1>2, <1>3, IdleShape, QuietStep DEF LoadUser
<1>4. CASE users[u] # None
  <2>1. users[u] \in User
    BY <1>2, <1>4 DEF Shaped, AccountsTypeOK
  <2>2. k \in CallType
    BY <1>1, <2>1 DEF CallType
  <2>3. CallShape(k, handed)
    <3>1. call[c].op \in UpdateOperations
      BY <1>1 DEF LoadUser, CallShape
    <3> QED
      BY <1>1, <2>1, <3>1 DEF CallShape, CallType
  <2>4. call' = [call EXCEPT ![c] = k]
    BY <1>4 DEF LoadUser
  <2> QED
    BY <1>2, <2>2, <2>3, <2>4, QuietStep
<1> QED
  BY <1>3, <1>4

\* One pass of the limiter keeps its types.
LEMMA LimiterTypes ==
    ASSUME LimiterTypeOK, NEW k \in Keys, NEW at \in Nat, Admit(k, at) \/ Refuse(k, at)
    PROVE  LimiterTypeOK'
<1>1. accepted[k] \in Seq(Nat)
  BY DEF LimiterTypeOK
<1>2. CASE Admit(k, at)
  <2>1. PICK i \in 1..(Len(accepted[k]) + 1) :
             /\ accepted' = [accepted EXCEPT ![k] = Append(@, at)]
             /\ first' = [first EXCEPT ![k] = i]
    BY <1>2 DEF Admit
  <2>2. Append(accepted[k], at) \in Seq(Nat) /\ i \in Nat
    BY <1>1
  <2> QED
    BY <2>1, <2>2 DEF LimiterTypeOK
<1>3. CASE Refuse(k, at)
  <2>1. PICK i \in 1..(Len(accepted[k]) + 1) : first' = [first EXCEPT ![k] = i]
    BY <1>3 DEF Refuse
  <2> QED
    BY <1>1, <1>3, <2>1 DEF Refuse, LimiterTypeOK
<1> QED
  BY <1>2, <1>3

\* Registration: a call about no account, carrying the document it will create.
LEMMA RegisterShaped ==
    ASSUME Shaped, NEW c \in Clients, StartRegister(c) \/ CheckEmailFree(c) \/ CreateUser(c)
    PROVE  Shaped'
<1>0. call[c] \in CallType /\ CallShape(call[c], handed)
  BY DEF Shaped, AccountsTypeOK
<1>1. CASE StartRegister(c)
  <2>1. PICK e \in Emails, n \in Names, p \in Passwords :
             Begin(c, "register", "email", None, NewUser(e, n, p, NewToken(VerificationLife)))
    BY <1>1 DEF StartRegister
  <2> DEFINE doc == NewUser(e, n, p, NewToken(VerificationLife))
             k == [op |-> "register", step |-> "email", user |-> None, snap |-> None,
                   value |-> doc, todo |-> {}]
  <2>2. doc \in User
    <3>1. NewToken(VerificationLife) \in Token
      BY NewTokenType, AccountBounds
    <3> QED
      BY <3>1, NewUserType
  <2>3. k \in CallType /\ CallShape(k, handed)
    <3>1. doc.verified = FALSE
      BY DEF NewUser
    <3> QED
      BY <2>2, <3>1 DEF CallType, CallShape, AccountOperations, AboutAnAccount,
                        UpdateOperations, ResetRequests
  <2>4. call' = [call EXCEPT ![c] = k]
    BY <2>1 DEF Begin
  <2>5. handed' = handed
    BY <1>1 DEF StartRegister
  <2>6. /\ call' \in [Clients -> CallType]
        /\ \A d \in Clients : CallShape(call'[d], handed')
    BY <2>3, <2>4, <2>5, CallStep
  <2>7. AccountsTypeOK'
    BY <1>1, <2>6 DEF StartRegister, history, limiterVars, Shaped, AccountsTypeOK, LimiterTypeOK
  <2> QED
    BY <1>1, <2>6, <2>7 DEF StartRegister, history, Shaped
<1>2. CASE CheckEmailFree(c)
  <2>1. CASE Mailed(call[c].value.email) # {}
    BY <1>2, <2>1, IdleShape, QuietStep DEF CheckEmailFree
  <2>2. CASE Mailed(call[c].value.email) = {}
    <3> DEFINE k == [call[c] EXCEPT !.step = "create"]
    <3>1. k \in CallType
      BY <1>0 DEF CallType
    <3>2. CallShape(k, handed)
      BY <1>0 DEF CallShape, CallType
    <3>3. call' = [call EXCEPT ![c] = k] /\ Quiet
      BY <1>2, <2>2 DEF CheckEmailFree
    <3> QED
      BY <3>1, <3>2, <3>3, QuietStep
  <2> QED
    BY <2>1, <2>2
<1>3. CASE CreateUser(c)
  <2>1. PICK u \in Ids \ handed :
             /\ users' = [users EXCEPT ![u] = call[c].value]
             /\ intended' = [intended EXCEPT ![u] = call[c].value]
             /\ handed' = handed \cup {u}
    BY <1>3 DEF CreateUser
  <2>2. call[c].value \in User
    BY <1>0, <1>3 DEF CreateUser, At, CallShape
  <2>3. call' = [call EXCEPT ![c] = Idle]
    BY <1>3 DEF CreateUser, Finish
  <2>4. /\ call' \in [Clients -> CallType]
        /\ \A d \in Clients : CallShape(call'[d], handed')
    BY <2>1, <2>3, IdleShape, CallStep
  <2>5. contested' \subseteq Emails \cup Names
    BY <1>3, ContestType DEF CreateUser
  <2>6. AccountsTypeOK'
    BY <1>3, <2>1, <2>2, <2>4, <2>5
    DEF CreateUser, limiterVars, Shaped, AccountsTypeOK, LimiterTypeOK
  <2>7. /\ \A x \in Ids : users'[x] # None => x \in handed'
        /\ \A x \in Ids : users'[x] = None <=> intended'[x] = None
    BY <2>1 DEF Shaped, AccountsTypeOK
  <2>8. \A s \in sessions' : s.user \in handed'
    BY <1>3, <2>1 DEF CreateUser, Shaped
  <2> QED
    BY <2>4, <2>6, <2>7, <2>8 DEF Shaped
<1> QED
  BY <1>1, <1>2, <1>3

LEMMA VerifyShaped == ASSUME Shaped, NEW c \in Clients, StartVerify(c) PROVE Shaped'
<1>1. PICK u \in Live : /\ Begin(c, "verify_email", "load", u, None)
                        /\ proven' = proven \cup {u}
  BY DEF StartVerify
<1> DEFINE k == [op |-> "verify_email", step |-> "load", user |-> u, snap |-> None,
                 value |-> None, todo |-> {}]
<1>2. u \in Ids /\ u \in handed
  BY DEF Live, Shaped
<1>3. k \in CallType /\ CallShape(k, handed)
  BY <1>2 DEF CallType, CallShape, AccountOperations, AboutAnAccount, UpdateOperations,
              ResetRequests
<1>4. call' = [call EXCEPT ![c] = k]
  BY <1>1 DEF Begin
<1>5. handed' = handed
  BY DEF StartVerify, stored
<1>6. /\ call' \in [Clients -> CallType]
      /\ \A d \in Clients : CallShape(call'[d], handed')
  BY <1>3, <1>4, <1>5, CallStep
<1>7. AccountsTypeOK'
  BY <1>1, <1>2, <1>6 DEF StartVerify, stored, limiterVars, Shaped, AccountsTypeOK, LimiterTypeOK
<1> QED
  BY <1>6, <1>7 DEF StartVerify, stored, Shaped

LEMMA RequestResetShaped ==
    ASSUME Shaped, NEW c \in Clients, StartRequestReset(c) PROVE Shaped'
<1>1. PICK u \in Live, op \in ResetRequests : Begin(c, op, "load", u, NewToken(ResetLife))
  BY DEF StartRequestReset, ResetRequests
<1> DEFINE k == [op |-> op, step |-> "load", user |-> u, snap |-> None,
                 value |-> NewToken(ResetLife), todo |-> {}]
<1>2. u \in Ids /\ u \in handed
  BY DEF Live, Shaped
<1>3. NewToken(ResetLife) \in Token
  BY NewTokenType, AccountBounds
<1>4. k \in CallType /\ CallShape(k, handed)
  BY <1>2, <1>3 DEF CallType, CallShape, AccountOperations, AboutAnAccount, UpdateOperations,
                    ResetRequests
<1>5. call' = [call EXCEPT ![c] = k]
  BY <1>1 DEF Begin
<1>6. handed' = handed
  BY DEF StartRequestReset
<1>7. /\ call' \in [Clients -> CallType]
      /\ \A d \in Clients : CallShape(call'[d], handed')
  BY <1>4, <1>5, <1>6, CallStep
<1>8. AccountsTypeOK'
  BY <1>7 DEF StartRequestReset, history, limiterVars, Shaped, AccountsTypeOK, LimiterTypeOK
<1> QED
  BY <1>7, <1>8 DEF StartRequestReset, history, Shaped

LEMMA LoginShaped ==
    ASSUME Shaped, NEW c \in Clients, StartLogin(c) \/ EnforceRateLimit(c) \/ SignIn(c)
    PROVE  Shaped'
<1>0. call[c] \in CallType /\ CallShape(call[c], handed)
  BY DEF Shaped, AccountsTypeOK
<1>1. CASE StartLogin(c)
  <2>1. PICK e \in Emails : Begin(c, "login", "limit", None, [email |-> e, at |-> now])
    BY <1>1 DEF StartLogin
  <2> DEFINE k == [op |-> "login", step |-> "limit", user |-> None, snap |-> None,
                   value |-> [email |-> e, at |-> now], todo |-> {}]
  <2>2. now \in Nat
    BY DEF Shaped, AccountsTypeOK
  <2>3. k \in CallType /\ CallShape(k, handed)
    BY <2>2 DEF CallType, CallShape, AccountOperations, AboutAnAccount, UpdateOperations,
                ResetRequests
  <2>4. call' = [call EXCEPT ![c] = k] /\ Quiet
    BY <1>1, <2>1 DEF StartLogin, Begin
  <2> QED
    BY <2>3, <2>4, QuietStep
<1>2. CASE EnforceRateLimit(c)
  <2>1. call[c].value.email \in Keys /\ call[c].value.at \in Nat
    BY <1>0, <1>2, AccountBounds DEF EnforceRateLimit, At, CallShape
  <2>2. LimiterTypeOK'
    BY <1>2, <2>1, LimiterTypes DEF EnforceRateLimit, Shaped, AccountsTypeOK
  <2>3. PICK k \in {Idle, [call[c] EXCEPT !.step = "sign_in"]} : call' = [call EXCEPT ![c] = k]
    <3>1. CASE call' = [call EXCEPT ![c].step = "sign_in"]
      BY <3>1 DEF Shaped, AccountsTypeOK
    <3>2. CASE Finish(c)
      BY <3>2 DEF Finish
    <3> QED
      BY <1>2, <3>1, <3>2 DEF EnforceRateLimit
  <2>4. k \in CallType /\ CallShape(k, handed)
    <3>1. CASE k = Idle
      BY <3>1, IdleShape
    <3>2. CASE k = [call[c] EXCEPT !.step = "sign_in"]
      BY <1>0, <3>2 DEF CallType, CallShape
    <3> QED
      BY <2>3, <3>1, <3>2
  <2>5. handed' = handed
    BY <1>2 DEF EnforceRateLimit, stored
  <2>6. /\ call' \in [Clients -> CallType]
        /\ \A d \in Clients : CallShape(call'[d], handed')
    BY <2>3, <2>4, <2>5, CallStep
  <2>7. AccountsTypeOK'
    BY <1>2, <2>2, <2>6 DEF EnforceRateLimit, stored, history, Shaped, AccountsTypeOK
  <2> QED
    BY <1>2, <2>6, <2>7 DEF EnforceRateLimit, stored, history, Shaped
<1>3. CASE SignIn(c)
  <2>1. call' = [call EXCEPT ![c] = Idle] /\ handed' = handed
    BY <1>3 DEF SignIn, Finish
  <2>2. /\ call' \in [Clients -> CallType]
        /\ \A d \in Clients : CallShape(call'[d], handed')
    BY <2>1, IdleShape, CallStep
  <2>3. sessions' \subseteq Session /\ \A s \in sessions' : s.user \in handed
    <3>1. CASE UNCHANGED sessions
      BY <3>1 DEF Shaped, AccountsTypeOK
    <3>2. CASE \E u \in Mailed(call[c].value.email) :
                  sessions' = sessions \cup {[user |-> u, expires |-> now + SessionLife]}
      <4>1. PICK u \in Mailed(call[c].value.email) :
                 sessions' = sessions \cup {[user |-> u, expires |-> now + SessionLife]}
        BY <3>2
      <4>2. u \in Ids /\ u \in handed
        BY DEF Mailed, Live, Shaped
      <4>3. [user |-> u, expires |-> now + SessionLife] \in Session
        BY <4>2, AccountBounds DEF Session, Shaped, AccountsTypeOK
      <4> QED
        BY <4>1, <4>2, <4>3 DEF Shaped, AccountsTypeOK
    <3> QED
      BY <1>3, <3>1, <3>2 DEF SignIn
  <2>4. AccountsTypeOK'
    BY <1>3, <2>2, <2>3 DEF SignIn, history, limiterVars, Shaped, AccountsTypeOK, LimiterTypeOK
  <2> QED
    BY <1>3, <2>1, <2>2, <2>3, <2>4 DEF SignIn, history, Shaped
<1> QED
  BY <1>1, <1>2, <1>3

LEMMA DeparturesShaped ==
    ASSUME Shaped, NEW c \in Clients,
           CreateVault(c) \/ ListVaults(c) \/ DeleteNextVault(c) \/ DeleteUser(c)
    PROVE  Shaped'
<1>0. call[c] \in CallType /\ CallShape(call[c], handed)
  BY DEF Shaped, AccountsTypeOK
<1>1. call[c].user \in Ids
  BY <1>0 DEF CreateVault, ListVaults, DeleteNextVault, DeleteUser, At, CallShape,
              AboutAnAccount, Shaped, AccountsTypeOK
<1>2. CASE CreateVault(c)
  <2>1. call' = [call EXCEPT ![c] = Idle] /\ handed' = handed
    BY <1>2 DEF CreateVault, Finish
  <2>2. /\ call' \in [Clients -> CallType]
        /\ \A d \in Clients : CallShape(call'[d], handed')
    BY <2>1, IdleShape, CallStep
  <2>3. fresh' \in Nat /\ [no |-> fresh + 1, owner |-> call[c].user] \in Vault
    BY <1>1, <1>2 DEF CreateVault, Vault, Shaped, AccountsTypeOK
  <2>4. vaults' \subseteq Vault /\ orphaned' \subseteq Vault
    BY <1>2, <2>3 DEF CreateVault, Shaped, AccountsTypeOK
  <2>5. AccountsTypeOK'
    BY <1>2, <2>2, <2>3, <2>4
    DEF CreateVault, limiterVars, Shaped, AccountsTypeOK, LimiterTypeOK
  <2> QED
    BY <1>2, <2>2, <2>5 DEF CreateVault, Shaped
<1>3. CASE ListVaults(c)
  <2> DEFINE k == [call[c] EXCEPT !.step = "load", !.todo = VaultsOf(call[c].user)]
  <2>1. VaultsOf(call[c].user) \in SUBSET Vault
    BY DEF VaultsOf, Shaped, AccountsTypeOK
  <2>2. k \in CallType /\ CallShape(k, handed)
    BY <1>0, <1>3, <2>1 DEF CallType, CallShape, ListVaults, At
  <2>3. call' = [call EXCEPT ![c] = k] /\ Quiet
    BY <1>3 DEF ListVaults, Shaped, AccountsTypeOK
  <2> QED
    BY <2>2, <2>3, QuietStep
<1>4. CASE DeleteNextVault(c)
  <2>1. PICK v \in call[c].todo : /\ vaults' = vaults \ {v}
                                  /\ call' = [call EXCEPT ![c].todo = @ \ {v}]
    BY <1>4 DEF DeleteNextVault
  <2> DEFINE k == [call[c] EXCEPT !.todo = call[c].todo \ {v}]
  <2>2. k \in CallType /\ CallShape(k, handed)
    BY <1>0 DEF CallType, CallShape
  <2>3. call' = [call EXCEPT ![c] = k] /\ handed' = handed
    BY <1>4, <2>1 DEF DeleteNextVault, Shaped, AccountsTypeOK
  <2>4. /\ call' \in [Clients -> CallType]
        /\ \A d \in Clients : CallShape(call'[d], handed')
    BY <2>2, <2>3, CallStep
  <2>5. AccountsTypeOK'
    BY <1>4, <2>1, <2>4
    DEF DeleteNextVault, history, limiterVars, Shaped, AccountsTypeOK, LimiterTypeOK
  <2> QED
    BY <1>4, <2>4, <2>5 DEF DeleteNextVault, history, Shaped
<1>5. CASE DeleteUser(c)
  <2>1. call' = [call EXCEPT ![c] = Idle] /\ handed' = handed
    BY <1>5 DEF DeleteUser, Finish
  <2>2. /\ call' \in [Clients -> CallType]
        /\ \A d \in Clients : CallShape(call'[d], handed')
    BY <2>1, IdleShape, CallStep
  <2>3. AccountsTypeOK'
    BY <1>5, <2>2 DEF DeleteUser, limiterVars, Shaped, AccountsTypeOK, LimiterTypeOK
  <2> QED
    BY <1>5, <2>1, <2>2, <2>3 DEF DeleteUser, Shaped, AccountsTypeOK
<1> QED
  BY <1>2, <1>3, <1>4, <1>5

LEMMA RestartShaped == ASSUME Shaped, Restart PROVE Shaped'
<1>1. LimiterTypeOK'
  BY DEF Restart, LimiterRestart, LimiterTypeOK
<1>2. /\ call' \in [Clients -> CallType]
      /\ \A d \in Clients : CallShape(call'[d], handed)
  BY IdleShape DEF Restart
<1>3. AccountsTypeOK'
  BY <1>1, <1>2 DEF Restart, stored, history, Shaped, AccountsTypeOK
<1> QED
  BY <1>2, <1>3 DEF Restart, stored, history, Shaped

LEMMA TickShaped == ASSUME Shaped, Tick PROVE Shaped'
<1>1. AccountsTypeOK'
  BY DEF Tick, stored, history, limiterVars, Shaped, AccountsTypeOK, LimiterTypeOK
<1> QED
  BY <1>1 DEF Tick, stored, history, Shaped

LEMMA NextShaped == ASSUME Shaped, [Next]_accountVars PROVE Shaped'
<1>1. CASE UNCHANGED accountVars
  <2>1. AccountsTypeOK'
    BY <1>1 DEF accountVars, stored, history, limiterVars, Shaped, AccountsTypeOK, LimiterTypeOK
  <2> QED
    BY <1>1, <2>1 DEF accountVars, stored, history, Shaped
<1> QED
  BY <1>1, SavesShaped, StartsShaped, LoadShaped, RegisterShaped, VerifyShaped,
     RequestResetShaped, LoginShaped, DeparturesShaped, RestartShaped, TickShaped
  DEF Next, AccountStep

LEMMA ShapedAlways == AccountSpec => []Shaped
BY InitShaped, NextShaped, PTL DEF AccountSpec

\* Every reachable state is well typed, whatever the number of accounts, calls, tokens
\* and sign-ins (the documents create_user and update_user write).
THEOREM AccountsTypeCorrect == AccountSpec => []AccountsTypeOK
<1>1. Shaped => AccountsTypeOK
  BY DEF Shaped
<1> QED
  BY <1>1, ShapedAlways, PTL

-----------------------------------------------------------------------------
(* What a step of a call does to the calls and to the accounts, whichever    *)
(* of the operations it belongs to.                                          *)

LEMMA CallEffect ==
    ASSUME Shaped, NEW c \in Clients, AccountStep(c)
    PROVE  /\ \A d \in Clients \ {c} : call'[d] = call[d]
           /\ call'[c].step = "save" =>
                  /\ LoadUser(c) /\ users[call[c].user] # None
                  /\ call'[c] = [call[c] EXCEPT !.step = "save", !.snap = users[call[c].user]]
           /\ call'[c].op = "verify_email" =>
                  \/ StartVerify(c)
                  \/ call'[c].user = call[c].user /\ call[c].op = "verify_email"
           /\ call'[c].op = "delete_account" /\ call'[c].step = "load" =>
                  ListVaults(c) \/ DeleteNextVault(c)
<1>1. call \in [Clients -> CallType] /\ call[c] \in CallType
  BY DEF Shaped, AccountsTypeOK
<1>3. CASE StartVerify(c)
  <2>1. PICK u \in Live : Begin(c, "verify_email", "load", u, None)
    BY <1>3 DEF StartVerify
  <2>2. /\ \A d \in Clients \ {c} : call'[d] = call[d]
        /\ call'[c].step # "save" /\ call'[c].op # "delete_account"
    BY <1>1, <2>1 DEF Begin
  <2> QED
    BY <1>3, <2>2
<1> USE DEF Begin, Finish, Idle, At, Saving, Replace
<1>2. CASE StartRegister(c) \/ CreateUser(c)
  BY <1>1, <1>2 DEF StartRegister, CreateUser
<1>10. CASE CheckEmailFree(c)
  <2>1. CASE Mailed(call[c].value.email) # {}
    BY <1>1, <1>10, <2>1 DEF CheckEmailFree
  <2>2. CASE Mailed(call[c].value.email) = {}
    <3>1. call' = [call EXCEPT ![c] = [call[c] EXCEPT !.step = "create"]]
      BY <1>10, <2>2 DEF CheckEmailFree
    <3> QED
      BY <1>1, <1>10, <3>1 DEF CheckEmailFree, CallType
  <2> QED
    BY <2>1, <2>2
<1>4. CASE StartRequestReset(c)
  BY <1>1, <1>4 DEF StartRequestReset
<1>5. CASE \/ StartResetPassword(c) \/ StartChangePassword(c) \/ StartUpdateProfile(c)
           \/ StartCryptoProfile(c) \/ StartCreateVault(c) \/ StartDeleteAccount(c)
  BY <1>1, <1>5 DEF StartResetPassword, StartChangePassword, StartUpdateProfile,
                    StartCryptoProfile, StartCreateVault, StartDeleteAccount
<1>6. CASE \/ SaveVerified(c) \/ SaveReset(c) \/ SavePassword(c) \/ SaveProfile(c)
           \/ SaveCryptoProfile(c)
  BY <1>1, <1>6 DEF SaveVerified, SaveReset, SavePassword, SaveProfile, SaveCryptoProfile
<1>7. CASE StartLogin(c) \/ EnforceRateLimit(c) \/ SignIn(c)
  BY <1>1, <1>7 DEF StartLogin, EnforceRateLimit, SignIn, CallType
<1>8. CASE CreateVault(c) \/ DeleteUser(c)
  BY <1>1, <1>8 DEF CreateVault, DeleteUser
<1>11. CASE ListVaults(c) \/ DeleteNextVault(c)
  <2>1. /\ \A d \in Clients \ {c} : call'[d] = call[d]
        /\ call'[c].step = "load" /\ call'[c].op = "delete_account"
    BY <1>1, <1>11 DEF ListVaults, DeleteNextVault, CallType
  <2> QED
    BY <1>11, <2>1
<1>9. CASE LoadUser(c)
  <2>1. CASE users[call[c].user] = None
    BY <1>1, <1>9, <2>1 DEF LoadUser
  <2>2. CASE users[call[c].user] # None
    <3>1. call' = [call EXCEPT ![c] = [call[c] EXCEPT !.step = "save",
                                                     !.snap = users[call[c].user]]]
      BY <1>9, <2>2 DEF LoadUser
    <3>2. /\ call'[c] = [call[c] EXCEPT !.step = "save", !.snap = users[call[c].user]]
          /\ \A d \in Clients \ {c} : call'[d] = call[d]
      BY <1>1, <3>1
    <3>3. call'[c].step = "save" /\ call'[c].op = call[c].op /\ call'[c].user = call[c].user
      BY <1>1, <3>2 DEF CallType
    <3> QED
      BY <1>9, <2>2, <3>2, <3>3
  <2> QED
    BY <2>1, <2>2
<1> QED
  BY <1>2, <1>3, <1>4, <1>5, <1>6, <1>7, <1>8, <1>9, <1>10, <1>11
  DEF AccountStep

\* A document that update_user writes, against the copy it was made from.
Laid(c, doc, meant) ==
    /\ doc \in User
    /\ users[call[c].user] # None => meant \in User
    /\ doc.email = Snap(c).email
    /\ Snap(c) = Meant(c) => doc = meant
    /\ doc.verified = Snap(c).verified \/ call[c].op = "verify_email"
    /\ \/ doc.name = Snap(c).name
       \/ call[c].op = "update_profile" /\ doc.name = call[c].value /\ Contest(c)

Untouched == UNCHANGED <<users, handed, intended, overlapped>>

LEMMA SaveEffect ==
    ASSUME Shaped, NEW c \in Clients,
           \/ SaveVerified(c) \/ SaveReset(c) \/ SavePassword(c) \/ SaveProfile(c)
           \/ SaveCryptoProfile(c)
    PROVE  /\ call[c].step = "save"
           /\ \E doc, meant : Replace(c, doc, meant) /\ Laid(c, doc, meant)
<1>0. call[c].step = "save"
  BY DEF SaveVerified, SaveReset, SavePassword, SaveProfile, SaveCryptoProfile, Saving, At
<1>1. /\ Snap(c) \in User
      /\ users[call[c].user] # None => Meant(c) \in User
      /\ CallShape(call[c], handed)
  BY <1>0, SaveLemma DEF Shaped
<1>3. CASE SaveVerified(c)
  <2>1. Laid(c, WithVerified(Snap(c)), WithVerified(Meant(c)))
    BY <1>1, <1>3, VerifiedType DEF Laid, SaveVerified, Saving, At, WithVerified, User
  <2> QED
    BY <1>0, <1>3, <2>1 DEF SaveVerified
<1>4. CASE SaveReset(c)
  <2>1. call[c].value \in Token
    BY <1>1, <1>4 DEF SaveReset, Saving, At, CallShape, ResetRequests
  <2>2. Laid(c, WithReset(Snap(c), call[c].value), WithReset(Meant(c), call[c].value))
    BY <1>1, <2>1, ResetType DEF Laid, WithReset, User
  <2> QED
    BY <1>0, <1>4, <2>2 DEF SaveReset
<1>5. CASE SavePassword(c)
  <2>1. PICK p \in Passwords : Replace(c, WithPassword(Snap(c), p), WithPassword(Meant(c), p))
    BY <1>5 DEF SavePassword
  <2>2. Laid(c, WithPassword(Snap(c), p), WithPassword(Meant(c), p))
    BY <1>1, PasswordType DEF Laid, WithPassword, User
  <2> QED
    BY <1>0, <2>1, <2>2
<1>6. CASE SaveProfile(c)
  <2>1. call[c].value \in Names
    BY <1>1, <1>6 DEF SaveProfile, Saving, At, CallShape
  <2>2. Laid(c, WithProfile(Snap(c), call[c].value), WithProfile(Meant(c), call[c].value))
    BY <1>1, <1>6, <2>1, ProfileType DEF Laid, SaveProfile, Saving, At, WithProfile, User
  <2> QED
    BY <1>0, <1>6, <2>2 DEF SaveProfile
<1>7. CASE SaveCryptoProfile(c)
  <2>1. PICK k \in KeyProfiles : Replace(c, WithKeys(Snap(c), k), WithKeys(Meant(c), k))
    BY <1>7 DEF SaveCryptoProfile
  <2>2. Laid(c, WithKeys(Snap(c), k), WithKeys(Meant(c), k))
    BY <1>1, KeysType DEF Laid, WithKeys, User
  <2> QED
    BY <1>0, <2>1, <2>2
<1> QED
  BY <1>3, <1>4, <1>5, <1>6, <1>7

LEMMA StoredEffect ==
    ASSUME Shaped, NEW c \in Clients, AccountStep(c)
    PROVE  \/ Untouched
           \/ /\ call[c].step = "save"
              /\ \E doc, meant : Replace(c, doc, meant) /\ Laid(c, doc, meant)
           \/ CreateUser(c)
           \/ DeleteUser(c)
<1>1. CASE \/ SaveVerified(c) \/ SaveReset(c) \/ SavePassword(c) \/ SaveProfile(c)
           \/ SaveCryptoProfile(c)
  BY <1>1, SaveEffect
<1>2. CASE \/ StartRegister(c) \/ CheckEmailFree(c) \/ StartVerify(c) \/ StartRequestReset(c)
           \/ StartLogin(c) \/ EnforceRateLimit(c) \/ SignIn(c)
           \/ CreateVault(c) \/ ListVaults(c) \/ DeleteNextVault(c) \/ LoadUser(c)
  BY <1>2 DEF StartRegister, CheckEmailFree, StartVerify, StartRequestReset, StartLogin,
              EnforceRateLimit, SignIn, CreateVault, ListVaults, DeleteNextVault, LoadUser,
              Quiet, stored, history, Untouched
<1>3. CASE \/ StartResetPassword(c) \/ StartChangePassword(c) \/ StartUpdateProfile(c)
           \/ StartCryptoProfile(c) \/ StartCreateVault(c) \/ StartDeleteAccount(c)
  BY <1>3 DEF StartResetPassword, StartChangePassword, StartUpdateProfile, StartCryptoProfile,
              StartCreateVault, StartDeleteAccount, Quiet, stored, history, Untouched
<1> QED
  BY <1>1, <1>2, <1>3 DEF AccountStep

-----------------------------------------------------------------------------
\* A document that is gone stays gone: every write needs the document, and a new
\* account gets an identity of its own.
LEMMA GoneStaysGone ==
    ASSUME Shaped, NEW c \in Clients, AccountStep(c), NEW u \in handed, users[u] = None
    PROVE  users'[u] = None
<1>1. CASE Untouched
  BY <1>1 DEF Untouched
<1>2. CASE \E doc, meant : Replace(c, doc, meant)
  <2>1. PICK doc, meant : Replace(c, doc, meant)
    BY <1>2
  <2> QED
    BY <2>1 DEF Replace, Shaped, AccountsTypeOK
<1>3. CASE CreateUser(c)
  BY <1>3 DEF CreateUser, Shaped, AccountsTypeOK
<1>4. CASE DeleteUser(c)
  BY <1>4 DEF DeleteUser, Shaped, AccountsTypeOK
<1> QED
  BY <1>1, <1>2, <1>3, <1>4, StoredEffect

\* A deleted account never returns, whichever calls had read it before and however they
\* are interleaved (update_user and delete_user of the store).
THEOREM DeletedAccountsGone == AccountSpec => DeletedAccountsStayDeleted
<1>1. Shaped /\ [Next]_accountVars =>
          [\A u \in handed : users[u] = None => users'[u] = None]_accountVars
  <2> SUFFICES ASSUME Shaped, Next, NEW u \in handed, users[u] = None
               PROVE  users'[u] = None
    OBVIOUS
  <2>1. CASE Restart \/ Tick
    BY <2>1 DEF Restart, Tick, stored
  <2> QED
    BY <2>1, GoneStaysGone DEF Next
<1> QED
  BY <1>1, ShapedAlways, PTL DEF AccountSpec, DeletedAccountsStayDeleted

-----------------------------------------------------------------------------
\* Of the sign-ins let through, those that have left the deque were overtaken, within
\* the next MaxAttempts, by one more than a window later; the rest fit in the deque.
LimiterSound ==
    /\ LimiterTypeOK
    /\ \A k \in Keys :
          /\ first[k] \in 1..(Len(accepted[k]) + 1)
          /\ InDeque(k, first[k]) <= MaxAttempts
          /\ \A i \in 1..(first[k] - 1) :
                \E j \in (i + 1)..(i + MaxAttempts) :
                    j <= Len(accepted[k]) /\ accepted[k][j] > accepted[k][i] + WindowLength

LEMMA LimiterImplies == LimiterSound => LoginsPerWindow
<1> SUFFICES ASSUME LimiterSound, NEW k \in Keys, NEW i \in 1..Len(accepted[k]),
                    i + MaxAttempts <= Len(accepted[k])
             PROVE  \E j \in (i + 1)..(i + MaxAttempts) :
                        accepted[k][j] > accepted[k][i] + WindowLength
  BY DEF LoginsPerWindow
<1>1. Len(accepted[k]) \in Nat /\ first[k] \in Nat /\ MaxAttempts \in Nat
  BY LimitsOK DEF LimiterSound, LimiterTypeOK
<1>2. i < first[k]
  BY <1>1 DEF LimiterSound, InDeque
<1> QED
  BY <1>1, <1>2 DEF LimiterSound

LEMMA AdmitSound ==
    ASSUME LimiterSound, NEW k \in Keys, NEW at \in Nat, Admit(k, at)
    PROVE  LimiterSound'
<1> DEFINE n == Len(accepted[k])
<1>0. n \in Nat /\ first[k] \in 1..(n + 1) /\ MaxAttempts \in Nat \ {0} /\ WindowLength \in Nat
      /\ accepted[k] \in Seq(Nat)
  BY LimitsOK DEF LimiterSound, LimiterTypeOK
<1>1. PICK i \in 1..(n + 1) :
         /\ IsLeftEnd(k, at, i) /\ InDeque(k, i) < MaxAttempts
         /\ accepted' = [accepted EXCEPT ![k] = Append(@, at)]
         /\ first' = [first EXCEPT ![k] = i]
  BY DEF Admit
<1>2. /\ accepted'[k] = Append(accepted[k], at) /\ first'[k] = i
      /\ Len(accepted'[k]) = n + 1 /\ accepted'[k][n + 1] = at
      /\ \A j \in 1..n : accepted'[k][j] = accepted[k][j]
  BY <1>0, <1>1 DEF LimiterSound, LimiterTypeOK
<1>3. ASSUME NEW x \in 1..(i - 1)
      PROVE  \E j \in (x + 1)..(x + MaxAttempts) :
                 j <= Len(accepted'[k]) /\ accepted'[k][j] > accepted'[k][x] + WindowLength
  <2>1. CASE x < first[k]
    <3>0. x \in 1..(first[k] - 1)
      BY <1>0, <2>1
    <3>1. PICK j \in (x + 1)..(x + MaxAttempts) :
               j <= n /\ accepted[k][j] > accepted[k][x] + WindowLength
      BY <3>0 DEF LimiterSound
    <3>2. j \in 1..n /\ x \in 1..n
      BY <1>0, <3>1, SMTT(30)
    <3>3. accepted'[k][j] > accepted'[k][x] + WindowLength /\ j <= Len(accepted'[k])
      BY <1>0, <1>2, <3>1, <3>2
    <3> QED
      BY <3>3
  <2>2. CASE x >= first[k]
    <3>1. x \in first[k]..(i - 1) /\ x \in 1..n
      BY <1>0, <1>1, <2>2
    <3>2. at > accepted[k][x] + WindowLength
      BY <1>1, <3>1 DEF IsLeftEnd
    <3>3. n + 1 \in (x + 1)..(x + MaxAttempts)
      BY <1>0, <2>2, <3>1, SMTT(30) DEF LimiterSound, InDeque
    <3> QED
      BY <1>2, <3>1, <3>2, <3>3
  <2> QED
    BY <1>0, <2>1, <2>2
<1>4. first'[k] \in 1..(Len(accepted'[k]) + 1) /\ InDeque(k, first[k])' <= MaxAttempts
  BY <1>0, <1>1, <1>2 DEF InDeque
<1>5. \A l \in Keys \ {k} : accepted'[l] = accepted[l] /\ first'[l] = first[l]
  BY <1>1 DEF LimiterSound, LimiterTypeOK
<1>6. LimiterTypeOK'
  BY LimiterTypes DEF LimiterSound
<1>7. ASSUME NEW l \in Keys
      PROVE  /\ first'[l] \in 1..(Len(accepted'[l]) + 1)
             /\ InDeque(l, first[l])' <= MaxAttempts
             /\ \A x \in 1..(first'[l] - 1) :
                   \E j \in (x + 1)..(x + MaxAttempts) :
                       j <= Len(accepted'[l]) /\ accepted'[l][j] > accepted'[l][x] + WindowLength
  <2>1. CASE l = k
    BY <1>2, <1>3, <1>4, <2>1
  <2>2. CASE l # k
    <3>1. accepted'[l] = accepted[l] /\ first'[l] = first[l]
      BY <1>5, <2>2
    <3> QED
      BY <3>1 DEF LimiterSound, InDeque
  <2> QED
    BY <2>1, <2>2
<1> QED
  BY <1>6, <1>7 DEF LimiterSound

\* A refusal pops nothing: the deque was full before, and is full still.
LEMMA RefuseSound ==
    ASSUME LimiterSound, NEW k \in Keys, NEW at \in Nat, Refuse(k, at)
    PROVE  LimiterSound'
<1>0. Len(accepted[k]) \in Nat /\ first[k] \in 1..(Len(accepted[k]) + 1) /\ MaxAttempts \in Nat
  BY LimitsOK DEF LimiterSound, LimiterTypeOK
<1>1. PICK i \in 1..(Len(accepted[k]) + 1) :
         /\ IsLeftEnd(k, at, i) /\ InDeque(k, i) >= MaxAttempts
         /\ first' = [first EXCEPT ![k] = i]
  BY DEF Refuse
<1>2. i = first[k]
  BY <1>0, <1>1 DEF IsLeftEnd, InDeque, LimiterSound
<1>3. first' = first /\ accepted' = accepted
  BY <1>1, <1>2 DEF LimiterSound, LimiterTypeOK, Refuse
<1> QED
  BY <1>3 DEF LimiterSound, LimiterTypeOK, InDeque

LEMMA LimiterAlways == AccountSpec => []LimiterSound
<1>1. Init => LimiterSound
  <2> SUFFICES ASSUME Init PROVE LimiterSound
    OBVIOUS
  <2>1. accepted = [k \in Keys |-> <<>>] /\ first = [k \in Keys |-> 1]
    BY DEF Init, LimiterInit
  <2> QED
    BY <2>1, LimitsOK DEF LimiterSound, LimiterTypeOK, InDeque
<1>2. Shaped /\ LimiterSound /\ [Next]_accountVars => LimiterSound'
  <2> SUFFICES ASSUME Shaped, LimiterSound, [Next]_accountVars PROVE LimiterSound'
    OBVIOUS
  <2>1. CASE UNCHANGED limiterVars
    BY <2>1 DEF limiterVars, LimiterSound, LimiterTypeOK, InDeque
  <2>2. ASSUME NEW c \in Clients, EnforceRateLimit(c) PROVE LimiterSound'
    <3>1. call[c].value.email \in Keys /\ call[c].value.at \in Nat
      BY <2>2, AccountBounds DEF EnforceRateLimit, At, Shaped, CallShape
    <3> QED
      BY <2>2, <3>1, AdmitSound, RefuseSound DEF EnforceRateLimit
  <2>3. CASE Restart
    <3>1. accepted' = [k \in Keys |-> <<>>] /\ first' = [k \in Keys |-> 1]
      BY <2>3 DEF Restart, LimiterRestart
    <3> QED
      BY <3>1, LimitsOK DEF LimiterSound, LimiterTypeOK, InDeque
  <2>4. CASE Tick
    BY <2>1, <2>4 DEF Tick
  <2>5. ASSUME NEW c \in Clients, AccountStep(c), ~EnforceRateLimit(c)
        PROVE  UNCHANGED limiterVars
    <3> USE DEF Replace, Quiet
    <3>1. CASE \/ StartRegister(c) \/ CheckEmailFree(c) \/ CreateUser(c) \/ StartVerify(c)
               \/ SaveVerified(c) \/ StartRequestReset(c) \/ SaveReset(c)
      BY <3>1 DEF StartRegister, CheckEmailFree, CreateUser, StartVerify, SaveVerified,
                  StartRequestReset, SaveReset
    <3>2. CASE \/ StartResetPassword(c) \/ StartChangePassword(c) \/ SavePassword(c)
               \/ StartLogin(c) \/ SignIn(c) \/ StartUpdateProfile(c) \/ SaveProfile(c)
               \/ StartCryptoProfile(c) \/ SaveCryptoProfile(c)
      BY <3>2 DEF StartResetPassword, StartChangePassword, SavePassword, StartLogin, SignIn,
                  StartUpdateProfile, SaveProfile, StartCryptoProfile, SaveCryptoProfile
    <3>3. CASE \/ StartCreateVault(c) \/ CreateVault(c) \/ StartDeleteAccount(c)
               \/ ListVaults(c) \/ DeleteNextVault(c) \/ DeleteUser(c) \/ LoadUser(c)
      BY <3>3 DEF StartCreateVault, CreateVault, StartDeleteAccount, ListVaults,
                  DeleteNextVault, DeleteUser, LoadUser
    <3> QED
      BY <2>5, <3>1, <3>2, <3>3 DEF AccountStep
  <2>6. CASE UNCHANGED accountVars
    BY <2>1, <2>6 DEF accountVars
  <2> QED
    BY <2>1, <2>2, <2>3, <2>4, <2>5, <2>6 DEF Next
<1> QED
  BY <1>1, <1>2, ShapedAlways, PTL DEF AccountSpec

\* No window lets through more sign-ins than the limit, for every limit, window and number
\* of overlapping requests, until the process restarts (enforce_login_rate_limit).
THEOREM LoginsAreLimited == AccountSpec => []LoginsPerWindow
BY LimiterAlways, LimiterImplies, PTL

-----------------------------------------------------------------------------
\* What a step of a call does to the rest: the history only grows, tokens are handed out
\* by SignIn alone, and vaults change in two actions only.
LEMMA RestEffect ==
    ASSUME Shaped, NEW c \in Clients, AccountStep(c)
    PROVE  /\ proven \subseteq proven' /\ contested \subseteq contested'
           /\ overlapped \subseteq overlapped' /\ orphaned \subseteq orphaned'
           /\ sessions' = sessions \/ SignIn(c)
           /\ vaults' = vaults \/ CreateVault(c) \/ DeleteNextVault(c)
<1> USE DEF Replace, Quiet, stored, history
<1>1. CASE \/ StartRegister(c) \/ CheckEmailFree(c) \/ StartVerify(c) \/ StartRequestReset(c)
           \/ StartResetPassword(c) \/ StartChangePassword(c) \/ StartLogin(c)
  BY <1>1 DEF StartRegister, CheckEmailFree, StartVerify, StartRequestReset,
              StartResetPassword, StartChangePassword, StartLogin
<1>2. CASE \/ EnforceRateLimit(c) \/ StartUpdateProfile(c) \/ StartCryptoProfile(c)
           \/ StartCreateVault(c) \/ StartDeleteAccount(c) \/ ListVaults(c) \/ LoadUser(c)
  BY <1>2 DEF EnforceRateLimit, StartUpdateProfile, StartCryptoProfile, StartCreateVault,
              StartDeleteAccount, ListVaults, LoadUser
<1>3. CASE \/ SaveVerified(c) \/ SaveReset(c) \/ SavePassword(c) \/ SaveProfile(c)
           \/ SaveCryptoProfile(c) \/ CreateUser(c)
  <2>1. CASE SaveVerified(c) \/ SaveReset(c)
    BY <2>1 DEF SaveVerified, SaveReset
  <2>2. CASE SavePassword(c) \/ SaveCryptoProfile(c)
    BY <2>2 DEF SavePassword, SaveCryptoProfile
  <2>3. CASE SaveProfile(c) \/ CreateUser(c)
    BY <2>3 DEF SaveProfile, CreateUser, Contest
  <2> QED
    BY <1>3, <2>1, <2>2, <2>3
<1>4. CASE SignIn(c) \/ CreateVault(c) \/ DeleteNextVault(c) \/ DeleteUser(c)
  <2>1. CASE SignIn(c)
    <3>1. UNCHANGED <<proven, contested, overlapped, orphaned, vaults>>
      BY <2>1 DEF SignIn
    <3> QED
      BY <2>1, <3>1
  <2>2. CASE CreateVault(c)
    <3>1. orphaned \subseteq orphaned' /\ UNCHANGED <<proven, contested, overlapped, sessions>>
      BY <2>2 DEF CreateVault
    <3> QED
      BY <2>2, <3>1
  <2>3. CASE DeleteNextVault(c)
    <3>1. UNCHANGED <<proven, contested, overlapped, orphaned, sessions>>
      BY <2>3 DEF DeleteNextVault
    <3> QED
      BY <2>3, <3>1
  <2>4. CASE DeleteUser(c)
    BY <2>4 DEF DeleteUser
  <2> QED
    BY <1>4, <2>1, <2>2, <2>3, <2>4
<1> QED
  BY <1>1, <1>2, <1>3, <1>4 DEF AccountStep

-----------------------------------------------------------------------------
\* Unless an account's writes have overlapped, the copy a call will write back is the
\* account itself.
Faithful ==
    /\ AcknowledgedWritesAreStored
    /\ \A c \in Clients :
          call[c].step = "save" /\ call[c].user \notin overlapped /\ users[call[c].user] # None
              => call[c].snap = users[call[c].user]

LEMMA FaithfulStep ==
    ASSUME Shaped, Faithful, NEW c \in Clients, AccountStep(c)
    PROVE  Faithful'
<1> DEFINE u == call[c].user
<1>0. \A d \in Clients : call[d].step = "save" => call[d].user \in handed /\ call[d].user \in Ids
  BY SaveLemma
<1>1. CASE Untouched
  <2>1. AcknowledgedWritesAreStored'
    BY <1>1 DEF Untouched, Faithful, AcknowledgedWritesAreStored
  <2>2. ASSUME NEW d \in Clients, call'[d].step = "save", call'[d].user \notin overlapped',
               users'[call'[d].user] # None
        PROVE  call'[d].snap = users'[call'[d].user]
    <3>1. CASE d # c
      <4>1. call'[d] = call[d]
        BY <3>1, CallEffect
      <4> QED
        BY <1>1, <2>2, <4>1 DEF Untouched, Faithful
    <3>2. CASE d = c
      <4>1. call'[c] = [call[c] EXCEPT !.step = "save", !.snap = users[call[c].user]]
        BY <2>2, <3>2, CallEffect
      <4>2. call'[c].snap = users[call[c].user] /\ call'[c].user = call[c].user
        BY <4>1 DEF Shaped, AccountsTypeOK, CallType
      <4> QED
        BY <1>1, <3>2, <4>2 DEF Untouched
    <3> QED
      BY <3>1, <3>2
  <2> QED
    BY <2>1, <2>2 DEF Faithful
<1>2. CASE call[c].step = "save" /\ \E doc, meant : Replace(c, doc, meant) /\ Laid(c, doc, meant)
  <2>1. PICK doc, meant : Replace(c, doc, meant) /\ Laid(c, doc, meant)
    BY <1>2
  <2>2. u \in Ids /\ call'[c] = Idle /\ \A d \in Clients \ {c} : call'[d] = call[d]
    BY <1>0, <1>2, <2>1, CallEffect DEF Replace, Finish, Shaped, AccountsTypeOK
  <2>3. CASE users[u] = None
    <3>1. users' = users /\ intended' = intended /\ overlapped' = overlapped
      BY <2>1, <2>3 DEF Replace
    <3>2. Idle.step # "save"
      BY DEF Idle
    <3> QED
      BY <2>2, <3>1, <3>2 DEF Faithful, AcknowledgedWritesAreStored
  <2>4. CASE users[u] # None
    <3>1. /\ users' = [users EXCEPT ![u] = doc] /\ intended' = [intended EXCEPT ![u] = meant]
          /\ overlapped' = IF HoldACopy(c, u) = {} THEN overlapped ELSE overlapped \cup {u}
      BY <2>1, <2>4 DEF Replace
    <3>2. /\ users'[u] = doc /\ intended'[u] = meant
          /\ \A x \in Ids \ {u} : users'[x] = users[x] /\ intended'[x] = intended[x]
          /\ overlapped \subseteq overlapped'
      BY <2>2, <3>1 DEF Shaped, AccountsTypeOK
    <3>3. u \notin overlapped' => doc = meant
      <4> SUFFICES ASSUME u \notin overlapped' PROVE doc = meant
        OBVIOUS
      <4>1. Snap(c) = users[u]
        BY <1>2, <2>4, <3>2 DEF Faithful, Snap
      <4>2. users[u] = intended[u]
        BY <2>2, <3>2 DEF Faithful, AcknowledgedWritesAreStored
      <4> QED
        BY <2>1, <4>1, <4>2 DEF Laid, Meant
    <3>4. AcknowledgedWritesAreStored'
      BY <3>2, <3>3 DEF Faithful, AcknowledgedWritesAreStored
    <3>5. ASSUME NEW d \in Clients, call'[d].step = "save", call'[d].user \notin overlapped',
                 users'[call'[d].user] # None
          PROVE  call'[d].snap = users'[call'[d].user]
      <4>1. d # c /\ call'[d] = call[d]
        BY <2>2, <3>5 DEF Idle
      <4>2. call[d].user # u
        BY <3>1, <3>5, <4>1 DEF HoldACopy
      <4>3. users'[call[d].user] = users[call[d].user]
        BY <1>0, <3>2, <3>5, <4>1, <4>2
      <4> QED
        BY <3>2, <3>5, <4>1, <4>3 DEF Faithful
    <3> QED
      BY <3>4, <3>5 DEF Faithful
  <2> QED
    BY <2>3, <2>4
<1>3. CASE CreateUser(c)
  <2>1. PICK x \in Ids \ handed :
             /\ users' = [users EXCEPT ![x] = call[c].value]
             /\ intended' = [intended EXCEPT ![x] = call[c].value]
    BY <1>3 DEF CreateUser
  <2>2. call'[c] = Idle /\ (\A d \in Clients \ {c} : call'[d] = call[d]) /\ overlapped' = overlapped
    BY <1>3, CallEffect DEF CreateUser, Finish, Shaped, AccountsTypeOK
  <2>3. AcknowledgedWritesAreStored'
    BY <2>1, <2>2 DEF Faithful, AcknowledgedWritesAreStored, Shaped, AccountsTypeOK
  <2>4. \A y \in handed : users'[y] = users[y]
    BY <2>1 DEF Shaped, AccountsTypeOK
  <2>5. Idle.step # "save"
    BY DEF Idle
  <2> QED
    BY <1>0, <2>2, <2>3, <2>4, <2>5 DEF Faithful
<1>4. CASE DeleteUser(c)
  <2>1. call'[c] = Idle /\ (\A d \in Clients \ {c} : call'[d] = call[d]) /\ overlapped' = overlapped
    BY <1>4, CallEffect DEF DeleteUser, Finish, Shaped, AccountsTypeOK
  <2>2. AcknowledgedWritesAreStored'
    BY <1>4, <2>1 DEF DeleteUser, Faithful, AcknowledgedWritesAreStored, Shaped, AccountsTypeOK
  <2>3. \A y \in Ids : users'[y] = None \/ users'[y] = users[y]
    BY <1>4 DEF DeleteUser, Shaped, AccountsTypeOK
  <2>4. Idle.step # "save"
    BY DEF Idle
  <2> QED
    BY <1>0, <2>1, <2>2, <2>3, <2>4 DEF Faithful
<1> QED
  BY <1>1, <1>2, <1>3, <1>4, StoredEffect

LEMMA FaithfulAlways == AccountSpec => []Faithful
<1>1. Init => Faithful
  BY DEF Init, Faithful, AcknowledgedWritesAreStored, Idle
<1>2. Shaped /\ Faithful /\ [Next]_accountVars => Faithful'
  <2>1. ASSUME Faithful, UNCHANGED accountVars PROVE Faithful'
    BY <2>1 DEF accountVars, stored, history, Faithful, AcknowledgedWritesAreStored
  <2>2. ASSUME Faithful, Restart PROVE Faithful'
    BY <2>2 DEF Restart, stored, history, Faithful, AcknowledgedWritesAreStored, Idle
  <2>3. ASSUME Faithful, Tick PROVE Faithful'
    BY <2>3 DEF Tick, stored, history, Faithful, AcknowledgedWritesAreStored
  <2> QED
    BY <2>1, <2>2, <2>3, FaithfulStep DEF Next
<1> QED
  BY <1>1, <1>2, ShapedAlways, PTL DEF AccountSpec

\* An account whose writes never overlapped is what its acknowledged writes made it, for
\* any number of callers, whatever the others do (update_user's read and replace).
THEOREM SerialWritesAreStored == AccountSpec => []AcknowledgedWritesAreStored
<1>1. Faithful => AcknowledgedWritesAreStored
  BY DEF Faithful
<1> QED
  BY <1>1, FaithfulAlways, PTL

-----------------------------------------------------------------------------
\* Accounts a verification is under way for have been proven, and so have those of which a
\* call holds a verified copy.
Vouched ==
    /\ ProvenBeforeUse
    /\ \A c \in Clients :
          /\ call[c].op = "verify_email" => call[c].user \in proven
          /\ call[c].step = "save" /\ call[c].snap.verified => call[c].user \in proven

LEMMA VouchedStep ==
    ASSUME Shaped, Vouched, NEW c \in Clients, AccountStep(c)
    PROVE  Vouched'
<1>0. proven \subseteq proven'
  BY RestEffect
<1>1. ASSUME NEW d \in Clients, call'[d].op = "verify_email" PROVE call'[d].user \in proven'
  <2>1. CASE d # c
    <3>1. call'[d] = call[d]
      BY <2>1, CallEffect
    <3> QED
      BY <1>0, <1>1, <3>1 DEF Vouched
  <2>2. CASE d = c /\ call'[c].user = call[c].user /\ call[c].op = "verify_email"
    BY <1>0, <2>2 DEF Vouched
  <2>3. CASE d = c /\ StartVerify(c)
    BY <2>3 DEF StartVerify, Begin, Shaped, AccountsTypeOK
  <2> QED
    BY <1>1, <2>1, <2>2, <2>3, CallEffect
<1>2. ASSUME NEW d \in Clients, call'[d].step = "save", call'[d].snap.verified
      PROVE  call'[d].user \in proven'
  <2>1. CASE d # c
    <3>1. call'[d] = call[d]
      BY <2>1, CallEffect
    <3> QED
      BY <1>0, <1>2, <3>1 DEF Vouched
  <2>2. CASE d = c
    <3>1. /\ call'[c] = [call[c] EXCEPT !.step = "save", !.snap = users[call[c].user]]
          /\ LoadUser(c) /\ users[call[c].user] # None
      BY <1>2, <2>2, CallEffect
    <3>2. call'[c].user = call[c].user /\ call'[c].snap = users[call[c].user]
      BY <3>1 DEF Shaped, AccountsTypeOK, CallType
    <3>3. call[c].user \in Ids
      BY <3>1 DEF LoadUser, Shaped, CallShape, AboutAnAccount, AccountsTypeOK
    <3>4. call[c].user \in proven
      BY <1>2, <2>2, <3>1, <3>2, <3>3 DEF Vouched, ProvenBeforeUse, Live
    <3> QED
      BY <1>0, <2>2, <3>2, <3>4
  <2> QED
    BY <2>1, <2>2
<1>3. ASSUME NEW x \in Ids, users'[x] # None, users'[x].verified PROVE x \in proven'
  <2>1. CASE users'[x] = users[x]
    BY <1>0, <1>3, <2>1 DEF Vouched, ProvenBeforeUse, Live
  <2>2. CASE call[c].step = "save" /\ \E doc, meant : Replace(c, doc, meant) /\ Laid(c, doc, meant)
    <3>1. PICK doc, meant : Replace(c, doc, meant) /\ Laid(c, doc, meant)
      BY <2>2
    <3>2. CASE x = call[c].user /\ users'[x] = doc
      BY <1>0, <1>3, <2>2, <3>1, <3>2 DEF Laid, Vouched, Snap
    <3>3. users'[x] = users[x] \/ (x = call[c].user /\ users'[x] = doc)
      <4>1. users' = users \/ users' = [users EXCEPT ![call[c].user] = doc]
        BY <3>1 DEF Replace
      <4>2. users \in [Ids -> User \cup {None}]
        BY DEF Shaped, AccountsTypeOK
      <4> QED
        BY <4>1, <4>2
    <3> QED
      BY <2>1, <3>2, <3>3
  <2>3. CASE CreateUser(c)
    <3>1. PICK y \in Ids \ handed : users' = [users EXCEPT ![y] = call[c].value]
      BY <2>3 DEF CreateUser
    <3>2. call[c].value.verified = FALSE
      BY <2>3 DEF CreateUser, At, Shaped, CallShape
    <3>3. users'[x] = users[x]
      BY <1>3, <3>1, <3>2 DEF Shaped, AccountsTypeOK
    <3> QED
      BY <2>1, <3>3
  <2>4. CASE DeleteUser(c)
    <3>1. users'[x] = users[x]
      BY <1>3, <2>4 DEF DeleteUser, Shaped, AccountsTypeOK
    <3> QED
      BY <2>1, <3>1
  <2>5. CASE Untouched
    BY <2>1, <2>5 DEF Untouched
  <2> QED
    BY <2>2, <2>3, <2>4, <2>5, StoredEffect
<1>4. ASSUME NEW s \in sessions' PROVE s.user \in proven'
  <2>1. CASE s \in sessions
    BY <1>0, <2>1 DEF Vouched, ProvenBeforeUse
  <2>2. CASE SignIn(c) /\ s \notin sessions
    <3>1. PICK x \in Mailed(call[c].value.email) :
               /\ users[x].verified
               /\ sessions' = sessions \cup {[user |-> x, expires |-> now + SessionLife]}
      BY <1>4, <2>2 DEF SignIn
    <3>2. s.user = x /\ x \in Live
      BY <1>4, <2>2, <3>1 DEF Mailed
    <3> QED
      BY <1>0, <3>1, <3>2 DEF Vouched, ProvenBeforeUse
  <2> QED
    BY <1>4, <2>1, <2>2, RestEffect
<1>5. ProvenBeforeUse'
  BY <1>3, <1>4 DEF ProvenBeforeUse, Live
<1> QED
  BY <1>1, <1>2, <1>5 DEF Vouched

LEMMA VouchedAlways == AccountSpec => []Vouched
<1>1. Init => Vouched
  <2> SUFFICES ASSUME Init PROVE Vouched
    OBVIOUS
  <2>1. \A u \in Live : u \in proven
    BY DEF Init, Live
  <2>2. \A s \in sessions : s.user \in proven
    BY DEF Init
  <2>3. \A c \in Clients : call[c] = Idle
    BY DEF Init
  <2> QED
    BY <2>1, <2>2, <2>3 DEF Vouched, ProvenBeforeUse, Idle
<1>2. Shaped /\ Vouched /\ [Next]_accountVars => Vouched'
  <2>1. ASSUME Vouched, UNCHANGED accountVars PROVE Vouched'
    BY <2>1 DEF accountVars, stored, history, Vouched, ProvenBeforeUse, Live
  <2>2. ASSUME Vouched, Restart PROVE Vouched'
    BY <2>2 DEF Restart, stored, history, Vouched, ProvenBeforeUse, Live, Idle
  <2>3. ASSUME Vouched, Tick PROVE Vouched'
    BY <2>3 DEF Tick, stored, history, Vouched, ProvenBeforeUse, Live
  <2> QED
    BY <2>1, <2>2, <2>3, VouchedStep DEF Next
<1> QED
  BY <1>1, <1>2, ShapedAlways, PTL DEF AccountSpec

\* Nobody is verified or signed in whose own verification link was not used in time, however
\* the writes of the account are interleaved (verify_email, login_account).
THEOREM VerifiedAreProven == AccountSpec => []ProvenBeforeUse
<1>1. Vouched => ProvenBeforeUse
  BY DEF Vouched
<1> QED
  BY <1>1, VouchedAlways, PTL

-----------------------------------------------------------------------------
\* A deletion under way will delete every vault of the account but those made since it
\* listed them.
Accounted ==
    /\ OrphansOnlyByRaces
    /\ \A c \in Clients :
          call[c].op = "delete_account" /\ call[c].step = "load" =>
              \A v \in vaults : v.owner = call[c].user => v \in call[c].todo \/ v \in orphaned

LEMMA UsersGone ==
    ASSUME Shaped, NEW c \in Clients, AccountStep(c), ~DeleteUser(c), NEW x \in Ids,
           users'[x] = None
    PROVE  users[x] = None
<1>1. CASE Untouched
  BY <1>1 DEF Untouched
<1>2. CASE \E doc, meant : Replace(c, doc, meant) /\ Laid(c, doc, meant)
  <2>1. PICK doc, meant : Replace(c, doc, meant) /\ Laid(c, doc, meant)
    BY <1>2
  <2>2. doc # None
    BY <2>1, NoneIsNoValue DEF Laid
  <2> QED
    BY <2>1, <2>2 DEF Replace, Shaped, AccountsTypeOK
<1>3. CASE CreateUser(c)
  <2>1. call[c].value # None
    BY <1>3, NoneIsNoValue DEF CreateUser, At, Shaped, CallShape
  <2> QED
    BY <1>3, <2>1 DEF CreateUser, Shaped, AccountsTypeOK
<1> QED
  BY <1>1, <1>2, <1>3, StoredEffect

LEMMA AccountedStep ==
    ASSUME Shaped, Accounted, NEW c \in Clients, AccountStep(c)
    PROVE  Accounted'
<1>0. /\ orphaned \subseteq orphaned'
      /\ \A v \in vaults : v.owner \in Ids
  BY RestEffect DEF Shaped, AccountsTypeOK, Vault
<1>1. ASSUME NEW v \in vaults', users'[v.owner] = None PROVE v \in orphaned'
  <2>1. CASE v \in vaults /\ DeleteUser(c)
    <3>1. CASE v.owner = call[c].user
      BY <1>0, <2>1, <3>1 DEF DeleteUser, At, Accounted
    <3>2. CASE v.owner # call[c].user
      <4>1. users[v.owner] = None
        BY <1>0, <1>1, <2>1, <3>2 DEF DeleteUser, Shaped, AccountsTypeOK
      <4> QED
        BY <1>0, <2>1, <4>1 DEF Accounted, OrphansOnlyByRaces
    <3> QED
      BY <3>1, <3>2
  <2>2. CASE v \in vaults /\ ~DeleteUser(c)
    <3>1. users[v.owner] = None
      BY <1>0, <1>1, <2>2, UsersGone
    <3> QED
      BY <1>0, <2>2, <3>1 DEF Accounted, OrphansOnlyByRaces
  <2>3. CASE v \notin vaults
    <3>1. CreateVault(c)
      <4>1. ~DeleteNextVault(c)
        BY <1>1, <2>3 DEF DeleteNextVault
      <4> QED
        BY <1>1, <2>3, <4>1, RestEffect
    <3> QED
      BY <1>1, <2>3, <3>1 DEF CreateVault
  <2> QED
    BY <2>1, <2>2, <2>3
<1>2. ASSUME NEW d \in Clients, call'[d].op = "delete_account", call'[d].step = "load",
             NEW v \in vaults', v.owner = call'[d].user
      PROVE  v \in call'[d].todo \/ v \in orphaned'
  <2>1. CASE d # c
    <3>1. call'[d] = call[d]
      BY <2>1, CallEffect
    <3>2. CASE v \in vaults
      BY <1>0, <1>2, <3>1, <3>2 DEF Accounted
    <3>3. CASE v \notin vaults
      <4>1. CreateVault(c)
        <5>1. ~DeleteNextVault(c)
          BY <1>2, <3>3 DEF DeleteNextVault
        <5> QED
          BY <1>2, <3>3, <5>1, RestEffect
      <4> QED
        BY <1>2, <3>1, <3>3, <4>1 DEF CreateVault
    <3> QED
      BY <3>2, <3>3
  <2>2. CASE d = c /\ ListVaults(c)
    <3>1. call'[c].todo = VaultsOf(call[c].user) /\ call'[c].user = call[c].user /\ vaults' = vaults
      BY <2>2 DEF ListVaults, Quiet, stored, Shaped, AccountsTypeOK, CallType
    <3> QED
      BY <1>2, <2>2, <3>1 DEF VaultsOf
  <2>3. CASE d = c /\ DeleteNextVault(c)
    <3>1. PICK w \in call[c].todo : /\ vaults' = vaults \ {w}
                                    /\ call' = [call EXCEPT ![c].todo = @ \ {w}]
      BY <2>3 DEF DeleteNextVault
    <3>2. call'[c].todo = call[c].todo \ {w} /\ call'[c].user = call[c].user
      BY <3>1 DEF Shaped, AccountsTypeOK, CallType
    <3>3. At(c, "delete_account", "load")
      BY <2>3 DEF DeleteNextVault
    <3> QED
      BY <1>0, <1>2, <2>3, <3>1, <3>2, <3>3 DEF At, Accounted
  <2> QED
    BY <1>2, <2>1, <2>2, <2>3, CallEffect
<1> QED
  BY <1>1, <1>2 DEF Accounted, OrphansOnlyByRaces

LEMMA AccountedAlways == AccountSpec => []Accounted
<1>1. Init => Accounted
  BY DEF Init, Accounted, OrphansOnlyByRaces, Idle
<1>2. Shaped /\ Accounted /\ [Next]_accountVars => Accounted'
  <2>1. ASSUME Accounted, UNCHANGED accountVars PROVE Accounted'
    BY <2>1 DEF accountVars, stored, history, Accounted, OrphansOnlyByRaces
  <2>2. ASSUME Accounted, Restart PROVE Accounted'
    BY <2>2 DEF Restart, stored, history, Accounted, OrphansOnlyByRaces, Idle
  <2>3. ASSUME Accounted, Tick PROVE Accounted'
    BY <2>3 DEF Tick, stored, history, Accounted, OrphansOnlyByRaces
  <2> QED
    BY <2>1, <2>2, <2>3, AccountedStep DEF Next
<1> QED
  BY <1>1, <1>2, ShapedAlways, PTL DEF AccountSpec

\* Deleting an account leaves no vault behind but those a racing call made: for any number
\* of vaults, and with the backend dying in the middle (delete_current_user_account).
THEOREM DeletionLeavesNoVaults == AccountSpec => []OrphansOnlyByRaces
<1>1. Accounted => OrphansOnlyByRaces
  BY DEF Accounted
<1> QED
  BY <1>1, AccountedAlways, PTL

-----------------------------------------------------------------------------
\* What a call in progress has found free is still free, or has been contested since, or
\* was brought back by a stale copy.
Excused(n, X) == n \in contested \/ \E x \in X : x \in overlapped

ClaimsHold(k) ==
    /\ k.op = "register" => k.step \in {"email", "create"}
    /\ k.op = "register" /\ k.step = "create" =>
           \A u \in Live : users[u].email = k.value.email => k.value.email \in contested
    /\ k.op = "register" =>
           \A u \in Live : users[u].name = k.value.name => Excused(k.value.name, {u})
    /\ k.op = "update_profile" =>
           \A w \in Live : w # k.user /\ users[w].name = k.value => Excused(k.value, {w, k.user})
    /\ k.step = "save" /\ users[k.user] # None => k.snap.email = users[k.user].email

Distinct == /\ SharedOnlyByRaces
            /\ \A c \in Clients : ClaimsHold(call[c])

\* How an account of the next state relates to one of this state.
LEMMA AccountEffect ==
    ASSUME Shaped, Faithful, Distinct, NEW c \in Clients, AccountStep(c), NEW x \in Ids, users'[x] # None
    PROVE  \/ users[x] # None /\ users'[x].email = users[x].email /\ users'[x].name = users[x].name
           \/ users[x] # None /\ users'[x].email = users[x].email /\ x \in overlapped'
           \/ /\ users[x] # None /\ users'[x].email = users[x].email /\ x = call[c].user
              /\ call[c].op = "update_profile" /\ users'[x].name = call[c].value /\ Contest(c)
           \/ CreateUser(c) /\ users[x] = None /\ x \notin handed /\ users'[x] = call[c].value
<1>1. CASE users'[x] = users[x]
  BY <1>1
<1>2. CASE call[c].step = "save" /\ \E doc, meant : Replace(c, doc, meant) /\ Laid(c, doc, meant)
  <2>1. PICK doc, meant : Replace(c, doc, meant) /\ Laid(c, doc, meant)
    BY <1>2
  <2> SUFFICES ASSUME users'[x] # users[x]
               PROVE  \/ users[x] # None /\ users'[x].email = users[x].email /\ users'[x].name = users[x].name
                      \/ users[x] # None /\ users'[x].email = users[x].email /\ x \in overlapped'
                      \/ /\ users[x] # None /\ users'[x].email = users[x].email /\ x = call[c].user
                         /\ call[c].op = "update_profile" /\ users'[x].name = call[c].value /\ Contest(c)
    BY <1>1
  <2>2. users # users' /\ users \in [Ids -> User \cup {None}]
    BY DEF Shaped, AccountsTypeOK
  <2>3. /\ users[call[c].user] # None /\ users' = [users EXCEPT ![call[c].user] = doc]
        /\ overlapped \subseteq overlapped'
    BY <2>1, <2>2 DEF Replace
  <2>4. x = call[c].user /\ users'[x] = doc /\ users[x] # None
    BY <2>2, <2>3
  <2>5. doc.email = users[x].email
    BY <1>2, <2>1, <2>4 DEF Laid, Snap, Distinct, ClaimsHold
  <2>6. x \notin overlapped' => Snap(c) = users[x]
    BY <1>2, <2>3, <2>4 DEF Faithful, Snap
  <2> QED
    BY <2>1, <2>4, <2>5, <2>6 DEF Laid
<1>3. CASE CreateUser(c)
  <2>1. PICK y \in Ids \ handed : users' = [users EXCEPT ![y] = call[c].value]
    BY <1>3 DEF CreateUser
  <2>2. users \in [Ids -> User \cup {None}] /\ users[y] = None
    BY <2>1 DEF Shaped, AccountsTypeOK
  <2>3. CASE x = y
    BY <1>3, <2>1, <2>2, <2>3
  <2>4. CASE x # y
    BY <1>1, <2>1, <2>2, <2>4
  <2> QED
    BY <2>3, <2>4
<1>4. CASE DeleteUser(c)
  <2>1. users'[x] = users[x]
    BY <1>4 DEF DeleteUser, Shaped, AccountsTypeOK
  <2> QED
    BY <1>1, <2>1
<1>5. CASE Untouched
  BY <1>1, <1>5 DEF Untouched
<1> QED
  BY <1>2, <1>3, <1>4, <1>5, StoredEffect

\* Where two calls hold a claim on the same value, taking it contests it.
LEMMA ClaimContested ==
    ASSUME NEW c \in Clients, NEW d \in Clients \ {c}, Contest(c),
           NEW n \in Claimed(c), n \in Claimed(d)
    PROVE  n \in contested'
BY DEF Contest

LEMMA ClaimedValues ==
    ASSUME Distinct, NEW c \in Clients
    PROVE  /\ call[c].op = "register" => call[c].value.name \in Claimed(c)
           /\ call[c].op = "register" /\ call[c].step = "create" => call[c].value.email \in Claimed(c)
           /\ call[c].op = "update_profile" => call[c].value \in Claimed(c)
BY DEF Claimed

\* What a call claims, in the state after a step of the call c.
LEMMA ClaimEffect ==
    ASSUME Shaped, Distinct, NEW c \in Clients, AccountStep(c),
           \/ call'[c].op \in {"register", "update_profile"}
           \/ call'[c].step = "save"
    PROVE  Untouched /\ contested' = contested /\ ClaimsHold(call[c])'
<1>1. call \in [Clients -> CallType] /\ call[c] \in CallType /\ ClaimsHold(call[c])
  BY DEF Shaped, AccountsTypeOK, Distinct
<1>2. CASE StartRegister(c)
  <2>1. PICK e \in Emails, n \in Names, p \in Passwords :
          /\ Named(n) = {}
          /\ Begin(c, "register", "email", None, NewUser(e, n, p, NewToken(VerificationLife)))
    BY <1>2 DEF StartRegister
  <2>2. /\ call'[c].op = "register" /\ call'[c].step = "email" /\ call'[c].value.name = n
        /\ Untouched /\ contested' = contested
    BY <1>1, <1>2, <2>1 DEF Begin, StartRegister, NewUser, Untouched, history
  <2>3. \A u \in Live' : users'[u].name # n
    BY <2>1, <2>2 DEF Named, Live, Untouched
  <2> QED
    BY <2>2, <2>3 DEF ClaimsHold
<1>3. CASE CheckEmailFree(c)
  <2>1. Untouched /\ contested' = contested /\ overlapped' = overlapped
    BY <1>3 DEF CheckEmailFree, Quiet, stored, history, Untouched
  <2>2. Mailed(call[c].value.email) = {}
    <3>1. CASE Mailed(call[c].value.email) # {}
      <4>1. call'[c] = Idle
        BY <1>1, <1>3, <3>1 DEF CheckEmailFree
      <4> QED
        BY <4>1 DEF Idle
    <3> QED
      BY <3>1
  <2>3. call'[c] = [call[c] EXCEPT !.step = "create"] /\ call[c].op = "register"
    BY <1>1, <1>3, <2>2 DEF CheckEmailFree, At
  <2>4. /\ call'[c].op = "register" /\ call'[c].step = "create"
        /\ call'[c].value = call[c].value
    BY <1>1, <2>3 DEF CallType
  <2>5. \A u \in Live' : users'[u].email # call'[c].value.email
    BY <2>1, <2>2, <2>4 DEF Mailed, Live, Untouched
  <2> QED
    BY <1>1, <2>1, <2>3, <2>4, <2>5 DEF ClaimsHold, Excused, Live, Untouched
<1>4. CASE StartUpdateProfile(c)
  <2>1. PICK u \in Ids, n \in Names :
            /\ SignedIn(u)
            /\ Named(n) = {} \/ u \in Named(n)
            /\ Begin(c, "update_profile", "load", u, n)
    BY <1>4 DEF StartUpdateProfile
  <2>2. /\ call'[c].op = "update_profile" /\ call'[c].step = "load" /\ call'[c].value = n
        /\ call'[c].user = u
    BY <1>1, <2>1 DEF Begin
  <2>3. Untouched /\ contested' = contested
    BY <1>4 DEF StartUpdateProfile, Quiet, stored, history, Untouched
  <2>4. ASSUME NEW w \in Live, w # u, users[w].name = n PROVE Excused(n, {w, u})
    BY <2>1, <2>4 DEF Named, Excused, Distinct, SharedOnlyByRaces
  <2> QED
    BY <2>2, <2>3, <2>4 DEF ClaimsHold, Excused, Untouched, Live
<1>5. CASE LoadUser(c)
  <2>1. Untouched /\ contested' = contested
    BY <1>5 DEF LoadUser, Quiet, stored, history, Untouched
  <2>2. users[call[c].user] # None
    <3>1. CASE users[call[c].user] = None
      <4>1. call'[c] = Idle
        BY <1>1, <1>5, <3>1 DEF LoadUser
      <4> QED
        BY <4>1 DEF Idle
    <3> QED
      BY <3>1
  <2>3. /\ call'[c] = [call[c] EXCEPT !.step = "save", !.snap = users[call[c].user]]
        /\ call[c].step = "load"
    BY <1>1, <1>5, <2>2 DEF LoadUser
  <2>4. /\ call'[c].op = call[c].op /\ call'[c].step = "save" /\ call'[c].user = call[c].user
        /\ call'[c].value = call[c].value /\ call'[c].snap = users[call[c].user]
        /\ call[c].op # "register"
    BY <1>1, <2>3 DEF CallType, ClaimsHold
  <2> QED
    BY <1>1, <2>1, <2>4 DEF ClaimsHold, Excused, Untouched, Live
<1>6. \/ StartRegister(c) \/ CheckEmailFree(c) \/ StartUpdateProfile(c) \/ LoadUser(c)
  <2> USE DEF Begin, Finish, Idle, At, Saving, Replace
  <2>1. CASE StartVerify(c) \/ StartRequestReset(c) \/ StartResetPassword(c)
    <3>1. CASE StartVerify(c)
      <4>1. PICK u \in Live : Begin(c, "verify_email", "load", u, None)
        BY <3>1 DEF StartVerify
      <4> QED
        BY <1>1, <4>1
    <3>2. CASE StartRequestReset(c)
      <4>1. PICK u \in Live : \/ Begin(c, "request_reset", "load", u, NewToken(ResetLife))
                              \/ Begin(c, "request_my_reset", "load", u, NewToken(ResetLife))
        BY <3>2 DEF StartRequestReset
      <4> QED
        BY <1>1, <4>1
    <3>3. CASE StartResetPassword(c)
      <4>1. PICK u \in Live : Begin(c, "reset_password", "load", u, users[u].reset)
        BY <3>3 DEF StartResetPassword
      <4> QED
        BY <1>1, <4>1
    <3> QED
      BY <2>1, <3>1, <3>2, <3>3
  <2>2. CASE \/ StartChangePassword(c) \/ StartCryptoProfile(c) \/ StartCreateVault(c)
             \/ StartDeleteAccount(c) \/ StartLogin(c)
    BY <1>1, <2>2 DEF StartChangePassword, StartCryptoProfile, StartCreateVault,
                      StartDeleteAccount, StartLogin
  <2>3. CASE \/ SaveVerified(c) \/ SaveReset(c) \/ SavePassword(c) \/ SaveProfile(c)
             \/ SaveCryptoProfile(c) \/ CreateUser(c)
    BY <1>1, <2>3 DEF SaveVerified, SaveReset, SavePassword, SaveProfile, SaveCryptoProfile,
                      CreateUser
  <2>4. CASE EnforceRateLimit(c) \/ SignIn(c) \/ CreateVault(c) \/ DeleteUser(c)
    BY <1>1, <2>4 DEF EnforceRateLimit, SignIn, CreateVault, DeleteUser, CallType
  <2>5. CASE ListVaults(c) \/ DeleteNextVault(c)
    BY <1>1, <2>5 DEF ListVaults, DeleteNextVault, CallType
  <2> QED
    BY <2>1, <2>2, <2>3, <2>4, <2>5 DEF AccountStep
<1> QED
  BY <1>2, <1>3, <1>4, <1>5, <1>6

\* A claim of another call survives what the call c does to the accounts.
LEMMA ClaimKept ==
    ASSUME Shaped, Faithful, Distinct, NEW c \in Clients, AccountStep(c),
           NEW d \in Clients \ {c}
    PROVE  ClaimsHold(call[d])'
<1>1. /\ call'[d] = call[d] /\ ClaimsHold(call[d])
      /\ contested \subseteq contested' /\ overlapped \subseteq overlapped'
  BY CallEffect, RestEffect DEF Distinct
<1>2. CreateUser(c) => call[c].op = "register" /\ call[c].step = "create"
  BY DEF CreateUser, At
<1>3. ASSUME call[d].op = "register", call[d].step = "create", NEW u \in Live',
             users'[u].email = call[d].value.email
      PROVE  call[d].value.email \in contested'
  <2>1. u \in Ids /\ users'[u] # None
    BY DEF Live
  <2>2. CASE users[u] # None /\ users'[u].email = users[u].email
    BY <1>1, <1>3, <2>1, <2>2 DEF ClaimsHold, Live
  <2>3. CASE CreateUser(c) /\ users'[u] = call[c].value
    <3>1. call[d].value.email \in Claimed(c) /\ call[d].value.email \in Claimed(d)
      BY <1>2, <1>3, <2>3, ClaimedValues
    <3> QED
      BY <2>3, <3>1, ClaimContested DEF CreateUser
  <2> QED
    BY <2>1, <2>2, <2>3, AccountEffect
<1>4. ASSUME NEW n \in Claimed(d), NEW X, NEW u \in X, u \in Live', users'[u].name = n,
             users[u] # None /\ users[u].name = n => Excused(n, X)
      PROVE  Excused(n, X)'
  <2>1. u \in Ids /\ users'[u] # None
    BY <1>4 DEF Live
  <2>2. CASE users[u] # None /\ users'[u].name = users[u].name
    BY <1>1, <1>4, <2>2 DEF Excused
  <2>3. CASE u \in overlapped'
    BY <1>4, <2>3 DEF Excused
  <2>4. CASE call[c].op = "update_profile" /\ users'[u].name = call[c].value /\ Contest(c)
    <3>1. n \in Claimed(c)
      BY <1>4, <2>4, ClaimedValues
    <3> QED
      BY <1>4, <2>4, <3>1, ClaimContested DEF Excused
  <2>5. CASE CreateUser(c) /\ users'[u] = call[c].value
    <3>1. n \in Claimed(c)
      BY <1>2, <1>4, <2>5, ClaimedValues
    <3> QED
      BY <1>4, <2>5, <3>1, ClaimContested DEF Excused, CreateUser
  <2> QED
    BY <2>1, <2>2, <2>3, <2>4, <2>5, AccountEffect
<1>5. ASSUME call[d].op = "register", NEW u \in Live', users'[u].name = call[d].value.name
      PROVE  Excused(call[d].value.name, {u})'
  <2>1. users[u] # None /\ users[u].name = call[d].value.name => Excused(call[d].value.name, {u})
    BY <1>1, <1>5 DEF ClaimsHold, Live
  <2>2. call[d].value.name \in Claimed(d)
    BY <1>5, ClaimedValues
  <2> QED
    BY <1>1, <1>4, <1>5, <2>1, <2>2
<1>6. ASSUME call[d].op = "update_profile", NEW w \in Live', w # call[d].user,
             users'[w].name = call[d].value
      PROVE  Excused(call[d].value, {w, call[d].user})'
  <2>1. users[w] # None /\ users[w].name = call[d].value
            => Excused(call[d].value, {w, call[d].user})
    BY <1>1, <1>6 DEF ClaimsHold, Live
  <2>2. call[d].value \in Claimed(d)
    BY <1>6, ClaimedValues
  <2> QED
    BY <1>1, <1>4, <1>6, <2>1, <2>2
<1>7. ASSUME call[d].step = "save", users'[call[d].user] # None
      PROVE  call[d].snap.email = users'[call[d].user].email
  <2>1. call[d].user \in handed /\ call[d].user \in Ids
    BY <1>7 DEF Shaped, AccountsTypeOK, CallShape, AboutAnAccount
  <2>2. users[call[d].user] # None /\ users'[call[d].user].email = users[call[d].user].email
    BY <1>7, <2>1, AccountEffect
  <2> QED
    BY <1>1, <1>7, <2>2 DEF ClaimsHold
<1> QED
  BY <1>1, <1>3, <1>5, <1>6, <1>7 DEF ClaimsHold

LEMMA DistinctStep ==
    ASSUME Shaped, Faithful, Distinct, NEW c \in Clients, AccountStep(c)
    PROVE  Distinct'
<1>0. /\ contested \subseteq contested' /\ overlapped \subseteq overlapped'
      /\ ClaimsHold(call[c])
  BY RestEffect DEF Distinct
<1>1. ASSUME NEW u \in Live', NEW w \in Live', u # w,
             users[u] # None, users'[u].email = users[u].email
      PROVE  /\ users'[u].email = users'[w].email => users'[u].email \in contested'
             /\ users'[u].name = users'[w].name =>
                    users'[u].name \in contested' \/ u \in overlapped' \/ w \in overlapped'
  <2>0. u \in Ids /\ w \in Ids /\ users'[u] # None /\ users'[w] # None /\ u \in Live
    BY <1>1 DEF Live
  <2>1. CASE users[w] # None /\ users'[w].email = users[w].email
    <3>0. w \in Live
      BY <2>0, <2>1 DEF Live
    <3>1. users'[u].email = users'[w].email => users'[u].email \in contested'
      BY <1>0, <1>1, <2>0, <2>1, <3>0 DEF Distinct, SharedOnlyByRaces
    <3> SUFFICES ASSUME users'[u].name = users'[w].name,
                        u \notin overlapped', w \notin overlapped'
                 PROVE  users'[u].name \in contested'
      BY <3>1
    <3>2. CASE users'[u].name = users[u].name /\ users'[w].name = users[w].name
      BY <1>0, <1>1, <2>0, <3>0, <3>2 DEF Distinct, SharedOnlyByRaces
    <3>3. CASE /\ u = call[c].user /\ call[c].op = "update_profile"
               /\ users'[u].name = call[c].value /\ users'[w].name = users[w].name
      BY <1>0, <1>1, <2>0, <3>0, <3>3 DEF ClaimsHold, Excused
    <3>4. CASE /\ w = call[c].user /\ call[c].op = "update_profile"
               /\ users'[w].name = call[c].value /\ users'[u].name = users[u].name
      BY <1>0, <1>1, <2>0, <3>0, <3>4 DEF ClaimsHold, Excused
    <3>5. \/ users'[u].name = users[u].name
          \/ u = call[c].user /\ call[c].op = "update_profile" /\ users'[u].name = call[c].value
      BY <1>1, <2>0, AccountEffect
    <3>6. \/ users'[w].name = users[w].name
          \/ w = call[c].user /\ call[c].op = "update_profile" /\ users'[w].name = call[c].value
      BY <2>0, <2>1, AccountEffect
    <3> QED
      BY <1>1, <3>2, <3>3, <3>4, <3>5, <3>6
  <2>2. CASE CreateUser(c) /\ users[w] = None /\ users'[w] = call[c].value
    <3>1. call[c].op = "register" /\ call[c].step = "create"
      BY <2>2 DEF CreateUser, At
    <3>2. users'[u].email = users'[w].email => users'[u].email \in contested'
      BY <1>0, <1>1, <2>0, <2>2, <3>1 DEF ClaimsHold
    <3>3. users'[u] = users[u]
      <4>1. PICK y \in Ids \ handed : users' = [users EXCEPT ![y] = call[c].value]
        BY <2>2 DEF CreateUser
      <4>2. u # y /\ users \in [Ids -> User \cup {None}]
        BY <1>1, <2>0, <4>1 DEF Shaped, AccountsTypeOK
      <4> QED
        BY <2>0, <4>1, <4>2
    <3>4. users'[u].name = users'[w].name =>
              users'[u].name \in contested' \/ u \in overlapped'
      BY <1>0, <2>0, <2>2, <3>1, <3>3 DEF ClaimsHold, Excused
    <3> QED
      BY <3>2, <3>4
  <2> QED
    BY <2>0, <2>1, <2>2, AccountEffect
<1>2. SharedOnlyByRaces'
  <2> SUFFICES ASSUME NEW u \in Live', NEW w \in Live', u # w
               PROVE  /\ users'[u].email = users'[w].email => users'[u].email \in contested'
                      /\ users'[u].name = users'[w].name =>
                           users'[u].name \in contested' \/ u \in overlapped' \/ w \in overlapped'
    BY DEF SharedOnlyByRaces
  <2>0. u \in Ids /\ w \in Ids /\ users'[u] # None /\ users'[w] # None
    BY DEF Live
  <2>1. CASE users[u] # None /\ users'[u].email = users[u].email
    BY <1>1, <2>1
  <2>2. CASE users[w] # None /\ users'[w].email = users[w].email
    BY <1>1, <2>2
  <2>3. CASE CreateUser(c) /\ users[u] = None /\ users[w] = None
    <3>1. PICK y \in Ids \ handed : users' = [users EXCEPT ![y] = call[c].value]
      BY <2>3 DEF CreateUser
    <3>2. u = y /\ w = y
      BY <2>0, <2>3, <3>1 DEF Shaped, AccountsTypeOK
    <3> QED
      BY <3>2
  <2> QED
    BY <2>0, <2>1, <2>2, <2>3, AccountEffect
<1>3. ASSUME NEW d \in Clients PROVE ClaimsHold(call[d])'
  <2>1. CASE d # c
    BY <2>1, ClaimKept
  <2>2. CASE d = c
    BY <2>2, ClaimEffect DEF ClaimsHold
  <2> QED
    BY <2>1, <2>2
<1> QED
  BY <1>2, <1>3 DEF Distinct

LEMMA DistinctAlways == AccountSpec => []Distinct
<1>1. Init => Distinct
  <2> SUFFICES ASSUME Init PROVE Distinct
    OBVIOUS
  <2>1. \A c \in Clients : ClaimsHold(call[c])
    BY DEF Init, Idle, ClaimsHold
  <2>2. SharedOnlyByRaces
    <3>1. CASE users = [u \in Ids |-> None]
      BY <3>1 DEF SharedOnlyByRaces, Live
    <3>2. CASE \E u \in Ids, e \in Emails, n \in Names, p \in Passwords :
                   users = [x \in Ids |-> IF x = u
                              THEN WithVerified(NewUser(e, n, p, None)) ELSE None]
      BY <3>2 DEF SharedOnlyByRaces, Live
    <3> QED
      BY <3>1, <3>2 DEF Init
  <2> QED
    BY <2>1, <2>2 DEF Distinct
<1>2. ASSUME Shaped, Faithful, Distinct, [Next]_accountVars PROVE Distinct'
  <2>1. CASE UNCHANGED accountVars
    BY <1>2, <2>1 DEF accountVars, stored, history, Distinct, SharedOnlyByRaces, ClaimsHold,
                      Excused, Live
  <2>2. CASE Restart
    BY <1>2, <2>2 DEF Restart, stored, history, Distinct, SharedOnlyByRaces, ClaimsHold,
                      Excused, Live, Idle
  <2>3. CASE Tick
    BY <1>2, <2>3 DEF Tick, stored, history, Distinct, SharedOnlyByRaces, ClaimsHold,
                      Excused, Live
  <2> QED
    BY <1>2, <2>1, <2>2, <2>3, DistinctStep DEF Next
<1> QED
  BY <1>1, <1>2, ShapedAlways, FaithfulAlways, PTL DEF AccountSpec

\* Two accounts share an e-mail or a username only where two calls found it free at once or
\* a stale copy brought it back: for any number of accounts (register_account,
\* update_current_user_profile, create_user).
THEOREM IdentitiesAreDistinct == AccountSpec => []SharedOnlyByRaces
<1>1. Distinct => SharedOnlyByRaces
  BY DEF Distinct
<1> QED
  BY <1>1, DistinctAlways, PTL
=============================================================================
