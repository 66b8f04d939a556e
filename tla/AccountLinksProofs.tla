-------------------------- MODULE AccountLinksProofs --------------------------
(***************************************************************************)
(* A password-reset link that was used, or was outstanding when a password *)
(* was set, is never accepted again (RetiredLinksAreCleared): the proof,   *)
(* for any number of accounts, callers and links.                           *)
(*                                                                         *)
(* A link is first pending, in a call that has made it and not stored it;  *)
(* then one account knows it, in the stored document or in copies of it.    *)
(* Nobody but that account can have retired it, and an account that retires *)
(* a link forgets it - unless a stale copy of its own brings it back.       *)
(***************************************************************************)
EXTENDS AccountsProofs

\* The link a call carries to be stored.
Pending(d, t) == call[d].op \in ResetRequests /\ call[d].value = t

\* The account u, what it is meant to be, or a call about it holds link t.
Knows(u, t) ==
    \/ users[u] # None /\ users[u].reset = t
    \/ intended[u] # None /\ intended[u].reset = t
    \/ \E d \in Clients : /\ call[d].user = u
                          /\ \/ call[d].step = "save" /\ call[d].snap.reset = t
                             \/ call[d].op = "reset_password" /\ call[d].value = t

Issued(t) == \/ t \in retired
             \/ \E u \in Ids : Knows(u, t)
             \/ \E d \in Clients : Pending(d, t)

\* The inductive invariant: links are numbered, a pending one is known to nobody else,
\* and no two accounts know the same.
Linked ==
    /\ \A d \in Clients : call[d].op = "register" => call[d].value.reset = None
    /\ \A t \in Token : Issued(t) => t.no <= fresh
    /\ \A t \in Token : \A u, w \in Ids : Knows(u, t) /\ Knows(w, t) => u = w
    /\ \A t \in Token : \A d \in Clients : Pending(d, t) =>
          /\ t \notin retired
          /\ \A u \in Ids : ~Knows(u, t)
          /\ \A e \in Clients : Pending(e, t) => e = d
    /\ RetiredLinksAreCleared

-----------------------------------------------------------------------------
(* What a step of a call does to the links.                                 *)

AnySave(c) == \/ SaveVerified(c) \/ SaveReset(c) \/ SavePassword(c) \/ SaveProfile(c)
              \/ SaveCryptoProfile(c)

\* What the documents written say of the link, against the copies they are made from.
LinkLaid(c, doc, meant) ==
    \/ /\ SaveReset(c) /\ doc.reset = call[c].value
       /\ users[call[c].user] # None => meant.reset = call[c].value
    \/ /\ SavePassword(c) /\ doc.reset = None
       /\ users[call[c].user] # None => meant.reset = None
    \/ /\ ~SavePassword(c) /\ doc.reset = Snap(c).reset
       /\ users[call[c].user] # None => meant.reset = Meant(c).reset

LEMMA SaveLinks ==
    ASSUME Shaped, NEW c \in Clients, AnySave(c)
    PROVE  /\ call[c].step = "save"
           /\ \E doc, meant : Replace(c, doc, meant) /\ LinkLaid(c, doc, meant)
<1>0. call[c].step = "save"
  BY SaveEffect DEF AnySave
<1>1. /\ Snap(c) \in User
      /\ users[call[c].user] # None => Meant(c) \in User
  BY <1>0, SaveLemma
<1>2. CASE SaveVerified(c)
  <2>1. LinkLaid(c, WithVerified(Snap(c)), WithVerified(Meant(c)))
    BY <1>1, <1>2 DEF LinkLaid, WithVerified, User, SaveVerified, SavePassword, Saving, At
  <2> QED
    BY <1>0, <1>2, <2>1 DEF SaveVerified
<1>3. CASE SaveReset(c)
  <2>1. LinkLaid(c, WithReset(Snap(c), call[c].value), WithReset(Meant(c), call[c].value))
    BY <1>1, <1>3 DEF LinkLaid, WithReset, User
  <2> QED
    BY <1>0, <1>3, <2>1 DEF SaveReset
<1>4. CASE SavePassword(c)
  <2>1. PICK p \in Passwords : Replace(c, WithPassword(Snap(c), p), WithPassword(Meant(c), p))
    BY <1>4 DEF SavePassword
  <2>2. LinkLaid(c, WithPassword(Snap(c), p), WithPassword(Meant(c), p))
    BY <1>1, <1>4 DEF LinkLaid, WithPassword, User
  <2> QED
    BY <1>0, <2>1, <2>2
<1>5. CASE SaveProfile(c)
  <2>1. LinkLaid(c, WithProfile(Snap(c), call[c].value), WithProfile(Meant(c), call[c].value))
    BY <1>1, <1>5 DEF LinkLaid, WithProfile, User, SaveProfile, SavePassword, Saving, At
  <2> QED
    BY <1>0, <1>5, <2>1 DEF SaveProfile
<1>6. CASE SaveCryptoProfile(c)
  <2>1. PICK k \in KeyProfiles : Replace(c, WithKeys(Snap(c), k), WithKeys(Meant(c), k))
    BY <1>6 DEF SaveCryptoProfile
  <2>2. LinkLaid(c, WithKeys(Snap(c), k), WithKeys(Meant(c), k))
    BY <1>1, <1>6 DEF LinkLaid, WithKeys, User, SaveCryptoProfile, SavePassword, Saving, At
  <2> QED
    BY <1>0, <2>1, <2>2
<1> QED
  BY <1>2, <1>3, <1>4, <1>5, <1>6 DEF AnySave

\* The links a call holds afterwards, it or its account held before - except for a new one.
LEMMA CallLinks ==
    ASSUME Shaped, Linked, NEW c \in Clients, AccountStep(c), NEW t \in Token
    PROVE  /\ call'[c].op = "register" => call'[c].value.reset = None
           /\ call'[c].step = "save" => /\ call'[c].snap = users[call'[c].user]
                                        /\ users[call'[c].user] # None
           /\ /\ call'[c].op = "reset_password" /\ call'[c].value = t
              /\ call'[c].user \in Ids
              => Knows(call'[c].user, t)
           /\ Pending(c, t)' => \/ Pending(c, t) /\ ~SaveReset(c)
                                \/ StartRequestReset(c) /\ t = NewToken(ResetLife)
<1>1. call \in [Clients -> CallType] /\ call[c] \in CallType
  BY DEF Shaped, AccountsTypeOK
<1>2. call'[c].step = "save" => /\ call'[c].snap = users[call'[c].user]
                                /\ users[call'[c].user] # None
  <2> SUFFICES ASSUME call'[c].step = "save"
               PROVE  call'[c].snap = users[call'[c].user] /\ users[call'[c].user] # None
    OBVIOUS
  <2>1. /\ call'[c] = [call[c] EXCEPT !.step = "save", !.snap = users[call[c].user]]
        /\ users[call[c].user] # None
    BY CallEffect
  <2> QED
    BY <1>1, <2>1 DEF CallType
<1> DEFINE Rest == /\ call'[c].op = "register" => call'[c].value.reset = None
                   /\ /\ call'[c].op = "reset_password" /\ call'[c].value = t
                      /\ call'[c].user \in Ids
                      => Knows(call'[c].user, t)
                   /\ Pending(c, t)' => \/ Pending(c, t) /\ ~SaveReset(c)
                                        \/ StartRequestReset(c) /\ t = NewToken(ResetLife)
<1> SUFFICES Rest
  BY <1>2
<1>3. CASE call'[c].op \notin {"register", "reset_password"} \cup ResetRequests
  BY <1>3 DEF Pending
<1>4. CASE StartRegister(c)
  <2>1. PICK e \in Emails, n \in Names, p \in Passwords :
            Begin(c, "register", "email", None, NewUser(e, n, p, NewToken(VerificationLife)))
    BY <1>4 DEF StartRegister
  <2>2. call'[c].op = "register" /\ call'[c].value.reset = None
    BY <1>1, <2>1 DEF Begin, NewUser
  <2> QED
    BY <2>2 DEF Pending, ResetRequests
<1>5. CASE StartRequestReset(c)
  <2>1. call'[c].op \in ResetRequests /\ call'[c].value = NewToken(ResetLife)
    BY <1>1, <1>5 DEF StartRequestReset, Begin, ResetRequests
  <2> QED
    BY <1>5, <2>1 DEF Pending, ResetRequests
<1>6. CASE StartResetPassword(c)
  <2>1. PICK u \in Live : /\ users[u].reset # None
                          /\ Begin(c, "reset_password", "load", u, users[u].reset)
    BY <1>6 DEF StartResetPassword
  <2>2. call'[c].op = "reset_password" /\ call'[c].user = u /\ call'[c].value = users[u].reset
    BY <1>1, <2>1 DEF Begin
  <2> QED
    BY <2>2 DEF Pending, ResetRequests, Knows, Live
<1>7. CASE CheckEmailFree(c) \/ LoadUser(c) \/ EnforceRateLimit(c)
  <2>1. /\ call'[c].op # "idle" =>
              /\ call'[c].op = call[c].op /\ call'[c].value = call[c].value
              /\ call'[c].user = call[c].user
        /\ call'[c].op = "idle" \/ call'[c].op = call[c].op
        /\ SaveReset(c) => call[c].step = "save"
    <3>1. CASE CheckEmailFree(c)
      BY <1>1, <3>1 DEF CheckEmailFree, CallType, Idle, SaveReset, Saving, At
    <3>2. CASE LoadUser(c)
      BY <1>1, <3>2 DEF LoadUser, CallType, Idle, SaveReset, Saving, At
    <3>3. CASE EnforceRateLimit(c)
      BY <1>1, <3>3 DEF EnforceRateLimit, CallType, Idle, Finish, SaveReset, Saving, At
    <3> QED
      BY <1>7, <3>1, <3>2, <3>3
  <2>2. call[c].step # "save"
    BY <1>7 DEF CheckEmailFree, LoadUser, EnforceRateLimit, At
  <2>3. call'[c].op = "register" => call'[c].value.reset = None
    BY <2>1 DEF Linked
  <2> QED
    BY <2>1, <2>2, <2>3 DEF Pending, Knows, ResetRequests
<1>8. CASE \/ StartVerify(c) \/ StartChangePassword(c) \/ StartUpdateProfile(c)
           \/ StartCryptoProfile(c) \/ StartCreateVault(c) \/ StartDeleteAccount(c)
           \/ StartLogin(c)
  BY <1>1, <1>3, <1>8 DEF StartVerify, StartChangePassword, StartUpdateProfile,
     StartCryptoProfile, StartCreateVault, StartDeleteAccount, StartLogin, Begin, ResetRequests
<1>9. CASE AnySave(c) \/ CreateUser(c) \/ SignIn(c) \/ CreateVault(c) \/ DeleteUser(c)
  <2>1. call' = [call EXCEPT ![c] = Idle]
    BY <1>9, SaveLinks DEF CreateUser, SignIn, CreateVault, DeleteUser, Finish, Replace
  <2> QED
    BY <1>1, <1>3, <2>1 DEF Idle, ResetRequests
<1>10. CASE ListVaults(c) \/ DeleteNextVault(c)
  <2>1. call'[c].op = "delete_account"
    BY <1>1, <1>10 DEF ListVaults, DeleteNextVault, At, CallType
  <2> QED
    BY <1>3, <2>1 DEF ResetRequests
<1> QED
  BY <1>4, <1>5, <1>6, <1>7, <1>8, <1>9, <1>10 DEF AccountStep, AnySave

\* The steps that write documents, and the others.
LEMMA WritingSteps ==
    ASSUME NEW c \in Clients, AccountStep(c)
    PROVE  AnySave(c) \/ CreateUser(c) \/ DeleteUser(c) \/ Untouched
<1>1. CASE \/ StartRegister(c) \/ CheckEmailFree(c) \/ StartVerify(c) \/ StartRequestReset(c)
           \/ StartLogin(c) \/ EnforceRateLimit(c) \/ SignIn(c)
           \/ CreateVault(c) \/ ListVaults(c) \/ DeleteNextVault(c) \/ LoadUser(c)
  BY <1>1 DEF StartRegister, CheckEmailFree, StartVerify, StartRequestReset, StartLogin,
              EnforceRateLimit, SignIn, CreateVault, ListVaults, DeleteNextVault, LoadUser,
              Quiet, stored, history, Untouched
<1>2. CASE \/ StartResetPassword(c) \/ StartChangePassword(c) \/ StartUpdateProfile(c)
           \/ StartCryptoProfile(c) \/ StartCreateVault(c) \/ StartDeleteAccount(c)
  BY <1>2 DEF StartResetPassword, StartChangePassword, StartUpdateProfile, StartCryptoProfile,
              StartCreateVault, StartDeleteAccount, Quiet, stored, history, Untouched
<1> QED
  BY <1>1, <1>2 DEF AccountStep, AnySave

\* The links the stored and the intended documents hold afterwards were known to their
\* account, or are the one just stored.
LEMMA DocumentLinks ==
    ASSUME Shaped, Linked, NEW c \in Clients, AccountStep(c), NEW t \in Token, NEW u \in Ids,
           \/ users'[u] # None /\ users'[u].reset = t
           \/ intended'[u] # None /\ intended'[u].reset = t
    PROVE  \/ Knows(u, t)
           \/ SaveReset(c) /\ Pending(c, t) /\ u = call[c].user
<1>0. t # None
  BY NoneIsNoValue
<1>1. CASE UNCHANGED <<users, intended>>
  BY <1>1 DEF Knows
<1>2. CASE AnySave(c)
  <2>1. /\ call[c].step = "save"
        /\ \E doc, meant : Replace(c, doc, meant) /\ LinkLaid(c, doc, meant)
    BY <1>2, SaveLinks
  <2>2. PICK doc, meant : Replace(c, doc, meant) /\ LinkLaid(c, doc, meant)
    BY <2>1
  <2>3. CASE users[call[c].user] = None
    BY <1>1, <2>2, <2>3 DEF Replace
  <2>4. CASE users[call[c].user] # None
    <3>1. /\ users' = [users EXCEPT ![call[c].user] = doc]
          /\ intended' = [intended EXCEPT ![call[c].user] = meant]
      BY <2>2, <2>4 DEF Replace
    <3>2. CASE u # call[c].user
      <4>1. users'[u] = users[u] /\ intended'[u] = intended[u]
        BY <3>1, <3>2 DEF Shaped, AccountsTypeOK
      <4> QED
        BY <4>1 DEF Knows
    <3>3. CASE u = call[c].user
      <4>1. users'[u] = doc /\ intended'[u] = meant
        BY <3>1, <3>3 DEF Shaped, AccountsTypeOK
      <4>2. doc.reset = t \/ meant.reset = t
        BY <4>1
      <4>3. CASE SaveReset(c) /\ doc.reset = call[c].value /\ meant.reset = call[c].value
        BY <3>3, <4>2, <4>3 DEF Pending, SaveReset, Saving, At, ResetRequests
      <4>4. CASE doc.reset = None /\ meant.reset = None
        BY <1>0, <4>2, <4>4
      <4>5. CASE doc.reset = Snap(c).reset /\ meant.reset = Meant(c).reset
        <5>1. intended[u] # None
          BY <2>4, <3>3 DEF Shaped
        <5> QED
          BY <2>1, <3>3, <4>2, <4>5, <5>1 DEF Knows, Snap, Meant
      <4> QED
        BY <2>2, <2>4, <4>3, <4>4, <4>5 DEF LinkLaid
    <3> QED
      BY <3>2, <3>3
  <2> QED
    BY <2>3, <2>4
<1>3. CASE CreateUser(c)
  <2>1. PICK x \in Ids \ handed : /\ users' = [users EXCEPT ![x] = call[c].value]
                                  /\ intended' = [intended EXCEPT ![x] = call[c].value]
    BY <1>3 DEF CreateUser
  <2>2. call[c].value.reset = None
    BY <1>3 DEF CreateUser, At, Linked
  <2>3. users'[u] = users[u] /\ intended'[u] = intended[u]
    BY <1>0, <2>1, <2>2 DEF Shaped, AccountsTypeOK
  <2> QED
    BY <2>3 DEF Knows
<1>4. CASE DeleteUser(c)
  <2>1. /\ users'[u] = users[u] \/ users'[u] = None
        /\ intended'[u] = intended[u] \/ intended'[u] = None
    BY <1>4 DEF DeleteUser, Shaped, AccountsTypeOK
  <2> QED
    BY <2>1 DEF Knows
<1> QED
  BY <1>1, <1>2, <1>3, <1>4, WritingSteps DEF Untouched

LEMMA KnownLinks ==
    ASSUME Shaped, Linked, NEW c \in Clients, AccountStep(c), NEW t \in Token, NEW u \in Ids,
           Knows(u, t)'
    PROVE  \/ Knows(u, t)
           \/ SaveReset(c) /\ Pending(c, t) /\ u = call[c].user
<1>1. CASE \/ users'[u] # None /\ users'[u].reset = t
           \/ intended'[u] # None /\ intended'[u].reset = t
  BY <1>1, DocumentLinks
<1>2. CASE \E d \in Clients : /\ call'[d].user = u
                              /\ \/ call'[d].step = "save" /\ call'[d].snap.reset = t
                                 \/ call'[d].op = "reset_password" /\ call'[d].value = t
  <2>1. PICK d \in Clients : /\ call'[d].user = u
                             /\ \/ call'[d].step = "save" /\ call'[d].snap.reset = t
                                \/ call'[d].op = "reset_password" /\ call'[d].value = t
    BY <1>2
  <2>2. CASE d # c
    <3>1. call'[d] = call[d]
      BY <2>2, CallEffect
    <3> QED
      BY <2>1, <3>1 DEF Knows
  <2>3. CASE d = c
    BY <2>1, <2>3, CallLinks DEF Knows
  <2> QED
    BY <2>2, <2>3
<1> QED
  BY <1>1, <1>2 DEF Knows

\* Only the account that knows a link can retire it; links are numbered upwards.
LEMMA RetiredLinks ==
    ASSUME Shaped, NEW c \in Clients, AccountStep(c)
    PROVE  /\ fresh <= fresh' /\ fresh' \in Nat
           /\ StartRequestReset(c) => fresh' = fresh + 1
           /\ ~SavePassword(c) \/ users[call[c].user] = None => retired' = retired
           /\ SavePassword(c) =>
                 \A t \in retired' \ retired : call[c].user \in Ids /\ Knows(call[c].user, t)
<1>0. fresh \in Nat
  BY DEF Shaped, AccountsTypeOK
<1>1. CASE SavePassword(c)
  <2>1. fresh' = fresh /\ ~StartRequestReset(c)
    BY <1>1 DEF SavePassword, Saving, At, StartRequestReset, Begin, Shaped, AccountsTypeOK
  <2>2. call[c].step = "save" /\ call[c].user \in Ids
    BY <1>1, SaveLemma DEF SavePassword, Saving, At
  <2>3. ASSUME NEW t \in retired' \ retired PROVE Knows(call[c].user, t)
    <3>1. /\ users[call[c].user] # None
          /\ t \in {call[c].value, Meant(c).reset} \ {None}
      BY <1>1, <2>3 DEF SavePassword
    <3>2. CASE t = Meant(c).reset
      <4>1. intended[call[c].user] # None
        BY <2>2, <3>1 DEF Shaped
      <4> QED
        BY <3>2, <4>1 DEF Knows, Meant
    <3>3. CASE t = call[c].value /\ t # None
      <4>1. call[c].op = "reset_password"
        BY <1>1, <3>3 DEF SavePassword, Saving, At, Shaped, CallShape
      <4> QED
        BY <3>3, <4>1 DEF Knows
    <3> QED
      BY <3>1, <3>2, <3>3
  <2>4. users[call[c].user] = None => retired' = retired
    BY <1>1 DEF SavePassword
  <2> QED
    BY <1>0, <1>1, <2>1, <2>2, <2>3, <2>4
<1>2. CASE StartRequestReset(c) \/ StartRegister(c) \/ CreateVault(c)
  BY <1>0, <1>2 DEF StartRequestReset, StartRegister, CreateVault, history
<1>3. CASE SaveVerified(c) \/ SaveReset(c) \/ SaveProfile(c) \/ SaveCryptoProfile(c)
  <2>1. fresh' = fresh /\ retired' = retired /\ call[c].step = "save"
    BY <1>3 DEF SaveVerified, SaveReset, SaveProfile, SaveCryptoProfile, Saving, At
  <2> QED
    BY <1>0, <2>1 DEF StartRequestReset, Begin, Shaped, AccountsTypeOK, CallType
<1>5. CASE \/ CheckEmailFree(c) \/ StartVerify(c) \/ StartLogin(c) \/ EnforceRateLimit(c)
           \/ SignIn(c) \/ ListVaults(c) \/ DeleteNextVault(c) \/ LoadUser(c)
           \/ StartResetPassword(c) \/ StartChangePassword(c) \/ StartUpdateProfile(c)
           \/ StartCryptoProfile(c) \/ StartCreateVault(c) \/ StartDeleteAccount(c)
           \/ CreateUser(c) \/ DeleteUser(c)
  <2>1. retired' = retired /\ fresh' = fresh
    BY <1>5 DEF CheckEmailFree, StartVerify, StartLogin, EnforceRateLimit, SignIn, ListVaults,
       DeleteNextVault, LoadUser, StartResetPassword, StartChangePassword, StartUpdateProfile,
       StartCryptoProfile, StartCreateVault, StartDeleteAccount, CreateUser, DeleteUser,
       Quiet, stored, history
  <2> QED
    BY <1>0, <1>1, <1>2, <2>1
<1> QED
  BY <1>1, <1>2, <1>3, <1>5 DEF AccountStep

-----------------------------------------------------------------------------
\* What every step keeps of the links themselves.
LEMMA LinksKept ==
    ASSUME Shaped, Linked, NEW c \in Clients, AccountStep(c)
    PROVE  /\ \A d \in Clients : call'[d].op = "register" => call'[d].value.reset = None
           /\ \A t \in Token : Issued(t)' => t.no <= fresh'
           /\ \A t \in Token : \A u, w \in Ids : Knows(u, t)' /\ Knows(w, t)' => u = w
           /\ \A t \in Token : \A d \in Clients : Pending(d, t)' =>
                 /\ t \notin retired'
                 /\ \A u \in Ids : ~Knows(u, t)'
                 /\ \A e \in Clients : Pending(e, t)' => e = d
<1>0. /\ \A d \in Clients \ {c} : call'[d] = call[d]
      /\ fresh \in Nat /\ fresh' \in Nat /\ fresh <= fresh'
      /\ retired' \subseteq Token
  BY CallEffect, RetiredLinks, NextShaped DEF Next, Shaped, AccountsTypeOK
<1>1. ASSUME NEW d \in Clients, call'[d].op = "register"
      PROVE  call'[d].value.reset = None
  <2>1. CASE d = c
    <3>1. [no |-> 0, expires |-> 0] \in Token
      BY DEF Token
    <3> QED
      BY <1>1, <2>1, <3>1, CallLinks
  <2>2. CASE d # c
    BY <1>0, <1>1, <2>2 DEF Linked
  <2> QED
    BY <2>1, <2>2
\* A link new to an account was pending with this call, which has now stored it.
<1>2. ASSUME NEW t \in Token, NEW d \in Clients, Pending(d, t)'
      PROVE  \/ Pending(d, t) /\ ~(d = c /\ SaveReset(c))
             \/ d = c /\ StartRequestReset(c) /\ t.no = fresh + 1
  <2>1. CASE d = c
    <3>1. NewToken(ResetLife).no = fresh + 1
      BY DEF NewToken
    <3> QED
      BY <1>2, <2>1, <3>1, CallLinks
  <2>2. CASE d # c
    BY <1>0, <1>2, <2>2 DEF Pending
  <2> QED
    BY <2>1, <2>2
<1>3. ASSUME NEW t \in Token, t \in retired' \ retired
      PROVE  call[c].user \in Ids /\ Knows(call[c].user, t)
  BY <1>3, RetiredLinks
<1>4. ASSUME NEW t \in Token, Issued(t)' PROVE t.no <= fresh'
  <2>1. t.no \in Nat
    BY DEF Token
  <2>2. CASE Issued(t)
    BY <1>0, <2>1, <2>2 DEF Linked
  <2>3. CASE ~Issued(t)
    <3>1. t \notin retired'
      BY <1>3, <2>3 DEF Issued
    <3>2. \A u \in Ids : ~Knows(u, t)'
      BY <2>3, KnownLinks DEF Issued
    <3>3. PICK d \in Clients : Pending(d, t)'
      BY <1>4, <3>1, <3>2 DEF Issued
    <3>4. StartRequestReset(c) /\ t.no = fresh + 1
      BY <1>2, <2>3, <3>3 DEF Issued
    <3> QED
      BY <1>0, <3>4, RetiredLinks
  <2> QED
    BY <2>2, <2>3
<1>5. ASSUME NEW t \in Token, NEW u \in Ids, NEW w \in Ids, Knows(u, t)', Knows(w, t)'
      PROVE  u = w
  BY <1>5, KnownLinks DEF Linked
<1>6. ASSUME NEW t \in Token, NEW d \in Clients, Pending(d, t)'
      PROVE  /\ t \notin retired'
             /\ \A u \in Ids : ~Knows(u, t)'
             /\ \A e \in Clients : Pending(e, t)' => e = d
  <2>1. CASE Pending(d, t) /\ ~(d = c /\ SaveReset(c))
    <3>1. t \notin retired'
      BY <1>3, <2>1 DEF Linked
    <3>2. \A u \in Ids : ~Knows(u, t)'
      BY <2>1, KnownLinks DEF Linked
    <3>3. ASSUME NEW e \in Clients, Pending(e, t)' PROVE e = d
      <4>1. CASE Pending(e, t)
        BY <2>1, <4>1 DEF Linked
      <4>2. CASE t.no = fresh + 1
        <5>1. t.no <= fresh /\ t.no \in Nat
          BY <2>1 DEF Linked, Issued, Token
        <5> QED
          BY <1>0, <4>2, <5>1
      <4> QED
        BY <1>2, <3>3, <4>1, <4>2
    <3> QED
      BY <3>1, <3>2, <3>3
  <2>2. CASE d = c /\ StartRequestReset(c) /\ t.no = fresh + 1
    <3>1. ~Issued(t)
      BY <1>0, <2>2 DEF Linked
    <3>2. t \notin retired'
      BY <1>3, <3>1 DEF Issued
    <3>3. \A u \in Ids : ~Knows(u, t)'
      BY <3>1, KnownLinks DEF Issued
    <3>4. \A e \in Clients : Pending(e, t)' => e = d
      BY <1>2, <2>2, <3>1 DEF Issued
    <3> QED
      BY <3>2, <3>3, <3>4
  <2> QED
    BY <1>2, <1>6, <2>1, <2>2
<1> QED
  BY <1>1, <1>4, <1>5, <1>6

\* A link stored for an account is not a retired one: it was pending, or it was there
\* already; and what a password change retires, it clears.
LEMMA RetiredStep ==
    ASSUME Shaped, Faithful, Linked, NEW c \in Clients, AccountStep(c)
    PROVE  RetiredLinksAreCleared'
<1> SUFFICES ASSUME NEW u \in Ids, users'[u] # None, u \notin overlapped'
             PROVE  users'[u].reset \notin retired'
  BY DEF RetiredLinksAreCleared, Live
<1> SUFFICES ASSUME users'[u].reset \in retired' PROVE FALSE
  OBVIOUS
<1>0. overlapped \subseteq overlapped'
  BY RestEffect
<1>1. retired' \subseteq Token
  BY NextShaped DEF Next, Shaped, AccountsTypeOK
<1> DEFINE t == users'[u].reset
<1>2. t \in Token /\ t # None
  BY <1>1, NoneIsNoValue
<1>3. CASE users'[u] = users[u]
  <2>1. t \notin retired
    BY <1>0, <1>3 DEF Linked, RetiredLinksAreCleared, Live
  <2>2. /\ SavePassword(c) /\ users[call[c].user] # None
        /\ call[c].user \in Ids /\ Knows(call[c].user, t)
    BY <2>1, RetiredLinks
  <2>3. u = call[c].user
    BY <1>2, <1>3, <2>2 DEF Linked, Knows
  <2>4. users'[u].reset = None
    <3>1. PICK p \in Passwords : Replace(c, WithPassword(Snap(c), p), WithPassword(Meant(c), p))
      BY <2>2 DEF SavePassword
    <3>2. users'[u] = WithPassword(Snap(c), p)
      BY <2>2, <2>3, <3>1 DEF Replace, Shaped, AccountsTypeOK
    <3>3. Snap(c) \in User
      BY <2>2, SaveLemma DEF SavePassword, Saving, At
    <3> QED
      BY <3>2, <3>3 DEF WithPassword, User
  <2> QED
    BY <1>2, <2>4
<1>4. CASE users'[u] # users[u] /\ AnySave(c)
  <2>1. /\ call[c].step = "save"
        /\ \E doc, meant : Replace(c, doc, meant) /\ LinkLaid(c, doc, meant)
    BY <1>4, SaveLinks
  <2>2. PICK doc, meant : Replace(c, doc, meant) /\ LinkLaid(c, doc, meant)
    BY <2>1
  <2>3. u = call[c].user /\ users[u] # None /\ users'[u] = doc
    <3>1. users' = users \/ users' = [users EXCEPT ![call[c].user] = doc]
      BY <2>2 DEF Replace
    <3>2. users' # users => users[call[c].user] # None
      BY <2>2 DEF Replace
    <3> QED
      BY <1>4, <3>1, <3>2 DEF Shaped, AccountsTypeOK
  <2>4. CASE SaveReset(c) /\ doc.reset = call[c].value
    <3>1. Pending(c, t)
      BY <2>3, <2>4 DEF Pending, SaveReset, Saving, At, ResetRequests
    <3>2. ~SavePassword(c)
      BY <2>4 DEF SavePassword, SaveReset, Saving, At
    <3> QED
      BY <1>2, <3>1, <3>2, RetiredLinks DEF Linked
  <2>5. CASE doc.reset = None
    BY <1>2, <2>3, <2>5
  <2>6. CASE doc.reset = Snap(c).reset /\ ~SavePassword(c)
    <3>1. Snap(c) = users[u]
      BY <1>0, <2>1, <2>3 DEF Faithful, Snap
    <3>2. retired' = retired
      BY <2>6, RetiredLinks
    <3> QED
      BY <1>0, <2>3, <2>6, <3>1, <3>2 DEF Linked, RetiredLinksAreCleared, Live
  <2> QED
    BY <2>2, <2>4, <2>5, <2>6 DEF LinkLaid
<1>5. CASE users'[u] # users[u] /\ CreateUser(c)
  <2>1. users'[u] = call[c].value /\ call[c].value.reset = None
    BY <1>5 DEF CreateUser, At, Linked, Shaped, AccountsTypeOK
  <2> QED
    BY <1>2, <2>1
<1>6. CASE users'[u] # users[u] /\ DeleteUser(c)
  BY <1>6 DEF DeleteUser, Shaped, AccountsTypeOK
<1> QED
  BY <1>3, <1>4, <1>5, <1>6, WritingSteps DEF Untouched

LEMMA LinkedAlways == AccountSpec => []Linked
<1>1. Init => Linked
  <2> SUFFICES ASSUME Init PROVE Linked
    OBVIOUS
  <2>1. \A c \in Clients : call[c] = Idle
    BY DEF Init
  <2>2. \A u \in Ids : users[u] = None \/ users[u].reset = None
    BY DEF Init, NewUser, WithVerified
  <2>3. \A t \in Token : ~Issued(t)
    BY <2>1, <2>2, NoneIsNoValue DEF Init, Issued, Knows, Pending, Idle, ResetRequests
  <2>4. RetiredLinksAreCleared
    BY DEF Init, RetiredLinksAreCleared
  <2> QED
    BY <2>1, <2>3, <2>4 DEF Linked, Issued, Idle
<1>2. Shaped /\ Faithful /\ Linked /\ [Next]_accountVars => Linked'
  <2> SUFFICES ASSUME Shaped, Faithful, Linked, [Next]_accountVars PROVE Linked'
    OBVIOUS
  <2>1. CASE UNCHANGED accountVars
    BY <2>1 DEF accountVars, stored, history, Linked, Issued, Knows, Pending,
                RetiredLinksAreCleared, Live
  <2>2. CASE Restart
    <3>1. /\ \A d \in Clients : call'[d] = Idle
          /\ UNCHANGED <<users, intended, retired, overlapped, fresh>>
      BY <2>2 DEF Restart, stored, history
    <3>2. \A t \in Token, u \in Ids : Knows(u, t)' => Knows(u, t)
      BY <3>1 DEF Knows, Idle
    <3>3. \A t \in Token, d \in Clients : ~Pending(d, t)'
      BY <3>1 DEF Pending, Idle, ResetRequests
    <3>4. RetiredLinksAreCleared'
      BY <3>1 DEF Linked, RetiredLinksAreCleared, Live
    <3> QED
      BY <3>1, <3>2, <3>3, <3>4 DEF Linked, Issued, Idle
  <2>3. CASE Tick
    BY <2>3 DEF Tick, stored, history, Linked, Issued, Knows, Pending,
                RetiredLinksAreCleared, Live
  <2>4. ASSUME NEW c \in Clients, AccountStep(c) PROVE Linked'
    BY <2>4, LinksKept, RetiredStep DEF Linked
  <2> QED
    BY <2>1, <2>2, <2>3, <2>4 DEF Next
<1> QED
  BY <1>1, <1>2, ShapedAlways, FaithfulAlways, PTL DEF AccountSpec

\* A reset link that has set a password, or that was outstanding when one was set, is never
\* accepted again, unless a stale copy of the account brought it back: for any number of
\* accounts, callers and links (reset_password, change_current_user_password).
THEOREM RetiredLinksStayCleared == AccountSpec => []RetiredLinksAreCleared
<1>1. Linked => RetiredLinksAreCleared
  BY DEF Linked
<1> QED
  BY <1>1, LinkedAlways, PTL
=============================================================================
