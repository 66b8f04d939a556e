------------------------------- MODULE Accounts -------------------------------
(***************************************************************************)
(* Accounts (the /auth endpoints of backend/main.py over the user          *)
(* operations of backend/services/cosmos_service.py and the tokens of      *)
(* auth_service.py).  A call is served by a thread of its own; every query, *)
(* read and write of the users container is one step, and other calls run  *)
(* between them.  update_user reads the account itself (LoadUser), lays the *)
(* handler's fields over the copy and replaces the whole document without  *)
(* an etag condition: the last writer wins, on every field.                 *)
(*                                                                         *)
(* Passwords and key profiles are chosen in the step that stores them; a    *)
(* call the handler refuses leaves nothing and is not a step, except where  *)
(* it ends a call that had already begun.                                   *)
(***************************************************************************)
EXTENDS LoginLimiter

CONSTANTS
    Ids,            \* account identities (uuid4): each is handed out once
    Emails, Names,  \* normalised e-mails and usernames
    Passwords, KeyProfiles,
    None,
    Clients,        \* calls that may be in progress together
    Mixes,          \* the sets of endpoints a behaviour may use
    VerificationLife, ResetLife, SessionLife,   \* lifetimes of the tokens
    MaxTime, MaxFresh, MaxLogins,               \* bounds of the runs
    Crashes         \* BOOLEAN: the backend may die and restart

AccountOperations == {"register", "verify_email", "request_reset", "request_my_reset",
                      "reset_password", "login", "update_profile", "crypto_profile",
                      "change_password", "create_vault", "delete_account"}

ASSUME AccountBounds ==
    /\ Keys = Emails
    /\ Mixes \subseteq SUBSET AccountOperations
    /\ {VerificationLife, ResetLife, SessionLife} \subseteq Nat \ {0}
    /\ {MaxTime, MaxFresh, MaxLogins} \subseteq Nat
    /\ Crashes \in BOOLEAN

VARIABLES
    users,      \* the users container
    handed,     \* identities handed out so far
    fresh,      \* number of tokens and vaults made so far: each has its own number
    sessions,   \* access tokens handed out: subject and expiry
    vaults,     \* the vaults' numbers and owners
    call,       \* each client's call in progress
    now,
    mix,        \* the endpoints this behaviour uses
    intended,   \* history: each account as the acknowledged writes alone leave it
    overlapped, \* history: accounts written while another call held a copy to write back
    proven,     \* history: accounts whose own verification link was used in time
    retired,    \* history: reset links used, or outstanding when a password was set
    contested,  \* history: e-mails and names found free by two calls at once
    orphaned    \* history: vaults made by a call that overlapped its owner's deletion

stored  == <<users, handed, fresh, sessions, vaults>>
history == <<intended, overlapped, proven, retired, contested, orphaned>>
accountVars == <<stored, call, now, mix, history, limiterVars>>

Token == [no : Nat, expires : Nat]      \* a secret, known by its hash

User == [email : Emails, name : Names, password : Passwords, verified : BOOLEAN,
         verification : Token \cup {None}, reset : Token \cup {None},
         keys : KeyProfiles \cup {None}]
Session == [user : Ids, expires : Nat]
Vault == [no : Nat, owner : Ids]

Idle == [op |-> "idle", step |-> "none", user |-> None, snap |-> None,
         value |-> None, todo |-> {}]

CallType ==
    [op    : AccountOperations \cup {"idle"},
     step  : {"none", "email", "create", "load", "save", "limit", "sign_in", "vaults"},
     user  : Ids \cup {None},           \* whom the call is about
     snap  : User \cup {None},          \* the copy update_user has read
     value : User \cup Names \cup Token \cup [email : Emails, at : Nat] \cup {None},
     todo  : SUBSET Vault]              \* the vaults a deletion has listed

ASSUME NoneIsNoValue == None \notin Ids \cup Names \cup Token \cup User

AccountsTypeOK ==
    /\ users \in [Ids -> User \cup {None}]
    /\ handed \subseteq Ids
    /\ fresh \in Nat
    /\ sessions \subseteq Session
    /\ vaults \subseteq Vault
    /\ call \in [Clients -> CallType]
    /\ now \in Nat
    /\ mix \in Mixes
    /\ intended \in [Ids -> User \cup {None}]
    /\ overlapped \subseteq Ids /\ proven \subseteq Ids
    /\ retired \subseteq Token
    /\ contested \subseteq Emails \cup Names
    /\ orphaned \subseteq Vault
    /\ LimiterTypeOK

-----------------------------------------------------------------------------
(* Documents and tokens.                                                    *)

Unexpired(t) == t.expires > now             \* refused when expiry_time <= now
\* A link issued without its expiry.
NewTokenWithoutExpiry(life) == [no |-> fresh + 1, expires |-> None]
NewToken(life) == [no |-> fresh + 1, expires |-> now + life]

\* The document register_account builds.
NewUser(e, n, p, t) ==
    [email |-> e, name |-> n, password |-> p, verified |-> FALSE,
     verification |-> t, reset |-> None, keys |-> None]

\* The fields each handler passes to update_user, laid over a document.
WithProfile(u, n)  == [u EXCEPT !.name = n]
WithKeys(u, k)     == [u EXCEPT !.keys = k]
WithReset(u, t)    == [u EXCEPT !.reset = t]
WithPasswordOnly(u, p) == [u EXCEPT !.password = p]
WithPassword(u, p) == [u EXCEPT !.password = p, !.reset = None]
WithVerified(u)    == [u EXCEPT !.verified = TRUE, !.verification = None]

Live == {u \in Ids : users[u] # None}
Named(n) == {u \in Live : users[u].name = n}        \* get_user_by_username
Mailed(e) == {u \in Live : users[u].email = e}      \* get_user_by_email
VaultsOf(u) == {v \in vaults : v.owner = u}         \* list_vaults(user_id)

Init == /\ \/ users = [u \in Ids |-> None] /\ handed = {} /\ proven = {}
           \/ \E u \in Ids, e \in Emails, n \in Names, p \in Passwords :
                 /\ users = [x \in Ids |-> IF x = u
                              THEN WithVerified(NewUser(e, n, p, None)) ELSE None]
                 /\ handed = {u} /\ proven = {u}
        /\ sessions = [user : handed, expires : {SessionLife}]
        /\ fresh = 0 /\ vaults = {} /\ now = 0
        /\ call = [c \in Clients |-> Idle]
        /\ mix \in Mixes
        /\ intended = users
        /\ overlapped = {} /\ retired = {} /\ contested = {} /\ orphaned = {}
        /\ LimiterInit

-----------------------------------------------------------------------------
(* The frame of a call.                                                     *)

Begin(c, op, step, user, value) ==
    /\ op \in mix
    /\ call[c].op = "idle"
    /\ call' = [call EXCEPT ![c] = [op |-> op, step |-> step, user |-> user,
                                    snap |-> None, value |-> value, todo |-> {}]]

Finish(c) == call' = [call EXCEPT ![c] = Idle]
At(c, op, step) == call[c].op = op /\ call[c].step = step

\* get_current_user: a token in its lifetime, of an account that still exists.
SignedIn(u) == /\ \E s \in sessions : s.user = u /\ Unexpired(s)
               /\ users[u] # None

Quiet == UNCHANGED <<stored, now, mix, history, limiterVars>>

\* update_user reads the account; without one the call ends in a 404 or a 500.
LoadUser(c) ==
    /\ call[c].step = "load" /\ call[c].op # "delete_account"
    /\ call' = [call EXCEPT ![c] = IF users[call[c].user] = None THEN Idle
                                   ELSE [@ EXCEPT !.step = "save",
                                                  !.snap = users[call[c].user]]]
    /\ Quiet

\* Other calls that hold a copy of u and will write it back.
HoldACopy(c, u) == {d \in Clients \ {c} : call[d].step = "save" /\ call[d].user = u}

ReplaceAsUpsert(c, doc, meant) ==
    LET u == call[c].user
    IN /\ users' = [users EXCEPT ![u] = doc]
       /\ intended' = [intended EXCEPT ![u] = IF users[u] = None THEN doc ELSE meant]
       /\ overlapped' = IF HoldACopy(c, u) = {} THEN overlapped
                        ELSE overlapped \cup {u}
       /\ Finish(c)
       /\ UNCHANGED <<handed, sessions, vaults, now, mix, proven, orphaned, limiterVars>>
\* update_user replaces the document, or fails when it is gone.  `meant` is what
\* the same fields laid over the acknowledged document give.
Replace(c, doc, meant) ==
    LET u == call[c].user
    IN /\ IF users[u] = None
          THEN UNCHANGED <<users, intended, overlapped>>
          ELSE /\ users' = [users EXCEPT ![u] = doc]
               /\ intended' = [intended EXCEPT ![u] = meant]
               /\ overlapped' = IF HoldACopy(c, u) = {} THEN overlapped
                                ELSE overlapped \cup {u}
       /\ Finish(c)
       /\ UNCHANGED <<handed, sessions, vaults, now, mix, proven, orphaned, limiterVars>>

Saving(c, op) == At(c, op, "save")
Snap(c)   == call[c].snap
Meant(c)  == intended[call[c].user]

\* What a call in progress has found free and not taken yet.
Claimed(d) ==
    CASE call[d].op = "register" -> {call[d].value.name}
                \cup (IF call[d].step = "create" THEN {call[d].value.email} ELSE {})
      [] call[d].op = "update_profile" -> {call[d].value}
      [] OTHER -> {}
Contest(c) == contested' = contested \cup
                  (Claimed(c) \cap UNION {Claimed(d) : d \in Clients \ {c}})

-----------------------------------------------------------------------------
(* POST /auth/register: username query, e-mail query, create.  The link that *)
(* proves the mailbox is issued with the document, before the e-mail query. *)
StartRegister(c) ==
    /\ handed # Ids /\ fresh < MaxFresh
    /\ \E e \in Emails, n \in Names, p \in Passwords :
          /\ Named(n) = {}
          /\ Begin(c, "register", "email", None,
                   NewUser(e, n, p, NewToken(VerificationLife)))
    /\ fresh' = fresh + 1
    /\ UNCHANGED <<users, handed, sessions, vaults, now, mix, history, limiterVars>>

CheckNothing(c) ==
    /\ At(c, "register", "email")
    /\ call' = [call EXCEPT ![c] = [@ EXCEPT !.step = "create"]]
    /\ Quiet
CheckEmailFree(c) ==
    /\ At(c, "register", "email")
    /\ call' = [call EXCEPT ![c] = IF Mailed(call[c].value.email) # {} THEN Idle
                                   ELSE [@ EXCEPT !.step = "create"]]
    /\ Quiet

CreateUser(c) ==
    /\ At(c, "register", "create")
    /\ \E u \in Ids \ handed :
          /\ users' = [users EXCEPT ![u] = call[c].value]
          /\ intended' = [intended EXCEPT ![u] = call[c].value]
          /\ handed' = handed \cup {u}
    /\ Contest(c)
    /\ Finish(c)
    /\ UNCHANGED <<fresh, sessions, vaults, now, mix, overlapped, proven, retired,
                   orphaned, limiterVars>>

(* POST /auth/verify-email: the account is looked up by the link.           *)
StartVerifyAnyTime(c) ==
    /\ \E u \in Live :
          /\ users[u].verification # None
          /\ Begin(c, "verify_email", "load", u, None)
          /\ proven' = IF Unexpired(users[u].verification) THEN proven \cup {u} ELSE proven
    /\ UNCHANGED <<stored, now, mix, intended, overlapped, retired, contested,
                   orphaned, limiterVars>>
StartVerify(c) ==
    /\ \E u \in Live :
          /\ users[u].verification # None /\ Unexpired(users[u].verification)
          /\ Begin(c, "verify_email", "load", u, None)
          /\ proven' = proven \cup {u}
    /\ UNCHANGED <<stored, now, mix, intended, overlapped, retired, contested,
                   orphaned, limiterVars>>

SaveVerified(c) ==
    /\ Saving(c, "verify_email")
    /\ Replace(c, WithVerified(Snap(c)), WithVerified(Meant(c)))
    /\ UNCHANGED <<fresh, retired, contested>>

(* POST /auth/request-password-reset, by e-mail, and the signed-in form.    *)
StartRequestReset(c) ==
    /\ fresh < MaxFresh
    /\ \E u \in Live :
          \/ Begin(c, "request_reset", "load", u, NewToken(ResetLife))
          \/ /\ SignedIn(u)
             /\ Begin(c, "request_my_reset", "load", u, NewToken(ResetLife))
    /\ fresh' = fresh + 1
    /\ UNCHANGED <<users, handed, sessions, vaults, now, mix, history, limiterVars>>

SaveReset(c) ==
    /\ Saving(c, "request_reset") \/ Saving(c, "request_my_reset")
    /\ Replace(c, WithReset(Snap(c), call[c].value), WithReset(Meant(c), call[c].value))
    /\ UNCHANGED <<fresh, retired, contested>>

(* POST /auth/reset-password: looked up by the link, which must not have    *)
(* expired; and POST /auth/change-password by who knows the old password.   *)
StartResetPassword(c) ==
    /\ \E u \in Live :
          /\ users[u].reset # None /\ Unexpired(users[u].reset)
          /\ Begin(c, "reset_password", "load", u, users[u].reset)
    /\ Quiet

StartChangePassword(c) ==
    /\ \E u \in Ids : SignedIn(u) /\ Begin(c, "change_password", "load", u, None)
    /\ Quiet

\* Either way the stored link is cleared with the password.
SavePassword(c) ==
    /\ Saving(c, "reset_password") \/ Saving(c, "change_password")
    /\ \E p \in Passwords : Replace(c, WithPassword(Snap(c), p), WithPassword(Meant(c), p))
    /\ retired' = IF users[call[c].user] = None THEN retired
                  ELSE retired \cup ({call[c].value, Meant(c).reset} \ {None})
    /\ UNCHANGED <<fresh, contested>>

-----------------------------------------------------------------------------
(* POST /auth/login: the clock is read before the limiter's lock is taken.  *)
StartLogin(c) ==
    /\ \E e \in Emails :
          /\ Len(accepted[e]) < MaxLogins
          /\ Begin(c, "login", "limit", None, [email |-> e, at |-> now])
    /\ Quiet

EnforceRateLimit(c) ==
    /\ At(c, "login", "limit")
    /\ \/ /\ Admit(call[c].value.email, call[c].value.at)
          /\ call' = [call EXCEPT ![c].step = "sign_in"]
       \/ /\ Refuse(call[c].value.email, call[c].value.at)
          /\ Finish(c)
    /\ UNCHANGED <<stored, now, mix, history>>

\* The password is right and the e-mail verified (AUTH_REQUIRE_EMAIL_VERIFICATION
\* has its default), or nothing is issued.
SignIn(c) ==
    /\ At(c, "login", "sign_in")
    /\ \/ \E u \in Mailed(call[c].value.email) :
             /\ users[u].verified
             /\ sessions' = sessions \cup {[user |-> u, expires |-> now + SessionLife]}
       \/ UNCHANGED sessions
    /\ Finish(c)
    /\ UNCHANGED <<users, handed, fresh, vaults, now, mix, history, limiterVars>>

(* PATCH /auth/me: the name is free, or the first account found with it is   *)
(* the caller's own.                                                         *)
StartUpdateProfile(c) ==
    /\ \E u \in Ids, n \in Names :
          /\ SignedIn(u)
          /\ Named(n) = {} \/ u \in Named(n)
          /\ Begin(c, "update_profile", "load", u, n)
    /\ Quiet

\* The edit rebuilds the document and drops what the payload does not hold.
SaveProfileDroppingLink(c) ==
    /\ Saving(c, "update_profile")
    /\ Replace(c, WithReset(WithProfile(Snap(c), call[c].value), None),
                  WithProfile(Meant(c), call[c].value))
    /\ Contest(c)
    /\ UNCHANGED <<fresh, retired>>
SaveProfile(c) ==
    /\ Saving(c, "update_profile")
    /\ Replace(c, WithProfile(Snap(c), call[c].value), WithProfile(Meant(c), call[c].value))
    /\ Contest(c)
    /\ UNCHANGED <<fresh, retired>>

(* PUT /auth/crypto-profile                                                 *)
StartCryptoProfile(c) ==
    /\ \E u \in Ids : SignedIn(u) /\ Begin(c, "crypto_profile", "load", u, None)
    /\ Quiet

SaveCryptoProfile(c) ==
    /\ Saving(c, "crypto_profile")
    /\ \E k \in KeyProfiles : Replace(c, WithKeys(Snap(c), k), WithKeys(Meant(c), k))
    /\ UNCHANGED <<fresh, retired, contested>>

-----------------------------------------------------------------------------
(* POST /vaults, and DELETE /auth/me: the owner's vaults are listed once and *)
(* deleted one by one, and the account last.                                *)
StartCreateVault(c) ==
    /\ \E u \in Ids : SignedIn(u) /\ Begin(c, "create_vault", "create", u, None)
    /\ Quiet

CreateVault(c) ==
    /\ At(c, "create_vault", "create")
    /\ fresh < MaxFresh
    /\ LET v == [no |-> fresh + 1, owner |-> call[c].user]
       IN /\ vaults' = vaults \cup {v}
          /\ orphaned' = IF \/ users[v.owner] = None
                            \/ \E d \in Clients : /\ call[d].op = "delete_account"
                                                  /\ call[d].user = v.owner
                                                  /\ call[d].step # "vaults"
                         THEN orphaned \cup {v} ELSE orphaned
    /\ fresh' = fresh + 1
    /\ Finish(c)
    /\ UNCHANGED <<users, handed, sessions, now, mix, intended, overlapped, proven,
                   retired, contested, limiterVars>>

StartDeleteAccount(c) ==
    /\ \E u \in Ids : SignedIn(u) /\ Begin(c, "delete_account", "vaults", u, None)
    /\ Quiet

ListVaults(c) ==
    /\ At(c, "delete_account", "vaults")
    /\ call' = [call EXCEPT ![c].step = "load", ![c].todo = VaultsOf(call[c].user)]
    /\ Quiet

\* The loop leaves with one vault to go.
DeleteAllVaultsButOne(c) ==
    /\ At(c, "delete_account", "load")
    /\ \E v \in call[c].todo :
          /\ vaults' = IF call[c].todo = {v} THEN vaults ELSE vaults \ {v}
          /\ call' = [call EXCEPT ![c].todo = @ \ {v}]
    /\ UNCHANGED <<users, handed, fresh, sessions, now, mix, history, limiterVars>>
\* delete_vault is content with a vault that is gone already.
DeleteNextVault(c) ==
    /\ At(c, "delete_account", "load")
    /\ \E v \in call[c].todo :
          /\ vaults' = vaults \ {v}
          /\ call' = [call EXCEPT ![c].todo = @ \ {v}]
    /\ UNCHANGED <<users, handed, fresh, sessions, now, mix, history, limiterVars>>

\* delete_user; its own read and its delete_item find the same or answer 404.
DeleteUser(c) ==
    /\ At(c, "delete_account", "load") /\ call[c].todo = {}
    /\ users' = [users EXCEPT ![call[c].user] = None]
    /\ intended' = [intended EXCEPT ![call[c].user] = None]
    /\ Finish(c)
    /\ UNCHANGED <<handed, fresh, sessions, vaults, now, mix, overlapped, proven,
                   retired, contested, orphaned, limiterVars>>

-----------------------------------------------------------------------------
(* The backend process dies: every call ends where it is, and the limiter's *)
(* memory is lost.                                                          *)
Restart ==
    /\ Crashes
    /\ \E c \in Clients : call[c].op # "idle"
    /\ call' = [c \in Clients |-> Idle]
    /\ LimiterRestart
    /\ UNCHANGED <<stored, now, mix, history>>

Tick ==
    /\ now < MaxTime
    /\ now' = now + 1
    /\ UNCHANGED <<stored, call, mix, history, limiterVars>>

AccountStep(c) ==
    \/ StartRegister(c) \/ CheckEmailFree(c) \/ CreateUser(c)
    \/ StartVerify(c) \/ SaveVerified(c)
    \/ StartRequestReset(c) \/ SaveReset(c)
    \/ StartResetPassword(c) \/ StartChangePassword(c) \/ SavePassword(c)
    \/ StartLogin(c) \/ EnforceRateLimit(c) \/ SignIn(c)
    \/ StartUpdateProfile(c) \/ SaveProfile(c)
    \/ StartCryptoProfile(c) \/ SaveCryptoProfile(c)
    \/ StartCreateVault(c) \/ CreateVault(c)
    \/ StartDeleteAccount(c) \/ ListVaults(c) \/ DeleteNextVault(c) \/ DeleteUser(c)
    \/ LoadUser(c)

Next == (\E c \in Clients : AccountStep(c)) \/ Restart \/ Tick

AccountSpec == Init /\ [][Next]_accountVars

-----------------------------------------------------------------------------
(* Properties.                                                              *)

\* Whoever is verified, or holds an access token, has used its account's own
\* verification link in time: no race of profile edits, resets and verification
\* brings a verified account about in another way (verify_email, login_account).
ProvenBeforeUse ==
    /\ \A u \in Live : users[u].verified => u \in proven
    /\ \A s \in sessions : s.user \in proven

\* An account is what its acknowledged writes made it, unless one of them was
\* made while another call was between update_user's read and its replace.
AcknowledgedWritesAreStored ==
    \A u \in Ids \ overlapped : users[u] = intended[u]

\* A reset link that has set a password, or that was outstanding when a password
\* was set, is no longer accepted - unless a stale copy brought it back.
RetiredLinksAreCleared ==
    \A u \in Live \ overlapped : users[u].reset \notin retired

\* Two accounts share an e-mail only when two registrations found it free
\* together, and a username only then or when a stale copy brought it back.
SharedOnlyByRaces ==
    \A u, w \in Live : u # w =>
        /\ users[u].email = users[w].email => users[u].email \in contested
        /\ users[u].name = users[w].name =>
               users[u].name \in contested \/ u \in overlapped \/ w \in overlapped

\* A vault outlives its owner's account only when the call that made it
\* overlapped the deletion of the account.
OrphansOnlyByRaces ==
    \A v \in vaults : users[v.owner] = None => v \in orphaned

\* An account that was deleted never returns: not by a profile edit, a reset or
\* a verification that had read it before (replace_item needs the document).
DeletedAccountsStayDeleted ==
    [][\A u \in handed : users[u] = None => users'[u] = None]_accountVars

\* "Password reset successfully. You can now sign in.", the answer to a reset:
\* the stored password is the one the last acknowledged call set.
AcknowledgedPasswordIsStored ==
    \A u \in Live : users[u].password = intended[u].password
=============================================================================
