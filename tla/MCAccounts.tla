------------------------------ MODULE MCAccounts ------------------------------
(* TLC instances of Accounts.  A behaviour uses the endpoints of one mix, so *)
(* that the state space is the sum, not the product, of the situations.      *)
EXTENDS Accounts, TLC

AccountSymmetry == Permutations(Clients) \cup Permutations(Ids) \cup Permutations(Names)
                       \cup Permutations(Passwords)

SignUps    == {"register", "update_profile", "delete_account"}
MailProofs == {"register", "verify_email", "request_reset"}
FirstLogin == {"register", "verify_email", "login"}
Passwords1 == {"request_reset", "reset_password", "change_password", "update_profile"}
Passwords2 == {"request_reset", "reset_password", "crypto_profile", "delete_account"}
Logins     == {"login", "request_my_reset"}
Departures == {"create_vault", "delete_account", "login"}
AllMixes == {SignUps, MailProofs, FirstLogin, Passwords1, Passwords2, Logins, Departures}
ProfileAndReset == {{"request_reset", "reset_password", "update_profile"}}
=============================================================================
