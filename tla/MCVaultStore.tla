----------------------------- MODULE MCVaultStore -----------------------------
(* TLC instances of VaultStore: small sets of callers, recipients and files. *)
EXTENDS VaultStore, TLC

\* Clients, recipients and files are interchangeable in every safety property.
StoreSymmetry == Permutations(Clients) \cup Permutations(Recipients) \cup Permutations(Files)

RaceOps == {"update_vault", "delete_recipient", "check_in", "request_activation",
            "upload_file", "assign_file", "delete_file", "delete_vault"}
ConsentOps == {"check_in", "request_activation"}
AllOps == OwnerOperations \cup RecipientOperations
OneHour == {1}
TwoGraces == {1, 2}
=============================================================================
