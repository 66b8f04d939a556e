----------------------------- MODULE MCLocalStore -----------------------------
(* A TLC instance of LocalStore: few documents, mixes of operations that meet. *)
EXTENDS LocalStore, TLC

LocalSymmetry == Permutations(Clients) \cup Permutations(Ids)

Mix(ops, left, writing, dying) ==
    [ops |-> ops, legacy |-> left, writes |-> writing, deaths |-> dying]

LocalMixes == {
    Mix({"add_recipient", "update_permission", "remove_recipient", "add_request"}, 0, 3, 1),
    Mix({"update_vault", "remove_file", "remove_request", "add_request"}, 0, 3, 1),
    Mix({"create_vault", "delete_vault", "worker"}, 0, 3, 1),
    Mix({"check_in", "add_request", "worker"}, 0, 3, 1),
    Mix({"log_audit_event", "worker"}, 0, 2, 1),
    Mix({"create_user", "update_user", "delete_user"}, 2, 2, 2),
    Mix({"delete_vault"}, 2, 2, 2),
    Mix({"worker"}, 1, 1, 1)}
=============================================================================
