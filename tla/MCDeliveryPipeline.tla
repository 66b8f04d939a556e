-------------------------- MODULE MCDeliveryPipeline --------------------------
(* TLC instances of DeliveryPipeline: one or two of every party. *)
EXTENDS DeliveryPipeline, TLC

\* Parties, recipients and files are interchangeable in every safety property.
PipelineSymmetry == Permutations(Clients) \cup Permutations(Functions)
                    \cup Permutations(Jobs) \cup Permutations(Recipients)

NoOverlap == {}
EveryOverlap == AllSchedules
OwnerOverlap == {"owner_overlap"}
SlowStarter == {"slow_starter"}
NoFaults == {}
EveryFault == AllFaults
RecoverableFaults == {"publish_error", "lost_reply", "job_error", "job_crash"}
StartErrors == {"start_error"}
FunctionCrashes == {"function_crash"}

EndOps == {"request_activation", "delete_vault"}
SettledOps == OwnerOperations \cup RecipientOperations
CheckInOps == {"request_activation", "check_in"}
LoneRequest == {"request_activation"}
OneHour == {1}
=============================================================================
