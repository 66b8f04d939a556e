-------------------------- MODULE DeliveryLifecycle --------------------------
(***************************************************************************)
(* What the application promises its owners about one vault, with no       *)
(* machinery: a vault is open until enough recipients ask, then a grace    *)
(* period runs that the owner can end at any time; once the grace period   *)
(* is over the vault is claimed for delivery, and a delivered vault and    *)
(* its packages never change again, except that the owner may delete the   *)
(* account and everything with it.                                         *)
(***************************************************************************)
EXTENDS Naturals

CONSTANT Package

VARIABLES stage, packages

lifecycleVars == <<stage, packages>>

Stages == {"open", "grace", "claimed", "delivered", "deleted"}

LifecycleTypeOK == stage \in Stages /\ packages \subseteq Package

LifecycleInit == stage = "open" /\ packages = {}

StartGrace == stage = "open" /\ stage' = "grace" /\ UNCHANGED packages
EndGrace == stage = "grace" /\ stage' = "open" /\ UNCHANGED packages
Claim == stage = "grace" /\ stage' = "claimed" /\ UNCHANGED packages

Deliver == /\ stage = "claimed"
           /\ stage' = "delivered"
           /\ packages' \in (SUBSET Package) \ {{}}

Delete == /\ stage # "deleted"
          /\ stage' = "deleted"
          /\ packages' = {}

LifecycleNext == StartGrace \/ EndGrace \/ Claim \/ Deliver \/ Delete

Lifecycle == LifecycleInit /\ [][LifecycleNext]_lifecycleVars

=============================================================================
