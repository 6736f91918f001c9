----------------------------- MODULE MCDelivery -----------------------------
(***************************************************************************)
(* An instance of Delivery for TLC.  Two closes that overlap need three    *)
(* runs of the effect, order needs two events; no case needs both.  Runs   *)
(* and events are not due, so that the bound leaves fairness alone.        *)
(***************************************************************************)
EXTENDS Delivery

CONSTANT MaxInputs      \* bound: runs of the effect and events together

Within == runs' + Len(published') <= MaxInputs

MCSpec == DeliveryInit /\ [][DeliveryNext /\ Within]_allVars /\ DeliveryFairness
=============================================================================
