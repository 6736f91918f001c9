-------------------------- MODULE MCExchangeWorkloads --------------------------
(***************************************************************************)
(* One run for three small workloads whose product would be too large:     *)
(* calls one at a time, with three orders or with two and a deposit, and   *)
(* calls that overlap, with two orders.  Each may cancel once.             *)
(***************************************************************************)
EXTENDS MCExchange, ExchangeOverlaps

\* A bound: with a deposit, or calls that overlap, two orders.
Within ==
    /\ deposits' > 0 => pc'[3] = "idle"
    /\ overlapped' => deposits' = 0 /\ pc'[3] = "idle"

MCNext == OverlapNext /\ Within
MCSpec == OverlapInit /\ [][MCNext]_overlapVars /\ Fairness
=============================================================================
