----------------------------- MODULE MCScreens -----------------------------
(***************************************************************************)
(* An instance of Screens for TLC.  The trades page needs three orders for *)
(* two trades, and does not care whose they are; the others see every case *)
(* with two.  Buys and sells are alike, so the first order is a sale.      *)
(***************************************************************************)
EXTENDS Screens

Asked == {o \in OrderIds : terms'[o] # NoTerms}

Within ==
    /\ 1 \in Asked => terms'[1].side = "sell"
    /\ \/ page.name # "trades" /\ 3 \notin Asked
       \/ page.name = "trades" /\ \A o \in Asked : terms'[o].user = Me

MCSpec == ScreensInit /\ [][ScreensNext /\ Within]_screenVars
=============================================================================
