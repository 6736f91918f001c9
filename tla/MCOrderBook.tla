---------------------------- MODULE MCOrderBook ----------------------------
(***************************************************************************)
(* An instance of OrderBookStore for TLC, and a check of Arrays against    *)
(* a filter and a stable partition by SelectSeq.                           *)
(***************************************************************************)
EXTENDS OrderBookStore

ShortArrays == UNION {[1..n -> {1, 2, 3}] : n \in 0..4}

ASSUME KeptIsFilter ==
    \A s \in ShortArrays, x \in {1, 2, 3} :
        Filtered(s, x) = SelectSeq(s, LAMBDA y : y # x)

\* The order of two elements of one array, 2 and 3 being equal to the comparator.
Earlier(x, y) == x = 1 /\ y # 1

ASSUME ArrangedIsStableSort ==
    \A s \in ShortArrays :
        Arranged(s, DOMAIN s, {p \in (DOMAIN s) \X (DOMAIN s) :
                     Earlier(s[p[1]], s[p[2]]) \/ (~Earlier(s[p[2]], s[p[1]]) /\ p[1] <= p[2])})
          = SelectSeq(s, LAMBDA y : y = 1) \o SelectSeq(s, LAMBDA y : y # 1)
=============================================================================
