SPECIFICATION Spec
CONSTANTS
    OrderIds = {1, 2, 3}
    Prices = {1, 2}
    Quantities = {1, 2}
    Times = {0, 1}
    Amended = {2}
INVARIANTS
    TypeOK
    MapAndArraysAgree
    SnapshotShowsTheBook
PROPERTY PriceTimePriority
