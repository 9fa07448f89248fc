--------------------------- MODULE MCOrderSizing ---------------------------
(* Instances of OrderSizing for TLC.                                       *)
EXTENDS OrderSizing

CONSTANT none

AnyBalance == {-1, 0, 1, 5, 7}
MinimaQuantity == {none, 0, 2, 3}
MinimaNotional == {none, 0, 5}
=============================================================================
