--------------------------- MODULE MCOrderPayment ---------------------------
(* OrderPayment on small instances.                                        *)
EXTENDS OrderPayment

CONSTANTS i1, i2, r1, r2
=============================================================================
