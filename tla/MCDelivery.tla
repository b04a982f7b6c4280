----------------------------- MODULE MCDelivery -----------------------------
(***************************************************************************)
(* Delivery made finite for TLC.                                           *)
(***************************************************************************)
EXTENDS DeliveryProperties, TLC

CONSTANTS a1, a2, b

\* The first player has the connection a1 and then a2, the second b.
Seat == [c \in Clients |-> IF c = b THEN 1 ELSE 0]
Begins == [s \in Seats |-> IF s = 0 THEN a1 ELSE b]
=============================================================================
