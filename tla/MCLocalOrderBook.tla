-------------------------- MODULE MCLocalOrderBook --------------------------
(***************************************************************************)
(* LocalOrderBook on three prices with one level per side in a snapshot,   *)
(* so that a snapshot hides a level that later becomes the best one.       *)
(***************************************************************************)
EXTENDS LocalOrderBook

MCPrices == 1 .. 3
MCFirstBook == [bids |-> [p \in MCPrices |-> IF p <= 2 THEN 1 ELSE 0],
                asks |-> [p \in MCPrices |-> IF p = 3 THEN 1 ELSE 0]]
=============================================================================
