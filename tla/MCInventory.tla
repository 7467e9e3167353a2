----------------------------- MODULE MCInventory ----------------------------
EXTENDS Inventory

MCTransport == [w \in Watches |-> "sse"]
MCItems == [id : {1, None}, version : {0, 1}]
=============================================================================
