------------------------------ MODULE MCGattTable ------------------------------
(* GattTable with one notified and one indicated characteristic. *)
EXTENDS GattTable
=============================================================================
