----------------------------- MODULE MCUdecxDriver -----------------------------
(***************************************************************************)
(* UdecxDriver with one endpoint, which every URB is for.                  *)
(***************************************************************************)
EXTENDS UdecxDriver

CONSTANT e1

MCEpOf == [u \in Urbs |-> e1]

===============================================================================
