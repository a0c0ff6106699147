-------------------------- MODULE MCBrokerRevocation --------------------------
(* Instances of BrokerRevocation for TLC. *)
EXTENDS BrokerRevocation, MCBroker
===============================================================================
