---- MODULE MCServers ----
(* One server under a handful of orders and faults. *)
EXTENDS Servers
====
