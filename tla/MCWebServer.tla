------------------------------ MODULE MCWebServer ------------------------------
(* HSDGWebServer: the option sets are the one HSDManager starts with and two *)
(* that give the other value to one option.                                  *)
EXTENDS WebServer

MCOptionSets ==
    {[suspendInBackground |-> TRUE,  coalesce |-> TRUE],
     [suspendInBackground |-> TRUE,  coalesce |-> FALSE],
     [suspendInBackground |-> FALSE, coalesce |-> TRUE]}
================================================================================
