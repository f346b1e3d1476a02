------------------------------- MODULE MCWorkers -------------------------------
(* Instances of Workers for TLC: main and other are threads outside.          *)
EXTENDS Workers
================================================================================
