---------------------------- MODULE MC_Certificates ---------------------------
(* Instances of Certificates for the model checker.                          *)
EXTENDS Certificates, TLC
===============================================================================
