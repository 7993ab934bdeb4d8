------------------------------ MODULE MCViews -------------------------------
(* Instances of Views for TLC, with the values of MCReconciler.            *)
EXTENDS Views, MCReconciler
=============================================================================
