----------------------------- MODULE MCSVMKernel -----------------------------
(* Instances of the kernel threads for the model checker.                  *)
EXTENDS SVMKernel
=============================================================================
