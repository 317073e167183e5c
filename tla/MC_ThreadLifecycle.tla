-------------------------- MODULE MC_ThreadLifecycle --------------------------
(* Bounds for ThreadLifecycle: one restart, four run loops per MessageLoop. *)
EXTENDS ThreadLifecycle

MCMaxLoops == 4
MCMaxStarts == 2
=============================================================================
