------------------------------- MODULE MCAppLock -------------------------------
(* AppLock on a small instance: the bounds are in the cfg.                 *)
EXTENDS AppLock
================================================================================
