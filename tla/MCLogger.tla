---------------------------- MODULE MCLogger ----------------------------
(* Two threads that log while the logger is destroyed. *)
EXTENDS Logger, TLC
=========================================================================
