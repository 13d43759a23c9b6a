----------------------------- MODULE MCLinkCapture -----------------------------
(* LinkCapture for TLC. *)
EXTENDS LinkCapture, TLC
================================================================================
