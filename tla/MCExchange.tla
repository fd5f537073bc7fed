----------------------------- MODULE MCExchange -----------------------------
(* One exchange, with two events before the last one.                         *)
EXTENDS Exchange
=============================================================================
