----------------------------- MODULE MCSendQueue -----------------------------
(* One session that sends frames of three pieces.                          *)
EXTENDS SendQueue
=============================================================================
