---------------------------- MODULE MCVerifyCode ----------------------------
(* Two addresses, two calls at a time and one form.                         *)
EXTENDS VerifyCode

CONSTANTS e1, e2, k1, k2, f1
=============================================================================
