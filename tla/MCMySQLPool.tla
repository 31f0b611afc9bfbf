---------------------------- MODULE MCMySQLPool ----------------------------
(* Three operations and two sessions, named as model values in the cfg.     *)
EXTENDS MySQLPool

CONSTANTS o1, o2, o3, s1, s2
=============================================================================
