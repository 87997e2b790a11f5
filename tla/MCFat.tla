------------------------------- MODULE MCFat -------------------------------
(* One sector of boot data, one of table, a root directory of one cluster   *)
(* and four clusters of two bytes.                                          *)
EXTENDS Fat
=============================================================================
