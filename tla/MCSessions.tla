------------------------------ MODULE MCSessions ------------------------------
(* Sessions with more logins than permits and two checks at a time.         *)
EXTENDS Sessions
==============================================================================
