--------------------------- MODULE MCSubnetMatch ---------------------------
(***************************************************************************)
(* A pattern for one name, one for all and one that is invalid; lists of   *)
(* one tag, of two and with a tag twice.                                   *)
(***************************************************************************)
EXTENDS SubnetMatch
CONSTANTS n1, n2, t1, t2

MCPatterns == {{n1}, Names, Invalid}
MCTagLists == {<<t1>>, <<t1, t2>>, <<t2, t1, t2>>}
============================================================================
