---------------------------- MODULE MCColdTable ----------------------------
(* One meter, two windows; the first is corrected after it is archived.     *)
EXTENDS ColdTable

Reading(from, version) == [malo |-> "a", from |-> from, version |-> version]

MCRows == {Reading(0, 1), Reading(0, 2), Reading(1, 2)}
MCRanges == {<<0, 1>>, <<0, 2>>}
MCHot  == [w \in 0..1 |-> IF w = 0 THEN {Reading(0, 1)} ELSE {Reading(1, 2)}]
=============================================================================
