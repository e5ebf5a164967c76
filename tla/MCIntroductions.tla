--------------------------- MODULE MCIntroductions ----------------------------
(* Instances of Introductions for TLC. *)
EXTENDS Introductions

CONSTANTS a, b, c, d, e

\* By one relay, which may review; to two far ends; by routes that merge at a relay;
\* by routes of which one ends at the relay of the other.
ByRelay  == <<a, b, c>>
Around   == <<a, d, c>>
Direct   == <<a, c>>
Nearby   == <<a, e>>
Merging  == <<a, e, b, c>>
AtRelay  == <<a, b>>

MCAsks == {<<ByRelay>>, <<Around>>, <<Direct, Nearby>>, <<ByRelay, Merging>>, <<ByRelay, AtRelay>>}
MCApart == {<<Direct, Nearby>>}
=============================================================================
