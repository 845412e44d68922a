-------------------------- MODULE MCVenueDistances --------------------------
(* Three venues, two of them seeded; two of the places are four metres apart, *)
(* which the cache rounds to zero, and differ in their distance to the third.  *)
EXTENDS VenueDistances

MCVenue == 1..3
MCPlace == {0, 4, 1007}
MCSeeded == [v \in {1, 3} |-> IF v = 1 THEN 0 ELSE 1007]
=============================================================================
