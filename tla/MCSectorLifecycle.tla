------------------------- MODULE MCSectorLifecycle -------------------------
(* Instances of SectorLifecycle for TLC. *)
EXTENDS SectorLifecycle

\* A space sector with one station on it: they share an object manager.
LunaFamily == {1015, 10151}
\* Two space sectors that share nothing but the pool and the mutex.
LunaAndMars == {1015, 1076}
\* One family and an unrelated sector.
AllThree == {1015, 10151, 1076}
LunaOnly == {1015}
\* 2000 has no row in the content database.
LunaAndAbsent == {1015, 2000}
Content == {1015, 1076}
=============================================================================
