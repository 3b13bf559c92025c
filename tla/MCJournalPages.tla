--------------------------- MODULE MCJournalPages ---------------------------
(* The turn of the year 2000 with a Saturday, a Sunday and a Monday, and walks  *)
(* over the first years, from 1970 to 2104 and over the last two years.         *)
EXTENDS JournalPages

dayOf(n, w, d) == [number |-> n, weekday |-> w, date |-> d]

Saturday == dayOf(11321, 6, civil(2000, 12, 30))
Monday   == dayOf(11323, 1, civil(2001, 1, 1))
TheEnd   == dayOf(2932896, 5, civil(9999, 12, 31))

MCStarts == {Saturday, dayOf(-719528, 6, civil(0, 1, 1)),
             dayOf(0, 4, civil(1970, 1, 1)), dayOf(2932167, 4, civil(9998, 1, 1))}
MCEntries == {Saturday, Monday}
MCTargets == {Saturday, Monday, TheEnd}
MCEnds == {-718000, 49000, 2932896}
MCBusy == {11321, 11322, 11323}
=============================================================================
