---------------------------- MODULE MCFatCodec -----------------------------
(* Clock readings at the edges of every field, and stored bit patterns at  *)
(* both ends of every field and just past each calendar range.             *)
EXTENDS FatCodec

DT(y, mo, d, h, mi, s) ==
    [Date |-> [Year |-> y, Month |-> mo, Day |-> d],
     Time |-> [Hour |-> h, Minute |-> mi, Second |-> s]]

\* Years the 7-bit field can hold: 1980 .. 2107.
MCClockReadings(years) ==
    { DT(y, mo, d, h, mi, s) : y \in years, mo \in {1, 12}, d \in {1, 31},
                               h \in {0, 23}, mi \in {0, 59}, s \in {0, 1, 58, 59} }

MCClockInRange == MCClockReadings({1980, 2024, 2107})

MCDiskStamps ==
    { [date |-> [Day |-> d, Month |-> mo, Year |-> y],
       time |-> [Hour |-> h, Minute |-> mi, Second |-> s]] :
        d \in {0, 1, 31}, mo \in {0, 1, 12, 13, 15}, y \in {0, 127},
        h \in {0, 23, 24, 31}, mi \in {0, 59, 60, 63}, s \in {0, 29, 30, 31} }
=============================================================================
