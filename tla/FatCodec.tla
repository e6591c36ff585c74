------------------------------ MODULE FatCodec ------------------------------
(***************************************************************************)
(* The FAT date/time codec of fat_utils.c and the one place that stamps an *)
(* entry with it (FatCreateDirectoryEntry, fat_operations.c).  The packed  *)
(* on-disk FATDATE / FATTIME are records of bit-fields; a store into a      *)
(* field keeps its low bits (% 2^width), as the C bit-field assignment     *)
(* does.  The state is the stamp held by one directory entry and where it  *)
(* came from: the wall clock through the encoder, or an arbitrary bit      *)
(* pattern left by another writer of the volume.                           *)
(***************************************************************************)
EXTENDS Integers

CONSTANTS
    ClockReadings,  \* DATETIMEs IoGetCurrentDateTime may return
    DiskStamps      \* [date, time] bit patterns another writer may leave

VARIABLES
    stamp,   \* [date |-> FATDATE, time |-> FATTIME] held by the entry
    clock,   \* the clock reading the last Stamp used
    origin   \* "clock" after Stamp, "disk" after Overwrite

vars == <<stamp, clock, origin>>

\* Bit widths of the packed fields (year since 1980 in the high bits).
DayBits == 5
MonthBits == 4
YearBits == 7
SecondBits == 5
MinuteBits == 6
HourBits == 5

\* Calendar ranges checked by the decoder.
FAT_DAY_RANGE_MIN == 1
FAT_DAY_RANGE_MAX == 31
FAT_MONTH_RANGE_MIN == 1
FAT_MONTH_RANGE_MAX == 12
FAT_START_YEAR == 1980
FAT_SECOND_RANGE_MIN == 0
FAT_SECOND_RANGE_MAX == 29
FAT_MINUTE_RANGE_MIN == 0
FAT_MINUTE_RANGE_MAX == 59
FAT_HOUR_RANGE_MIN == 0
FAT_HOUR_RANGE_MAX == 23

\* Storing v into a bit-field of width w.
Field(v, w) == v % (2 ^ w)

InRange(v, lo, hi) == lo <= v /\ v <= hi

Ok(v) == [st |-> "SUCCESS", val |-> v]
TimeInvalid == [st |-> "STATUS_TIME_INVALID", val |-> "none"]

\* _ConvertFatDateToDate: day, then month, are checked; the year is the
\* stored offset plus 1980.
ConvertFatDateToDate(fd) ==
    IF ~InRange(fd.Day, FAT_DAY_RANGE_MIN, FAT_DAY_RANGE_MAX) THEN TimeInvalid
    ELSE IF ~InRange(fd.Month, FAT_MONTH_RANGE_MIN, FAT_MONTH_RANGE_MAX) THEN TimeInvalid
    ELSE Ok([Day |-> fd.Day, Month |-> fd.Month, Year |-> fd.Year + FAT_START_YEAR])

\* Mutant: the seconds range checked one past its end.
ConvertFatTimeToTimeSecondOffByOne(ft) ==
    IF ~InRange(ft.Second, FAT_SECOND_RANGE_MIN, FAT_SECOND_RANGE_MAX + 1) THEN TimeInvalid
    ELSE IF ~InRange(ft.Minute, FAT_MINUTE_RANGE_MIN, FAT_MINUTE_RANGE_MAX) THEN TimeInvalid
    ELSE IF ~InRange(ft.Hour, FAT_HOUR_RANGE_MIN, FAT_HOUR_RANGE_MAX) THEN TimeInvalid
    ELSE Ok([Hour |-> ft.Hour, Minute |-> ft.Minute, Second |-> ft.Second * 2])

\* _ConvertFatTimeToTime: the stored seconds are checked before doubling,
\* then minutes, then hours.
ConvertFatTimeToTime(ft) ==
    IF ~InRange(ft.Second, FAT_SECOND_RANGE_MIN, FAT_SECOND_RANGE_MAX) THEN TimeInvalid
    ELSE IF ~InRange(ft.Minute, FAT_MINUTE_RANGE_MIN, FAT_MINUTE_RANGE_MAX) THEN TimeInvalid
    ELSE IF ~InRange(ft.Hour, FAT_HOUR_RANGE_MIN, FAT_HOUR_RANGE_MAX) THEN TimeInvalid
    ELSE Ok([Hour |-> ft.Hour, Minute |-> ft.Minute, Second |-> ft.Second * 2])

\* ConvertFatDateTimeToDateTime: the date first; its error is returned.
ConvertFatDateTimeToDateTime(s) ==
    LET d == ConvertFatDateToDate(s.date)
        t == ConvertFatTimeToTime(s.time)
    IN  IF d.st # "SUCCESS" THEN d
        ELSE IF t.st # "SUCCESS" THEN t
        ELSE Ok([Date |-> d.val, Time |-> t.val])

\* Mutant: the seconds stored undivided.
ConvertTimeToFatTimeUnhalved(t) ==
    [Hour |-> Field(t.Hour, HourBits), Minute |-> Field(t.Minute, MinuteBits),
     Second |-> Field(t.Second, SecondBits)]

\* _ConvertDateToFatDate: year offset subtracted, fields stored truncated.
ConvertDateToFatDate(d) ==
    [Year |-> Field(d.Year - FAT_START_YEAR, YearBits),
     Month |-> Field(d.Month, MonthBits), Day |-> Field(d.Day, DayBits)]

\* _ConvertTimeToFatTime: seconds halved by integer division.
ConvertTimeToFatTime(t) ==
    [Hour |-> Field(t.Hour, HourBits), Minute |-> Field(t.Minute, MinuteBits),
     Second |-> Field(t.Second \div 2, SecondBits)]

ConvertDateTimeToFatDateTime(dt) ==
    [date |-> ConvertDateToFatDate(dt.Date), time |-> ConvertTimeToFatTime(dt.Time)]

Init ==
    /\ stamp \in DiskStamps
    /\ clock = "none"
    /\ origin = "disk"

\* FatCreateDirectoryEntry reads the clock, encodes it once, and stores the
\* same FATDATE/FATTIME as creation, write and access stamp.
Stamp(dt) ==
    /\ stamp' = ConvertDateTimeToFatDateTime(dt)
    /\ clock' = dt
    /\ origin' = "clock"

\* Another writer (a formatter, another OS) leaves any bit pattern.
Overwrite(s) ==
    /\ stamp' = s
    /\ clock' = "none"
    /\ origin' = "disk"

Next ==
    \/ \E dt \in ClockReadings : Stamp(dt)
    \/ \E s \in DiskStamps : Overwrite(s)

Spec == Init /\ [][Next]_vars

-----------------------------------------------------------------------------
FatDates == [Day : 0 .. 2^DayBits - 1, Month : 0 .. 2^MonthBits - 1, Year : 0 .. 2^YearBits - 1]
FatTimes == [Hour : 0 .. 2^HourBits - 1, Minute : 0 .. 2^MinuteBits - 1, Second : 0 .. 2^SecondBits - 1]

TypeOK ==
    /\ stamp \in [date : FatDates, time : FatTimes]
    /\ origin \in {"clock", "disk"}
    /\ origin = "clock" => clock \in ClockReadings

\* The wall-clock value with its seconds rounded down to even.
RoundedToEven(dt) ==
    [Date |-> dt.Date, Time |-> [dt.Time EXCEPT !.Second = 2 * (@ \div 2)]]

\* Spec section 8: an entry FatCreateDirectoryEntry stamps decodes, through
\* ConvertFatDateTimeToDateTime, to the clock reading it was stamped with,
\* seconds rounded to even; in particular the ASSERT(SUCCEEDED) in
\* _FatPopulateFileInformationFromFatEntry never fires on such an entry.
StampDecodesToClock ==
    origin = "clock" =>
        ConvertFatDateTimeToDateTime(stamp) = Ok(RoundedToEven(clock))

\* The decoder accepts a stored stamp exactly when every field lies in its
\* calendar range (a stored seconds field of 30 is rejected), and whatever
\* it accepts the encoder writes back bit for bit.
DecodeAcceptsExactlyValid ==
    LET r == ConvertFatDateTimeToDateTime(stamp)
        valid == /\ InRange(stamp.date.Day, 1, 31)
                 /\ InRange(stamp.date.Month, 1, 12)
                 /\ InRange(stamp.time.Second, 0, 29)
                 /\ InRange(stamp.time.Minute, 0, 59)
                 /\ InRange(stamp.time.Hour, 0, 23)
    IN  /\ (r.st = "SUCCESS") = valid
        /\ r.st = "SUCCESS" => ConvertDateTimeToFatDateTime(r.val) = stamp
=============================================================================
