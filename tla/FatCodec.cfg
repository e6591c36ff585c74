CONSTANTS
    ClockReadings <- MCClockInRange
    DiskStamps <- MCDiskStamps
SPECIFICATION Spec
INVARIANT StampDecodesToClock
INVARIANT DecodeAcceptsExactlyValid
