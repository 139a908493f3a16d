CONSTANTS
  Params <- Params3
  Args <- Args3
  MaxPacked = 2
SPECIFICATION ArchiveSpec
INVARIANTS RoundTrip InBounds
