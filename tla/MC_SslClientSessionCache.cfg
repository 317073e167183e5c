\* Two keys in a cache of one entry, so an Insert of the other key evicts;
\* a flush every second Lookup; sessions living one or two seconds on a
\* clock of three values that may be set back; three sessions, so a key can
\* hold a single-use session behind another.
CONSTANTS
  Keys = {k1, k2}
  max_entries = 1
  expiration_check_count = 2
  ClockValues = {0, 1, 2}
  Timeouts = {1, 2}
  MaxInserts = 3
SPECIFICATION Spec
INVARIANTS SingleUseServedOnce
