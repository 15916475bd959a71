SPECIFICATION Spec
CONSTANTS
  Segs = 5
  Gap = 3
  Late = 1
  Wrap = 18
  MaxTelegram = 30
INVARIANTS OneRevolution IntactPublished
