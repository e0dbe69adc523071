SPECIFICATION Spec
CONSTANTS
  Kinds <- MCKinds
  Triggers <- MCTriggers
  MinCycles = 2
  Silent = 4
  Multiclick = 4
  Hold = 5
  PressTime = 6
  PressCount = 3
  Window = 7
  ExitAfter = 1
INVARIANTS
  TypeOK
  LevelKnown
  SaysWhatWasClicked
PROPERTIES
  Deliberate
  EntryPressStays
