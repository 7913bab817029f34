SPECIFICATION ChainSpec
CONSTANTS
  shield = shield
  auth = auth
  obs = obs
  Handlers <- MCHandlers
  SlotOf <- MCSlotOf
  Removable <- MCRemovable
  Replacements <- MCReplacements
  Walkers = {r1}
  Blank = Blank
  Torn = Torn
  MaxChanges = 5
INVARIANTS
  RunsItsSnapshot
CHECK_DEADLOCK FALSE
