\* Every clause of up to two items alone, and pairs of the combined ones.
CONSTANTS
  Typed <- MCTyped
  Combined <- MCCombined
  MaxClauses = 2
  KeyName <- MCKey
  MaxItems = 2
  MaxKey = 3
SPECIFICATION FilterSpec
INVARIANT MatchesAsMeant
INVARIANT PushdownIsASuperset
