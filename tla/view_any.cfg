\* Two friends and three clicks, keys or texts.
SPECIFICATION FairSpec
CONSTANTS
  f1 = f1
  f2 = f2
  Friends = {f1, f2}
  None = None
  Texts <- SomeTexts
  Held <- SomeHeld
  Letters <- TwoLetters
  Queries <- SomeQueries
  MaxReads = 1
  MaxEvents = 3
INVARIANTS TypeOK SelectedIsShown BadgeHasTexts VisibleIsNear
PROPERTIES CatchesUp
