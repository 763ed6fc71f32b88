\* A put-on-deck screen with two potions parked behind it.
SPECIFICATION Spec
CONSTANTS
  Deck <- PutOnDeck
  MaxCardId = 4
  MaxHandSize = 3
  HandSize = 3
  ScryCount = 2
  SwiftDraw = 2
  MaxPosition = 9
  Carried = {"Swift", "GamblersBrew"}
  None = None
INVARIANT DrawWaitsForScreen
