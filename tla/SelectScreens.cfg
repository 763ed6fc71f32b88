\* Screens over the hand and the draw pile, with potions used under them; the
\* record is three positions wide.  The specification deals one of three decks.
SPECIFICATION EitherSpec
CONSTANTS
  Deck <- PutOnDeck
  MaxCardId = 4
  MaxHandSize = 3
  HandSize = 3
  ScryCount = 2
  SwiftDraw = 2
  MaxPosition = 2
  Carried = {}
  None = None
INVARIANTS TypeOK KnowledgeSound SourceParked KnowledgeNeverLeaks ScreenAnswerable DrawWaitsForScreen HandWithinCap ClearedAfterWin
PROPERTIES CommandFinishes ChoiceKeepsItsCards
