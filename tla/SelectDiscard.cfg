\* Headbutt, True Grit and Elixir screens with generated cards and card offers.
SPECIFICATION Spec
CONSTANTS
  Deck <- Mixed
  MaxCardId = 5
  MaxHandSize = 4
  HandSize = 3
  ScryCount = 2
  SwiftDraw = 2
  MaxPosition = 9
  Carried = {"Elixir", "Attack", "Swift"}
  None = None
INVARIANT CardsConserved
PROPERTIES QueuedWorkNeverDropped NoDrawAfterLethal
