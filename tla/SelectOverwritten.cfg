\* Liquid Memories used under an open Headbutt screen.
SPECIFICATION Spec
CONSTANTS
  Deck <- Headbutts
  MaxCardId = 4
  MaxHandSize = 3
  HandSize = 3
  ScryCount = 2
  SwiftDraw = 2
  MaxPosition = 9
  Carried = {"Swift", "LiquidMemories"}
  None = None
PROPERTY QueuedWorkNeverDropped
