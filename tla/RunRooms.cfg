CONSTANTS
  Nil = Nil
  FinalAct = TRUE
  EventNames = {
    "BigFish", "TheCleric", "DeadAdventurer", "GoldenIdol", "WingStatue",
    "WorldOfGoop", "TheSsssserpent", "LivingWall", "HypnotizingColoredMushrooms",
    "ScrapOoze", "ShiningLight", "Addict", "BackToBasics", "Beggar", "Colosseum",
    "CursedTome", "DrugDealer", "ForgottenAltar", "Ghosts", "MaskedBandits",
    "Nest", "TheLibrary", "TheMausoleum", "Vampires", "Falling", "MindBloom",
    "MoaiHead", "MysteriousSphere", "SensoryStone", "TombOfLordRedMask",
    "WindingHalls", "MatchAndKeep", "GoldenShrine", "Transmorgrifier", "Purifier",
    "UpgradeShrine", "WheelOfChange", "AccursedBlacksmith", "BonfireElementals",
    "FountainOfCleansing", "Lab", "WeMeetAgain", "TheWomanInBlue",
    "NoteForYourself", "Designer", "Duplicator", "FaceTrader", "KnowingSkull",
    "Nloth", "TheJoust", "SecretPortal"}
  BossRelics = {"plain", "TinyHouse", "CallingBell", "EmptyCage", "PandorasBox", "Astrolabe"}
  ShopRelics = {"plain", "Bottle", "DollysMirror", "Orrery", "Cauldron"}
SPECIFICATION Spec
INVARIANTS EveryBoundaryValidates OncePerRoom DecisionUntilComplete EventConcluded
PROPERTY RelicOffersKept
CHECK_DEADLOCK FALSE
