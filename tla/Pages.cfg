CONSTANTS
    Runs = {f1, f2}
    Rows = {r1, r2}
    Values = {v1, v2}
    Start = v1
    Screens <- AllScreens
    Lists <- AllLists
    Slots <- AllSlots
    Kinds <- AllKinds
    Ops <- AllOps
    Scenes <- AllScenes
    Shows <- ShownOn
    Alarms <- AlarmsOn
    Reloads <- ReloadsOn
    Hears <- HearsOn
    Foldable <- KraamFoldable
    Gaps <- KnownGaps
SPECIFICATION Spec
CONSTRAINT Undisturbed
SYMMETRY Sym
CHECK_DEADLOCK FALSE
INVARIANTS
    TypeOK
    DialogMatches
    FlagsHeld
    StuckOnlyByReplacement
    OneAtATime
    GuessesEnd
    ShownCurrent
