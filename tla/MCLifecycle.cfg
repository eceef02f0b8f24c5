CONSTANTS
    Configs = {c1, c2}
    Bad = bad
    MaxEvents = 3
SPECIFICATION Spec
INVARIANTS NoFalseAlarm ExitCodeTells
PROPERTIES ReloadTakesEffect StopsWhenTold Recovers
