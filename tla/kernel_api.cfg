SPECIFICATION Spec
CONSTANTS
    Specs <- Optional
    Stoppers = {s1}
    Owner = {}
    Reactions = {"none"}
INVARIANT StopDrainsEverything
CHECK_DEADLOCK FALSE
