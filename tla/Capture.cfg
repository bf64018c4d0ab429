\* One call of any kind, under three init() calls and two ashutdown()s.
CONSTANTS
    Runtimes = {r1, r2, r3}
    Calls = {c1}
    MaxShutdowns = 2
    None = None
SPECIFICATION Spec
INVARIANTS CapturedOnce LoggedOnce PatchTruthful BrokenOnlyByUninstall InitSticks
PROPERTY LeftIsLogged
CHECK_DEADLOCK FALSE
