\* Three streams and a complete() in two tasks: closing orders that differ from
\* the opening order, a dropped stream, a task spawned in an open scope.
CONSTANTS
    Tasks = {main, child}
    Main = main
    Streams = {s1, s2, s3}
    Completes = {k1}
    None = None
SPECIFICATION Spec
INVARIANTS LoggedOnExit CaptureFollowsScopes
PROPERTY DroppedIsLogged
CHECK_DEADLOCK FALSE
