\* Two runs, a stop and a prepare on one pidfile, killed anywhere.
SPECIFICATION Spec
CONSTANTS
    r1 = r1  r2 = r2  s1 = s1  p1 = p1
    Run = {r1, r2}
    Stop = {s1}
    Prepare = {p1}
    None = None
INVARIANTS StoppedMeansQuiet OneCommand
PROPERTIES RecordOutlivesSession InterruptedRunEnds
CHECK_DEADLOCK FALSE
