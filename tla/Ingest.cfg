SPECIFICATION Spec
CONSTANTS
    Connection = {c1, c2}
    Job = {j1, j2}
    Blueprint = {b1}
    Deleter = {d1}
    ChunkCount = 2
    NoJob = NoJob
    Forgotten = Forgotten
    NoDir = NoDir
    NoManifest = NoManifest
    NoBlueprint = NoBlueprint
    MaxRestarts = 1
INVARIANTS TypeOK InstalledIsUsable InstalledIsIntact
PROPERTY JobDecided
CHECK_DEADLOCK FALSE
