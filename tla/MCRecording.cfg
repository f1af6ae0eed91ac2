SPECIFICATION Spec
CONSTANTS
    None = None
    Binaries = {b1}
    Recordings = {r1, r2}
    MaxRestarts = 1
    MaxActs = 1
INVARIANTS RecordingTypeOK QuietCapture OneRecorder ReportsAreTrue
PROPERTIES RecordingEnds
