CONSTANTS
    None = None
    b1 = b1  b2 = b2  r1 = r1  r2 = r2  Blocks = {b1, b2}  Readers = {r1, r2}  MaxAsks = 2
    Recording = 3  WINDOW = 2  CONTEXT = 2  MAX_GAP = 1  Inferences = 2
    s1 = s1  ScriptLength = 3  NEAR_START = 1  NEAR_END = 1  JOIN_GAP = 1  JOIN_LENGTH = 3  SCRIPT_GAP = 1
    UNKNOWN = 1  Speakers = {s1}  Texts = {1}  MaxWords = 2  MaxPasses = 2  MaxCorrections = 1
    Talk = 3  Labels = {1, 2}  MaxAnalyses = 3
    Engines = {"mlx", "fw"}  OwnEngine = "mlx"  Models = {"small", "large"}  SmallModel = "small"
    MaxJobs = 2  MaxStops = 1
SPECIFICATION Spec
CHECK_DEADLOCK FALSE
INVARIANTS AudioHolds TranscriptHolds RuntimeHolds
PROPERTIES ReadTextStays SpeechEnds
