SPECIFICATION Spec
CONSTANTS
  SeqModulus = 8
  Base = 32
  Timings <- TightTimings
INVARIANTS TypeOK FramesOpen TimeoutMeansDeath EndsTogether CodecExact
