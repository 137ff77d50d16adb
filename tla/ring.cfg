CONSTANTS
    Readers = {r1, r2}
    Size = 2
    MaxCursor = 4
    WordMod = 64
    MaxSpans = 1
    Quiesced = TRUE
    Clearable = FALSE
    DoubleMapped = TRUE
    PlainReaders = {r1}
    PlainSize = 4
    PlainCursor = 5
    PlainSpans = 2
SPECIFICATION RingsSpec
CHECK_DEADLOCK FALSE
INVARIANTS TypeOK NeverLapped SpansDisjoint SamplesKept
PROPERTIES WriterProgress ImplementsStream
