SPECIFICATION Spec
CONSTANTS
    Writers = {"w1", "w2"}
    Scripts <- MCScripts
    None = None
INVARIANTS
    RowsAreOnFile
    OneWriterIsReadable
    SummaryIsExact
