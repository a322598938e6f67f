SPECIFICATION Spec
CONSTANTS
  Chars = {"k", "1", "2", "=", "'"}
  alphanum_plus = {"k", "1", "2"}
  Quotes = {"'"}
  NoChar = "none"
  VALUE_SIZE = 3
  Words <- MCWords
  Loads <- MCLoads
CHECK_DEADLOCK FALSE
INVARIANTS TypeOK ScanSound SentApart
 
