SPECIFICATION Spec
CONSTANTS
  Chars = {"k", "1", "2", "=", "'"}
  alphanum_plus = {"k", "1", "2"}
  Quotes = {"'"}
  NoChar = "none"
  VALUE_SIZE = 3
  Words <- MCWords
  Loads <- ObtainedLoads
CHECK_DEADLOCK FALSE
PROPERTY ValuesObtained
