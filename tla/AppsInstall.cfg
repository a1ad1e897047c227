INIT Init
NEXT Next
CHECK_DEADLOCK FALSE
CONSTANTS
  KbdBufSize = 3
  ConChars = {"a"}
  LineCap = 3
  HistorySize = 2
  ConWords <- MCWords
  TabMatchMax = 2
  ConLines = 3
  ShNames = {"a", "A"}
  ShFold <- MCFold
  ShSlots = 2
  ShValues = {1, 2}
  RedirCap = 1
  SyslogCap = 2
  LogLines = 5
  EdMaxRows = 3
  EdMaxCols = 2
  EdChars = {"a"}
  EdScreen = 2
  WebSlots = 2
  WebCap = 2
  WebNames = {"a", "b"}
  WebFiles = {"b"}
  WebInstalls = 3
  WebConns = {1, 2}
  WebScript = 1
INVARIANTS
  InstallSurvives
