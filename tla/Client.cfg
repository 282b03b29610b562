SPECIFICATION Spec
CONSTANTS
  None = None
  Torn = Torn
  Menu = menu
  Tui = tui
  Clis = {c1, c2}
  Processes = {c1, c2, menu, tui}
  Authors = {a}
  Languages = {fr, en}
  DefaultAuthor = a
  DefaultLanguage = fr
  MaxCommands = 3
CHECK_DEADLOCK FALSE
INVARIANTS
  ReportsStayTrue
  OthersAreKept

  
