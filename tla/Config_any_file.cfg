SPECIFICATION Spec
CONSTANTS
  foo = foo
  bar = bar
  Name <- Names
  Line <- Lines
  NoName = NoName
  Garbage = Garbage
  OnDisk = {foo}
  MAX_CLIENTS = 2
  MAX_TASKS = 2
  MaxLines = 4
INVARIANTS TypeOK TableIsMeaning StaysInTable ListensForTask
CHECK_DEADLOCK FALSE
