SPECIFICATION Spec
CONSTANTS
  Lines <- ConfigLines
  MaxLines = 3
  Exported <- Variables
INVARIANTS
  TypeOK
  Precedence
  RunsUsably
CHECK_DEADLOCK FALSE
