SPECIFICATION FairSpec
CONSTANTS
  Script <- Text
  Offers = {"ECHO"}
  Asked = {"TERMTYP", "LINEMODE"}
  Agrees = {"ECHO", "NAWS"}
  Modes = {"EDIT", "TRAPSIG"}
  lineAllow = TRUE
  Queries <- TermType
  Secured = {}
  username = FALSE
  MaxBlock = 3
  MaxParsedat = 3
  MaxBegun = 3
CHECK_DEADLOCK FALSE
INVARIANT TypeOK
INVARIANT Agreed
INVARIANT TextShown
PROPERTY Settles
