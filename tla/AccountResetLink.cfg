\* The bounds are those of BrowserPages; the page may stop.
SPECIFICATION Spec
CONSTANTS
  None = None
  Users <- MCUsers
  Mask <- MCMask
  Passwords <- MCPasswords
  FirstPassword = "p"
  Bounds <- MCBounds
PROPERTY ResetLinkOpensForm
CHECK_DEADLOCK FALSE
