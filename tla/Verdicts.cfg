CONSTANTS
  Tools = {t1, t2}
  Risky = {t1}
  Caps = {"SHELL_EXEC", "FS_READ"}
  Flags = {"W3", "W5", "W6"}
  Forms = {"suffix", "base64", "fragment"}
  Named = {"W1", "W3", "W9"}
  MaxItems = 2
  Selected = {{"W5", "W6", "W9", "W10"}}
SPECIFICATION Spec
INVARIANTS Accounted Consistent LeaksReported
