CONSTANTS
  Touches = {"open", "dns"}
  Paths = {"plain", "noise"}
  Images = {"shell", "other"}
  MaxPid = 3
  MaxEvents = 2
SPECIFICATION Spec
INVARIANTS NothingHidden TrueParent ShellShown
