SPECIFICATION Spec
CONSTANTS
  Build = {"A", "B"}
  Name <- MCName
  Func = {1, 2}
  Mod = {"exe", "dll"}
  ModOf <- MCModOf
  Automatic = {3}
  Place <- MCPlace
  Signing <- MCSigning
  Found <- MCFound
  MaxUser = 1
  NoFile = NoFile
  NoBuild = NoBuild
INVARIANTS
  NamesKept
  FreshBuildInherits
