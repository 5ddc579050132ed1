SPECIFICATION SettingSpec
CONSTANTS
  Threads = {t1, t2}
  Backends = {"cpu", "cuda"}
  MaxVersion = 2
  Units = 2
  Components = {{"lm", "dit", "vae"}, {"lm"}, {"dit"}}
  ReplaceDuringLoad = FALSE
  First = t1
INVARIANTS
  SubstitutionIsNoticed
  ResidentIsWhole
  OutputMatchesStatus
