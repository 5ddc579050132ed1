SPECIFICATION Spec
CONSTANTS
  Threads = {t1}
  Backends = {"cpu", "cuda"}
  MaxVersion = 2
  Units = 2
  Components = {{"lm", "dit", "vae"}}
  ReplaceDuringLoad = TRUE
INVARIANT SubstitutionFailsLoudly
