SPECIFICATION Spec
CONSTANTS
  Macros = {m1, m2, m3}
  Categories = {k1, k2, k3, k4}
  Texts = {"Other", "A", "B"}
  Other = "Other"
  Nothing = Nothing
  Devices <- MCDevices
  Channels <- MCChannels
  Sizes <- MCSizes
  Rates <- MCRates
  InitialSettings <- MCInitialSettings
  Unknown = Unknown
  Values = {x, y}
  Managers = 2
  AudioDevices = 2
  MaxDays = 2
  MaxSteps = 8
SYMMETRY MCSymmetry
INVARIANTS EditsAreOffered MacrosAgree SizeAndRateShown
PROPERTIES FileReadsBack LookingKeepsSettings
CHECK_DEADLOCK FALSE
