SPECIFICATION Spec
CONSTANTS
  Kinds = {"sweep", "square", "wave", "noise"}
  MaxLength <- MCMaxLength
  MaxVolume = 2
  MaxPeriod = 2
  NoTime = 2
  Limit = 4
  StepSize = 4
  EnvelopeWrites <- MCEnvelopeWrites
  SweepWrites <- MCSweepWrites
  Frequencies = {1, 2}
  Mixes = {m1, m2}
  InitialMix = m1
  Unset = Unset
  m1 = m1
  m2 = m2
INVARIANTS
  NothingStalls
  DacIsOn
  RegistersAreSet
PROPERTY
  FallsSilent
