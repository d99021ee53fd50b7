SPECIFICATION Spec
CONSTANTS
    Slots = {0}
    Discs = {0, 1}
    Cores <- SomeCores
    MaxPlay = 2
    MaxFaults = 1
    MaxCuts = 1
CONSTRAINT Bounded
INVARIANTS
  TornOnlyAtRisk
  FinishedSavesAreDurable
  SlotHasState
  SafeToStop
PROPERTIES
  QuicksaveResumes
