CONSTANTS
  Packs <- MCPacks
  Languages <- MCLanguages
  LanguageOf <- MCLanguageOf
  ExtraLanguages <- MCExtraLanguages
  Capabilities <- MCCapabilities
  CapabilitiesOf <- MCCapabilitiesOf
  Threads = {s, t}
  Spawner = s
  InitialMs = 1
  MaxMs = 3
  MaxTime = 2
SPECIFICATION Spec
INVARIANTS
  ReadyMeansChild
  CapabilitiesOfChildren
  CrashIsRetried
  DelayDoublesThenCaps
