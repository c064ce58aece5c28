SPECIFICATION FairSpec
CONSTANTS
  Robot = Robot
  Wizard = Wizard
  file1 = file1
  NoFile = NoFile
  MaxSessions = 2
  MaxReplayEvents = 2
  Characters <- MCCharacters
  Seeded <- MCSeeded
  Hellos <- MCHellos
  Documents <- MCDocuments
  Overrides <- MCOverrides
  ReplayFiles <- MCFiles
INVARIANTS
  TypeOK
  StoppedIsQuiet
  CaptureIsKept
  TracesTellTheAck
PROPERTIES
  ServesUntilServed
  SessionEndsTheDaemon
