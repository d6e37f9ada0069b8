SPECIFICATION FairSpec
CONSTANTS
  horn = horn
  ignition = ignition
  engine = engine
  ignition_fb = ignition_fb
  None = None
  IODevices = {horn}
  IGNITION = ignition
  ENGINE = engine
  IGNITION_FB = ignition_fb
  Readings = {0, 5, 30}
  IGNITION_THRSH = 19
  Slots = {1, 2}
  Commands <- MCCommands
INVARIANT ExternalIsUncommanded
PROPERTIES DisabledStaysOff OnForEnds QueriesTellWire
