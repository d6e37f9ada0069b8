SPECIFICATION FairOne
CONSTANTS
  Parts = {"power", "monitors"}
  IDLE_REDUCED_MS = 2
  IDLE_LIGHT_SLEEP_MS = 4
  IDLE_DEEP_SLEEP_MS = 8
  RECONNECT_WINDOW_MS = 3
  Wrap = 13
  MaxPause = 2
  MAX_MONITORS = 2
  Levels = {0, 1, 2}
  Devices = {d1}
  Sensors = {s1}
  Requests <- AllRequests
  Ids = {0, 1, 2}
  MonitorWrap = 6
  None = None
PROPERTIES DeepSleepEarned NoSleepOnRide DownwardOnIdle PowerFollows MonitorsAct
