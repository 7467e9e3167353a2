CONSTANTS
  t1 = t1  t2 = t2  p1 = p1  p2 = p2  p3 = p3  a1 = a1  a2 = a2
  Tunnels = {t1}
  Tasks = {a1}
  Streams = {p1, p2}
  TunnelOf <- OneTunnel
  maxActiveProxyConnections = 1
  maxQueuedProxyConnections = 1
  EngineOmitsId = FALSE
SPECIFICATION FairSpec
PROPERTIES CallsSettle ShutdownDrains StreamsAnswered
CHECK_DEADLOCK FALSE
