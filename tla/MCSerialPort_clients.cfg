CONSTANTS
  t1 = t1
  t2 = t2
  Threads = {t1, t2}
  Clients <- MCClients
  Requests <- MCRequests
  Signals = {"Dtr", "Rts", "Cts", "NoneSignal"}
  MaxIn = 2
  MaxIntr = 2
SPECIFICATION Spec
INVARIANTS TypeOK SignalKept FrameKept
PROPERTY PollEnds
