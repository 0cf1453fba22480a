CONSTANTS
  t1 = t1
  t2 = t2
  Threads = {t1, t2}
  Clients <- Pollers
  Requests <- MCRequests
  Signals = {"Dtr", "Rts", "Cts", "NoneSignal"}
  MaxIn = 2
  MaxIntr = 2
SPECIFICATION Spec
INVARIANT PollFailureReported
