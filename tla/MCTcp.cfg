\* A connection with data in both directions, a shadow stream that may be full and two
\* faults of the network.
SPECIFICATION FairSpec
CONSTANTS
  Client = Client
  Server = Server
  SeqMod = 60
  StreamSize = 3
  Mss = 2
  FirstSeq <- MCFirstSeq
  SeqStep = 10
  Sizes <- MCSizes
  MaxBytes <- MCMaxBytes
  MaxFaults = 2
INVARIANTS ReceivedInOrder EndMeansAll
PROPERTIES AcceptedIsWanted CloseCompletes
CHECK_DEADLOCK FALSE
