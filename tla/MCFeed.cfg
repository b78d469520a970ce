\* Main and the heartbeat, two stream clients and one client of /modules, none of
\* which need read.
CONSTANTS
  Main = Main
  C1 = C1
  C2 = C2
  Q = Q
  Heart = Heart
  Runs = {}
  Clients = {C1, C2}
  Requests = {Q}
  Capacity = 1
  MaxChanges = 4
  MaxEvents = 2
SPECIFICATION FairSpec
INVARIANTS
  TypeOK
  ToldOfEveryChange
  ClientsAgreeOnOrder
PROPERTIES
  EmittersProceed
