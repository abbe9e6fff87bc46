CONSTANTS
  n1 = n1
  n2 = n2
  Nobody = Nobody
  Servers = {api1, api2}
  Threads = {t1}
  NumConns = 1
  Nicknames = {n1, n2}
  Ids = {id1, id2, id3}
  Requests <- UsualRequests
  Limit = 2
  MaxRestarts = 0
SPECIFICATION FairSpec
INVARIANTS
  CreatedIsFound
  SearchCovers
  NoFault
PROPERTIES
  RequestsAnswered
