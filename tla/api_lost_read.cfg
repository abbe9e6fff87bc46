CONSTANTS
  n1 = n1
  n2 = n2
  Nobody = Nobody
  Servers = {api1}
  Threads = {t1, t2}
  NumConns = 1
  Nicknames = {n1, n2}
  Ids = {id1, id2}
  Requests <- UsualRequests
  Limit = 2
  MaxRestarts = 0
SPECIFICATION Spec
INVARIANTS
  CreatedIsFound
