SPECIFICATION RedisSpec
CONSTANTS
  Dbs = {n0, n1}
  Keys = {k1}
  Types = {"string"}
  Tabs = {t1}
  Saves = {v1}
  NoKey = nokey
INVARIANT ListIsOfDb
CHECK_DEADLOCK FALSE
