SPECIFICATION Spec
CONSTANTS
  VUs = {v1, v2, v3, v4}
  Configs = {k1, k2}
  Nobody = Nobody
INVARIANTS TypeOK InUseIsAlive OneWorkerPerConfig
PROPERTY SharesOneClient
