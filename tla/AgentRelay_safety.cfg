SPECIFICATION RelaySpec
CONSTANTS
  Tunnels = {t1, t2}
  Gateways = {g1}
  Workers = {w1, w2}
  WorkerGateway <- OneGateway
SYMMETRY MCSymmetry
INVARIANTS SingleLogWriter FinalLogStands NoResidue NoLostWakeup HandshakeOrder
