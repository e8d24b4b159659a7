SPECIFICATION Spec
CONSTANTS
  anonymous = anonymous  bob = bob  t1 = t1  t2 = t2  w1 = w1
  Users <- TwoUsers
  Anonymous <- anonymous
  NoUser = NoUser
  CertUsers <- OnlyBob
  AuthTasks <- TwoTasks
  Workers <- OneWorker
  Configs <- Servers
  Requests <- Clients
  MaxBuffered = 1
INVARIANTS TypeOK LoginEncrypted NothingInjected WorkersConfined PresenceTruthful
PROPERTIES KeepsPromise
SYMMETRY Symmetry
