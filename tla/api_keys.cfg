SPECIFICATION Spec
CONSTANTS
  None = None
  alice = alice
  bob = bob
  carol = carol
  ka = ka
  kb = kb
  kc = kc
  User = {alice, bob, carol}
  Key = {ka, kb, kc}
  Request = {r1, r2}
  MaxTasks = 1
  MaxCommits = 2
  Operations <- MCOperations
  Prefix <- MCPrefix
  FirstUsers <- MCFirstUsers
  FirstKeys <- MCFirstKeys
INVARIANTS
  TypeOK
  Admitted
  RefusedRightly
PROPERTIES
  InForce
  DeletedWithKeys
  RevokedForGood
SYMMETRY Requests
