CONSTANTS
  m1 = m1
  m2 = m2
  i1 = i1
  r1 = r1
  u1 = u1
  None = None
  Managers <- TwoManagers
  Installers <- OneInstaller
  Recoverers <- OneRecoverer
  Uninstallers <- Nobody
  Casts <- Everybody
  Mortal <- OneInstaller
  Retries = 2
SPECIFICATION Spec
INVARIANTS
  TypeOK
  MutualExclusion
PROPERTIES
  LiveOwnerKept
CHECK_DEADLOCK FALSE
SYMMETRY SameKind
