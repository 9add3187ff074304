CONSTANTS
  m1 = m1
  m2 = m2
  i1 = i1
  r1 = r1
  u1 = u1
  None = None
  Managers <- Nobody
  Installers <- OneInstaller
  Recoverers <- Nobody
  Uninstallers <- OneUninstaller
  Casts <- Everybody
  Mortal <- Nobody
  Retries = 2
SPECIFICATION Spec
INVARIANTS
  MutualExclusion
CHECK_DEADLOCK FALSE
