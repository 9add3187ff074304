CONSTANTS
  m1 = m1
  m2 = m2
  i1 = i1
  r1 = r1
  u1 = u1
  None = None
  Managers <- TwoManagers
  Installers <- OneInstaller
  Recoverers <- Nobody
  Uninstallers <- OneUninstaller
  Casts <- ManagersOrUninstaller
  Mortal <- OneInstaller
  Retries = 3
SPECIFICATION LiveSpec
PROPERTIES
  StaleLockTaken
CHECK_DEADLOCK FALSE
