SPECIFICATION Spec
CONSTANTS
  Managers = {"machine_vars", "high_scores"}
  Live = {"high_scores"}
  MaxVersions = 2
  MaxFailures = 1
  MaxRestarts = 1
PROPERTIES FilesGoForward SavesGetWritten
CHECK_DEADLOCK FALSE
