SPECIFICATION Spec
CONSTANTS
  MaxAttempts = 3
  BigLogs = {"scale_log", "top3_log"}
CHECK_DEADLOCK FALSE
INVARIANTS TypeOK Certified ReportIsTrue SkippedIsWarned ListedIsOnDisk
PROPERTIES DoneIsFinal
