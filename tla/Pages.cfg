SPECIFICATION PagesSpec
CONSTANTS
  None = None
  Types = {"job_queued", "job_success"}
  PageSize = 1
  Groups = {"group"}
  MaxActs = 3
  Presets <- MCPresets
  First <- MCFirst
  Others = {"conc"}
  Overtakes = FALSE
  MaxWork = 3
INVARIANT MarksAreTrue
PROPERTY CatchesUp
PROPERTY BoardSettles
PROPERTY NotificationsSettle
PROPERTY UntouchedStays
PROPERTY DoctorComesBack
PROPERTY SetupCompletes
CHECK_DEADLOCK FALSE
