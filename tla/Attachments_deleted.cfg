\* One local attachment, one content request, one job.
CONSTANTS
  Local = {l1}
  Remote = {}
  Image = {l1}
  Report = {}
  Answer = {}
  Put = {p1}
  MaxPuts = 1
  MaxJobs = 1
SPECIFICATION Spec
PROPERTY EventuallyDeleted
CHECK_DEADLOCK FALSE
