SPECIFICATION ElementsSpec
CONSTANTS
  MaxAdds = 2
  MaxNews = 2
  MaxJobs = 5
  Notices = {n1, n2}
  MaxEnters = 1
  MaxBackdrops = 4
INVARIANTS QueueDriven ClosedOnce SettledDialog
PROPERTIES PromiseSpec JobsEnd NoticesLeave
CHECK_DEADLOCK FALSE
