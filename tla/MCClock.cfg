SPECIFICATION ClockSpec
CONSTANTS
  Starts <- MCStarts
  Resumes <- MCResumes
  MaxChanges = 2
INVARIANTS
  ExactWhenStill
  NotBeforeCall
