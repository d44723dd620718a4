SPECIFICATION SubmissionSpec
CONSTANTS
    MaxPresses = 2
    MaxEdits = 1
    MaxVersion = 2
    NoId = NoId
INVARIANT SelectedVersionsChecked
CHECK_DEADLOCK FALSE
