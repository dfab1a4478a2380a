SPECIFICATION Spec
INVARIANTS TypesOK ListsShowStored ReportedIsStored ControlsAreTrue
PROPERTY OnlyAskedChanges
CHECK_DEADLOCK FALSE
