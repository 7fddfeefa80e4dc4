CONSTANT MaxEvents = 4
SPECIFICATION Spec
INVARIANTS WellFormed LogTellsEnd StoredBeforeCompleted
PROPERTIES BegunEnds
CHECK_DEADLOCK FALSE
