SPECIFICATION Spec
INVARIANTS TypeOK Lives CountsTrue OursOnly QueuesTrue
PROPERTY AllEnd
CHECK_DEADLOCK FALSE
