SPECIFICATION Spec
INVARIANT DoctorClears
CHECK_DEADLOCK FALSE
