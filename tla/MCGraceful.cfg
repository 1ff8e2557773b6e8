\* Is a request in flight answered before the process ends?
CONSTANT Request = {r1}
SPECIFICATION Spec
INVARIANT RequestsAreDrained
CHECK_DEADLOCK FALSE
