SPECIFICATION Spec
CONSTANT NULL = NULL
INVARIANTS TransportSound AttributesSound  
CHECK_DEADLOCK FALSE
