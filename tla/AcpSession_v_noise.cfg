SPECIFICATION Spec
PROPERTY NoiseIsIgnored
CHECK_DEADLOCK FALSE
