SPECIFICATION Spec
CONSTANT Sticks = {0, 127, 254}
PROPERTY OnlyRepeatsSuppressed
