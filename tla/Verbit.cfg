CONSTANT Dumps <- MCDumps
SPECIFICATION Spec
INVARIANT TypeOK
INVARIANT AssociationsUnique
CHECK_DEADLOCK FALSE
