SPECIFICATION Spec
CONSTANT None = None
PROPERTY DeadIsCollected
PROPERTY RegistryComesFree
PROPERTY RoutedIsFired
PROPERTY TriggersAreFetched
CHECK_DEADLOCK FALSE
