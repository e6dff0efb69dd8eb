SPECIFICATION KeySpec
CONSTANT KeyProjects = {"x"}
INVARIANT CloseFollowsTheUser
CHECK_DEADLOCK FALSE
