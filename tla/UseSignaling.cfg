\* useSignaling with two changes of its callbacks, in and out of strict mode.
CONSTANT MaxChanges = 2
SPECIFICATION FairSpec
INVARIANTS TypeOK OneSocket LossNoticed
PROPERTIES CurrentUsed OwnIdLearned HookSettles
CHECK_DEADLOCK FALSE
