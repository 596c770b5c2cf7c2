CONSTANT
    NumSockets <- MCNumSockets
SPECIFICATION Spec
INVARIANTS OneClient SmartConfigAlone NeedsNoPhone OnlyAnswers NothingLeaks
PROPERTY ComesOnline
