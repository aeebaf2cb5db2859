SPECIFICATION Spec
CONSTANTS
    Aids = {a, b}
    None = none
    ReqDepth = 2
    RspDepth = 2
    MaxAxi = 2
PROPERTIES TargetSpec
INVARIANTS NoOverflow AnswersMatch WritesPaired
