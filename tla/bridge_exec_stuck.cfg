SPECIFICATION ServerSpec
CONSTANTS
    Handlers = {h1, h2}
    Kinds = {"exec"}
    None = None
PROPERTY ApprovalEnds
CHECK_DEADLOCK FALSE
