\* Two nodes with static tokens, two operators, two failed saves, two crashes.
CONSTANTS
    n1 = n1
    n2 = n2
    s1 = s1
    s2 = s2
    s3 = s3
    Nodes = {n1, n2}
    Secrets = {s1, s2, s3, s4, s5, s6, s7}
    NoNode = NoNode
    NoSecret = NoSecret
    FileTokens <- MCFileTokens
    InlineTokens <- MCInlineTokens
    Handlers = {h1, h2}
    MaxCrashes = 2
    MaxFailures = 2
SPECIFICATION Spec
INVARIANTS TypeOK EnforcedIsInForce RefusedStayOut
PROPERTIES ImplementsBook
