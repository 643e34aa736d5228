\* Two concurrent registrations of one e-mail without UNIQUE(email).
CONSTANTS
    e1 = e1
    p1 = p1
    p2 = p2
    i1 = i1
    i2 = i2
    h1 = h1
    h2 = h2
    Emails <- MCEmails
    Pwds <- MCPwds
    Ids <- MCIds
    Handlers <- TwoHandlers
    DBFaults = FALSE
    EmailUnique = FALSE
SPECIFICATION Spec
INVARIANT NoFalseLoginRejection
