\* Two concurrent handlers, failing statements, UNIQUE(email) in the schema.
CONSTANTS
    e1 = e1
    p1 = p1
    p2 = p2
    i1 = i1
    i2 = i2
    h1 = h1
    h2 = h2
    Emails <- MCEmails
    Pwds <- MCPwds
    Ids <- MCIds
    Handlers <- TwoHandlers
    DBFaults = TRUE
    EmailUnique = TRUE
SPECIFICATION Spec
INVARIANT TypeOK
INVARIANT NoFalseLoginRejection
INVARIANT PassedIdentityIsIssued
