SPECIFICATION FairSpec
CONSTANTS
  DNs = {d1}
  Secrets = {s1, s2}
  MaxLines = 1
  Deletes = TRUE
  Spreads = {FALSE, TRUE}
INVARIANTS CredentialRegistered 
PROPERTY CredentialTried
