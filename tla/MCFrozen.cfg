SPECIFICATION Spec
CONSTANTS
  f1 = f1
  f2 = f2
  f3 = f3
  f4 = f4
  v1 = v1
  v2 = v2
  crlf = crlf
  link = link
  gbk = gbk
  repository = repository
  r1 = r1
  r2 = r2
  NoFile = NoFile
  NoTree = NoTree
  Files = {f1, f2, f3, f4}
  Contents = {v1, v2, crlf, link, gbk, repository}
  Holds <- MCHolds
  Links = {link}
  Repositories = {repository}
  Clean <- MCClean
  CheckOut <- MCCheckOut
  Follow <- MCFollow
  Lossy <- MCLossy
  Base <- MCBase
  Ignored <- MCIgnored
  Quoted = {f2}
  Allowed = {f1, f3}
  Renames <- MCRenames
  Steps = 2
  Required = {1}
  Appliers = {r1, r2}
  Directories <- MCDirectories
  MaxCrashes = 2
SYMMETRY Interchangeable
INVARIANT TypeOK
INVARIANT FrozenIsVerified
INVARIANT DeliversTheFrozen
INVARIANT ScopeKept
PROPERTY FreezeIsFinal
PROPERTY LeftoversAreScrubbed
PROPERTY AppliedIsWhole
