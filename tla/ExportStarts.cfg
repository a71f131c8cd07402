SPECIFICATION MCSpec
CONSTANTS
  Paths = {"/a", "/{c:d}"}
  OtherPaths = {"b"}
  Unroutable = {"/{c:d}"}
  Files <- MCFiles
  MaxId = 1
  Urls <- MCUrls
  Pinned <- MCPinned
  Certs <- MCCerts
  Chained <- MCChained
  Rsa <- MCRsa
  CertTtl = 1
  Window = 1
  Captured = 2
  MaxTime = 4
INVARIANTS
  ExportStarts
