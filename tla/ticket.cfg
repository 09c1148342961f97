SPECIFICATION Spec
CONSTANTS
  Threads = {t1, t2}
  Certs = {"c1", "c2"}
  CaStore = {"c2"}
  Thumbprints <- MCThumbprints
  ApiVersions <- MCApiVersions
  InitialDevices <- MCDevices
  MaxDeltas = 1
  Hosts = {"h1", "h2"}
  Requests <- MCRequests
SYMMETRY Symmetry
INVARIANTS
  TypeOK
  RegistrationSound
  LoginAsAsked
  KeyJustified
