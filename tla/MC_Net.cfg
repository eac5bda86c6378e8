CONSTANTS
  Addrs <- MCAddrs
  LastOctet <- MCLastOctet
  OtherIPs = {"192.0.2.7"}
  HostIPs = {"127.0.0.1", "10.0.0.5", "192.0.2.7"}
  Names = {"localhost", "example.org", "multi", "nosuch"}
  Resolve <- MCResolve
  NoHost = NoHost
  Ports = {"9000", "80"}
  Schemes = {"http", "https", "ftp"}
SPECIFICATION Spec
INVARIANTS
  SortedByPreference
  LessIsStrictWeakOrder
  SameLocalAddrsAgrees
CHECK_DEADLOCK FALSE
