SPECIFICATION FairSpec
CONSTANTS
  Calls = {c1, c2}
  Sockets = {s1, s2}
  NoSocket = NoSocket
INVARIANTS NeverStranded KeptWhileConnected
PROPERTY StreamComesBack
