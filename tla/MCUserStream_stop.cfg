SPECIFICATION Spec
CONSTANTS
  Calls = {c1}
  Sockets = {s1}
  NoSocket = NoSocket
PROPERTY StoppedStaysStopped
