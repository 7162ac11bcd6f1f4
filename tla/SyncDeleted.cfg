\* Does a pull remove what is gone from the server?
CONSTANTS
  Articles = {a1}
  Devices = {d1, d2}
  MaxWrites <- OneWriter
SPECIFICATION Spec
PROPERTY PullReconciles
