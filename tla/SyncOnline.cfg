\* One device with two writes in its outbox: what does the server get to see, and
\* does the device show what the server has?
CONSTANTS
  Articles = {a1}
  Devices = {d1}
  MaxWrites <- TwoEach
SPECIFICATION OnlineSpec
INVARIANTS NothingLost BuriedStaysBuried
PROPERTIES WritesInOrder LibrariesConverge
