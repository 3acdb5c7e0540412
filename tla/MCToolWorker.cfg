CONSTANTS
  main = main
  task = task
  c1 = c1
  c2 = c2
  c3 = c3
  f = f
  g = g
  None = None
  Event = Event
  Instances <- MCInstances
  Background <- MCBackground
  Calls = {c1, c2}
  Names = {f}
  NameOf <- MCNameOf2
  MaxConns = 2
  MaxWire = 1
  MaxEvents = 1
SPECIFICATION Spec
INVARIANTS Accounted
PROPERTIES NeverRedispatched Implements
