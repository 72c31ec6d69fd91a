\* The assertion of picker.Pick alone, on the nodes of MCGrpc.cfg.
SPECIFICATION WrrSpec
CONSTANTS
  n1 = n1
  n2 = n2
  n3 = n3
  n4 = n4
  Nodes = {n1, n2, n3, n4}
  Weight <- MCWeight
INVARIANTS PickedIsWrapped
