SPECIFICATION Spec
CONSTANT
  Programs = {"forwarder"}
INVARIANTS
  ResultsTested
