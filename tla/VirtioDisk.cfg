CONSTANTS
  Proc = {p0, p1, p2}
  NoOne = NoOne
  NUM = 7
  IDX = 14
  Block = {k0}
  Value = {v0, v1}
  Victims = {p0}
SPECIFICATION Spec
SYMMETRY Symmetry
INVARIANTS
  DescriptorsSound
  CompletionsMatch
PROPERTIES
  ServesRequests
