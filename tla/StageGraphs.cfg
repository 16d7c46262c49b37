SPECIFICATION SearchSpec
CONSTANTS
  Names = {1, 2, 3}
  Unknown = {4}
  Orders = {1, 2, 3}
INVARIANTS CycleFoundIffCyclic NamesInTopologicalOrder InferredGroupsAreLinear
