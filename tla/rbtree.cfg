SPECIFICATION Spec
CONSTANTS
  Key = {1, 2, 3, 4, 5, 6, 7, 8, 9, 10}
  Nil = 0
  Less <- Below
INVARIANTS TypeOK RedBlack Search Iteration
