CONSTANT Programs <- Behind
CONSTANT Stmts <- MCStmts
CONSTANT Closes <- MCCloses
SPECIFICATION Spec
CHECK_DEADLOCK FALSE
INVARIANTS Agree
