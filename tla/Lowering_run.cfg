CONSTANT Programs <- MCPrograms
CONSTANT Stmts <- MCStmts
CONSTANT Closes <- MCCloses
SPECIFICATION FairSpec
CHECK_DEADLOCK FALSE
INVARIANTS Agree IsCode AcceptsStructured
PROPERTIES GotosArrive
