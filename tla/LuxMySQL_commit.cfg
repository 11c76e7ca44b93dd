\* One application statement, a two-entry params_in_, one libmysql failure.
CONSTANTS
    Stmts = {s1}
    s1 = s1
    Tmp = Tmp
    MaxParams = 2
    Faults = 1
SPECIFICATION Spec
INVARIANT NoNullHandle
