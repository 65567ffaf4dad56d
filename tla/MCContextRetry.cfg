CONSTANTS
    CtxProcs = {p1, p2}
    Init0 = p1
    Regs = {rax, rdi}
    Rax = rax
    Val = {v1, v2}
    Sites <- MCSites
SPECIFICATION CtxSpec
PROPERTY RetriesItsCall
