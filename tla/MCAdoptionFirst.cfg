SPECIFICATION Spec
CONSTANTS
    d1 = d1
    d2 = d2
    p1 = p1
    p2 = p2
    c1 = c1
    c2 = c2
    Calls = {c1, c2}
    Drafts = {d1, d2}
    MaxCalls = 1
    Listed = {}
    Paths = {p1, p2}
    ToolPaths = {p1, p2}
    EnvOf <- EnvOfDraft
    Main = Main
    Attrs = Attrs
    Operator = Operator
    Clear = Clear
    Cipher = Cipher
INVARIANTS EnvIsEncrypted
