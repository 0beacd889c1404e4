SPECIFICATION Spec
CONSTANTS
    Checked = {"engine"}
    Conn = {c1}
    Handle = {h1, h2}
INVARIANT SameProtocol
