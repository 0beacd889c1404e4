SPECIFICATION Spec
CONSTANTS
    Checked = {"v3", "v4", "planA", "planB", "mitmPure", "noMitm", "pureM3", "engine"}
    Conn = {c1, c2}
    Handle = {h1, h2, h3}
SYMMETRY Alike
INVARIANTS ConnectionsInv SocketsStayOurs NothingLeaks FreedInOrder
