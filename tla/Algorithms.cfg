SPECIFICATION Spec
CONSTANT Atom <- AnyString
INVARIANTS TextIsKept LinesReachTheirSinks SqlCarriesValues PageAndHeaders CommandsHold JsonIsKept DocumentsAreKept
