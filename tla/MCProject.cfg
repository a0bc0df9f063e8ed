CONSTANTS
    a = a
    b = b
    base = base
    child = child
    step = step
    e1 = e1
    e2 = e2
    e3 = e3
    s1 = s1
    image = image
    chart = chart
    unused = unused
    extracts = extracts
    steps = steps
    None = None
    RstFiles <- MCRstFiles
    YamlFiles <- MCYamlFiles
    Assets <- MCAssets
    Categories <- MCCategories
    Category <- MCCategory
    Parent <- MCParent
    Outputs <- MCOutputs
    Unparsable <- MCUnparsable
    Shows <- MCShows
    MaxEdits = 2
    MaxRequests = 2
SPECIFICATION Spec
INVARIANTS
    TypeOK
    GraphIsCurrent
    
SYMMETRY MCSymmetry
