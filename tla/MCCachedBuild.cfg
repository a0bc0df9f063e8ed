CONSTANTS
    index = index
    api = api
    child = child
    base = base
    steps = steps
    code = code
    image = image
    None = None
    Partial = Partial
    RstFiles <- MCRstFiles
    YamlFiles <- MCYamlFiles
    Assets <- MCAssets
    Refs <- MCRefs
    Categories <- MCCategories
    Category <- MCCategory
    Parent <- MCParent
    OnePageEach = {"steps"}
    Configs = {"c1", "c2"}
    MaxText = 2
    BadTexts = {2}
    MaxEdits = 2
    MaxBuilds = 3
SPECIFICATION Spec
INVARIANTS
    TypeOK
    ErrorsOfPagesRaised
PROPERTIES
    RstPagesAreCurrent
    YamlPagesAreCurrent
    ReusedUnlessImages
