SPECIFICATION Spec
CONSTANTS
    Authors = {a1, a2}
    Null = Null
    Drafts <- MCDrafts
    Edits <- MCEdits
    TestLists <- MCTestLists
    MaxVersion = 4
SYMMETRY Symmetry
CHECK_DEADLOCK FALSE
INVARIANTS DefinitionSound
PROPERTIES NoLostEdit
