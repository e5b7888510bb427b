CONSTANTS
    Instructors = {i, j}
    Students = {a}
    None = None
    MaxInvitations = 2
SPECIFICATION Spec
SYMMETRY Symmetric
CONSTRAINT Overtaken
INVARIANTS RolesAndCode
PROPERTIES AnswerStands ArchiveClosesClass
