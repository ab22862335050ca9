SPECIFICATION Spec
CONSTANTS
    FFILE_DEFAULT_SIZE = 40
    PkgSizes = {8, 20}
    Garbage = {1, 4, 50}
    MaxFileId = 4
    MaxPkgs = 4
    MaxErrors = 1
INVARIANTS NothingStranded FilesOK
PROPERTIES IsQueue
