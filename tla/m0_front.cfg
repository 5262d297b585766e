CONSTANTS
    NoUser = NoUser
    SudoUsers <- MCSudoUsers
    Passwd <- MCPasswd
    Argvs <- FrontArgvs
    Absolute <- MCAbsolute
    Fields <- MCFields
    UserFiles <- MCUserFiles
    Executable <- MCExecutable
    ElfKind <- MCElfKind
SPECIFICATION FairSpec
INVARIANT TypeOK
INVARIANT FilesOpenedAsUser
INVARIANT RunsFirstOperand
PROPERTY Terminates
