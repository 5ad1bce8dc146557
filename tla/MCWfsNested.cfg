\* Nested directories: does the log scan resolve paths like a tree walk?
CONSTANTS
    a = a
    b = b
    B = B
    Names <- MCNames
    Bytes <- MCBytes
    WriteOffsets <- MCWriteOffsets
    WriteBufs <- MCWriteBufs
    Zero = Zero
    NoName = NoName
    NoFile = NoFile
    SB = 1
    LE = 2
    DE = 1
    SizeMod = 64
    DiskSize = 14
    MaxDepth = 2
    MaxInodeBound = 3
SPECIFICATION MountSpec
INVARIANT ResolveFollowsTree
