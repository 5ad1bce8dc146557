\* Flat namespace (files and directories under "/"), mount server and fsck.
CONSTANTS
    a = a
    b = b
    B = B
    Names <- MCNames
    Bytes <- MCBytes
    WriteOffsets <- MCWriteOffsets
    WriteBufs <- MCWriteBufs
    Zero = Zero
    NoName = NoName
    NoFile = NoFile
    SB = 1
    LE = 2
    DE = 1
    SizeMod = 64
    DiskSize = 14
    MaxDepth = 1
    MaxInodeBound = 3
SPECIFICATION Spec
INVARIANT TypeOK
INVARIANT ResolveFollowsTree
INVARIANT HeadWithinDisk
PROPERTY CompactionPreservesView
