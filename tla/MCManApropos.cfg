CONSTANTS
    Cmds = {"ls"}
    NSec = 2
    Dirs = {1, 2}
    Words = {"NAME", "DESCRIPTION", "SYNOPSIS"}
    Texts <- MCTexts
    Keywords <- MCKeywords
    SecArgs <- MCSecArgs
    MaxLines = 2
SPECIFICATION Spec
INVARIANT AproposListsDescribedPages
