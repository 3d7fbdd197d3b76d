SPECIFICATION FairSpec
CONSTANTS
    Words = 3
    Programs <- Mixed
    DeniedSets <- NoneOrLast
    ErrWords = {1}
    GrantAtOnce = TRUE
    RedirectAnyTime = FALSE
    NoPc = NoPc
INVARIANT RightInsn
INVARIANT RightBlame
INVARIANT FifosRight
PROPERTY Resumes
