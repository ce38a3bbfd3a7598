CONSTANT MaxTime = 5
SPECIFICATION FairSpec
INVARIANT NoSilentGap
PROPERTY PublicationResumes
