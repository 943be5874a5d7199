SPECIFICATION FairSpec
CONSTANTS
    MaxHeight = 2
    GenerateCount = 1
INVARIANTS
    QuietAfterLastSave

    
