SPECIFICATION Spec
CONSTANTS
    Texts <- MCTexts
    Imported <- MCImported
    MaxImports = 2
    Wrap = 64
INVARIANTS
    TokenMeant
    LocAccounts
 
