SPECIFICATION Spec
CONSTANTS
    v0 = v0
    v1 = v1
    Recipes <- MCRecipes
    Build <- MCBuild
    Worlds <- MCWorlds
    Class <- MCClass
    Where <- MCWhere
    Free <- MCFree
    Calls <- MCCalls
    Decides <- MCDecides
    Flag = "bad"
    Statements <- MCStatements
    Depth <- MCDepth
    Texts <- MCTexts
    Tests <- MCTests
    States <- MCStates
    Names <- MCNames
    Fields = {"f", "M"}
    Entries <- MCEntries
    Values = {v0, v1}
    Yes = {v1}
    Nothing = Nothing
    Coins = 2
    Rounds = 2
    Eval <- MCEval
    Holds <- MCHolds
    Write <- MCWrite
    World <- MCWorld
INVARIANTS
    TypeOK
    IdenticalUntilBad
    FlagTellsBad
    AcceptsItself
