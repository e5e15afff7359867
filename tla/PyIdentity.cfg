\* Two threads collect identities from every kind of token source while it changes.
SPECIFICATION Spec
CONSTANTS
    Threads = {t1, t2}
    MaxCalls = 2
    MaxVersion = 2
    Details <- SomeDetails
    Collectable <- SomeClients
    Clients <- AllClients
    Namespace = "github"
    TokenField = "identityToken"
    Accepts <- IsClean
    Merged <- MergeClientWorkloadDetails
    NodesOf <- TreeNodes
    Depth <- TreeDepth
    Nothing = Nothing
    TextKeys <- Keys
    OddKeys <- OddKeySet
INVARIANTS
    TypeOK
    AnsweredByItsTime
    ProofSurvivesDetails
    MergeIsByLeaves
