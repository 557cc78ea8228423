SPECIFICATION Spec
CONSTANTS
    ann = ann
    bob = bob
    sword = sword
    Character <- Two
    Unreliable <- OnlyAnn
    Item <- OneItem
    StartGold = 0
    StartOwner <- AnnsItems
    MaxGold = 1
    MaxQueue = 3
INVARIANTS NoDuplicate
