SPECIFICATION Spec
CONSTANTS
    ann = ann
    bob = bob
    sword = sword
    Character <- Two
    Unreliable <- OnlyAnn
    Item <- OneItem
    StartGold = 0
    StartOwner <- AnnsItems
    MaxGold = 1
    MaxQueue = 2
PROPERTIES LoginAsLeft
