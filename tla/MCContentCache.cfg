CONSTANTS
    pal = pal
    us = us
    Targets = {pal, us}
    NoTarget = none
    Importers = {i1, i2}
    Media <- MCMedia
    Payloads <- MCPayloads
    MaxLosses = 1

SPECIFICATION Spec

SYMMETRY Symmetry

INVARIANTS
    PublishedIsComplete
    ReimportRepairs
    OpenedStaysWhole
