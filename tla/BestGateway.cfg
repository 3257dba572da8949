SPECIFICATION Spec
CONSTANTS
    Gateways = {1, 2, 3}
    Lsnr <- MCLsnr
    NoMeta = noMeta
    Floor <- MCFloor
INVARIANTS
    ResultIsBest
