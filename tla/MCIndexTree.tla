---------------------------- MODULE MCIndexTree ----------------------------
EXTENDS IndexTree, TLC
CONSTANTS a, b
ChangesOfDrivers == [cdx |-> <<4, 5>>, ntx |-> <<5>>, adi |-> <<5>>]
KeysOfDrivers == [cdx |-> <<{1, 3, 4, 7}, {1, 3, 4, 5, 7}>>, ntx |-> <<1..4>>, adi |-> <<1..4>>]
ManyChanges == [cdx |-> <<5>>, ntx |-> <<7>>, adi |-> <<7>>]
ManyRows == [cdx |-> <<4>>, ntx |-> <<7>>, adi |-> <<7>>]
ManyKeys == [cdx |-> <<1..8>>, ntx |-> <<1..7>>, adi |-> <<1..7>>]
ProbesOfDrivers == [cdx |-> {3, 7}, ntx |-> {2, 4}, adi |-> {2, 4}]
RowsOfDrivers == [cdx |-> <<3, 4>>, ntx |-> <<4>>, adi |-> <<4>>]
FilesOfOneOrTwoTags == {{a}, {a, b}}
FilesOfOneTag == {{a}}
FilesOfTwoTags == {{a, b}}
===========================================================================
