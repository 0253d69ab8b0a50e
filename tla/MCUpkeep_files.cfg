\* Two comparisons and three promotions, or one fleet.
SPECIFICATION UpkeepSpec
CONSTANTS
 Configs <- MCConfigs
 Changes <- MCChanges
 Flags = {40}
 MaxCompares = 2
 MaxPromotions = 3
 Requests <- MCRequests
 Fleets <- MCFleets
 None = None
 Unset = Unset
INVARIANTS TightenedOncePerReceipt PolicyIsMonotone
PROPERTY LoosensOnlyUnread
\* The commands end.
CHECK_DEADLOCK FALSE
