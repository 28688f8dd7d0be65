SPECIFICATION MCSpec
CONSTANTS
    Ids = {i1, i2}
    Downloads = {d1, d2}
    Lookups = {p1}
    Cancellers = {k1}
    Contexts = {x1, x2}
    NoContext = NoContext
    catalog = catalog
    chosen = chosen
    spare = spare
    Extensions = {catalog, chosen, spare}
    Downloaders = {catalog, chosen, spare}
    Catalogs = {catalog}
    Stoppers = {chosen}
    Allowed = {catalog, spare}
    Toggled = {catalog, chosen}
    Orders <- SomeOrders
    Requests <- SomeRequests
    NoExt = NoExt
PROPERTIES PreparedComplete
\* The calls of the host and the toggles of the user may be over.
CHECK_DEADLOCK FALSE
