\* One resource whose views match several rows.
CONSTANTS
    Served = {"seasons"}
    MaxFilters = 1
SPECIFICATION Spec
PROPERTY ViewExact
