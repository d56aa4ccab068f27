\* One resource with a text that a URL carries escaped.
CONSTANTS
    Served = {"movies"}
    MaxFilters = 1
SPECIFICATION Spec
PROPERTY FoundByShownValue
