\* All five resources, every reachable table, queries of up to two pairs.
CONSTANTS
    Served = {"movies", "movieSources", "tvshows", "seasons", "episodes"}
    MaxFilters = 2
SPECIFICATION Spec
INVARIANT TypeOK
PROPERTIES WholeTable ViewCounts LookupByIdExact
