\* Two processes over one database, two outside failures, any number of kills; two
\* threads that serve a file.
CONSTANTS
    Backend = {b1, b2}
    MaxFaults = 2
    Workers = {t1, t2}
    NoResult = NoResult
SPECIFICATION SomeSpec
SYMMETRY Symmetry
INVARIANTS LaunchComplete ReadsWhatIsWritten FilesAsOnDisk
PROPERTY CacheOnlyGrows
