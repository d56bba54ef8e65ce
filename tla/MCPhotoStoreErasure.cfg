\* The note above forget_media, taken at its word.
SPECIFICATION Spec
CONSTANTS
    Photos = {p1}
    Workers = {w1}
    LastPut = 0
    ReconcileAge = 1
    MaxJobs = 1
INVARIANT
    NoObjectOutlivesRow
