\* Two photographs in every interleaving with one worker, one reconciliation,
\* one erasure run and one orphan sweep.
SPECIFICATION Spec
CONSTANTS
    Photos = {p1, p2}
    Workers = {w1}
    LastPut = 0
    ReconcileAge = 1
    MaxJobs = 1
SYMMETRY PhotoSymmetry
INVARIANTS
    TypeOK
    SettledRowsAreTrue
    ErasureRemovesPhotograph
    SweepSparesPhotographs
    ThumbnailBacked
PROPERTY
    KeepsPromise
