\* Liveness: one photograph, two workers, two queued jobs.
SPECIFICATION Spec
CONSTANTS
    Photos = {p1}
    Workers = {w1, w2}
    LastPut = 1
    ReconcileAge = 2
    MaxJobs = 2
PROPERTY
    PendingSettles
