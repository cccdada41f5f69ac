CONSTANTS
    a1 = a1
    a2 = a2
    a3 = a3
    Artifacts <- MCArtifacts
    SizeOf <- MCSizeOf
    Writers = {w1}
    Readers = {r1}
    Temporaries = {t1, t2, t3}
    MaxBytes = 2
    MaxWriterBytes = 2
    NoName = NoName
SPECIFICATION Spec
INVARIANT RetainedWithinQuota
