CONSTANTS
    a1 = a1
    a2 = a2
    a3 = a3
    Artifacts <- MCArtifacts
    SizeOf <- MCSizeOf
    Writers = {w1, w2}
    Readers = {r1}
    Temporaries = {t1, t2, t3}
    MaxBytes = 2
    MaxWriterBytes = 2
    NoName = NoName
SYMMETRY Symmetry
SPECIFICATION Spec
INVARIANTS
    TypeOK TempsAccountedFor StoredIsComplete StoredWithinQuota
    KnownArtifactFits RefusalIsJustified
