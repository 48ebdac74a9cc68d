SPECIFICATION Spec
CONSTANTS
    Ports = {"plain", "secure", "sv2"}
    KindOf <- KindOfPort
    Conns = {c1, c2}
    Starters = {service}
    Limit = 1
    HealthyChecks = 2
    MaxLoads = 3
    MaxConnects = 2
INVARIANTS
    PauseInv
    ClientGoesOnce
    CertificateVerifies
PROPERTIES
    AcceptsAgain
