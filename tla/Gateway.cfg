SPECIFICATION Spec
CONSTANTS
    gpt = gpt
    gemini = gemini
    llama = llama
    Reqs = {r1, r2}
    Ranking <- ThreeModels
    Configured = {gpt, gemini}
    Visual = {gemini, llama}
    Bodies <- SomeBodies
    NoModel = NoModel
    Cooldown = 1
    MaxClock = 3
SYMMETRY Symmetry
INVARIANTS
    TypeOK
    CooldownRespected
    NoCandidateLeftOut
    ChargedOnce
CHECK_DEADLOCK FALSE
