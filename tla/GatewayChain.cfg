SPECIFICATION Spec
CONSTANTS
    gpt = gpt
    gemini = gemini
    llama = llama
    Reqs = {r1, r2}
    Ranking <- ThreeModels
    Configured = {gpt, gemini}
    Visual = {gemini, llama}
    Bodies <- ChainBodies
    NoModel = NoModel
    Cooldown = 1
    MaxClock = 3
INVARIANT ChainIsFollowed
CHECK_DEADLOCK FALSE
