SPECIFICATION Spec
CONSTANTS
    codex = codex
    claude = claude
    gemini = gemini
    Null = Null
    Configs <- PanelConfigs
    PromoEnvs = {"promo"}
    LastResort <- Order
    Retrying = {codex}
    Tty = {}
    Backoff <- Schedule
    Reprobe = 1
    StaleAfter = 2
    Reset = {2}
INVARIANTS NobodyLeftToAsk
PROPERTIES StrikesAreFair VerdictIsGrounded
