SPECIFICATION EvalSpec
CONSTANTS
    bug = bug
    refund = refund
    typo = typo
    None = None
    Fields = {"intent", "priority"}
    Labels = {bug, refund}
    GoldLabels = {bug, refund, typo}
    Datasets <- MCDatasets
    Predictions <- MCPredictions
    Limits <- MCLimits
    RegressionThreshold = 3400
    Threshold = 2
CONSTRAINT MCFlagsThatMatter
INVARIANTS
    GateInv
    CleanExitHoldsTheLine
    RerunPasses
    VerdictComparesOneDataset
    RefusalsFollowAnOutage
    PerfectTogether
