CONSTANTS
    Names <- MCNames
    Configs <- MCConfigs
    MaxReloads = 2
SPECIFICATION Spec
INVARIANTS OneTaskPerPeer GaugeExact Reconciliation
PROPERTIES UnchangedPeersUndisturbed ReloadApplied ManagerReturns
