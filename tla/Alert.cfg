\* A critical and a medium alert of one group.  A repeat, a stale entry and a
\* cleanup fall within the horizon, and both alerts repeat within RateWindow, so
\* that the limit matters.
SPECIFICATION Spec
CONSTANTS
    a1 = a1
    a2 = a2
    None = None
    Alerts <- MCAlerts
    Severity <- MCSeverity
    GroupKey <- MCGroupKey
    KakaoEnabled = TRUE
    EventBridgeEnabled = TRUE
    GroupWait = 1
    RateWindow = 3
    MaxPerMinute = 1
    CleanupInterval = 1
    RepeatInterval = 2
    Horizon = 6
CONSTRAINT WithinHorizon
INVARIANTS
    RateBounded
    FirstNoticeIsPrompt
    EveryAlertIsRoutedOnce
PROPERTIES
    RepeatsAreSpaced
    StoreForgets
