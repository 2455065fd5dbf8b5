\* One invocation, however it is configured, with a signal, both deadlines, a
\* heartbeat and a kill at any step.
SPECIFICATION Spec
CONSTANT Launches <- Started
INVARIANTS TypeOK ExitAgreesWithReports SignalStopExits130 AuditMatchesEvents HeartbeatLosesNoProvider
PROPERTY SettingsInOrder
