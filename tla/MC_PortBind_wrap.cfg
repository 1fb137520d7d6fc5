CONSTANTS
  Procs = {p1}
  Invocations <- MCWrapping
  Root = FALSE
  Busy <- MCBusy
  Ephemeral <- MCEphemeral
SPECIFICATION Spec
INVARIANT SuccessReportsBoundPort
