CONSTANTS
  Procs = {p1, p2}
  Invocations <- MCInvocations
  Root = FALSE
  Busy <- MCBusy
  Ephemeral <- MCEphemeral
SPECIFICATION Spec
INVARIANT
  SuccessReportsBoundPort
