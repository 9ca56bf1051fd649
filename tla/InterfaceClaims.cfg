SPECIFICATION Spec
CONSTANTS
  NumIfs = 4
  Lead <- Shape
  EpIf <- Endpoints
  Setups <- Packets
  Attempts = 3
  Keep = {TRUE, FALSE}
  Events = {"oldKernel", "grab", "refused", "flaky", "unplug", "stall"}
INVARIANTS DriversRestored ClaimsMatchKernel KernelInStep
