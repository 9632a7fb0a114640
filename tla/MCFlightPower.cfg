SPECIFICATION FlightSpec
CONSTANTS
    Remote <- MCRemote
    Configured <- MCConfigured
    Sessions <- MCSessions
    Together <- MCTogether
    LabJackFails = TRUE
INVARIANTS IInv FlagsTellPower ExitSwitchesOff SagFlagsTellPower SagExitSwitchesOff
PROPERTIES SagSpec JoinReturns BothExitsEnd
