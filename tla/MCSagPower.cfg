SPECIFICATION SagSpec
CONSTANTS
    Others = {}
    Sessions <- MCHeaterBox
    LabJackFails = FALSE
INVARIANT NothingLeftOn
