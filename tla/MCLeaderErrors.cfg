CONSTANTS
    None = None
    MaxVersion <- MC_MaxVersion
SPECIFICATION Spec
INVARIANT HandlerErrorsAreRetried
