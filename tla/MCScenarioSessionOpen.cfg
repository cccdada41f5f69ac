SPECIFICATION Spec
CONSTANTS
    Presets <- MCPresets
    RealSystems <- MCRealSystems
    Fragile <- MCFragile
    Views <- MCViews
    Documents <- MCDocuments
PROPERTIES
    ResponsesStay
