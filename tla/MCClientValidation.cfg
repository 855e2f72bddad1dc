CONSTANTS
    Forms <- MCForms
    Texts <- MCTexts
SPECIFICATION Spec
INVARIANTS
    VerdictsAreShown
    ResetForgets
    RulesMeanTheMarkup
    OnlyBlanksAreRefused
CHECK_DEADLOCK FALSE
