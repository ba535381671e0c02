SPECIFICATION Spec
CONSTANTS
    Calls <- MCCalls
    Damage <- MCDamage
    DamagedBytes <- Byte
INVARIANTS
    RoundTrip
    DecodersAgree
    DamageDetected
    ArmFlagReadable
CHECK_DEADLOCK FALSE
