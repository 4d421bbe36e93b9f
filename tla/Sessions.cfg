SPECIFICATION Spec
CONSTANTS
    amina = amina
    phone = phone
    laptop = laptop
    once = once
    left = left
    right = right
    spare = spare
    Users = {amina}
    Sessions = {phone, laptop}
    Challenges = {once}
    Calls = {left, right}
    BackupCodes = {spare}
    OtpTries = 2
    MfaTries = 1
    Drift <- Exact
    MaxStep = 2
    MaxTokens = 3
    MaxSecrets = 1
SYMMETRY Either
INVARIANTS
    RotationIsAChain
    PowersAreProved
    GuessesBounded
CHECK_DEADLOCK FALSE
