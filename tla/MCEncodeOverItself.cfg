\* The output starts where the bytes do, as in olm_sas_calculate_mac.
CONSTANTS
    Bytes = {0, 255}
    Chars = {}
    MaxLength = 6
    Places = {"start"}
CHECK_DEADLOCK FALSE
SPECIFICATION Spec
INVARIANT EncodesItsInput
