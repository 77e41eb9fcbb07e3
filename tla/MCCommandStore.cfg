SPECIFICATION StoreSpec
CONSTANTS
    FormValues = {"land", "rtl", ""}
    Times = {1, 2, 3}
    Headers <- MCHeaders
    MaxIssued = 3
PROPERTY
    NeverOfferedAgain
