\* A buffer of two bytes against lines of up to four, and a socket that holds
\* one answer, so that a second is lost or cut unless the client has read.
SPECIFICATION FairSpec
CONSTANTS
    Segments <- MCSegments
    MaxBytes = 5
    Limit = 2
    AnswerLen = 2
    SendBuffer = 2
INVARIANTS RequestsAreLines OnlyHastyClientsHarm PatientIsServed
PROPERTIES BytesAreTaken
\* A connection ends.
CHECK_DEADLOCK FALSE
