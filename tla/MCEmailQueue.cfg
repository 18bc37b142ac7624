SPECIFICATION MailSpec
CONSTANTS
    Records = {r1}
    Workers = {w1, w2}
    Accounts = {smtp1, smtp2}
    Anonymous = {smtp2}
    MaxAttempts = 3
    MaxRevision = 4
    MaxCrashes = 1
    NoPassword = NoPassword
    NoNote = NoNote
    NoJob = NoJob
INVARIANTS
    NoneWhileDisabled
    OneDelivery
    PasswordOfAccount
PROPERTIES
    NotificationsEnd
