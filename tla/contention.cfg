\* Three nodes, any of which become unreachable together once; one reply is lost
\* or an error of the server.  The clients of two of them also fail with errors
\* that the service does not know.
SPECIFICATION Spec
CONSTANTS
    n1 = n1
    n2 = n2
    n3 = n3
    w = w
    t = t
    Nobody = Nobody
    Node = {n1, n2, n3}
    First = n1
    Unlisted = {n2, n3}
    Call = {w, t}
    Entry <- Entries
    RetryCount <- Retries
    MaxOutages = 1
    MaxFaults = 1
INVARIANTS OneOwner RecognisedOutageIsNotBusy NoFalseAlarm LeftBehind
SYMMETRY Others
