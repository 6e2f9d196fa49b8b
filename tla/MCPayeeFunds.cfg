SPECIFICATION Spec
CONSTANTS
    Price = 2
    Fee = 1
    Funds = {4}
    None = None
    MaxPayments = 2
    MaxAlerts = 2
INVARIANT PayeeFundsAreTheChannels
