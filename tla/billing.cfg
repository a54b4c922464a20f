CONSTANTS
    Paystack = {paystack}
    Stripe = {stripe}
    Renewals = {"subscription.charge", "invoice.update"}
    StripeUpdates = {"unpaid", "trialing"}
    Calls = {1, 2}
    None = None
    MaxEvents = 3
    MaxTroubles = 1
SPECIFICATION FairSpec
INVARIANTS ExactlyOnce 
PROPERTIES EventsAcked
CHECK_DEADLOCK FALSE
