SPECIFICATION PipeSpec
CONSTANTS
    Events = {p, q, t}
    ProviderEvents = {p}
    InboundEvents = {q}
    TestEvents = {t}
    Hooks = {h}
    Subscriptions = {{p, q}}
    AttemptLimit = 2
    InboxLimit = 2
    MaxFaults = 1
    MaxEvents = 1
    Handlers = {i1, i2}
    WebhookWorkers = {w1, w2}
    NoEvent = NoEvent
    Nobody = Nobody
INVARIANTS
    PipeTypeOK
    AppliedIsPublished
    PurgedIsSettled
PROPERTIES
    KeepsPromise
    StoredIsHandled
