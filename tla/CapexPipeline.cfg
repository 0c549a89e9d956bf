\* Safety: one run, two ZIPs of one invoice, up to two sends of its event, two
\* overlapping invocations, every message delivered up to twice.
SPECIFICATION PipelineSpec
CONSTANTS
    Runs = {r1}
    Sources = {s1, s2}
    theInvoice = i1
    Invoices = {i1}
    InvoiceOf <- SameInvoice
    Lines = {l1}
    Codes = {c1, c2}
    MaxSends = 2
    MaxDelivery = 2
    Handlers = {h1, h2}
    None = None
    Unresolved = Unresolved
SYMMETRY Symmetry
INVARIANTS
    OutputMatchesCommit
    SuggestionHasOrigin
    DoneMeansSuggested
    RunAccountsForSources
PROPERTIES
    SuggestionIsFinal
    SuggestionIsGoverned
