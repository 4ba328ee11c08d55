\* Whose invoices do the tools show to somebody who is not an admin?
CONSTANTS
    Customers = {1, 2, 3}
    PageSize = 2
    MaxPages = 2
    MaxMatches = 2
    MaxOfCustomer = 1
    MaxChanges = 2
    Invoices <- MCInvoices
    Rep <- MCRep
    Words <- MCWords
    LongWords <- MCLongWords
    Nodes <- MCNodes
    NotSpecified <- MCNotSpecified
    ClassLists <- MCClassLists
    Directories <- MCDirectories
    Reports <- MCReports
SPECIFICATION CallSpec
INVARIANT NonAdminsSeeLinkedOnly
CHECK_DEADLOCK FALSE
