\* All the tools, asked by admins and others; up to two changes of the books
\* and links while the call is under way.
CONSTANTS
    Customers = {1, 2, 3}
    PageSize = 2
    MaxPages = 2
    MaxMatches = 2
    MaxOfCustomer = 1
    MaxChanges = 2
    Invoices <- MCInvoices
    Rep <- MCRep
    Words <- MCWords
    LongWords <- MCLongWords
    Nodes <- MCNodes
    NotSpecified <- MCNotSpecified
    ClassLists <- MCClassLists
    Directories <- MCDirectories
    Reports <- MCReports
SPECIFICATION CallSpec
INVARIANTS CallTypeOK NonAdminsSeeLinkedOrOwn NothingMissed PagesInOrder NamesFindTheirOwn ReportsKeepTheirData
\* The call has been answered.
CHECK_DEADLOCK FALSE
