------------------------------- MODULE QboTools -------------------------------
(***************************************************************************)
(* One call of a QuickBooks tool, Session::call in                         *)
(* src/crates/jobctl/src/qbo.rs: it asks QuickBooks and the CRM one thing  *)
(* after the other, while others change the books and the links between    *)
(* CRM and QuickBooks customers.                                           *)
(*                                                                         *)
(* A step is one request to QuickBooks or one statement, with what is done *)
(* with its answer.  Dates and amounts that are only passed on are left    *)
(* out; "invoices" are those of the range asked for.                       *)
(***************************************************************************)
EXTENDS QboReports

CONSTANTS
    Customers,           \* QuickBooks customers, positive numbers
    Invoices,            \* records [id, date, customer]: invoices there may be
    Rep,                 \* the sales rep asked for
    ClassLists,          \* what a query for classes may give (MAXRESULTS 1000)
    Directories,         \* what QuickBooks may know of an unlinked customer
    Reports,             \* Sales by Class reports
    PageSize,            \* PAGE_SIZE
    MaxPages,            \* MAX_PAGES
    MaxMatches,          \* maxresults of customers_by_name
    MaxOfCustomer,       \* MAXRESULTS of invoices_for_customer
    MaxChanges           \* bound: changes of the books and links during the call

ASSUME ToolsAssumption ==
    /\ Customers \subseteq Nat \ {0}
    /\ IsFiniteSet(Customers)
    /\ Invoices \subseteq [id : Nat, date : Nat, customer : Customers]
    /\ IsFiniteSet(Invoices)
    /\ \A i, j \in Invoices : i.id = j.id => i = j
    /\ PageSize \in Nat \ {0}
    /\ MaxPages \in Nat \ {0}
    /\ MaxMatches \in Nat \ {0}
    /\ MaxOfCustomer \in Nat \ {0}
    /\ MaxChanges \in Nat

(* QuickBooks lists no customer twice.                                     *)
ASSUME DirectoriesAssumption ==
    \A directory \in Directories :
        /\ directory \in Seq([id : Customers, name : {"same", "contains", "other"},
                              sameEmail : BOOLEAN])
        /\ IsInjective(Ids(directory))

(* It lists no class twice, and no two of one name; the parent it gives,   *)
(* if it is listed, is the class named like all but the last part.         *)
ASSUME ClassesAssumption ==
    \A classes \in ClassLists :
        /\ classes \in Seq([id : Nat \ {0}, fqn : Seq(Seq(Seq(Words))) \ {<<>>}, parent : Nat])
        /\ \A i, j \in DOMAIN classes :
              \/ i = j
              \/ classes[i].id # classes[j].id /\ classes[i].fqn # classes[j].fqn
        /\ \A i, j \in DOMAIN classes :
              classes[i].parent # None =>
                  (classes[j].id = classes[i].parent <=> classes[j].fqn = Front(classes[i].fqn))

VARIABLES
    req,        \* the call: tool, whether an admin asks, argument
    step,       \* the next thing to do, or "done"
    books,      \* the invoices QuickBooks has
    links,      \* the QuickBooks customers linked to a CRM customer
    target,     \* the customer whose invoices are wanted, or None
    matchedBy,  \* how a CRM customer was found in QuickBooks
    sellers,    \* the customers of the rep's CustomerSales report
    classIds,   \* the classes of the rep
    page,       \* pages read so far
    all,        \* the invoices on them
    result,     \* outcome, value, and whether the value is cut
    seen,       \* history: the list the last query by name found its answer in
    linked,     \* history: customers linked at some moment of the call
    before,     \* history: the books at the first page
    changes,    \* history: how many changes there were
    midway      \* history: what happened to invoices between two pages

found == <<target, matchedBy, classIds, seen>>

pages == <<page, all, before>>

call == <<req, step, found, sellers, pages, result>>

world == <<books, links, linked, changes, midway>>

callVars == <<call, world>>

AdminOnly == {"invoices_in_range", "class_sales", "query", "report"}

NoValue == <<>>

Outcomes == {"none", "ok", "denied", "error"}

(* The books and links a call may meet, by its tool: what the tool does    *)
(* not read is fixed.                                                      *)
Starts(tool, arg, Books, Links) ==
    /\ req \in [tool : {tool}, admin : BOOLEAN, arg : {arg}]
    /\ books \in Books
    /\ links \in Links

CallInit ==
    /\ \/ \E i \in Invoices : Starts("invoice", i, {Invoices}, SUBSET Customers)
       \/ \E c \in Customers : Starts("customer_invoices", c, {Invoices}, SUBSET Customers)
       \/ \E crm \in [hasName : BOOLEAN, hasEmail : BOOLEAN] :
              Starts("crm_invoices", crm, {Invoices}, SUBSET Customers)
       \/ \E own \in BOOLEAN : Starts("sales_rep", own, {Invoices}, {{}})
       \/ Starts("invoices_in_range", NoValue, SUBSET Invoices, {{}})
       \/ \E r \in Reports : Starts("class_sales", r, {{}}, {{}})
       \/ \E tool \in {"query", "report", "search_customers"} : Starts(tool, NoValue, {{}}, {{}})
    /\ step = "authorize"
    /\ target = None
    /\ matchedBy = "none"
    /\ sellers = {}
    /\ classIds = <<>>
    /\ page = 0
    /\ all = <<>>
    /\ result = [outcome |-> "none", value |-> NoValue, cut |-> FALSE]
    /\ seen = <<>>
    /\ linked = links
    /\ before = {}
    /\ changes = 0
    /\ midway = {}

(* The text is cut to MAX_OUTPUT_CHARS, and says so then.  How long it is  *)
(* depends on what is left out here, so any may be too long: what remains  *)
(* of it are the first entries.                                            *)
Answer(outcome, value) ==
    /\ step' = "done"
    /\ \/ result' = [outcome |-> outcome, value |-> value, cut |-> FALSE]
       \/ \E n \in 0..(Len(value) - 1) :
             result' = [outcome |-> outcome, value |-> SubSeq(value, 1, n), cut |-> TRUE]

Go(to) == step' = to /\ UNCHANGED result

-----------------------------------------------------------------------------
(* The tools.                                                              *)

(* authorize, and the first request of each tool.                          *)
Authorize ==
    /\ step = "authorize"
    /\ IF req.tool \in AdminOnly /\ ~req.admin
       THEN Answer("denied", NoValue)
       ELSE Go(CASE req.tool = "invoice"           -> "invoice"
                 [] req.tool = "customer_invoices" -> "links"
                 [] req.tool = "crm_invoices"      -> "crm"
                 [] req.tool = "sales_rep"         -> "own_name"
                 [] req.tool = "invoices_in_range" -> "page"
                 [] OTHER                          -> "fetch")
    /\ target' = IF req.tool = "customer_invoices" THEN req.arg ELSE None
    /\ UNCHANGED <<world, req, matchedBy, classIds, seen, sellers, pages>>

FetchInvoice ==
    /\ step = "invoice"
    /\ IF req.arg \in books
       THEN Go("links") /\ target' = req.arg.customer
       ELSE Answer("error", NoValue) /\ UNCHANGED target
    /\ UNCHANGED <<world, req, matchedBy, classIds, seen, sellers, pages>>

(* Mutant: an invoice that was found is answered without asking the CRM.   *)
ReadLinksOfCustomersOnly ==
    /\ step = "links"
    /\ CASE req.tool = "search_customers" -> Answer("ok", NoValue)
         [] req.tool = "invoice" -> Answer("ok", <<req.arg>>)
         [] req.tool = "customer_invoices" ->
              IF req.admin \/ target \in links THEN Go("customer") ELSE Answer("denied", NoValue)
    /\ UNCHANGED <<world, req, found, sellers, pages>>

(* linked_crm_customers: after the customers searched for or the invoice,  *)
(* before a customer's invoices.                                           *)
ReadLinks ==
    /\ step = "links"
    /\ LET mayKnow == req.admin \/ target \in links
       IN  CASE req.tool = "search_customers" -> Answer("ok", NoValue)
             [] req.tool = "invoice" ->
                  IF mayKnow THEN Answer("ok", <<req.arg>>) ELSE Answer("denied", NoValue)
             [] req.tool = "customer_invoices" ->
                  IF mayKnow THEN Go("customer") ELSE Answer("denied", NoValue)
    /\ UNCHANGED <<world, req, found, sellers, pages>>

(* The tools that make one request, or one and ReadLinks, and pass on what *)
(* it says.                                                                *)
Fetch ==
    /\ step = "fetch"
    /\ CASE req.tool = "search_customers" -> Go("links")
         [] req.tool = "class_sales" -> Answer("ok", OmitZeroRows(ParseReport(req.arg)))
         [] OTHER -> Answer("ok", NoValue)
    /\ UNCHANGED <<world, req, found, sellers, pages>>

(* invoices_for_customer: those of the customer, or as many as one query   *)
(* gives, in any order, are sorted newest first.                           *)
FetchCustomer ==
    /\ step = "customer"
    /\ LET own == {i \in books : i.customer = target}
           size == Min({MaxOfCustomer, Cardinality(own)})
       IN  \E listing \in [1..size -> own] :
              /\ IsInjective(listing)
              /\ \A m, n \in 1..size : m < n => listing[m].date >= listing[n].date
              /\ Answer("ok", listing)
    /\ seen' = <<>>
    /\ UNCHANGED <<world, req, target, matchedBy, classIds, sellers, pages>>

-----------------------------------------------------------------------------
(* The QuickBooks customer of a CRM customer.                              *)

(* The SELECT of crm_customer_invoices: the customer has a link, or what   *)
(* it can be looked for by.                                                *)
ReadCrmCustomer ==
    /\ step = "crm"
    /\ \E link \in links \cup {None} :
          /\ target' = link
          /\ matchedBy' = IF link # None THEN "link" ELSE "none"
          /\ CASE link # None -> Go("customer")
               [] link = None /\ req.arg.hasEmail -> Go("by_email")
               [] link = None /\ ~req.arg.hasEmail /\ req.arg.hasName -> Go("by_name")
               [] OTHER -> Answer("error", NoValue)
    /\ UNCHANGED <<world, req, classIds, seen, sellers, pages>>

(* It is the customer with this id.                                        *)
Found(directory, how, id) ==
    /\ target' = id
    /\ matchedBy' = how
    /\ seen' = directory
    /\ Go("customer")

(* A unique e-mail address, else the name if there is one.                 *)
FindByEmail ==
    /\ step = "by_email"
    /\ \E directory \in Directories :
          \/ /\ Cardinality(ByEmail(directory)) = 1
             /\ \E k \in ByEmail(directory) : Found(directory, "email", directory[k].id)
          \/ /\ Cardinality(ByEmail(directory)) # 1
             /\ IF req.arg.hasName THEN Go("by_name") ELSE Answer("error", NoValue)
             /\ UNCHANGED <<target, matchedBy, seen>>
    /\ UNCHANGED <<world, req, classIds, sellers, pages>>

(* customers_by_name gives MaxMatches of the matches at most.              *)
FindByName ==
    /\ step = "by_name"
    /\ \E directory \in Directories : \E matches \in SUBSET ByName(directory) :
          /\ Cardinality(matches) = Min({MaxMatches, Cardinality(ByName(directory))})
          /\ LET id == PickByName(directory, matches, req.arg.hasEmail)
             IN  IF id = None
                 THEN Answer("error", NoValue) /\ UNCHANGED <<target, matchedBy, seen>>
                 ELSE Found(directory, "name", id)
    /\ UNCHANGED <<world, req, classIds, sellers, pages>>

-----------------------------------------------------------------------------
(* sales_rep, and the pages of invoices_between.                           *)

(* The name of the one who asks, who has to be the rep or an admin.        *)
ReadOwnName ==
    /\ step = "own_name"
    /\ IF req.admin \/ req.arg THEN Go("class_sales") ELSE Answer("denied", NoValue)
    /\ UNCHANGED <<world, req, found, sellers, pages>>

(* The Sales by Class report, whose sum goes into the answer.              *)
FetchClassSales ==
    /\ step = "class_sales"
    /\ Go("classes")
    /\ UNCHANGED <<world, req, found, sellers, pages>>

(* Without a class of the rep there is nothing more to ask.                *)
FetchClasses ==
    /\ step = "classes"
    /\ \E classes \in ClassLists :
          /\ classIds' = ClassIdsForRep(ResolveParents(classes), Rep)
          /\ seen' = classes
    /\ IF classIds' = <<>> THEN Answer("ok", NoValue) ELSE Go("sellers")
    /\ UNCHANGED <<world, req, target, matchedBy, sellers, pages>>

(* The CustomerSales report: the customers sold to in these classes, which *)
(* are done with now.                                                      *)
FetchSellers ==
    /\ step = "sellers"
    /\ sellers' \in SUBSET Customers
    /\ classIds' = <<>>
    /\ seen' = <<>>
    /\ Go("page")
    /\ UNCHANGED <<world, req, target, matchedBy, pages>>

Value(invoices) ==
    IF req.tool = "sales_rep" THEN AttachInvoices(sellers, invoices) ELSE invoices

(* Mutant: the pages after the first start at the last one's end.          *)
StartPositionEarly == Max({1, page * PageSize})

(* Mutant: pages start at a multiple of the size, as if counted from 0.    *)
StartPositionLate == IF page = 0 THEN 1 ELSE page * PageSize + 2

(* STARTPOSITION counts from 1.                                            *)
StartPosition == page * PageSize + 1

DatedBefore(day) == {i \in books : i.date < day}

DatedUntil(day) == {i \in books : i.date <= day}

(* Ordered by date alone, an invoice may come in any of the places of its  *)
(* day, in each query anew.                                                *)
MayBeAt(i, n) == Cardinality(DatedBefore(i.date)) < n /\ n <= Cardinality(DatedUntil(i.date))

(* What the query for the next page may give.                              *)
Batches ==
    LET rest == Cardinality(books) - StartPosition + 1
        size == CASE rest <= 0 -> 0
                  [] 0 < rest /\ rest < PageSize -> rest
                  [] OTHER -> PageSize
    IN  {batch \in [1..size -> books] :
            /\ IsInjective(batch)
            /\ \A n \in 1..size : MayBeAt(batch[n], StartPosition + n - 1)}

(* Mutant: pages are read until one is not full.                           *)
FetchAllPages ==
    /\ step = "page"
    /\ page' = page + 1
    /\ before' = IF page = 0 THEN books ELSE before
    /\ \E batch \in Batches :
          /\ all' = all \o batch
          /\ IF Len(batch) < PageSize THEN Answer("ok", Value(all')) ELSE Go("page")
    /\ UNCHANGED <<world, req, found, sellers>>

(* The next page, which is the last if it is not full or the last one      *)
(* allowed.                                                                *)
FetchPage ==
    /\ step = "page"
    /\ page' = page + 1
    /\ before' = IF page = 0 THEN books ELSE before
    /\ \E batch \in Batches :
          /\ all' = all \o batch
          /\ IF Len(batch) < PageSize \/ page + 1 = MaxPages
             THEN Answer("ok", Value(all'))
             ELSE Go("page")
    /\ UNCHANGED <<world, req, found, sellers>>

(* A request or statement fails, times out, finds nothing, or is answered  *)
(* with a fault or 401.                                                    *)
Fails ==
    /\ step \notin {"authorize", "done"}
    /\ Answer("error", NoValue)
    /\ UNCHANGED <<world, req, found, sellers, pages>>

-----------------------------------------------------------------------------
(* Others.  A change that the call does not look at is left out; one that  *)
(* it does happens when the next step is to look.                          *)

Change ==
    /\ changes < MaxChanges
    /\ changes' = changes + 1
    /\ UNCHANGED call

BooksChange(how) ==
    /\ Change
    /\ step \in {"invoice", "customer", "page"}
    /\ midway' = IF page > 0 THEN midway \cup {how} ELSE midway
    /\ UNCHANGED <<links, linked>>

InvoiceAdded == BooksChange("added") /\ \E i \in Invoices \ books : books' = books \cup {i}

InvoiceRemoved == BooksChange("removed") /\ \E i \in books : books' = books \ {i}

(* The application links a CRM customer, or unlinks or deletes one.        *)
LinksChange ==
    /\ Change
    /\ step \in {"links", "crm"}
    /\ \E c \in Customers : links' = (links \cup {c}) \ (links \cap {c})
    /\ linked' = linked \cup links'
    /\ UNCHANGED <<books, midway>>

Tool ==
    \/ Authorize \/ FetchInvoice \/ ReadLinks \/ Fetch \/ FetchCustomer
    \/ ReadCrmCustomer \/ FindByEmail \/ FindByName
    \/ ReadOwnName \/ FetchClassSales \/ FetchClasses \/ FetchSellers \/ FetchPage \/ Fails

Others == InvoiceAdded \/ InvoiceRemoved \/ LinksChange

CallNext == Tool \/ Others

CallSpec == CallInit /\ [][CallNext]_callVars

-----------------------------------------------------------------------------
(* Properties.                                                             *)

CallTypeOK ==
    /\ step \in {"authorize", "invoice", "links", "fetch", "customer", "crm", "by_email",
                "by_name", "own_name", "class_sales", "classes", "sellers", "page", "done"}
    /\ books \subseteq Invoices
    /\ links \subseteq linked /\ linked \subseteq Customers
    /\ target \in Customers \cup {None}
    /\ matchedBy \in {"none", "link", "email", "name"}
    /\ sellers \subseteq Customers
    /\ page \in 0..MaxPages
    /\ all \in Seq(Invoices) /\ Len(all) <= MaxPages * PageSize
    /\ result.outcome \in Outcomes /\ (step = "done" <=> result.outcome # "none")
    /\ before \subseteq Invoices
    /\ midway \subseteq {"added", "removed"}

Answered == step = "done" /\ result.outcome = "ok"

(* The invoices an answer shows.                                           *)
Shown ==
    CASE ~Answered -> {}
      [] Answered /\ req.tool = "sales_rep" -> UNION {ToSet(c.invoices) : c \in ToSet(result.value)}
      [] Answered /\ req.tool \in {"invoice", "customer_invoices", "crm_invoices",
                                  "invoices_in_range"} -> ToSet(result.value)
      [] OTHER -> {}

(* "Non-admins ... only get invoices of customers linked to their          *)
(* company's CRM" (README): whatever the tool, and whatever changes        *)
(* between what it asks QuickBooks and the CRM, the customer was linked at *)
(* some moment of the call.                                                *)
NonAdminsSeeLinkedOnly == ~req.admin => \A i \in Shown : i.customer \in linked

(* What the code keeps to: who is not an admin is shown an invoice only if *)
(* its customer was linked at some moment of the call, or has sales in the *)
(* classes of the rep, who is the one asking (sales_rep), or is the one    *)
(* that alone fits the CRM customer asked for by e-mail or by name         *)
(* (crm_customer_invoices).                                                *)
NonAdminsSeeLinkedOrOwn ==
    ~req.admin =>
        \A i \in Shown :
            \/ i.customer \in linked
            \/ req.tool = "sales_rep" /\ req.arg /\ i.customer \in sellers
            \/ /\ req.tool = "crm_invoices" /\ matchedBy \in {"email", "name"}
               /\ i.customer = target

(* A full page ended within the day of invoice i.                          *)
PageEndsOnDayOf(i) ==
    \E n \in 1..page : n * PageSize <= Len(all) /\ all[n * PageSize].date = i.date

(* An invoice that was there at the first page is in the answer            *)
(* (invoices_between; in sales_rep, if its customer is one of the rep's),  *)
(* unless the answer says that it is cut, one was removed between two      *)
(* pages, the range has more than MAX_PAGES pages hold, or a page ended    *)
(* within its day: the query orders by date alone, so the next one may     *)
(* have the invoices of that day in another order.                         *)
NothingMissed ==
    (Answered /\ page > 0 /\ ~result.cut /\ "removed" \notin midway
        /\ Cardinality(books) <= PageSize * MaxPages)
    => \A i \in before :
         \/ i \in Shown
         \/ req.tool = "sales_rep" /\ i.customer \notin sellers
         \/ PageEndsOnDayOf(i)

(* Unless an invoice was added between two pages, the pages together are   *)
(* in the order of dates, and have no invoice twice but one that shares    *)
(* its day with another, on two pages (invoices_between).                  *)
PagesInOrder ==
    "added" \notin midway =>
        \A m, n \in DOMAIN all : m < n =>
            /\ all[m].date <= all[n].date
            /\ all[m] = all[n] =>
                  /\ \E i \in before : i # all[n] /\ i.date = all[n].date
                  /\ \E k \in 1..page : m <= k * PageSize /\ k * PageSize < n

(* The classes that are named after the rep, going by names alone: those   *)
(* of which some superior in the list, with all in between, matches.       *)
NamedAfterRep(classes) ==
    LET Prefix(cls, n) == SubSeq(cls.fqn, 1, n)
        Matching(fqn) == \E c \in ToSet(classes) : c.fqn = fqn /\ ClassMatches(c, Rep)
        IsListed(fqn) == \E c \in ToSet(classes) : c.fqn = fqn
    IN  {c.id : c \in {d \in ToSet(classes) :
            \E n \in 1..Len(d.fqn) :
                Matching(Prefix(d, n)) /\ \A k \in n..Len(d.fqn) : IsListed(Prefix(d, k))}}

(* Following the parents QuickBooks gave and those that were inferred, the *)
(* classes of a rep are the ones the names say, each once (classes,        *)
(* class_ids_for_rep).                                                     *)
RepClassesByName ==
    req.tool = "sales_rep" =>
        /\ ToSet(classIds) = NamedAfterRep(seen)
        /\ IsInjective(classIds)

(* As far as can be asked, two customers fit equally well.                 *)
Alike(a, b) == a.name = b.name /\ (req.arg.hasEmail => a.sameEmail = b.sameEmail)

(* A CRM customer is never taken for one of several QuickBooks customers   *)
(* that fit as well, as long as no more of them have a name like it than   *)
(* customers_by_name asks for (resolve_customer, pick_by_name).            *)
NeverGuesses ==
    /\ step = "customer" /\ matchedBy \in {"email", "name"}
    /\ matchedBy = "name" => Cardinality(ByName(seen)) <= MaxMatches
    => \A j, k \in DOMAIN seen : seen[j].id = target /\ j # k => ~Alike(seen[j], seen[k])

(* Names lead to whom they name: to all the classes of a rep, and to no    *)
(* customer that is not the only one.                                      *)
NamesFindTheirOwn == RepClassesByName /\ NeverGuesses

SumOf(rows) == FoldLeft(LAMBDA sum, r : sum + r.amount, 0, rows)

DataOf(rows) == SelectSeq(rows, LAMBDA r : r.kind = "data")

Report == ParseReport(req.arg)

ShowsReport == Answered /\ ~result.cut /\ req.tool = "class_sales"

(* Leaving out zero rows, empty sections and moving the sales without a    *)
(* class to the end does not lose or double an amount: what is listed      *)
(* still adds up to the grand total (omit_zero_rows).                      *)
TotalsStillAddUp ==
    LET totals == SelectSeq(result.value, LAMBDA r : r.kind = "grand_total")
    IN  /\ Len(totals) = 1
        /\ SumOf(DataOf(result.value)) = totals[1].amount

(* The sections a row is in, outermost first: at each depth the header     *)
(* that nothing as shallow has come after.                                 *)
SectionsOf(rows, i) ==
    [d \in 1..rows[i].depth |->
        LET above == {j \in 1..(i - 1) : rows[j].depth < d}
        IN  IF above # {} /\ rows[Max(above)].kind = "section" THEN rows[Max(above)].name ELSE <<>>]

(* The rows with an amount that belong to a class.                         *)
WithAmount(rows) ==
    {i \in DOMAIN rows : rows[i].kind = "data" /\ ~IsZero(rows[i]) /\ ~IsNotSpecified(rows[i])}

(* These rows with their sections.                                         *)
InSections(rows) ==
    LET order == SetToSortSeq(WithAmount(rows), <)
    IN  [k \in DOMAIN order |-> <<rows[order[k]], SectionsOf(rows, order[k])>>]

(* A report without a section inside another, and with none whose header   *)
(* is blank.                                                               *)
IsFlat(rows) ==
    \A i \in DOMAIN rows :
        /\ rows[i].kind = "section" => rows[i].depth = 0
        /\ rows[i].depth = 0 \/ (rows[i].depth = 1 /\ SectionsOf(rows, i)[1] # <<>>)

(* What is shown of a Sales by Class report still adds up to its grand     *)
(* total; and if its sections are not nested, it is all of it but zeros,   *)
(* each row below the header it was below (omit_zero_rows).  Of nested     *)
(* sections no more is said: the code leaves out the header of one whose   *)
(* data is all in sections inside it.                                      *)
ReportsKeepTheirData ==
    ShowsReport =>
        /\ TotalsStillAddUp
        /\ IsFlat(Report) => InSections(result.value) = InSections(Report)
=============================================================================
