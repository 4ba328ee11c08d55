------------------------------ MODULE QboReports ------------------------------
(***************************************************************************)
(* The algorithms of the QuickBooks tools (src/crates/jobctl/src/qbo.rs)   *)
(* on what QuickBooks has answered: report rows, the classes of a sales    *)
(* rep, the customer a name and an address stand for, and the invoices     *)
(* behind a customer's sales.                                              *)
(*                                                                         *)
(* Names are compared trimmed and in lower case, so a name is what is left *)
(* of it: the name of a row or class is the sequence of its parts between  *)
(* "/", a part the sequence of its words, and a fully qualified name the   *)
(* sequence of the names between ":".  Amounts are integers.               *)
(***************************************************************************)
EXTENDS Integers, SequencesExt

CONSTANTS
    NotSpecified,   \* the name of the row of sales without a class
    Words,          \* the words of names
    LongWords,      \* those of three letters or more
    Nodes           \* nodes of the trees reports come as

(* The members of a finite set in the order "precedes" has them in: the    *)
(* n-th is the one that n - 1 others precede.                              *)
InOrder(S, precedes(_, _)) ==
    [n \in 1..Cardinality(S) |->
        CHOOSE x \in S : Cardinality({y \in S : precedes(y, x)}) = n - 1]

(* The elements of a sequence at the positions of a set.                   *)
At(s, positions) ==
    LET order == InOrder(positions, <)
    IN  [n \in DOMAIN order |-> s[order[n]]]

None == 0           \* no parent, no customer; ids are positive

NoAmount == 0       \* is_zero takes a missing amount for a zero

-----------------------------------------------------------------------------
(* Reports.  A node of the tree is a data row, the grand total, or a       *)
(* section with its rows and its total, whose header has a name, is blank, *)
(* or is not there.  QuickBooks gives headers no amount.                   *)

RowKinds == {"section", "data", "section_total", "grand_total"}

Row(name, amount, depth, kind) ==
    [name |-> name, amount |-> amount, depth |-> depth, kind |-> kind]

(* The rows of a list of nodes.  A blank header makes no row, but what is  *)
(* below it is nested all the same.                                        *)
ParseRows[nodes \in Seq(Nodes), depth \in Nat] ==
    LET Header(node) ==
            IF node.header = "named" THEN <<Row(node.name, NoAmount, depth, "section")>> ELSE <<>>
        Inside(node) == IF node.header = "none" THEN depth ELSE depth + 1
        RowsOf(node) ==
            CASE node.type = "data"  -> <<Row(node.name, node.amount, depth, "data")>>
              [] node.type = "grand" -> <<Row(node.name, node.amount, depth, "grand_total")>>
              [] node.type = "section" ->
                   Header(node) \o ParseRows[node.rows, Inside(node)]
                                \o <<Row(node.name, node.amount, depth, "section_total")>>
    IN  FlattenSeq([i \in DOMAIN nodes |-> RowsOf(nodes[i])])

ParseReport(payload) == ParseRows[payload, 0]

IsZero(row) == row.amount = 0

IsNotSpecified(row) == row.kind = "data" /\ row.name = NotSpecified

(* The last row that omit_zero_rows takes together with the section at i.  *)
EndOfSection(rows, i) ==
    LET Stops(j) == rows[j].kind \in {"section", "grand_total"} \/ IsNotSpecified(rows[j])
    IN  Min({j \in i..Len(rows) :
               \/ j = Len(rows)
               \/ Stops(j + 1)
               \/ rows[j].kind = "section_total"})

(* Mutant: the header, which has no amount, is left out with the zero rows. *)
SectionChunkBare(rows, i, end) == SelectSeq(SubSeq(rows, i, end), LAMBDA r : ~IsZero(r))

(* What is kept of the section at i and the rows up to end.                *)
SectionChunk(rows, i, end) ==
    LET chunk == <<rows[i]>> \o SelectSeq(SubSeq(rows, i + 1, end), LAMBDA r : ~IsZero(r))
    IN  IF \E j \in DOMAIN chunk : chunk[j].kind = "data" THEN chunk ELSE <<>>

(* omit_zero_rows: what its loop keeps from row i on, and at the end the   *)
(* last row without a class and the last grand total, which no section     *)
(* swallows.                                                               *)
OmitZeroRows(rows) ==
    LET Shown[i \in 1..(Len(rows) + 1)] ==
            CASE i > Len(rows) -> <<>>
              [] i <= Len(rows) /\ rows[i].kind = "section" ->
                   LET end == EndOfSection(rows, i)
                   IN  SectionChunk(rows, i, end) \o Shown[end + 1]
              [] i <= Len(rows) /\ rows[i].kind = "data"
                 /\ ~IsNotSpecified(rows[i]) /\ ~IsZero(rows[i]) ->
                   <<rows[i]>> \o Shown[i + 1]
              [] OTHER -> Shown[i + 1]
        LastOf(Is(_)) ==
            LET found == SelectSeq(rows, Is) IN IF found = <<>> THEN <<>> ELSE <<Last(found)>>
    IN  Shown[1] \o SelectSeq(LastOf(IsNotSpecified), LAMBDA r : ~IsZero(r))
                 \o LastOf(LAMBDA r : r.kind = "grand_total")

-----------------------------------------------------------------------------
(* The classes of a sales rep.  A class has an id, a fully qualified name  *)
(* whose last part is its name, and a parent, or None where QuickBooks     *)
(* gave no ParentRef.                                                      *)

(* The row is named after the rep, or "rep/...", or the same with the      *)
(* rep's first name, if that is long enough.                               *)
MatchesRep(row, rep) ==
    /\ row # <<>>
    /\ rep # <<>>
    /\ \/ Head(row) = rep
       \/ Head(rep) \in LongWords /\ Head(row) = <<Head(rep)>>

(* A fully qualified name read as one row name: with a ":" in it, it can   *)
(* only match up to a "/" before that.                                     *)
AsRowName(fqn) == IF Len(fqn) = 1 \/ Len(fqn[1]) > 1 THEN fqn[1] ELSE <<>>

ClassMatches(cls, rep) == MatchesRep(Last(cls.fqn), rep) \/ MatchesRep(AsRowName(cls.fqn), rep)

(* Mutant: the parent is the class at the top of the name.                 *)
ResolveTopParents(classes) ==
    [i \in DOMAIN classes |->
       LET cls == classes[i]
           named == {j \in DOMAIN classes : classes[j].fqn = <<Head(cls.fqn)>>}
       IN  IF cls.parent = None /\ Len(cls.fqn) > 1 /\ named # {}
           THEN [cls EXCEPT !.parent = classes[Max(named)].id] ELSE cls]

(* A missing parent is the class named like all but the last part, the     *)
(* last one of that name in the list.                                      *)
ResolveParents(classes) ==
    [i \in DOMAIN classes |->
       LET cls == classes[i]
           named == {j \in DOMAIN classes : classes[j].fqn = Front(cls.fqn)}
       IN  IF /\ cls.parent = None /\ Len(cls.fqn) > 1 /\ named # {}
              /\ classes[Max(named)].id # cls.id
           THEN [cls EXCEPT !.parent = classes[Max(named)].id] ELSE cls]

Ids(records) == [i \in DOMAIN records |-> records[i].id]

(* The classes below the matched ones that are not matched yet.            *)
Children(classes, matched) ==
    Ids(At(classes, {k \in DOMAIN classes : /\ classes[k].parent # None
                                            /\ Contains(matched, classes[k].parent)
                                            /\ ~Contains(matched, classes[k].id)}))

(* The loop over Children: a round that finds some adds them, one that     *)
(* finds none is the last, and there are no more rounds than classes.      *)
WithDescendants(classes, matched) ==
    LET After[n \in 0..Len(classes)] ==
            IF n = 0 THEN matched ELSE After[n - 1] \o Children(classes, After[n - 1])
    IN  After[Len(classes)]

ClassIdsForRep(classes, rep) ==
    WithDescendants(classes,
        Ids(At(classes, {k \in DOMAIN classes : ClassMatches(classes[k], rep)})))

-----------------------------------------------------------------------------
(* The QuickBooks customer of a CRM customer without a link.  Of a         *)
(* customer it matters whether its name is the one looked for or only      *)
(* contains it, and whether it has the same e-mail address.                *)

ByEmail(directory) == {k \in DOMAIN directory : directory[k].sameEmail}

ByName(directory) == {k \in DOMAIN directory : directory[k].name \in {"same", "contains"}}

(* The only member of the first of these lists that has just one.  A list  *)
(* is the set of its positions in the directory; "hasEmail" is whether     *)
(* there is an address to compare.                                         *)
PickByName(directory, matches, hasEmail) ==
    LET exact == {k \in matches : directory[k].name = "same"}
        SameEmail(S) == {k \in S : hasEmail /\ directory[k].sameEmail}
        lists == <<exact, SameEmail(exact), SameEmail(matches), matches>>
        single == {i \in DOMAIN lists : Cardinality(lists[i]) = 1}
    IN  IF single = {} THEN None
        ELSE directory[CHOOSE k \in lists[Min(single)] : TRUE].id

-----------------------------------------------------------------------------
(* Invoices, numbered in the order of their document numbers, and the      *)
(* customers they belong to, in the order of their names.                  *)

DocBefore(a, b) == a.date < b.date \/ (a.date = b.date /\ a.id < b.id)

(* The invoices of a customer by date and document number; one that is     *)
(* there twice stays so.  Ids and names find the same ones, for QuickBooks *)
(* has no two customers of one display name.                               *)
InvoicesOf(customer, invoices) ==
    LET First(j, k) == \/ DocBefore(invoices[j], invoices[k])
                       \/ invoices[j] = invoices[k] /\ j < k
        order == InOrder({k \in DOMAIN invoices : invoices[k].customer = customer}, First)
    IN  [n \in DOMAIN order |-> invoices[order[n]]]

(* Customers by the date of their first invoice, those without one last.   *)
FirstBefore(a, b, invoices) ==
    LET ofA == InvoicesOf(a, invoices)
        ofB == InvoicesOf(b, invoices)
    IN  \/ ofA # <<>> /\ ofB = <<>>
        \/ ofA = <<>> /\ ofB = <<>> /\ a < b
        \/ /\ ofA # <<>> /\ ofB # <<>>
           /\ \/ ofA[1].date < ofB[1].date
              \/ ofA[1].date = ofB[1].date /\ a < b

AttachInvoices(customers, invoices) ==
    LET order == InOrder(customers, LAMBDA a, b : FirstBefore(a, b, invoices))
    IN  [n \in DOMAIN order |->
            [customer |-> order[n], invoices |-> InvoicesOf(order[n], invoices)]]
=============================================================================
