------------------------------ MODULE MCQboTools ------------------------------
(* Instances of QboTools for TLC.                                          *)
EXTENDS QboTools

Name(word) == << <<word>> >>

(* Days and customers of the invoices are not in the order of their ids.   *)
MCInvoices ==
    {[id |-> 1, date |-> 2, customer |-> 1], [id |-> 2, date |-> 1, customer |-> 2],
     [id |-> 3, date |-> 3, customer |-> 2], [id |-> 4, date |-> 1, customer |-> 1],
     [id |-> 5, date |-> 2, customer |-> 3]}

MCRep == <<"alina", "petrova">>

MCWords == {"alina", "petrova", "bob", "kitchens", "baths", "2026"}

MCLongWords == {"alina", "petrova", "bob", "kitchens", "baths"}

(* The rep's class with two levels below it, and a class of the rep below  *)
(* that of another; the name of one goes on after a "/".                   *)
ClassNames ==
    [i \in 1..6 |->
       CASE i = 1 -> <<Name("alina")>>
         [] i = 2 -> <<Name("alina"), Name("kitchens")>>
         [] i = 3 -> <<Name("alina"), Name("kitchens"), Name("baths")>>
         [] i = 4 -> <<Name("bob")>>
         [] i = 5 -> <<Name("bob"), << MCRep, <<"2026">> >> >>
         [] i = 6 -> <<Name("bob"), Name("kitchens")>>]

(* Any of them may be inactive, which the list leaves out, and any may     *)
(* come without a ParentRef.                                               *)
ListsOf(S) ==
    LET ids == SetToSortSeq(S, >)
        Parents(i) == {None} \cup {j \in 1..6 : ClassNames[j] = Front(ClassNames[i])}
    IN  {[k \in DOMAIN ids |-> [id |-> ids[k], fqn |-> ClassNames[ids[k]], parent |-> p[ids[k]]]] :
           p \in {q \in [S -> 0..6] : \A i \in S : q[i] \in Parents(i)}}

MCClassLists == UNION {ListsOf(S) : S \in SUBSET (1..6)}

(* The customer asked for, by name and e-mail, is any of up to three.      *)
MCDirectories ==
    LET Entries(i) == [id : {i}, name : {"same", "contains", "other"}, sameEmail : BOOLEAN]
    IN  {<<>>} \cup {<<a>> : a \in Entries(1)}
        \cup {<<a, b, c>> : a \in Entries(1), b \in Entries(2), c \in Entries(3)}

MCNotSpecified == Name("not specified")

Data == [type : {"data"}, name : {Name("alina")}, amount : {-1, 0, 1}]

Sum(nodes) == FoldLeft(LAMBDA sum, n : sum + n.amount, 0, nodes)

Section(header, name, nodes) ==
    [type |-> "section", header |-> header, name |-> name, amount |-> Sum(nodes), rows |-> nodes]

DataLists == {<<>>} \cup {<<a>> : a \in Data} \cup {<<a, b>> : a, b \in Data}

(* A section inside a section, as a class two levels down has it.          *)
Inner == {<<Section("named", Name("inner"), <<a>>)>> : a \in Data}

(* What may stand at the top: a row or a section.                          *)
Tops(name) ==
    Data \cup {Section(header, Name(name), nodes) : header \in {"named", "blank", "none"},
                                                   nodes \in DataLists \cup Inner}

Grand == [type : {"grand"}, name : {Name("total")}, amount : Int]

UnclassedNodes == [type : {"data"}, name : {MCNotSpecified}, amount : {0, 3}]

MCNodes ==
    Data \cup UnclassedNodes \cup Grand \cup {n[1] : n \in Inner} \cup Tops("first") \cup Tops("second")

Unclassed == {<<>>} \cup {<<n>> : n \in UnclassedNodes}

(* QuickBooks' reports add up, and have one row for sales without a class. *)
WithTotal(nodes) ==
    Append(nodes, [type |-> "grand", name |-> Name("total"), amount |-> Sum(nodes)])

MCReports ==
    {WithTotal(u) : u \in Unclassed}
    \cup {WithTotal(<<a>> \o u \o <<b>>) : a \in Tops("first"), u \in Unclassed, b \in Tops("second")}
    \cup {WithTotal(<<a>> \o u) : a \in Tops("first"), u \in Unclassed}
=============================================================================
