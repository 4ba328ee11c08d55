\* Four messages of any kinds to the server of any job, and a database that
\* goes away twice.
CONSTANTS
    MaxMessages = 4
    MaxDrops = 2
SPECIFICATION Spec
INVARIANTS AnsweredInOrder DropFailsOneCall
PROPERTIES KeepsGoodConnection
\* The client has closed stdin.
CHECK_DEADLOCK FALSE
