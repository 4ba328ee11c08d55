\* Two callers of finish among users, claims and requeues, for up to three
\* messages in one chat.
CONSTANTS
    Chats = {c1}
    MaxRows = 3
    Workers = {w1, w2}
SPECIFICATION Spec
INVARIANTS AnsweredOnce OkMeansOwnOutcome
PROPERTIES OutcomeIsFinal ImplementsLifecycle ImplementsStore
