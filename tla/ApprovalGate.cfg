\* Two callers, two identities of one conversation and a restart.
CONSTANTS
    Caller = {c1, c2}
    Key = {k1, k2}
    conv = conv
    ConversationOf <- MCConversationOf
    Timeouts = {2}
    ApprovalTtl = 2
    DenialTtl = 2
    Horizon = 3
    MaxId = 2
    MaxRestarts = 1
SPECIFICATION FairSpec
INVARIANTS TypeOK OnePromptPerIdentity WaiterHasPrompt
    NoPromptWhileDecided DenialAlwaysWins
PROPERTIES ApprovalTraceable AnsweredByOwnPrompt RequestsAnswered
CHECK_DEADLOCK FALSE
