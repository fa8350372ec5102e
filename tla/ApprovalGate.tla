---------------------------- MODULE ApprovalGate ----------------------------
(* The approval gate (core/src/approval/approval-gate.ts) with the shutdown    *)
(* and boot code that hands its state from one process to the next             *)
(* (daemon/src/wiring/setup-shutdown.ts, setup-approvals.ts) and the chat and  *)
(* RPC handlers that answer its prompts.                                       *)
(*                                                                             *)
(* Every method of the gate runs to completion on the event loop, so each is   *)
(* one action. An approval identity (tenant, agent, conversation, principal,   *)
(* tool, action and parameter digest) is a Key; the digests are not computed.  *)
EXTENDS Integers, FiniteSets

CONSTANTS
    Caller,           \* tool executions that ask for approval
    Key,              \* approval identities
    ConversationOf,   \* the conversation of an identity, the scope of a clear
    Timeouts,         \* prompt timeouts, default and per rule, in ticks
    ApprovalTtl,      \* approvals.batchApprovalTtlMs, in ticks
    DenialTtl,        \* approvals.denialCacheTtlMs, in ticks
    Horizon,          \* bound: the last tick
    MaxId,            \* bound: prompts minted
    MaxRestarts       \* bound: boots after the first

ASSUME ApprovalAssumption ==
    /\ Timeouts \subseteq Nat \ {0}
    /\ ApprovalTtl \in Nat
    /\ DenialTtl \in Nat
    /\ Horizon \in Nat
    /\ MaxId \in Nat
    /\ MaxRestarts \in Nat

VARIABLES
    now,              \* deps.clock.now()
    proc,             \* up, stopping (disposed, not yet exited) or down
    pendingMap,       \* the pending prompts
    shortIdIndex,     \* the requests reachable by their short id
    approvalCache,    \* expiry of the cached approval of each key, 0 if none
    denialCache,      \* expiry of the cached denial of each key, 0 if none
    batchFollowers,   \* the callers that share the prompt of each key
    caller,           \* what each caller waits for or was told
    file,             \* restart-approvals.json and restart-approval-cache.json
    nextId,           \* the next request id
    restarts,         \* boots so far
    ruling,           \* history: the last human decision on each key
    late              \* history: keys whose last decision came after dispose()

history == <<ruling, late>>
vars == <<now, proc, pendingMap, shortIdIndex, approvalCache, denialCache,
          batchFollowers, caller, file, nextId, restarts, history>>

gate == <<pendingMap, shortIdIndex, approvalCache, denialCache, batchFollowers>>

Id == 1 .. MaxId
Ticks == Nat
Prompt == [id : Id, key : Key, createdAt : Ticks, timeoutMs : Timeouts]
ApprovedBy == {"operator", "system:timeout", "system:shutdown", "system:policy-rule",
               "system:cached-approval", "system:cached-denial", "system:invalid-request"}
Waiting == [st : {"leading", "following"}, key : Key, id : Id]
Answered == [st : {"answered"}, key : Key, id : Nat, approved : BOOLEAN, by : ApprovedBy]
Idle == [st |-> "idle"]
NoRuling == [verdict |-> "none", at |-> 0]
EmptyCache == [k \in Key |-> 0]
NoFollowers == [k \in Key |-> {}]
NoFile == [pending |-> {}, cache |-> EmptyCache]

Live(cache, k) == now < cache[k]
IsWaiting(c) == caller[c].st \in {"leading", "following"}
KeysOf(S) == {p.key : p \in S}
IdsOf(S) == {p.id : p \in S}
KeysIn(conv) == {k \in Key : ConversationOf[k] = conv}

\* The gate answers callers and operators from boot to exit, also after its
\* dispose(): the channels are stopped later in the shutdown sequence.
Serving == proc # "down"

Init ==
    /\ now = 0 /\ proc = "up" /\ nextId = 1 /\ restarts = 0
    /\ pendingMap = {} /\ shortIdIndex = {}
    /\ approvalCache = EmptyCache /\ denialCache = EmptyCache
    /\ batchFollowers = NoFollowers
    /\ caller = [c \in Caller |-> Idle]
    /\ file = NoFile
    /\ ruling = [k \in Key |-> NoRuling]
    /\ late = {}

-----------------------------------------------------------------------------
(* requestApproval *)

\* An answer given without a prompt, under a fresh request id.
Told(c, k, approved, by) ==
    /\ caller' = [caller EXCEPT ![c] = [st |-> "answered", key |-> k, id |-> 0,
                                        approved |-> approved, by |-> by]]
    /\ UNCHANGED <<now, proc, gate, file, nextId, restarts, history>>

\* Mutant: a matching request that is already pending is not found.
PromptOfNever(k) == {p \in pendingMap : p.key = k /\ p.id = nextId}

PromptOf(k) == {p \in pendingMap : p.key = k}

\* Join the prompt that is already pending for the same identity.
Join(c, k) ==
    \E p \in PromptOf(k) :
        /\ batchFollowers' = [batchFollowers EXCEPT ![k] = @ \union {c}]
        /\ caller' = [caller EXCEPT ![c] = [st |-> "following", key |-> k, id |-> p.id]]
        /\ UNCHANGED <<now, proc, pendingMap, shortIdIndex, approvalCache, denialCache,
                       file, nextId, restarts, history>>

\* Mint a request, start its timer and prompt the operator. The bound on the
\* clock leaves every prompt room for its timer.
PromptOperator(c, k, timeoutMs) ==
    /\ nextId \in Id
    /\ now + timeoutMs <= Horizon
    /\ pendingMap' = pendingMap \union
            {[id |-> nextId, key |-> k, createdAt |-> now, timeoutMs |-> timeoutMs]}
    /\ shortIdIndex' = shortIdIndex \union {nextId}
    /\ nextId' = nextId + 1
    /\ caller' = [caller EXCEPT ![c] = [st |-> "leading", key |-> k, id |-> nextId]]
    /\ UNCHANGED <<now, proc, approvalCache, denialCache, batchFollowers, file,
                   restarts, history>>

\* Mutant: the denial cache is not consulted before prompting.
RequestIgnoringDenials(c, k, mode) ==
    /\ Serving
    /\ ~IsWaiting(c)
    /\ \/ mode = "invalid" /\ Told(c, k, FALSE, "system:invalid-request")
       \/ mode \in {"auto", "deny"} /\ Told(c, k, mode = "auto", "system:policy-rule")
       \/ /\ mode = "require"
          /\ IF ApprovalTtl > 0 /\ Live(approvalCache, k)
             THEN Told(c, k, TRUE, "system:cached-approval")
             ELSE IF PromptOf(k) # {} THEN Join(c, k)
             ELSE \E timeoutMs \in Timeouts : PromptOperator(c, k, timeoutMs)

\* The checks in their order: a malformed request, the operator's policy as
\* configured at this moment, the two caches, a matching prompt, a new one.
RequestApproval(c, k, mode) ==
    /\ Serving
    /\ ~IsWaiting(c)
    /\ \/ mode = "invalid" /\ Told(c, k, FALSE, "system:invalid-request")
       \/ mode \in {"auto", "deny"} /\ Told(c, k, mode = "auto", "system:policy-rule")
       \/ /\ mode = "require"
          /\ IF ApprovalTtl > 0 /\ Live(approvalCache, k)
             THEN Told(c, k, TRUE, "system:cached-approval")
             ELSE IF Live(denialCache, k)
             THEN Told(c, k, FALSE, "system:cached-denial")
             ELSE IF PromptOf(k) # {} THEN Join(c, k)
             ELSE \E timeoutMs \in Timeouts : PromptOperator(c, k, timeoutMs)

-----------------------------------------------------------------------------
(* resolveApproval *)

\* Mutant: the followers of every identity are told.
DeliverToAllFollowers(S, approved, by) ==
    caller' = [c \in Caller |->
        IF \/ caller[c].st = "leading" /\ caller[c].id \in IdsOf(S)
           \/ S # {} /\ caller[c].st = "following"
        THEN [st |-> "answered", key |-> caller[c].key,
              id |-> (CHOOSE p \in S : TRUE).id, approved |-> approved, by |-> by]
        ELSE caller[c]]

\* Mutant: only the caller that opened the prompt is told.
DeliverToLeader(S, approved, by) ==
    caller' = [c \in Caller |->
        IF caller[c].st = "leading" /\ caller[c].id \in IdsOf(S)
        THEN [st |-> "answered", key |-> caller[c].key,
              id |-> (CHOOSE p \in S : p.key = caller[c].key).id,
              approved |-> approved, by |-> by]
        ELSE caller[c]]

\* The resolution of the prompts S goes to the caller that opened each one and
\* to the followers of its key.
Deliver(S, approved, by) ==
    caller' = [c \in Caller |->
        IF \/ caller[c].st = "leading" /\ caller[c].id \in IdsOf(S)
           \/ \E k \in KeysOf(S) : c \in batchFollowers[k]
        THEN [st |-> "answered", key |-> caller[c].key,
              id |-> (CHOOSE p \in S : p.key = caller[c].key).id,
              approved |-> approved, by |-> by]
        ELSE caller[c]]

\* Approvals and explicit denials are cached for the identity and displace each
\* other; a timeout only drops the approval.
CacheDecision(K, approved, by) ==
    /\ approvalCache' = [k \in Key |->
            IF k \notin K THEN approvalCache[k]
            ELSE IF approved
            THEN IF ApprovalTtl > 0 THEN now + ApprovalTtl ELSE approvalCache[k]
            ELSE 0]
    /\ denialCache' = [k \in Key |->
            IF k \notin K THEN denialCache[k]
            ELSE IF approved THEN 0
            ELSE IF by = "operator" THEN now + DenialTtl
            ELSE denialCache[k]]

\* resolveApproval on each of the prompts S, which the handlers loop over
\* without yielding. A request that is no longer pending is left alone.
Resolve(S, approved, by) ==
    /\ pendingMap' = pendingMap \ S
    /\ shortIdIndex' = shortIdIndex \ IdsOf(S)
    /\ batchFollowers' = [k \in Key |-> IF k \in KeysOf(S) THEN {} ELSE batchFollowers[k]]
    /\ CacheDecision(KeysOf(S), approved, by)
    /\ Deliver(S, approved, by)
    /\ ruling' = [k \in Key |->
            IF k \notin KeysOf(S) THEN ruling[k]
            ELSE IF by = "system:timeout" THEN NoRuling
            ELSE [verdict |-> IF approved THEN "approved" ELSE "denied", at |-> now]]
    /\ late' = IF proc = "up" THEN late \ KeysOf(S) ELSE late \union KeysOf(S)
    /\ UNCHANGED <<now, proc, file, nextId, restarts>>

\* A button, a chat command with a short id, or the RPC resolves one prompt. A
\* plain answer does so only when it is the one prompt of its conversation.
Answer(p, approved) ==
    /\ Serving
    /\ p.id \in shortIdIndex
    /\ Resolve({p}, approved, "operator")

\* "/approve all", "/deny all" and admin.approval.resolveAll.
AnswerAll(conv, approved) ==
    LET S == {p \in pendingMap : ConversationOf[p.key] = conv}
    IN  /\ Serving
        /\ Cardinality(S) > 1
        /\ Resolve(S, approved, "operator")

\* The timer of a prompt fires, at its deadline or any time after it.
Timeout(p) ==
    /\ Serving
    /\ now >= p.createdAt + p.timeoutMs
    /\ Resolve({p}, FALSE, "system:timeout")

\* admin.approval.clearDenialCache.
ClearDenialCache(conv) ==
    /\ Serving
    /\ \E k \in KeysIn(conv) : Live(denialCache, k)
    /\ denialCache' = [k \in Key |-> IF k \in KeysIn(conv) THEN 0 ELSE denialCache[k]]
    /\ UNCHANGED <<now, proc, pendingMap, shortIdIndex, approvalCache, batchFollowers,
                   caller, file, nextId, restarts, history>>

\* A session is deleted, reset or compacted away. (Without a live entry nothing
\* changes, except that after dispose() the restored entry is not cleared.)
ClearApprovalCache(conv) ==
    /\ Serving
    /\ proc = "up" => \E k \in KeysIn(conv) : Live(approvalCache, k)
    /\ approvalCache' = [k \in Key |-> IF k \in KeysIn(conv) THEN 0 ELSE approvalCache[k]]
    /\ ruling' = [k \in Key |-> IF k \in KeysIn(conv) THEN NoRuling ELSE ruling[k]]
    /\ late' = IF proc = "up" THEN late \ KeysIn(conv) ELSE late \union KeysIn(conv)
    /\ UNCHANGED <<now, proc, pendingMap, shortIdIndex, denialCache, batchFollowers,
                   caller, file, nextId, restarts>>

-----------------------------------------------------------------------------
(* Shutdown and boot *)

\* serializeApprovalCache: only live entries.
SerializedCache == [k \in Key |-> IF Live(approvalCache, k) THEN approvalCache[k] ELSE 0]

\* The state is written, each file with its own chance to fail, and dispose()
\* denies every prompt and empties the gate.
Shutdown(wrotePending, wroteCache) ==
    /\ proc = "up"
    /\ restarts < MaxRestarts
    /\ proc' = "stopping"
    /\ file' = [pending |-> IF wrotePending THEN pendingMap ELSE {},
                cache |-> IF wroteCache THEN SerializedCache ELSE EmptyCache]
    /\ Deliver(pendingMap, FALSE, "system:shutdown")
    /\ pendingMap' = {} /\ shortIdIndex' = {}
    /\ approvalCache' = EmptyCache /\ denialCache' = EmptyCache
    /\ batchFollowers' = NoFollowers
    /\ UNCHANGED <<now, nextId, restarts, history>>

\* The process ends, after its shutdown or in a crash; its memory is gone.
Exit ==
    /\ proc # "down"
    /\ restarts < MaxRestarts
    /\ proc' = "down"
    /\ pendingMap' = {} /\ shortIdIndex' = {}
    /\ approvalCache' = EmptyCache /\ denialCache' = EmptyCache
    /\ batchFollowers' = NoFollowers
    /\ caller' = [c \in Caller |-> Idle]
    /\ UNCHANGED <<now, file, nextId, restarts, history>>

\* restorePending: prompts whose time is over are skipped.
RestorePending == {p \in file.pending : now - p.createdAt < p.timeoutMs}

\* Mutant: a restored entry lives for a whole TTL again.
RestoreApprovalCacheFresh == [k \in Key |->
    IF file.cache[k] > now THEN now + ApprovalTtl ELSE 0]

\* Mutant: the remaining time is restored, also of an entry that expired.
RestoreApprovalCacheRemaining == [k \in Key |-> file.cache[k] - now]

\* restoreApprovalCache: the rest of the entry's time is kept.
RestoreApprovalCache == [k \in Key |-> IF file.cache[k] > now THEN file.cache[k] ELSE 0]

\* Both files are read, deleted and applied before anything asks the gate.
Boot ==
    /\ proc = "down"
    /\ restarts < MaxRestarts
    /\ proc' = "up"
    /\ restarts' = restarts + 1
    /\ pendingMap' = RestorePending
    /\ shortIdIndex' = IdsOf(RestorePending)
    /\ approvalCache' = RestoreApprovalCache
    /\ file' = NoFile
    /\ UNCHANGED <<now, denialCache, batchFollowers, caller, nextId, history>>

Tick ==
    /\ now < Horizon
    /\ now' = now + 1
    /\ UNCHANGED <<proc, gate, caller, file, nextId, restarts, history>>

-----------------------------------------------------------------------------
Mode == {"invalid", "auto", "deny", "require"}
Conversation == {ConversationOf[k] : k \in Key}

Next ==
    \/ \E c \in Caller, k \in Key, mode \in Mode : RequestApproval(c, k, mode)
    \/ \E p \in pendingMap, approved \in BOOLEAN : Answer(p, approved)
    \/ \E conv \in Conversation, approved \in BOOLEAN : AnswerAll(conv, approved)
    \/ \E p \in pendingMap : Timeout(p)
    \/ \E conv \in Conversation : ClearDenialCache(conv) \/ ClearApprovalCache(conv)
    \/ \E wrotePending, wroteCache \in BOOLEAN : Shutdown(wrotePending, wroteCache)
    \/ Exit
    \/ Boot
    \/ Tick

Spec == Init /\ [][Next]_vars

\* Timers fire and time passes; a process that went down is booted again.
FairSpec ==
    /\ Spec
    /\ WF_vars(Tick)
    /\ WF_vars(\E p \in pendingMap : Timeout(p))
    /\ WF_vars(Boot)

-----------------------------------------------------------------------------
(* Properties *)

\* Every variable of the gate keeps its type.
TypeOK ==
    /\ now \in Nat
    /\ proc \in {"up", "stopping", "down"}
    /\ pendingMap \subseteq Prompt
    /\ shortIdIndex \subseteq Id
    /\ approvalCache \in [Key -> Nat]
    /\ denialCache \in [Key -> Nat]
    /\ batchFollowers \in [Key -> SUBSET Caller]
    /\ caller \in [Caller -> {Idle} \union Waiting \union Answered]
    /\ file \in [pending : SUBSET Prompt, cache : [Key -> Nat]]
    /\ nextId \in Nat \ {0}
    /\ restarts \in Nat
    /\ late \subseteq Key
    /\ ruling \in [Key -> [verdict : {"none", "approved", "denied"}, at : Nat]]

\* The operator never has two open prompts for one identity, restored prompts
\* and prompts opened since the restart together: followers are kept by
\* identity, so a second prompt would take the answers of the first.
OnePromptPerIdentity ==
    \A p, q \in pendingMap : p.key = q.key => p = q

\* A request can be reached by its short id exactly while it is pending: the
\* removal is the guard against a callback that is delivered twice.
IndexMatchesPending == shortIdIndex = IdsOf(pendingMap)

\* Nobody waits for a prompt that is gone: a caller that waits, as the one that
\* opened the prompt or as a follower, has its own prompt of its own identity
\* pending, and followers are exactly the callers that wait as such.
WaiterHasPrompt ==
    \A c \in Caller :
        /\ IsWaiting(c) => \E p \in pendingMap : p.id = caller[c].id /\ p.key = caller[c].key
        /\ \A k \in Key : c \in batchFollowers[k]
                <=> caller[c].st = "following" /\ caller[c].key = k

\* The operator is not asked about what a live cached decision already
\* settles, also after a restart restored prompts and cached approvals.
NoPromptWhileDecided ==
    \A p \in pendingMap : ~Live(approvalCache, p.key) /\ ~Live(denialCache, p.key)

\* A cached approval that would still auto-approve stands for the last human
\* decision on its identity, which was an approval less than one TTL ago: a
\* denial, a timeout or a cleared session since then has removed it. Only a
\* decision taken between dispose() and the end of the process is forgotten.
DenialAlwaysWins ==
    \A k \in Key \ late : proc = "up" /\ Live(approvalCache, k) =>
        ruling[k].verdict = "approved" /\ approvalCache[k] = ruling[k].at + ApprovalTtl

TraceableStep ==
    \A c \in Caller :
        /\ caller'[c] # caller[c]
        /\ caller'[c].st = "answered"
        /\ caller'[c].approved
        => \/ caller'[c].by = "system:policy-rule"
           \/ caller'[c].key \in late
           \/ LET r == ruling'[caller'[c].key]
              IN  r.verdict = "approved" /\ (r.at = now \/ now < r.at + ApprovalTtl)

\* A caller is told "approved" only by the operator's policy or by the last
\* human decision on exactly its identity, at most one TTL old (the last but
\* the ones taken after dispose()).
ApprovalTraceable == [][TraceableStep]_vars

OwnPromptStep ==
    \A c \in Caller :
        IsWaiting(c) /\ caller'[c] # caller[c] =>
            \/ caller'[c] = Idle
            \/ caller'[c].st = "answered" /\ caller'[c].id = caller[c].id
                 /\ caller'[c].key = caller[c].key

\* Whoever waits for a prompt is told by that prompt's own resolution.
AnsweredByOwnPrompt == [][OwnPromptStep]_vars

\* Every request is answered: by the operator, or by the prompt's timer, which
\* a restart or a shared prompt does not lose.
RequestsAnswered == \A c \in Caller : IsWaiting(c) ~> ~IsWaiting(c)
=============================================================================
